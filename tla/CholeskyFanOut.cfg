SPECIFICATION FairSpec
CONSTANTS
    Q = 251
    Problems <- Matrices
INVARIANTS UpdatesExact FreedInTime EndMeansDone LayoutExact
PROPERTY Termination
