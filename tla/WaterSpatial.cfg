SPECIFICATION FairSpec
CONSTANTS
    NumProcs = 2
    BOX_PER_SIDE = 2
    NMOL = 2
    NSTEP = 2
    NPRINT = 2
    Lattice <- TwoApart
    Reach <- MCReach
INVARIANTS OnceUnlessOvertaken TotalsComplete
PROPERTY Termination
