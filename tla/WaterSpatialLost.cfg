SPECIFICATION Spec
CONSTANTS
    NumProcs = 2
    BOX_PER_SIDE = 2
    NMOL = 2
    NSTEP = 1
    NPRINT = 1
    Lattice <- TwoApart
    Reach <- MCReach
INVARIANT PutInCorrectBox
