SPECIFICATION FairSpec
CONSTANTS
    N = 2
    NQ = 3
    TasksPerQueue = 1
    MaxLevel = 1
    MaxTasks = 4
    MaxIter = 2
INVARIANTS PbarAccounting TaskCovered NoTaskLost BarrierAgreement
PROPERTY Termination
