SPECIFICATION FairSpec
CONSTANTS
    P = 4
    MaxRounds = 3
    MaxSpurious = 2
INVARIANT JoinedAll
PROPERTIES BarrierSpec AllRoundsPass
