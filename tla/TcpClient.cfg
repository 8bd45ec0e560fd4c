SPECIFICATION FairSpec
CONSTANTS
    MaxAttempts = 5
    CarefulOwner = TRUE
INVARIANTS
    PointersGood
    OneConnection
    StopEnds
PROPERTIES
    KeepsTrying
CHECK_DEADLOCK FALSE
