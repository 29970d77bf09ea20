SPECIFICATION FairSpec
CONSTANTS
    TIME_OUT = 3
    Fds = {f1, f2}
    Wild = wild
    FreesFirst = TRUE
    MaxNodes = 2
CHECK_DEADLOCK FALSE
INVARIANTS
    TableInv
    WheelInv
PROPERTIES
    EvictedOnlyIdle
    NobodyLingers
