SPECIFICATION FairSpec
CONSTANTS
    None = None
    MaxAttempts = 2
    JsonMode = FALSE
    Grace = TRUE
    TimeBudget = TRUE
    MaxForeignBumps = 1
    MaxForeignLocks = 1
INVARIANTS
    WorksUnderLock
    ReviewsBounded
    ShutdownOnlyWhenDone
    WakeOnTheWay
PROPERTIES
    EndsWithBase
CHECK_DEADLOCK FALSE
