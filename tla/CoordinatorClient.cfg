SPECIFICATION FairSpec
CONSTANTS
    None = None
    QueueCap = 2
    MaxRecovery = 1
    TurnCap = 3
    MaxSnapshots = 4
    MaxDupAcks = 1
    MaxStops = 1
INVARIANTS
    TypeOK
    OneDecisionAtATime
    NothingVanishes
    QueueWaitsForAck
    BoundedRetries
    TurnCapRespected
PROPERTIES
    DecidesInOrder
    ImplementsContract
    SnapshotsHandled
    StopEndsThread
CHECK_DEADLOCK FALSE
