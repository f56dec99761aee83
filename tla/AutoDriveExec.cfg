SPECIFICATION DriveFairSpec
CONSTANTS
    None = None
    QueueCap = 2
    MaxRecovery = 1
    TurnCap = 3
    MaxSnapshots = 5
    MaxDupAcks = 0
    MaxStops = 2
    Reviews = {r1, r2}
INVARIANTS
    NoDecisionDuringTurn
    QueueUnused
    DecidesOnLatest
PROPERTIES
    RunEnds
CHECK_DEADLOCK FALSE
