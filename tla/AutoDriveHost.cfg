SPECIFICATION FairSpec
CONSTANTS
    None = None
    coordinator_routing = TRUE
    MaxRuns = 2
    MaxTurns = 2
    MaxSuccess = 1
    MaxInputs = 2
INVARIANTS OneCoordinator TickSubmitsItsDraft PausedHasRestart WaitCovered
PROPERTIES WaitsEnd
CHECK_DEADLOCK FALSE
