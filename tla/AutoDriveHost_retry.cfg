SPECIFICATION FairSpec
CONSTANTS
    None = None
    coordinator_routing = TRUE
    MaxRuns = 2
    MaxTurns = 2
    MaxSuccess = 1
    MaxInputs = 1
PROPERTIES RetriesOrStops
CHECK_DEADLOCK FALSE
