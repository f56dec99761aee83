SPECIFICATION FairSpec
CONSTANTS
    Markers = {m1}
    Waiters = {w1}
    Nobody = Nobody
    IdSpace = 4
    MaxTokens = 1
PROPERTIES
    WaitReadyReturns
CHECK_DEADLOCK FALSE
