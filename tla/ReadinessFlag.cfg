SPECIFICATION FairSpec
CONSTANTS
    Markers = {m1, m2}
    Waiters = {w1, w2}
    Nobody = Nobody
    IdSpace = 5
    MaxTokens = 3
INVARIANTS
    SleepersReached
    SingleWinner
    ReadyExpiresTokens
    IssuedStayValid
    TokensUnique
PROPERTIES
    ImplementsReadiness
    RegisteredWaiterWakes
    MarkerCallsReturn
CHECK_DEADLOCK FALSE
