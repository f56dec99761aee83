SPECIFICATION Spec
CONSTANTS
    p1 = p1
    p2 = p2
    c1 = c1
    c2 = c2
    c3 = c3
    Procs = {p1, p2}
    Clients = {c1, c2, c3}
    ProcOf <- MCProcOf
    NoFile = NoFile
    Unix = TRUE
    MaxCrashes = 2
INVARIANTS
    MutualExclusion
CHECK_DEADLOCK FALSE
