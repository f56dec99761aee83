SPECIFICATION SessionSpec
CONSTANTS
    Users = {u1, u2}
    Devs = {d1}
    Loop = Loop
    Waker = Waker
    Bridge = Bridge
    NoInput = NoInput
    MaxTasks = 3
    MaxOps = 3
    MaxCompacts = 1
SYMMETRY Symmetry
INVARIANTS
    NoOrphanTurn
    IdleServed
    InputAccounted
CHECK_DEADLOCK FALSE
