SPECIFICATION Spec
CONSTANTS
    Procs = {p1, p2, p3}
    Empty = Empty
    Callers = {TRUE, FALSE}
    MinHours = 2
    HolderStale = 1
    Epoch = 2
    MaxClock = 4
SYMMETRY Symmetry
INVARIANTS
    TypeOK
    LockIsExclusive
    NoLeakedPid
    GateTellsLastDream
