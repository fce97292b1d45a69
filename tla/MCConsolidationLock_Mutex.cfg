SPECIFICATION Spec
CONSTANTS
    Procs = {p1, p2}
    Empty = Empty
    Callers = {FALSE}
    MinHours = 2
    HolderStale = 9
    Epoch = 2
    MaxClock = 3
INVARIANT Mutex
