SPECIFICATION Spec
CONSTANTS
    p = p
    q = q
    i = i
    j = j
    k = k
    a = a
    b = b
    c = c
    d = d
    Procs = {p, q}
    Ids = {i, j, k}
    Texts = {a, b, c, d}
    Alike <- Chain
    Torn = Torn
    None = None
    MaxLines = 2
    MaxTurns = 2
    MaxBatch = 1
    MaxJobs = 2
    Requests <- Operations
    Starts <- Directories
INVARIANTS
    TypeOK
    ManifestTellsEntries
    SupersededStaysDead
PROPERTIES
    DreamSpares
    OperationsEnd
