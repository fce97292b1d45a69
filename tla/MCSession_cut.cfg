SPECIFICATION Spec
CONSTANTS
    None = None
    Own = Own
    Reused = Reused
    Unknown = Unknown
    Unsaved = Unsaved
    MaxSent = 2
    MaxPieces = 2
    Preview = 2
    Header = 1
    Memories = {m, n}
    Ceiling = 2
    MaxAttached = 1
    MaxLength = 1
    Sizes = {2, 5}
    Presets <- Both
    KeepMicro = 1
    MaxInputs = 2
    MaxCalls = 3
    MaxNamed = 2
INVARIANTS
    NoCallRunsInPart
CHECK_DEADLOCK FALSE
