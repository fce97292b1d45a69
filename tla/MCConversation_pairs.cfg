SPECIFICATION Spec
CONSTANTS
    PerPath = {"read_file a"}
    Global = {"run_shell"}
    OtherTools = {"snip_history"}
    KeepCompact = 2
    KeepMicro = 1
    KeepSnip = 1
    KeepHistory = 1
    PathThreshold = 2
    PairThreshold = 3
    MaxCalls = 1
    MaxIds = 12
CHECK_DEADLOCK FALSE
INVARIANT CallsAreAnswered
