SPECIFICATION Spec
CONSTANTS
    MaxSteps = 4
    ReminderTurns = 2
    HasCompactor = TRUE
    LLMSummary = TRUE
    Tools <- SessionTools
    MaxCalls = 1
    MaxInputs = 4
    MaxSlash = 0
INVARIANTS
    MemoryQuota
    NudgeExactlyWhenDue
    NudgeOnlyInFirstTurn
    ResultAccountsForTurns
PROPERTIES
    RunEnds
    ImplementsTurnContract
