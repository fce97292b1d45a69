SPECIFICATION Spec
CONSTANTS
    MaxSteps = 2
    ReminderTurns = 2
    HasCompactor = TRUE
    LLMSummary = TRUE
    Tools <- PlanTools
    MaxCalls = 2
    MaxInputs = 2
    MaxSlash = 1
INVARIANTS
    TypeOK
    PlanModeSealsBatch
    PlanLedgerBalanced
    AttachmentTellsMode
