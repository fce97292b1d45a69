SPECIFICATION Spec
CONSTANTS
    Throttle = 2
    KeepCompact = 3
    MaxIds = 7
INVARIANTS
    TypeOK
    GuardHeals
    WarmMemoryTellsInput
PROPERTIES
    ExtractionWhenDue
    WriterIsNotSecondGuessed
    FoldMissesNothing
CHECK_DEADLOCK FALSE
