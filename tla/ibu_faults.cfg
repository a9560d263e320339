SPECIFICATION Spec
CONSTANTS
    MaxVersion = 2
    SetDefaultFeature = TRUE
    Retarget = FALSE
    MaxEdits = 4
    MaxFaults = 2
    MaxDeletes = 0
INVARIANTS
    TypeOK
    RollbackKept
    NoUpgradeLoop
    IdleIsClean
    UpgradeAccounted
PROPERTIES
    ImplementsFlow
CHECK_DEADLOCK FALSE
