SPECIFICATION FairSpec
CONSTANTS
    MaxVersion = 3
    SetDefaultFeature = TRUE
    Retarget = FALSE
    MaxEdits = 6
    MaxFaults = 0
    MaxDeletes = 0
INVARIANTS
    UpgradeRaisesVersion
PROPERTIES
    StagesTerminate
CHECK_DEADLOCK FALSE
