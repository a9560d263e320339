SPECIFICATION Spec
CONSTANTS
    MaxVersion = 2
    SetDefaultFeature = FALSE
    Retarget = TRUE
    MaxEdits = 3
    MaxFaults = 0
    MaxDeletes = 1
INVARIANTS
    BootableHost
PROPERTIES
    RebootCarriesCR
CHECK_DEADLOCK FALSE
