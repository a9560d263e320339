SPECIFICATION Spec
CONSTANTS
    Configs <- All
    Media <- EveryMedium
    MaxFaults = 3
    MaxPowerLosses = 3
    MaxBoots = 4
    MaxResets = 1
INVARIANTS
    InstallSafe
PROPERTIES
    RecordRespected
    Terminates
CHECK_DEADLOCK FALSE
