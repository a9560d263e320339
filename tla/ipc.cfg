SPECIFICATION FairSpec
CONSTANTS
    MaxNet = 2
    SetDefaultFeature = TRUE
    AutoRollback = TRUE
    MaxEdits = 3
    MaxFaults = 2
    MaxEvents = 4
INVARIANTS
    ClusterMatchesNetwork
    StatusTrue
    NoConfigLoop
PROPERTIES
    RollbackCarried
    ClusterComesBack
CHECK_DEADLOCK FALSE
