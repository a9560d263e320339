SPECIFICATION FairSpec
CONSTANTS
    Inputs <- Both
    MaxFaults = 1
    MaxCrashes = 1
INVARIANTS
    RecertSafe
PROPERTIES
    DisabledWhenConfigured
    ClusterIDStable
    EventuallyConfigured
CHECK_DEADLOCK FALSE
