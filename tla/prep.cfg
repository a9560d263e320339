SPECIFICATION PrepSpec
CONSTANTS
    Contents <- ContentsUsed
    PolicySets <- PolicySetsUsed
    Counts = {0, 2}
    Namespaces <- NamespaceSet
    Seed <- SeedObjects
    MaxEdits = 1
    MaxFaults = 2
INVARIANTS
    ManifestsHonoured
    UsersNamespacesKept
    MergeLaw
    PrecacheTrue
PROPERTIES
    CleanupCareful
CHECK_DEADLOCK FALSE
