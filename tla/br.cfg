SPECIFICATION FairSpec
CONSTANTS
    Contents <- Changing
    Owners = {"them"}
    Edits = 1
    MaxFaults = 1
    MaxAttempts = 2
INVARIANTS
    RestoreFromThisUpgrade
    DataCarried
    IdleIsClean
PROPERTIES
    Settles
