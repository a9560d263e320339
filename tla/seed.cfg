SPECIFICATION FairSpec
CONSTANTS
    FaultKinds = {"step", "status", "start", "pull", "marks", "operator", "power"}
    MaxFaults = 3
    MaxCRs = 2
INVARIANTS CompletedMeansPushed CompletedMeansRestored SeedIsClean
PROPERTY GenerationEnds
CHECK_DEADLOCK FALSE
