SPECIFICATION FairSpec
CONSTANT MaxEdits = 5
INVARIANT GatesSafe
PROPERTY BlockedIsReleased
