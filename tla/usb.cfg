SPECIFICATION UsbSpec
CONSTANTS
    b1 = b1
    b2 = b2
    Builds <- TwoBuilds
    Images = 2
    Tagged <- LastTagged
    Signed = {0, 2}
    Modes = {"install-only", "self-contained"}
    MaxTag = 1
    MaxFaults = 1
    MaxCrashes = 1
    MaxPower = 1
    ISOs <- ManyISOs
    Payloads <- ManyPayloads
    USBSizes <- ManyBudgets
INVARIANTS
    MediumSound
PROPERTIES
    BuildsSound
    LayoutBuildsEnd
CHECK_DEADLOCK FALSE
