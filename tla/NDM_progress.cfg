CONSTANTS
    b1 = b1
    b2 = b2
    c1 = c1
    c2 = c2
    None = None
    BDs = {b1}
    BDCs = {c1, c2}
    Disabled = {}
    Env = {"deviceEvents", "legacy", "jobLingers", "jobFails"}
    MaxFaults = 0
    MaxEvents = 2
    Fits <- AllFit
SPECIFICATION FairSpec
PROPERTIES DeletedClaimGoes ReleasedDeviceFreed ClaimServed ClaimedGetsFinalizer
CHECK_DEADLOCK FALSE
