CONSTANTS
    b1 = b1
    b2 = b2
    c1 = c1
    c2 = c2
    None = None
    BDs = {b1, b2}
    BDCs = {c1}
    Disabled = {}
    Env = {"ownerEdits"}
    MaxFaults = 0
    MaxEvents = 2
    Fits <- AllFit
SPECIFICATION Spec

INVARIANTS OneDevicePerClaim
CHECK_DEADLOCK FALSE
