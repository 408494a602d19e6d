CONSTANTS
    b1 = b1
    b2 = b2
    c1 = c1
    c2 = c2
    None = None
    BDs = {b1}
    BDCs = {c1}
    Disabled = {}
    Env = {}
    MaxFaults = 0
    MaxEvents = 1
    Fits <- AllFit
SPECIFICATION FairSpec

PROPERTIES ClaimedDeviceBinds
CHECK_DEADLOCK FALSE
