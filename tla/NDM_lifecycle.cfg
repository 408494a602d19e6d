CONSTANTS
    b1 = b1
    b2 = b2
    c1 = c1
    c2 = c2
    None = None
    BDs = {b1}
    BDCs = {c1, c2}
    Disabled = {}
    Env = {"deviceEvents", "adminDelete"}
    MaxFaults = 1
    MaxEvents = 3
    Fits <- AllFit
SPECIFICATION Spec

PROPERTIES ProtectedFromDeletion ImplementsLifecycle
CHECK_DEADLOCK FALSE
