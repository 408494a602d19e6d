CONSTANTS
    b1 = b1
    b2 = b2
    c1 = c1
    c2 = c2
    None = None
    BDs = {b1, b2}
    BDCs = {c1, c2}
    Disabled = {}
    Env = {"deviceEvents", "legacy", "ownerEdits", "jobFails"}
    MaxFaults = 1
    MaxEvents = 2
    Fits <- AllFit
SPECIFICATION Spec
SYMMETRY Sym
INVARIANTS TypeOK ClaimRefMatchesState BoundBacked UnclaimedIsClean NoCleanupInUse
PROPERTY OwnersFirst
CHECK_DEADLOCK FALSE
