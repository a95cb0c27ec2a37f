SPECIFICATION Spec
CONSTANTS
    Procs = {p1, p2}
    Urls = {"http://ota"}
    Slots <- MCSlots
    NoSlot = NoSlot
    Avb = FALSE
    IsMtd = TRUE
    MaxPriority = 15
    MaxTries = 2
    Works = {0, 1}
    MaxOps = 4
    MaxFaults = 1
    MaxCrashes = 2
SYMMETRY Symmetry
INVARIANTS
    RequestKept
CHECK_DEADLOCK FALSE
