SPECIFICATION Spec
CONSTANTS
    Procs = {p1}
    Urls = {"http://ota"}
    Slots <- MCSlots
    NoSlot = NoSlot
    Avb = TRUE
    IsMtd = FALSE
    MaxPriority = 15
    MaxTries = 2
    Works = {0, 1}
    MaxOps = 2
    MaxFaults = 0
    MaxCrashes = 1
INVARIANTS
    SuccessfulMeansBooted
CHECK_DEADLOCK FALSE
