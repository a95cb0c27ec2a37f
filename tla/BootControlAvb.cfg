SPECIFICATION Spec
CONSTANTS
    Procs = {p1, p2}
    Urls = {"http://ota"}
    Slots <- MCSlots
    NoSlot = NoSlot
    Avb = TRUE
    IsMtd = FALSE
    MaxPriority = 15
    MaxTries = 2
    Works = {0}
    MaxOps = 4
    MaxFaults = 1
    MaxCrashes = 3
INVARIANTS
    TypeOK
    RequestKept
    NoTie
    FallbackBootable
PROPERTIES
    MarkKept
CHECK_DEADLOCK FALSE
