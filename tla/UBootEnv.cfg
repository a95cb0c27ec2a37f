SPECIFICATION Spec
CONSTANTS
    Procs = {p1, p2}
    Inodes = {i1, i2}
    NoInode = NoInode
    Dangling = Dangling
    Keys = {bootcmd}
    Vals = {"a", "b"}
    None = None
    NoCrc = NoCrc
    FirstEnv <- MCFirstEnv
    RWRetry = 2
    IsMtd = TRUE
    MaxInits = 3
    MaxUpdates = 2
    MaxFaults = 1
    MaxCrashes = 1
SYMMETRY Symmetry
INVARIANTS
    TypeOK
    MutexUnlessForced
    CacheCoherent
    RefcntCoversUsers
    UpdateReachesFlash
    FlashValid
CHECK_DEADLOCK FALSE
