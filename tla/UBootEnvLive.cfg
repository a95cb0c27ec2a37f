SPECIFICATION FairSpec
CONSTANTS
    Procs = {p1, p2}
    Inodes = {i1, i2}
    NoInode = NoInode
    Dangling = Dangling
    Keys = {bootcmd}
    Vals = {"a", "b"}
    None = None
    NoCrc = NoCrc
    FirstEnv <- MCFirstEnv
    RWRetry = 2
    IsMtd = FALSE
    MaxInits = 2
    MaxUpdates = 1
    MaxFaults = 1
    MaxCrashes = 1
PROPERTIES
    CallsReturn
CHECK_DEADLOCK FALSE
