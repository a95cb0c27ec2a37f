SPECIFICATION FairSpec
CONSTANTS
    Threads = {t1, t2}
    Callbacks = {f, g}
    Ids = {1, 2}
    NoInfo = NoInfo
    Keys = {p, t}
    All = All
    Filters = {p}
    Persistent = p
    Default = v1
    Attribute <- MCAttribute
    Vals = {v1, v2}
    None = None
    Device <- MCDevice
    Unknown = Unknown
    Free = Free
    MaxCalls = 4
    MaxCrashes = 1
INVARIANTS
    TypeOK
    FeedCoherent
PROPERTIES
    CallsReturn
    CatchesUp
CHECK_DEADLOCK FALSE
