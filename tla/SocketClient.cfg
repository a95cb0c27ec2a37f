SPECIFICATION FairSpec
CONSTANTS
    Conns = {c1, c2}
    NoConn = NoConn
    MaxInits = 2
    MaxDowns = 1
    MaxHangs = 1
INVARIANTS
    TypeOK
    NoLeak
    SettledRegistered
    StatusSafe
PROPERTIES
    ReconnectEnds
    ExitReturns
    ReadsUnlessHung
CHECK_DEADLOCK FALSE
