SPECIFICATION FairSpec
CONSTANTS
    Conns = {c1, c2}
    NoConn = NoConn
    Fds = {1, 2}
    NoFd = NoFd
    Types = {business}
    HEARTBEAT = HEARTBEAT
    Subscriber = c1
    Wants <- SomeWant
    MaxMsgs = 2
    MaxRegs <- SomeRegs
    Again = 2
    MaxInits = 1
INVARIANTS
    TypeOK
    ListedOpen
    QueueIntact
    Complete
PROPERTIES
    InOrder
    Addressed
    Drains
    HangupCleaned
    ImplementsQueue
CHECK_DEADLOCK FALSE
