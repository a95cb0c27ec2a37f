SPECIFICATION FairSpec
CONSTANTS
    Conns = {c1}
    NoConn = NoConn
    Fds = {1}
    NoFd = NoFd
    Types = {business}
    HEARTBEAT = HEARTBEAT
    Subscriber = c1
    Wants <- SomeWant
    MaxMsgs = 2
    MaxRegs <- SomeRegs
    Again = 1
    MaxInits = 1
PROPERTY
    Delivered
CHECK_DEADLOCK FALSE
