SPECIFICATION FairSpec
CONSTANTS
    Conns = {c1, c2}
    NoConn = NoConn
    MaxInits = 1
    MaxDowns = 0
    MaxHangs = 1
PROPERTIES
    Receives
CHECK_DEADLOCK FALSE
