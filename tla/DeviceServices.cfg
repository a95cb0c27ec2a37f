SPECIFICATION MCSpec
CONSTANTS
    Handles = {h1, h2}
    Apps = {a1, a2}
    Workers = {w1, w2}
    NoWorker = NoWorker
    Peers = {peer}
    Target <- MCTarget
    NoHandle = NoHandle
    MaxCalls = 2
    Ssids = {s1, s2}
    NoSsid = NoSsid
    Blank = Blank
    MaxNetworks = 2
    MaxConnects = 2
    MaxRemoves = 1
    Main = Main
    Bt = Bt
    Keycodes = {power, volume}
    Longmode = {volume}
    NoKey = NoKey
    QueueMax = 2
    MaxPresses = 3
INVARIANTS
    ServicesTypeOK
    ServedWhileListed
    FreshResults
    TableAgrees
    TimerAgrees
    PressesKept
PROPERTIES
    OwnAnswer
SYMMETRY MCSymmetry
CHECK_DEADLOCK FALSE
