SPECIFICATION Spec
CONSTANTS
    c1 = c1
    c2 = c2
    e1 = e1
    e2 = e2
    e3 = e3
    Sentinel = Sentinel
    NoConn = NoConn
    Conns <- TwoConns
    Events <- OneEvent
    Needs <- OnlyAuth
CHECK_DEADLOCK FALSE
INVARIANT
    NoSelfJoin
