SPECIFICATION FairSpec
CONSTANTS
    c1 = c1
    c2 = c2
    e1 = e1
    e2 = e2
    e3 = e3
    Sentinel = Sentinel
    NoConn = NoConn
    Conns <- OneConn
    Events <- ThreeEvents
    Needs <- AuthAndSelect
CHECK_DEADLOCK FALSE
INVARIANTS
    CompletedOnce
    ContextIsOpen
    HandshakeFirst
    NobodySleeps
PROPERTIES
    EventsComplete
    DestructorReturns
