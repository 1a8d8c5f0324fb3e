SPECIFICATION FairSpec
CONSTANTS
    n1 = n1
    n2 = n2
    s1 = s1
    t1 = t1
    Worker = Worker
    NoNode = NoNode
    Seed = n1
    Nodes <- TwoNodes
    Slots <- OneSlot
    Threads <- OneThread
    MaxMaps = 2
    Attempts = 2
CHECK_DEADLOCK FALSE
INVARIANTS
    MapHasPools
    RepeatsAreSafe
PROPERTIES
    CommandEnds
    MapConverges
    DestructorReturns
