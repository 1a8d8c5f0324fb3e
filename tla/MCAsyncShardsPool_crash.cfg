SPECIFICATION Spec
CONSTANTS
    n1 = n1
    n2 = n2
    s1 = s1
    c1 = c1
    c2 = c2
    NoNode = NoNode
    Seed = n1
    Nodes <- TwoNodes
    Slots <- OneSlot
    Commands <- OneCommand
    MaxMaps = 2
    Attempts = 2
CHECK_DEADLOCK FALSE
INVARIANT
    NoSelfJoin
