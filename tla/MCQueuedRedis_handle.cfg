SPECIFICATION Spec
CONSTANTS
    q1 = q1
    s1 = s1
    NoConn = NoConn
    Queues <- OneQueue
    Slots <- OneSlot
    MaxCommands = 3
    UseAfterFailure = TRUE
INVARIANTS
    RepliesMatch
