SPECIFICATION FairPoolSpec
CONSTANTS
    t1 = t1
    t2 = t2
    h1 = h1
    h2 = h2
    NoHost = NoHost
    Threads <- TwoThreads
    Nodes <- TwoNodes
    Roles <- MasterOrDirect
    Size = 1
    CanExpire = FALSE
    MaxConns = 2
CHECK_DEADLOCK FALSE
PROPERTY
    FailoverHeals
