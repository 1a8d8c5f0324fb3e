SPECIFICATION FairSpec
CONSTANTS
    t1 = t1
    t2 = t2
    t3 = t3
    t4 = t4
    h1 = h1
    h2 = h2
    NoHost = NoHost
    Threads <- FourThreads
    Size = 2
    Hosts <- OneHost
    SentinelMode = FALSE
    TimedWait = TRUE
    CanExpire = TRUE
INVARIANTS
    Conservation
    NoLostWakeup
PROPERTIES
    ImplementsSlotPool
    WaitEnds
