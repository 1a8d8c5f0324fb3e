SPECIFICATION FairSpec
CONSTANTS
    t1 = t1
    t2 = t2
    t3 = t3
    t4 = t4
    h1 = h1
    h2 = h2
    NoHost = NoHost
    Threads <- ThreeThreads
    Size = 1
    Hosts <- TwoHosts
    SentinelMode = TRUE
    TimedWait = FALSE
    CanExpire = FALSE
PROPERTIES
    ServedUnlessOvertaken
    FailoverHeals
