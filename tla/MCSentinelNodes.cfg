SPECIFICATION FairSpec
CONSTANTS
    h1 = h1
    h2 = h2
    h3 = h3
    s1 = s1
    s2 = s2
    s3 = s3
    NoHost = NoHost
    Nodes <- ThreeNodes
    Sentinels <- ThreeSentinels
    MaxRetry = 1
INVARIANT
    GivesUpAfterAll
PROPERTIES
    CallReturns
    ImplementsLookup
