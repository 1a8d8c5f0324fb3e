SPECIFICATION Spec
CONSTANTS
    a = a
    b = b
    m1 = m1
    m2 = m2
    m3 = m3
    Nobody = Nobody
    Resource = Resource
    Clients <- TwoClients
    Masters <- ThreeMasters
    Rank <- OppositeLists
    Ttl = 2
    Drift = 0
    MaxTime = 3
    MayExtend = FALSE
    MayFail = FALSE
CHECK_DEADLOCK FALSE
INVARIANT
    NothingLeftBehind
