SPECIFICATION GuardSpec
CONSTANTS
    a = a
    b = b
    m1 = m1
    m2 = m2
    Nobody = Nobody
    Clients <- TwoClients
    Masters <- TwoMasters
    Rank <- OppositeLists
    Ttl = 3
    Drift = 1
    MaxTime = 3
    RetryCount = 1
    MayExtend = FALSE
    MayFail = FALSE
CHECK_DEADLOCK FALSE
SYMMETRY Mirror
INVARIANT
    AtMostOneOwner
