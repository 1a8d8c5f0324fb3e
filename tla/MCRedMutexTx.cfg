SPECIFICATION Spec
CONSTANTS
    a = a
    b = b
    m1 = m1
    m2 = m2
    m3 = m3
    Nobody = Nobody
    Resource = Resource
    Clients <- TwoClients
    Masters <- TwoMasters
    Rank <- OppositePairs
    Ttl = 2
    Drift = 0
    MaxTime = 3
    MayExtend = TRUE
    MayFail = TRUE
CHECK_DEADLOCK FALSE
SYMMETRY Mirror
INVARIANTS
    FirstLockIsBacked
PROPERTY
    OnlyOwnerDeletes
