SPECIFICATION Spec
CONSTANTS
    a = a
    b = b
    m1 = m1
    m2 = m2
    m3 = m3
    Nobody = Nobody
    Clients <- TwoClients
    Masters <- ThreeMasters
    Rank <- OppositeLists
    Ttl = 3
    Drift = 1
    MaxTime = 2
    RetryCount = 2
    MayExtend = TRUE
    MayFail = TRUE
CHECK_DEADLOCK FALSE
SYMMETRY Mirror
INVARIANTS
    HeldByQuorum
    AtMostOneHolder
    NothingLeftBehind
PROPERTY OnlyOwnerDeletes
