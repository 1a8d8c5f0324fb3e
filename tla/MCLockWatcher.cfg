SPECIFICATION FairWatcherSpec
CONSTANTS
    m1 = m1
    m2 = m2
    NoMutex = NoMutex
    Mutexes <- TwoMutexes
    Scripted <- OnlyFirst
    MaxIds = 3
CHECK_DEADLOCK FALSE
INVARIANTS
    LockedIsWatched
PROPERTIES
    LostLockIsNoticed
    DestructorReturns
