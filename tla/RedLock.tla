------------------------------ MODULE RedLock -------------------------------
(***************************************************************************)
(* The guard RedLock (patterns/redlock.h) on top of RedLockMutex. A guard  *)
(* does not know the LockInfo of its mutex: try_lock() and extend_lock()   *)
(* get the time that remains, and the guard adds it to now() when it is    *)
(* back from the call. Every call of the mutex is one of its guard, and    *)
(* RedLockMutex::try_lock() makes one attempt: RetryCount is 1.            *)
(***************************************************************************)
EXTENDS RedLockMutex

VARIABLES timeLeft,   \* time_left of a guard in try_lock() or extend_lock(), 0 outside
          releaseTp,  \* RedLock::_release_tp, 0 for the epoch
          destroyed   \* guards whose destructor has begun

guardVars == <<timeLeft, releaseTp, destroyed>>

GuardTypeOK ==
    /\ TypeOK
    /\ timeLeft \in [Clients -> 0..Ttl]
    /\ releaseTp \in [Clients -> 0..MaxTime + Ttl]
    /\ destroyed \subseteq Clients

GuardInit ==
    /\ Init
    /\ timeLeft = [c \in Clients |-> 0]
    /\ releaseTp = [c \in Clients |-> 0]
    /\ destroyed = {}

\* RedLock::ttl() and owns_lock()
OwnsLock(c) == now < releaseTp[c]

\* A user calls a guard that is not in a call and not destroyed.
Callable(c) == timeLeft[c] = 0 /\ c \notin destroyed

\* try_lock() and extend_lock() of the guard begin with that of the mutex. A
\* user does not lock a guard that says it owns the lock.
GuardLocks(c) == Callable(c) /\ ~OwnsLock(c) /\ BeginLock(c) /\ UNCHANGED guardVars
GuardExtends(c) == Callable(c) /\ BeginExtend(c) /\ UNCHANGED guardVars

\* The mutex returns `lock_info.time_remaining'.
MutexGrants(c) ==
    /\ LockSucceeds(c) \/ ExtendSucceeds(c)
    /\ timeLeft' = [timeLeft EXCEPT ![c] = ValidUntil(c) - now]
    /\ UNCHANGED <<releaseTp, destroyed>>

\* Mutant: an extension does not move _release_tp.
SetReleaseTp_once(c) ==
    /\ timeLeft[c] # 0
    /\ releaseTp' = [releaseTp EXCEPT ![c] = IF @ = 0 THEN now + timeLeft[c] ELSE @]
    /\ timeLeft' = [timeLeft EXCEPT ![c] = 0]
    /\ UNCHANGED <<vars, destroyed>>

SetReleaseTp(c) ==
    /\ timeLeft[c] # 0
    /\ releaseTp' = [releaseTp EXCEPT ![c] = now + timeLeft[c]]
    /\ timeLeft' = [timeLeft EXCEPT ![c] = 0]
    /\ UNCHANGED <<vars, destroyed>>

\* RedLock::unlock()
GuardUnlocks(c) == Callable(c) /\ BeginUnlock(c) /\ UNCHANGED guardVars

\* Mutant: the destructor does not unlock.
Destroy_silently(c) ==
    /\ Callable(c)
    /\ pc[c] = "out"
    /\ destroyed' = destroyed \cup {c}
    /\ UNCHANGED <<vars, timeLeft, releaseTp>>

\* The destructor unlocks if the guard owns the lock. (An exception of that
\* unlock() ends the process: the client takes no step after it either way.)
Destroy(c) ==
    /\ Callable(c)
    /\ pc[c] = "out"
    /\ destroyed' = destroyed \cup {c}
    /\ IF OwnsLock(c)
       THEN /\ Visit(c, "unlocking")
            /\ until' = [until EXCEPT ![c] = 0]
            /\ UNCHANGED <<now, key, start, tries, threw>>
       ELSE UNCHANGED vars
    /\ UNCHANGED <<timeLeft, releaseTp>>

\* unlock() resets _release_tp, also when it ends with an exception; a
\* try_lock() or extend_lock() that fails leaves it as it was.
GuardReturns(c) ==
    /\ UnlockDone(c) \/ \E m \in Masters : CommandFails(c, m)
    /\ releaseTp' = IF pc[c] = "unlocking" THEN [releaseTp EXCEPT ![c] = 0] ELSE releaseTp
    /\ UNCHANGED <<timeLeft, destroyed>>

\* Commands to the masters, and decisions of the mutex that do not end a call.
MutexWorks(c) ==
    /\ \/ LockFails(c) \/ ExtendFails(c)
       \/ \E m \in Masters : LockInstance(c, m) \/ ExtendInstance(c, m) \/ UnlockInstance(c, m)
    /\ UNCHANGED guardVars

GuardStep(c) ==
    \/ GuardLocks(c) \/ GuardExtends(c) \/ MutexGrants(c) \/ SetReleaseTp(c)
    \/ GuardUnlocks(c) \/ Destroy(c) \/ GuardReturns(c) \/ MutexWorks(c)

GuardNext == (\E c \in Clients : GuardStep(c)) \/ (Environment /\ UNCHANGED guardVars)

GuardSpec == GuardInit /\ [][GuardNext]_<<vars, guardVars>>

-----------------------------------------------------------------------------
(***************************************************************************)
(* Properties                                                              *)
(***************************************************************************)
Idle(c) == pc[c] = "out" /\ timeLeft[c] = 0

\* A guard whose mutex has a valid lock says that it owns it: otherwise its
\* destructor would leave the lock behind.
HeldIsOwned == \A c \in Clients : Idle(c) /\ Holds(c) => OwnsLock(c)

\* What a destroyed guard (~RedLock) leaves on the masters, unless its last call
\* ended with an exception: no key if it owned the lock or if its lock was given
\* up or unlocked before, and else only keys of a lock whose time was over when it
\* was destroyed, for less than a ttl after that; whatever extensions moved and
\* earlier calls, that threw, had left behind.
DestroyedReleases ==
    \A c \in destroyed : Idle(c) /\ ~threw[c] =>
        \A m \in LockedBy(c) : releaseTp[c] \in 1..now /\ key[m].exp < releaseTp[c] + Ttl

\* README.md: "So only one client can acquire the lock". No two guards that are not
\* in a call say that they own it.
AtMostOneOwner ==
    \A c, d \in Clients : Idle(c) /\ Idle(d) /\ OwnsLock(c) /\ OwnsLock(d) => c = d
=============================================================================
