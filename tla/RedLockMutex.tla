---------------------------- MODULE RedLockMutex ----------------------------
(***************************************************************************)
(* The scripting version of Redlock (patterns/redlock.h, redlock.cpp):     *)
(* RedLockMutexVessel and its wrapper RedLockMutex. A client visits the    *)
(* masters one after the other, in the order of its own list; each visit   *)
(* is one atomic command or script, and may fail with an exception before  *)
(* or after the master executed it.                                        *)
(***************************************************************************)
EXTENDS LockClients

CONSTANTS RetryCount  \* retry_count: 1 for RedLockMutex, 3 by default

ASSUME RetryAssumption == RetryCount \in Nat \ {0}

VARIABLES tries  \* attempts made by this call of lock()

clientVars == <<pc, todo, got, start, tries, until, threw>>
vars == <<now, key, clientVars>>

Locations == {"out", "locking", "extending", "retrying", "abandoning", "unlocking"}

TypeOK ==
    /\ MastersTypeOK
    /\ pc \in [Clients -> Locations]
    /\ ClientsTypeOK
    /\ tries \in [Clients -> 0..RetryCount]

Init ==
    /\ MastersInit
    /\ ClientsInit
    /\ tries = [c \in Clients |-> 0]

\* The call returns, and its local variables are gone.
Return(c) ==
    /\ pc' = [pc EXCEPT ![c] = "out"]
    /\ start' = [start EXCEPT ![c] = 0]
    /\ tries' = [tries EXCEPT ![c] = 0]

\* Mutant: the drift of the clocks is not subtracted.
ValidUntil_no_drift(c) == start[c] + Ttl

\* lock_info.startTime + ttl - drift, from which time_remaining is computed.
ValidUntil(c) == start[c] + Ttl - Drift
TimeLeft(c) == now + Drift < start[c] + Ttl

\* The call has succeeded: a LockInfo with `locked' set and its time_remaining.
Grant(c) ==
    /\ until' = [until EXCEPT ![c] = ValidUntil(c)]
    /\ got' = [got EXCEPT ![c] = {}]
    /\ threw' = [threw EXCEPT ![c] = FALSE]
    /\ Return(c)
    /\ UNCHANGED <<now, key, todo>>

(***************************************************************************)
(* RedLockMutexVessel::lock()                                              *)
(***************************************************************************)
\* A client does not ask for a lock that it holds.
BeginLock(c) ==
    /\ pc[c] = "out"
    /\ until[c] <= now
    /\ Visit(c, "locking")
    /\ start' = [start EXCEPT ![c] = now]
    /\ tries' = [tries EXCEPT ![c] = 1]
    /\ until' = [until EXCEPT ![c] = 0]
    /\ UNCHANGED <<now, key, threw>>

LockInstance(c, m) ==
    /\ pc[c] = "locking"
    /\ IsNext(c, m, todo[c])
    /\ SetNotExist(m, c)
    /\ todo' = [todo EXCEPT ![c] = @ \ {m}]
    /\ got' = [got EXCEPT ![c] = IF key[m].val = Nobody THEN @ \cup {m} ELSE @]
    /\ UNCHANGED <<now, pc, start, tries, until, threw>>

\* A quorum was locked and there is time left: lock() returns a LockInfo.
LockSucceeds(c) ==
    /\ pc[c] = "locking"
    /\ todo[c] = {}
    /\ TimeLeft(c)
    /\ IsQuorum(got[c])
    /\ Grant(c)

\* Mutant: only the masters counted as locked are unlocked.
LockFails_unlocks_counted(c) ==
    /\ pc[c] = "locking"
    /\ todo[c] = {}
    /\ ~(TimeLeft(c) /\ IsQuorum(got[c]))
    /\ pc' = [pc EXCEPT ![c] = IF TimeLeft(c) /\ tries[c] < RetryCount THEN "retrying" ELSE "abandoning"]
    /\ todo' = [todo EXCEPT ![c] = got[c]]
    /\ UNCHANGED <<now, key, got, start, tries, until, threw>>

\* Otherwise it unlocks all masters; the last attempt, or one that ran out of
\* time, is not repeated.
LockFails(c) ==
    /\ pc[c] = "locking"
    /\ todo[c] = {}
    /\ ~(TimeLeft(c) /\ IsQuorum(got[c]))
    /\ Visit(c, IF TimeLeft(c) /\ tries[c] < RetryCount THEN "retrying" ELSE "abandoning")
    /\ UNCHANGED <<now, key, start, tries, until, threw>>

\* The next attempt, with the startTime of the first.
Retry(c) ==
    /\ pc[c] = "retrying"
    /\ todo[c] = {}
    /\ Visit(c, "locking")
    /\ tries' = [tries EXCEPT ![c] = @ + 1]
    /\ UNCHANGED <<now, key, start, until, threw>>

(***************************************************************************)
(* RedLockMutexVessel::extend_lock(), as RedLockMutex calls it             *)
(***************************************************************************)
BeginExtend(c) ==
    /\ MayExtend
    /\ pc[c] = "out"
    /\ until[c] # 0
    /\ Visit(c, "extending")
    /\ start' = [start EXCEPT ![c] = now]
    /\ UNCHANGED <<now, key, tries, until, threw>>

ExtendInstance(c, m) ==
    /\ pc[c] = "extending"
    /\ IsNext(c, m, todo[c])
    /\ ExtendKey(m, c)
    /\ todo' = [todo EXCEPT ![c] = @ \ {m}]
    /\ got' = [got EXCEPT ![c] = IF key[m].val = c THEN @ \cup {m} ELSE @]
    /\ UNCHANGED <<now, pc, start, tries, until, threw>>

ExtendSucceeds(c) ==
    /\ pc[c] = "extending"
    /\ todo[c] = {}
    /\ TimeLeft(c)
    /\ IsQuorum(got[c])
    /\ Grant(c)

\* The lock is given up: the LockInfo extend_lock() returns is not locked.
ExtendFails(c) ==
    /\ pc[c] = "extending"
    /\ todo[c] = {}
    /\ ~(TimeLeft(c) /\ IsQuorum(got[c]))
    /\ until' = [until EXCEPT ![c] = 0]
    /\ Visit(c, "abandoning")
    /\ UNCHANGED <<now, key, start, tries, threw>>

(***************************************************************************)
(* unlock(), called by the user of the lock (also to clean up after an     *)
(* exception), or after a failed attempt                                   *)
(***************************************************************************)
BeginUnlock(c) ==
    /\ pc[c] = "out"
    /\ until[c] # 0 \/ threw[c]
    /\ until' = [until EXCEPT ![c] = 0]
    /\ Visit(c, "unlocking")
    /\ UNCHANGED <<now, key, start, tries, threw>>

UnlockInstance(c, m) ==
    /\ pc[c] \in {"retrying", "abandoning", "unlocking"}
    /\ IsNext(c, m, todo[c])
    /\ DeleteKey(m, c)
    /\ todo' = [todo EXCEPT ![c] = @ \ {m}]
    /\ UNCHANGED <<now, pc, got, start, tries, until, threw>>

UnlockDone(c) ==
    /\ pc[c] \in {"abandoning", "unlocking"}
    /\ todo[c] = {}
    /\ threw' = [threw EXCEPT ![c] = FALSE]
    /\ Return(c)
    /\ UNCHANGED <<now, key, todo, got, until>>

(***************************************************************************)
(* An exception leaves the loop, and the call. The master may have done    *)
(* what it was asked before its reply was lost.                            *)
(***************************************************************************)
CommandFails(c, m) ==
    /\ MayFail
    /\ IsNext(c, m, todo[c])
    /\ \/ UNCHANGED key
       \/ pc[c] = "locking" /\ SetNotExist(m, c)
       \/ pc[c] = "extending" /\ ExtendKey(m, c)
       \/ pc[c] \in {"retrying", "abandoning", "unlocking"} /\ DeleteKey(m, c)
    /\ todo' = [todo EXCEPT ![c] = {}]
    /\ got' = [got EXCEPT ![c] = {}]
    /\ threw' = [threw EXCEPT ![c] = TRUE]
    /\ Return(c)
    /\ UNCHANGED <<now, until>>

-----------------------------------------------------------------------------
Step(c) ==
    \/ BeginLock(c) \/ LockSucceeds(c) \/ LockFails(c) \/ Retry(c)
    \/ BeginExtend(c) \/ ExtendSucceeds(c) \/ ExtendFails(c)
    \/ BeginUnlock(c) \/ UnlockDone(c)
    \/ \E m \in Masters :
          LockInstance(c, m) \/ ExtendInstance(c, m) \/ UnlockInstance(c, m) \/ CommandFails(c, m)

Environment == (Tick \/ \E m \in Masters : Expire(m)) /\ UNCHANGED clientVars

Next == (\E c \in Clients : Step(c)) \/ Environment

Spec == Init /\ [][Next]_vars

-----------------------------------------------------------------------------
(***************************************************************************)
(* Properties                                                              *)
(***************************************************************************)
\* Before its time a key is removed only by its own client, while that client
\* unlocks: an unlock that comes too late never frees the lock of another.
OnlyOwnerDeletes ==
    [][\A m \in Masters, c \in Clients :
          /\ key[m].val = c
          /\ key'[m].val # c
          => \/ key[m].exp <= now + Drift
             \/ pc[c] \in {"retrying", "abandoning", "unlocking"}]_vars
=============================================================================
