----------------------------- MODULE RedMutexTx -----------------------------
(***************************************************************************)
(* The version of Redlock with transactions (RedMutexTx in                 *)
(* patterns/redlock.h, redlock.cpp). To extend or to delete its key a      *)
(* client sends WATCH and GET, and then, if the value is its own, the      *)
(* command in MULTI and EXEC; other clients run in between. (WATCH and GET *)
(* are one step: what happens between them is seen by GET, and spoils EXEC *)
(* as well.) It allows for no drift: Drift is 0 if the clocks are perfect. *)
(***************************************************************************)
EXTENDS LockClients

CONSTANTS Resource  \* _resource, which is not the lock id of any client

ASSUME ResourceAssumption == Resource \notin Clients \cup {Nobody}

VARIABLES val,      \* the value that unlock() of the client is called with
          watched,  \* masters on which the client has read its own value under WATCH
          touched,  \* clients whose watched key has changed since
          extended  \* history: clients whose lock comes from extend_lock()

clientVars == <<pc, todo, got, start, until, threw, val, watched>>
vars == <<now, key, clientVars, touched, extended>>

Locations == {"out", "locking", "extending", "unlocking"}

TypeOK ==
    /\ MastersTypeOK
    /\ pc \in [Clients -> Locations]
    /\ ClientsTypeOK
    /\ val \in [Clients -> Clients \cup {Resource}]
    /\ watched \in [Clients -> SUBSET Masters]
    /\ touched \subseteq Clients
    /\ extended \subseteq Clients

Init ==
    /\ MastersInit
    /\ ClientsInit
    /\ val = [c \in Clients |-> c]
    /\ watched = [c \in Clients |-> {}]
    /\ touched = {}
    /\ extended = {}

Return(c) ==
    /\ pc' = [pc EXCEPT ![c] = "out"]
    /\ start' = [start EXCEPT ![c] = 0]
    /\ got' = [got EXCEPT ![c] = {}]

\* The visit of m is over, and m counts as locked or not.
Visited(c, m, locked) ==
    /\ todo' = [todo EXCEPT ![c] = @ \ {m}]
    /\ got' = [got EXCEPT ![c] = IF locked THEN @ \cup {m} ELSE @]

\* time_left = ttl - elapse
ValidUntil(c) == start[c] + Ttl
TimeLeft(c) == now < ValidUntil(c)

\* PEXPIRE and DEL between MULTI and EXEC, whatever the value of the key is.
PExpire(m) ==
    key' = IF key[m].val = Nobody THEN key ELSE [key EXCEPT ![m].exp = now + Ttl]
Del(m) == key' = [key EXCEPT ![m] = NoKey]

(***************************************************************************)
(* try_lock()                                                              *)
(***************************************************************************)
\* A client does not ask for a lock that it holds.
BeginLock(c) ==
    /\ pc[c] = "out"
    /\ until[c] <= now
    /\ Visit(c, "locking")
    /\ start' = [start EXCEPT ![c] = now]
    /\ until' = [until EXCEPT ![c] = 0]
    /\ UNCHANGED <<now, key, threw, val, watched>>

LockMaster(c, m) ==
    /\ pc[c] = "locking"
    /\ IsNext(c, m, todo[c])
    /\ SetNotExist(m, c)
    /\ Visited(c, m, key[m].val = Nobody)
    /\ UNCHANGED <<now, pc, start, until, threw, val, watched>>

\* The loop of try_lock() or extend_lock() is over.
Counted(c) == pc[c] \in {"locking", "extending"} /\ todo[c] = {}

\* Mutant: the ttl is counted from the end of the call.
Grant_from_now(c) ==
    /\ Counted(c)
    /\ IsQuorum(got[c])
    /\ TimeLeft(c)
    /\ until' = [until EXCEPT ![c] = now + Ttl]
    /\ threw' = [threw EXCEPT ![c] = FALSE]
    /\ Return(c)
    /\ UNCHANGED <<now, key, todo, val, watched>>

Grant(c) ==
    /\ Counted(c)
    /\ IsQuorum(got[c])
    /\ TimeLeft(c)
    /\ until' = [until EXCEPT ![c] = ValidUntil(c)]
    /\ threw' = [threw EXCEPT ![c] = FALSE]
    /\ Return(c)
    /\ UNCHANGED <<now, key, todo, val, watched>>

\* Too few masters, or no time left: `unlock(_resource)'.
GiveUp(c) ==
    /\ Counted(c)
    /\ ~(IsQuorum(got[c]) /\ TimeLeft(c))
    /\ until' = [until EXCEPT ![c] = 0]
    /\ val' = [val EXCEPT ![c] = Resource]
    /\ Visit(c, "unlocking")
    /\ UNCHANGED <<now, key, start, threw, watched>>

\* An exception of SET leaves try_lock(). The master may have executed it.
LockThrows(c, m) ==
    /\ MayFail
    /\ pc[c] = "locking"
    /\ IsNext(c, m, todo[c])
    /\ UNCHANGED key \/ SetNotExist(m, c)
    /\ todo' = [todo EXCEPT ![c] = {}]
    /\ threw' = [threw EXCEPT ![c] = TRUE]
    /\ Return(c)
    /\ UNCHANGED <<now, until, val, watched>>

(***************************************************************************)
(* extend_lock()                                                           *)
(***************************************************************************)
BeginExtend(c) ==
    /\ MayExtend
    /\ pc[c] = "out"
    /\ until[c] # 0
    /\ Visit(c, "extending")
    /\ start' = [start EXCEPT ![c] = now]
    /\ UNCHANGED <<now, key, until, threw, val, watched>>

\* WATCH and GET. If the value is not its own, the master counts as extended.
ExtendWatch(c, m) ==
    /\ pc[c] = "extending"
    /\ watched[c] = {}
    /\ IsNext(c, m, todo[c])
    /\ IF key[m].val = c
       THEN watched' = [watched EXCEPT ![c] = {m}] /\ UNCHANGED <<todo, got>>
       ELSE Visited(c, m, TRUE) /\ UNCHANGED watched
    /\ UNCHANGED <<now, key, pc, start, until, threw, val>>

\* MULTI, PEXPIRE, EXEC. A WatchError, as any other, counts as not extended.
ExtendExec(c, m) ==
    /\ pc[c] = "extending"
    /\ m \in watched[c]
    /\ IF c \in touched THEN UNCHANGED key ELSE PExpire(m)
    /\ Visited(c, m, c \notin touched)
    /\ watched' = [watched EXCEPT ![c] = {}]
    /\ UNCHANGED <<now, pc, start, until, threw, val>>

\* A command of _extend_lock_master() fails inside its try, EXEC perhaps after it
\* was executed; the master does not count as extended, and the next is visited.
ExtendThrows(c, m) ==
    /\ MayFail
    /\ pc[c] = "extending"
    /\ \/ UNCHANGED key
       \/ m \in watched[c] /\ c \notin touched /\ PExpire(m)
    /\ IF watched[c] = {} THEN IsNext(c, m, todo[c]) ELSE m \in watched[c]
    /\ Visited(c, m, FALSE)
    /\ watched' = [watched EXCEPT ![c] = {}]
    /\ UNCHANGED <<now, pc, start, until, threw, val>>

\* transaction() and redis() come before the try: the exception of a connection
\* that cannot be made leaves extend_lock(). Nothing is unlocked, the remaining
\* masters are not visited, and the client knows of no later time than before.
ExtendLeaves(c, m) ==
    /\ MayFail
    /\ pc[c] = "extending"
    /\ watched[c] = {}
    /\ IsNext(c, m, todo[c])
    /\ todo' = [todo EXCEPT ![c] = {}]
    /\ threw' = [threw EXCEPT ![c] = TRUE]
    /\ Return(c)
    /\ UNCHANGED <<now, key, until, val, watched>>

(***************************************************************************)
(* unlock(), called with the lock id, or by the others with _resource      *)
(***************************************************************************)
BeginUnlock(c) ==
    /\ pc[c] = "out"
    /\ until[c] # 0 \/ threw[c]
    /\ until' = [until EXCEPT ![c] = 0]
    /\ val' = [val EXCEPT ![c] = c]
    /\ threw' = [threw EXCEPT ![c] = FALSE]
    /\ Visit(c, "unlocking")
    /\ UNCHANGED <<now, key, start, watched>>

UnlockWatch(c, m) ==
    /\ pc[c] = "unlocking"
    /\ watched[c] = {}
    /\ IsNext(c, m, todo[c])
    /\ IF key[m].val = val[c]
       THEN watched' = [watched EXCEPT ![c] = {m}] /\ UNCHANGED <<todo, got>>
       ELSE Visited(c, m, FALSE) /\ UNCHANGED watched
    /\ UNCHANGED <<now, key, pc, start, until, threw, val>>

\* Mutant: DEL without WATCH.
UnlockExec_unwatched(c, m) ==
    /\ pc[c] = "unlocking"
    /\ m \in watched[c]
    /\ Del(m)
    /\ Visited(c, m, FALSE)
    /\ watched' = [watched EXCEPT ![c] = {}]
    /\ UNCHANGED <<now, pc, start, until, threw, val>>

\* MULTI, DEL, EXEC; a WatchError is ignored.
UnlockExec(c, m) ==
    /\ pc[c] = "unlocking"
    /\ m \in watched[c]
    /\ IF c \in touched THEN UNCHANGED key ELSE Del(m)
    /\ Visited(c, m, FALSE)
    /\ watched' = [watched EXCEPT ![c] = {}]
    /\ UNCHANGED <<now, pc, start, until, threw, val>>

\* Other errors are ignored as well, and the next master is visited.
UnlockThrows(c, m) ==
    /\ MayFail
    /\ pc[c] = "unlocking"
    /\ \/ UNCHANGED key
       \/ m \in watched[c] /\ c \notin touched /\ Del(m)
    /\ IF watched[c] = {} THEN IsNext(c, m, todo[c]) ELSE m \in watched[c]
    /\ Visited(c, m, FALSE)
    /\ watched' = [watched EXCEPT ![c] = {}]
    /\ threw' = [threw EXCEPT ![c] = TRUE]
    /\ UNCHANGED <<now, pc, start, until, val>>

UnlockDone(c) ==
    /\ pc[c] = "unlocking"
    /\ todo[c] = {}
    /\ Return(c)
    /\ val' = [val EXCEPT ![c] = c]
    /\ UNCHANGED <<now, key, todo, until, threw, watched>>

-----------------------------------------------------------------------------
Step(c) ==
    \/ BeginLock(c) \/ Grant(c) \/ GiveUp(c) \/ BeginExtend(c) \/ BeginUnlock(c) \/ UnlockDone(c)
    \/ \E m \in Masters :
          \/ LockMaster(c, m) \/ LockThrows(c, m)
          \/ ExtendWatch(c, m) \/ ExtendExec(c, m) \/ ExtendThrows(c, m) \/ ExtendLeaves(c, m)
          \/ UnlockWatch(c, m) \/ UnlockExec(c, m) \/ UnlockThrows(c, m)

Environment == (Tick \/ \E m \in Masters : Expire(m)) /\ UNCHANGED clientVars

\* Redis marks the clients that watch a key when the key changes, until EXEC.
Touch == touched' = {c \in Clients : \E m \in watched'[c] : c \in touched \/ key'[m] # key[m]}

\* A history variable: extend_lock() has granted the lock that c believes in.
Remember ==
    extended' = {c \in Clients :
                    /\ until'[c] # 0
                    /\ c \in extended \/ (pc[c] = "extending" /\ pc'[c] = "out" /\ ~threw'[c])}

Next == ((\E c \in Clients : Step(c)) \/ Environment) /\ Touch /\ Remember

Spec == Init /\ [][Next]_vars

-----------------------------------------------------------------------------
(***************************************************************************)
(* Properties                                                              *)
(***************************************************************************)
\* A lock that try_lock() granted, and nobody has extended, is held on a quorum
\* of the masters and will be until its time is over, while clients extend their
\* own locks, commands fail, and an exception leaves extend_lock() half-way.
FirstLockIsBacked ==
    \A c \in Clients \ extended : Holds(c) => IsQuorum(Kept(c, until[c] + Drift))

\* Before its time a key is deleted only by its own client, in its unlock():
\* a client that read its value and was then delayed until another client got
\* the lock does not delete the key of that one.
OnlyOwnerDeletes ==
    [][\A m \in Masters, c \in Clients :
          key[m].val = c /\ key'[m].val # c
          => key[m].exp <= now + Drift \/ (pc[c] = "unlocking" /\ val[c] = c)]_vars
=============================================================================
