-------------------------- MODULE RedMutexTx_proofs ---------------------------
(***************************************************************************)
(* Proofs about RedMutexTx, for any clients and masters, any order of the  *)
(* masters and any ttl: its type, that WATCH protects the keys of others,  *)
(* and, where clocks do not drift, that a lock of try_lock() is backed.    *)
(***************************************************************************)
EXTENDS RedMutexTx, FiniteSetTheorems, TLAPS

\* What contains a quorum is a quorum.
LEMMA QuorumGrows ==
    ASSUME NEW S \in SUBSET Masters, NEW T \in SUBSET S, IsQuorum(T)
    PROVE  IsQuorum(S)
<1>1. IsFiniteSet(S) /\ IsFiniteSet(T) /\ IsFiniteSet(Masters)
  BY LockAssumption, FS_Subset
<1>2. Cardinality(T) <= Cardinality(S)
  BY <1>1, FS_Subset
<1>3. Cardinality(S) \in Nat /\ Cardinality(T) \in Nat /\ Cardinality(Masters) \in Nat
  BY <1>1, FS_CardinalityType
<1> QED BY <1>2, <1>3 DEF IsQuorum

-----------------------------------------------------------------------------
(* The type.                                                               *)

ClientTypes ==
    /\ pc \in [Clients -> Locations]
    /\ ClientsTypeOK
    /\ val \in [Clients -> Clients \cup {Resource}]
    /\ watched \in [Clients -> SUBSET Masters]

\* What a client knows of its own: while it locks or unlocks it has no lock; it
\* unlocks its own value or, by mistake, _resource; and it watches at most a
\* master that it is visiting, where it has read its own value.
Local(c) ==
    /\ start[c] <= now
    /\ pc[c] \in {"locking", "unlocking"} => until[c] = 0
    /\ until[c] # 0 => until[c] <= now + Ttl
    /\ val[c] \in {c, Resource}
    /\ watched[c] \subseteq todo[c]
    /\ watched[c] # {} => pc[c] = "extending" \/ (pc[c] = "unlocking" /\ val[c] = c)

LocalInv == \A c \in Clients : Local(c)

TypeInv == TypeOK /\ LocalInv

LEMMA InitTypeInv == Init => TypeInv
  BY LockAssumption
     DEF Init, MastersInit, ClientsInit, NoKey, TypeInv, TypeOK, MastersTypeOK, ClientsTypeOK,
         Locations, LocalInv, Local

\* A command to a master keeps the type of the keys.
LEMMA KeyType ==
    ASSUME MastersTypeOK, NEW c \in Clients, NEW m \in Masters,
           UNCHANGED key \/ SetNotExist(m, c) \/ PExpire(m) \/ Del(m)
    PROVE  key' \in [Masters -> [val : Clients \cup {Nobody}, exp : 0..MaxTime + Ttl]]
<1>1. now + Ttl \in 0..MaxTime + Ttl /\ 0 \in 0..MaxTime + Ttl
  BY LockAssumption DEF MastersTypeOK
<1>2. CASE SetNotExist(m, c)
  BY <1>1, <1>2 DEF SetNotExist, MastersTypeOK
<1>3. CASE PExpire(m)
  BY <1>1, <1>3 DEF PExpire, MastersTypeOK
<1>4. CASE Del(m)
  BY <1>1, <1>4 DEF Del, NoKey, MastersTypeOK
<1>5. CASE UNCHANGED key
  BY <1>5 DEF MastersTypeOK
<1> QED BY <1>2, <1>3, <1>4, <1>5

\* A step of a client changes no variable of another, and takes no time.
Alone(c) ==
    /\ now' = now
    /\ \A d \in Clients \ {c} :
          /\ pc'[d] = pc[d] /\ todo'[d] = todo[d] /\ got'[d] = got[d] /\ start'[d] = start[d]
          /\ until'[d] = until[d] /\ val'[d] = val[d] /\ watched'[d] = watched[d]

\* The end of a visit keeps the types, and leaves one master less to visit.
LEMMA VisitedType ==
    ASSUME TypeOK, NEW c \in Clients, NEW m \in Masters, NEW locked, Visited(c, m, locked)
    PROVE  /\ todo' \in [Clients -> SUBSET Masters]
           /\ got' \in [Clients -> SUBSET Masters]
           /\ todo'[c] = todo[c] \ {m}
           /\ \A d \in Clients \ {c} : todo'[d] = todo[d] /\ got'[d] = got[d]
<1> USE DEF TypeOK, ClientsTypeOK, Visited
<1>1. todo' = [todo EXCEPT ![c] = @ \ {m}]
  OBVIOUS
<1>2. got' = [got EXCEPT ![c] = got[c] \cup {m}] \/ got' = got
  OBVIOUS
<1> QED BY <1>1, <1>2

\* In extend_lock() and unlock(): the visit of m begins with WATCH, or it is over.
Watches(c, m) ==
    /\ key' = key
    /\ watched[c] = {}
    /\ m \in todo[c]
    /\ watched' = [watched EXCEPT ![c] = {m}]
    /\ UNCHANGED <<now, pc, todo, got, start, until, threw, val>>

LeavesMaster(c, m) ==
    /\ UNCHANGED key \/ PExpire(m) \/ Del(m)
    /\ \E locked \in BOOLEAN : Visited(c, m, locked)
    /\ watched'[c] = {}
    /\ watched' \in [Clients -> SUBSET Masters]
    /\ \A d \in Clients \ {c} : watched'[d] = watched[d]
    /\ threw' \in [Clients -> BOOLEAN]
    /\ UNCHANGED <<now, pc, start, until, val>>

LEMMA WatchSteps ==
    ASSUME TypeOK, NEW c \in Clients, NEW m \in Masters
    PROVE  /\ ExtendWatch(c, m) =>
                 (Watches(c, m) /\ pc[c] = "extending" /\ key[m].val = c) \/ LeavesMaster(c, m)
           /\ UnlockWatch(c, m) =>
                 (Watches(c, m) /\ pc[c] = "unlocking" /\ key[m].val = val[c]) \/ LeavesMaster(c, m)
           /\ ExtendExec(c, m) \/ ExtendThrows(c, m) => LeavesMaster(c, m)
           /\ UnlockExec(c, m) \/ UnlockThrows(c, m) => LeavesMaster(c, m)
<1> USE DEF TypeOK, ClientsTypeOK, LeavesMaster
<1>1. ASSUME ExtendWatch(c, m)
      PROVE  (Watches(c, m) /\ pc[c] = "extending" /\ key[m].val = c) \/ LeavesMaster(c, m)
  BY <1>1 DEF ExtendWatch, IsNext, Watches
<1>2. ASSUME UnlockWatch(c, m)
      PROVE  (Watches(c, m) /\ pc[c] = "unlocking" /\ key[m].val = val[c]) \/ LeavesMaster(c, m)
  BY <1>2 DEF UnlockWatch, IsNext, Watches
<1>3. ASSUME ExtendExec(c, m) PROVE LeavesMaster(c, m)
  BY <1>3 DEF ExtendExec
<1>4. ASSUME ExtendThrows(c, m) PROVE LeavesMaster(c, m)
  BY <1>4 DEF ExtendThrows
<1>5. ASSUME UnlockExec(c, m) PROVE LeavesMaster(c, m)
  BY <1>5 DEF UnlockExec
<1>6. ASSUME UnlockThrows(c, m) PROVE LeavesMaster(c, m)
  BY <1>6 DEF UnlockThrows
<1> QED BY <1>1, <1>2, <1>3, <1>4, <1>5, <1>6

LEMMA StepLocal ==
    ASSUME TypeInv, NEW c \in Clients, Step(c)
    PROVE  MastersTypeOK' /\ ClientTypes' /\ Local(c)' /\ Alone(c)
<1> USE LockAssumption, ResourceAssumption
    DEF TypeInv, TypeOK, ClientsTypeOK, ClientTypes, Locations, Alone
<1>0. /\ Local(c) /\ now \in 0..MaxTime /\ start[c] \in 0..MaxTime /\ until[c] \in Nat
      /\ 0 \in 0..MaxTime /\ 0 \in 0..MaxTime + Ttl
  BY DEF LocalInv, MastersTypeOK
<1>1. ASSUME UNCHANGED <<now, key>> PROVE MastersTypeOK'
  BY <1>1 DEF MastersTypeOK
<1>2. ASSUME NEW m \in Masters, now' = now,
             UNCHANGED key \/ SetNotExist(m, c) \/ PExpire(m) \/ Del(m)
      PROVE  MastersTypeOK'
  BY <1>2, KeyType DEF MastersTypeOK
<1>3. CASE BeginLock(c)
  BY <1>0, <1>1, <1>3 DEF BeginLock, Visit, Local
<1>4. CASE Grant(c)
  <2>1. ValidUntil(c) \in 0..MaxTime + Ttl /\ ValidUntil(c) <= now + Ttl
    BY <1>0 DEF ValidUntil, Local
  <2> QED BY <1>0, <1>1, <1>4, <2>1 DEF Grant, Counted, Return, Local
<1>5. CASE GiveUp(c)
  BY <1>0, <1>1, <1>5 DEF GiveUp, Counted, Visit, Local
<1>6. CASE BeginExtend(c)
  BY <1>0, <1>1, <1>6 DEF BeginExtend, Visit, Local
<1>7. CASE BeginUnlock(c)
  BY <1>0, <1>1, <1>7 DEF BeginUnlock, Visit, Local
<1>8. CASE UnlockDone(c)
  BY <1>0, <1>1, <1>8 DEF UnlockDone, Return, Local
<1>9. ASSUME NEW m \in Masters, LockMaster(c, m)
      PROVE  MastersTypeOK' /\ ClientTypes' /\ Local(c)' /\ Alone(c)
  BY <1>0, <1>2, <1>9 DEF LockMaster, Visited, Local
<1>10. ASSUME NEW m \in Masters, LockThrows(c, m)
       PROVE  MastersTypeOK' /\ ClientTypes' /\ Local(c)' /\ Alone(c)
  BY <1>0, <1>2, <1>10 DEF LockThrows, Return, Local
<1>11. ASSUME NEW m \in Masters, Watches(c, m),
              pc[c] = "extending" \/ (pc[c] = "unlocking" /\ key[m].val = val[c])
       PROVE  MastersTypeOK' /\ ClientTypes' /\ Local(c)' /\ Alone(c)
  <2>1. key[m].val = val[c] => val[c] = c
    BY <1>0 DEF Local, MastersTypeOK
  <2> QED BY <1>0, <1>1, <1>11, <2>1 DEF Watches, Local
<1>12. ASSUME NEW m \in Masters, LeavesMaster(c, m)
       PROVE  MastersTypeOK' /\ ClientTypes' /\ Local(c)' /\ Alone(c)
  <2>1. /\ todo' \in [Clients -> SUBSET Masters]
        /\ got' \in [Clients -> SUBSET Masters]
        /\ todo'[c] = todo[c] \ {m}
        /\ \A d \in Clients \ {c} : todo'[d] = todo[d] /\ got'[d] = got[d]
    <3>1. PICK locked \in BOOLEAN : Visited(c, m, locked)
      BY <1>12 DEF LeavesMaster
    <3> QED BY <3>1, VisitedType
  <2> QED BY <1>0, <1>2, <1>12, <2>1 DEF LeavesMaster, Local
<1>13. ASSUME NEW m \in Masters, ExtendLeaves(c, m)
       PROVE  MastersTypeOK' /\ ClientTypes' /\ Local(c)' /\ Alone(c)
  BY <1>0, <1>1, <1>13 DEF ExtendLeaves, Return, Local
<1> QED
  BY <1>3, <1>4, <1>5, <1>6, <1>7, <1>8, <1>9, <1>10, <1>11, <1>12, <1>13, WatchSteps DEF Step

LEMMA NextTypeInv == TypeInv /\ [Next]_vars => TypeInv'
<1> SUFFICES ASSUME TypeInv, [Next]_vars PROVE TypeInv'
  OBVIOUS
<1>1. CASE UNCHANGED vars
  BY <1>1 DEF vars, clientVars, TypeInv, TypeOK, MastersTypeOK, ClientsTypeOK, LocalInv, Local
<1>2. CASE Next
  <2>1. touched' \subseteq Clients /\ extended' \subseteq Clients
    BY <1>2 DEF Next, Touch, Remember
  <2>2. ASSUME NEW c \in Clients, Step(c) PROVE TypeInv'
    <3>1. MastersTypeOK' /\ ClientTypes' /\ Local(c)' /\ Alone(c)
      BY <2>2, StepLocal
    <3>2. \A d \in Clients \ {c} : Local(d)'
      BY <3>1 DEF TypeInv, LocalInv, Local, Alone
    <3> QED BY <2>1, <3>1, <3>2 DEF TypeInv, TypeOK, ClientTypes, LocalInv
  <2>3. CASE Environment
    <3>0. MastersTypeOK'
      BY <2>3, LockAssumption
         DEF Environment, Tick, Expire, NoKey, TypeInv, TypeOK, MastersTypeOK
    <3>1. MastersTypeOK' /\ now \in Nat /\ now' \in Nat /\ now <= now'
      BY <2>3, <3>0 DEF Environment, Tick, Expire, TypeInv, TypeOK, MastersTypeOK
    <3>2. UNCHANGED <<pc, todo, got, start, until, threw, val, watched>>
      BY <2>3 DEF Environment, clientVars
    <3>3. ASSUME NEW d \in Clients PROVE Local(d)'
      <4>1. Local(d) /\ start[d] \in Nat /\ until[d] \in Nat
        BY LockAssumption DEF TypeInv, TypeOK, ClientsTypeOK, LocalInv
      <4> QED BY <3>1, <3>2, <4>1, LockAssumption DEF Local
    <3> QED BY <2>1, <3>1, <3>2, <3>3 DEF TypeInv, TypeOK, ClientsTypeOK, LocalInv
  <2> QED BY <1>2, <2>2, <2>3 DEF Next
<1> QED BY <1>1, <1>2

LEMMA AlwaysTypeInv == Spec => []TypeInv
<1> QED BY InitTypeInv, NextTypeInv, PTL DEF Spec

\* The variables always have their types: no lock is believed in for longer
\* than a ttl from the start of a call.
THEOREM TypeSafe == Spec => []TypeOK
<1>1. TypeInv => TypeOK
  BY DEF TypeInv
<1> QED BY <1>1, AlwaysTypeInv, PTL

-----------------------------------------------------------------------------
(* What WATCH protects.                                                    *)

\* A client that watches a master, and has not been marked, reads its own value.
WatchedOwn(c) == c \notin touched => \A m \in watched[c] : key[m].val = c

WatchInv == \A c \in Clients : WatchedOwn(c)

LEMMA InitWatchInv == Init => WatchInv
  BY DEF Init, WatchInv, WatchedOwn

\* A step adds to the masters that are watched only one with its own value.
LEMMA StepWatches ==
    ASSUME TypeInv, NEW c \in Clients, Step(c), NEW m \in watched'[c], m \notin watched[c]
    PROVE  key' = key /\ key[m].val = c
<1>1. Local(c) /\ MastersTypeOK /\ TypeOK /\ watched'[c] # watched[c]
  BY DEF TypeInv, TypeOK, LocalInv
<1>2. CASE \/ BeginLock(c) \/ Grant(c) \/ GiveUp(c) \/ BeginExtend(c) \/ BeginUnlock(c)
           \/ UnlockDone(c)
           \/ \E n \in Masters : LockMaster(c, n) \/ LockThrows(c, n) \/ ExtendLeaves(c, n)
  BY <1>1, <1>2 DEF BeginLock, Grant, GiveUp, BeginExtend, BeginUnlock, UnlockDone,
                    LockMaster, LockThrows, ExtendLeaves
<1>3. ASSUME NEW n \in Masters, LeavesMaster(c, n) PROVE FALSE
  BY <1>3 DEF LeavesMaster
<1>4. ASSUME NEW n \in Masters, Watches(c, n), key[n].val \in {c, val[c]}
      PROVE  key' = key /\ key[m].val = c
  <2>1. key[n].val = c
    BY <1>1, <1>4, ResourceAssumption DEF Local, MastersTypeOK
  <2>2. n = m
    BY <1>4 DEF Watches, TypeInv, TypeOK
  <2> QED BY <1>4, <2>1, <2>2 DEF Watches
<1> QED BY <1>1, <1>2, <1>3, <1>4, WatchSteps DEF Step

LEMMA NextWatchInv == TypeInv /\ WatchInv /\ [Next]_vars => WatchInv'
<1> SUFFICES ASSUME TypeInv, WatchInv, [Next]_vars, NEW c \in Clients,
                    c \notin touched', NEW m \in watched'[c]
             PROVE  key'[m].val = c
  BY DEF WatchInv, WatchedOwn
<1>1. CASE UNCHANGED vars
  BY <1>1 DEF vars, clientVars, WatchInv, WatchedOwn
<1>2. CASE Next
  <2>1. c \notin touched /\ key'[m] = key[m]
    BY <1>2 DEF Next, Touch
  <2>2. CASE m \in watched[c]
    BY <2>1, <2>2 DEF WatchInv, WatchedOwn
  <2>3. CASE m \notin watched[c]
    <3>1. PICK d \in Clients : Step(d)
      BY <1>2, <2>3 DEF Next, Environment, clientVars
    <3>2. d = c
      BY <2>3, <3>1, StepLocal DEF Alone
    <3> QED BY <2>1, <2>3, <3>1, <3>2, StepWatches
  <2> QED BY <2>2, <2>3
<1> QED BY <1>1, <1>2

\* What a step of a client does to a key: it creates its own, sets the expiry
\* of its own, or deletes its own. WATCH is why: PEXPIRE and DEL do not compare.
KeyMoves(c, m) ==
    \/ key'[m] = key[m]
    \/ pc[c] = "locking" /\ key[m].val = Nobody /\ key'[m] = [val |-> c, exp |-> now + Ttl]
    \/ pc[c] = "extending" /\ key[m].val = c /\ key'[m].val = c /\ key'[m].exp = now + Ttl
    \/ pc[c] = "unlocking" /\ val[c] = c /\ key[m].val = c /\ key'[m].val = Nobody

LEMMA StepKeyMoves ==
    ASSUME TypeInv, WatchInv, NEW c \in Clients, Step(c), NEW m \in Masters
    PROVE  KeyMoves(c, m)
<1> USE DEF TypeInv, TypeOK, MastersTypeOK
<1>1. CASE key' = key
  BY <1>1 DEF KeyMoves
<1>2. ASSUME NEW n \in Masters, pc[c] = "locking", SetNotExist(n, c) PROVE KeyMoves(c, m)
  BY <1>2 DEF SetNotExist, KeyMoves
<1>3. ASSUME NEW n \in watched[c], c \notin touched, pc[c] = "extending", PExpire(n)
      PROVE  KeyMoves(c, m)
  <2>1. key[n].val = c /\ c # Nobody /\ n \in Masters
    BY <1>3, LockAssumption DEF WatchInv, WatchedOwn
  <2> QED BY <1>3, <2>1 DEF PExpire, KeyMoves
<1>4. ASSUME NEW n \in watched[c], c \notin touched, pc[c] = "unlocking", Del(n)
      PROVE  KeyMoves(c, m)
  <2>1. key[n].val = c /\ n \in Masters /\ val[c] = c
    BY <1>4 DEF WatchInv, WatchedOwn, LocalInv, Local
  <2> QED BY <1>4, <2>1 DEF Del, NoKey, KeyMoves
<1>5. CASE \E n \in Masters : LockMaster(c, n) \/ LockThrows(c, n)
  BY <1>1, <1>2, <1>5 DEF LockMaster, LockThrows
<1>6. CASE \E n \in Masters : ExtendExec(c, n) \/ ExtendThrows(c, n)
  BY <1>1, <1>3, <1>6 DEF ExtendExec, ExtendThrows
<1>7. CASE \E n \in Masters : UnlockExec(c, n) \/ UnlockThrows(c, n)
  BY <1>1, <1>4, <1>7 DEF UnlockExec, UnlockThrows
<1>8. CASE \/ BeginLock(c) \/ Grant(c) \/ GiveUp(c) \/ BeginExtend(c) \/ BeginUnlock(c)
           \/ UnlockDone(c)
           \/ \E n \in Masters : ExtendWatch(c, n) \/ UnlockWatch(c, n) \/ ExtendLeaves(c, n)
  BY <1>1, <1>8 DEF BeginLock, Grant, GiveUp, BeginExtend, BeginUnlock, UnlockDone,
                    ExtendWatch, UnlockWatch, ExtendLeaves
<1> QED BY <1>5, <1>6, <1>7, <1>8 DEF Step

LEMMA AlwaysWatchInv == Spec => []WatchInv
<1> QED BY InitWatchInv, NextWatchInv, AlwaysTypeInv, PTL DEF Spec

\* Before its time a key is deleted only by the unlock() of its own client, for
\* all the commands of others between its GET and its EXEC.
THEOREM UnlockDeletesOwn == Spec => OnlyOwnerDeletes
<1> DEFINE Ok(m, c) ==
              key[m].val = c /\ key'[m].val # c
              => key[m].exp <= now + Drift \/ (pc[c] = "unlocking" /\ val[c] = c)
<1>1. TypeInv /\ WatchInv /\ [Next]_vars => [\A m \in Masters, c \in Clients : Ok(m, c)]_vars
  <2> SUFFICES ASSUME TypeInv, WatchInv, Next, NEW m \in Masters, NEW c \in Clients
               PROVE  Ok(m, c)
    OBVIOUS
  <2>1. ASSUME NEW d \in Clients, Step(d) PROVE Ok(m, c)
    <3>1. KeyMoves(d, m)
      BY <2>1, StepKeyMoves
    <3> QED BY <3>1, LockAssumption DEF KeyMoves
  <2>2. CASE Environment
    BY <2>2 DEF Environment, Tick, Expire, TypeInv, TypeOK, MastersTypeOK
  <2> QED BY <2>1, <2>2 DEF Next
<1> QED BY <1>1, AlwaysTypeInv, AlwaysWatchInv, PTL DEF Spec, OnlyOwnerDeletes

-----------------------------------------------------------------------------
(* Who holds the lock, if the clocks do not drift.                         *)

LEMMA KeptByStep ==
    ASSUME TypeInv, WatchInv, NEW c \in Clients, NEW d \in Clients, Step(c),
           d # c \/ pc[c] # "unlocking", NEW t \in Nat, t <= now + Ttl
    PROVE  Kept(d, t) \subseteq Kept(d, t)'
<1> SUFFICES ASSUME NEW m \in Masters, key[m].val = d, key[m].exp >= t
             PROVE  key'[m].val = d /\ key'[m].exp >= t
  BY DEF Kept, LockedBy
<1>1. KeyMoves(c, m)
  BY StepKeyMoves
<1> QED BY <1>1, LockAssumption DEF KeyMoves

LEMMA KeptInTime ==
    ASSUME TypeInv, Drift = 0, Environment, NEW c \in Clients, NEW t \in Nat, now < t
    PROVE  Kept(c, t) \subseteq Kept(c, t)'
<1> USE DEF TypeInv, TypeOK, MastersTypeOK
<1> SUFFICES ASSUME NEW m \in Masters, key[m].val = c, key[m].exp >= t PROVE key'[m] = key[m]
  BY DEF Kept, LockedBy
<1>1. CASE Tick
  BY <1>1 DEF Tick
<1>2. ASSUME NEW n \in Masters, Expire(n) PROVE key'[m] = key[m]
  <2>1. key[m].exp \in Nat /\ now \in Nat
    BY LockAssumption
  <2>2. n # m
    BY <1>2, <2>1 DEF Expire
  <2> QED BY <1>2, <2>2 DEF Expire
<1> QED BY <1>1, <1>2 DEF Environment

\* While there is time left, every master that try_lock() has counted keeps the
\* key for a ttl from the start of the call.
CountedKept(c) ==
    pc[c] = "locking" /\ TimeLeft(c) => got[c] \subseteq Kept(c, start[c] + Ttl)

Backed(c) == c \notin extended /\ Holds(c) => IsQuorum(Kept(c, until[c]))

QuorumInv == \A c \in Clients : CountedKept(c) /\ Backed(c)

LEMMA InitQuorumInv == Init => QuorumInv
  BY DEF Init, MastersInit, ClientsInit, QuorumInv, CountedKept, Backed, Holds

\* A client whose variables stay as they are, and whose keys stay where they
\* are kept.
LEMMA StillBacked ==
    ASSUME TypeInv, QuorumInv, NEW c \in Clients,
           now \in Nat, now' \in Nat, now <= now',
           until'[c] = until[c], c \in extended /\ until[c] # 0 => c \in extended',
           \A t \in Nat : t <= now + Ttl /\ now < t => Kept(c, t) \subseteq Kept(c, t)'
    PROVE  Backed(c)'
<1> USE LockAssumption
<1> SUFFICES ASSUME c \notin extended', now' < until[c] PROVE IsQuorum(Kept(c, until[c])')
  BY DEF Backed, Holds, IsQuorum
<1>1. until[c] \in Nat /\ until[c] <= now + Ttl /\ now < until[c]
  BY DEF TypeInv, TypeOK, ClientsTypeOK, LocalInv, Local
<1>2. IsQuorum(Kept(c, until[c]))
  BY <1>1 DEF QuorumInv, Backed, Holds
<1>3. Kept(c, until[c]) \subseteq Kept(c, until[c])' /\ Kept(c, until[c])' \in SUBSET Masters
  BY <1>1 DEF Kept, LockedBy
<1> QED BY <1>2, <1>3, QuorumGrows

LEMMA StillCounted ==
    ASSUME TypeInv, QuorumInv, NEW c \in Clients,
           now \in Nat, now' \in Nat, now <= now',
           pc'[c] = pc[c], got'[c] = got[c], start'[c] = start[c],
           \A t \in Nat : t <= now + Ttl /\ now < t => Kept(c, t) \subseteq Kept(c, t)'
    PROVE  CountedKept(c)'
<1> USE LockAssumption
<1> SUFFICES ASSUME pc[c] = "locking", now' < start[c] + Ttl
             PROVE  got[c] \subseteq Kept(c, start[c] + Ttl)'
  BY DEF CountedKept, TimeLeft, ValidUntil
<1>1. start[c] \in Nat /\ start[c] <= now
  BY DEF TypeInv, TypeOK, ClientsTypeOK, LocalInv, Local
<1>2. PICK t \in Nat : t = start[c] + Ttl
  BY <1>1
<1>3. now < t /\ t <= now + Ttl
  BY <1>1, <1>2
<1>4. got[c] \subseteq Kept(c, t)
  BY <1>2, <1>3 DEF QuorumInv, CountedKept, TimeLeft, ValidUntil
<1> QED BY <1>2, <1>3, <1>4

\* What a step does to the lock and to the counted masters of its client.
LEMMA StepOwn ==
    ASSUME TypeInv, NEW c \in Clients, Step(c)
    PROVE  /\ until'[c] \in {until[c], 0} \/ Grant(c)
           /\ \/ pc'[c] # "locking"
              \/ got'[c] = {}
              \/ \E m \in Masters : LockMaster(c, m)
<1> USE DEF TypeInv, TypeOK, ClientsTypeOK
<1>1. CASE BeginLock(c) \/ GiveUp(c) \/ BeginExtend(c) \/ BeginUnlock(c)
  BY <1>1 DEF BeginLock, GiveUp, BeginExtend, BeginUnlock, Visit
<1>2. CASE Grant(c) \/ UnlockDone(c)
  BY <1>2 DEF Grant, UnlockDone, Return
<1>3. CASE \E m \in Masters : LockMaster(c, m) \/ LockThrows(c, m) \/ ExtendLeaves(c, m)
  BY <1>3 DEF LockMaster, LockThrows, ExtendLeaves, Return
<1>4. CASE \E m \in Masters : ExtendWatch(c, m) \/ ExtendExec(c, m) \/ ExtendThrows(c, m)
  BY <1>4 DEF ExtendWatch, ExtendExec, ExtendThrows
<1>5. CASE \E m \in Masters : UnlockWatch(c, m) \/ UnlockExec(c, m) \/ UnlockThrows(c, m)
  BY <1>5 DEF UnlockWatch, UnlockExec, UnlockThrows
<1> QED BY <1>1, <1>2, <1>3, <1>4, <1>5 DEF Step

\* The client that takes the step has counted only masters where it has set
\* the key after the start of its call.
LEMMA CountedOfOwn ==
    ASSUME TypeInv, WatchInv, QuorumInv, NEW c \in Clients, Step(c)
    PROVE  CountedKept(c)'
<1> USE LockAssumption
<1>1. CASE pc'[c] # "locking" \/ got'[c] = {}
  BY <1>1 DEF CountedKept
<1>2. ASSUME NEW n \in Masters, LockMaster(c, n) PROVE CountedKept(c)'
  <2>1. pc[c] = "locking" /\ UNCHANGED <<now, pc, start>>
    BY <1>2 DEF LockMaster
  <2> SUFFICES ASSUME now < start[c] + Ttl PROVE got'[c] \subseteq Kept(c, start[c] + Ttl)'
    BY <2>1 DEF CountedKept, TimeLeft, ValidUntil
  <2>2. start[c] \in Nat /\ now \in Nat /\ start[c] <= now
    BY DEF TypeInv, TypeOK, MastersTypeOK, ClientsTypeOK, LocalInv, Local
  <2>3. PICK t \in Nat : t = start[c] + Ttl
    BY <2>2
  <2>4. t <= now + Ttl
    BY <2>2, <2>3
  <2>5. got[c] \subseteq Kept(c, t)
    BY <2>1, <2>3 DEF QuorumInv, CountedKept, TimeLeft, ValidUntil
  <2>6. Kept(c, t) \subseteq Kept(c, t)'
    BY <2>1, <2>4, KeptByStep
  <2>7. CASE got'[c] = got[c]
    BY <2>1, <2>3, <2>5, <2>6, <2>7
  <2>8. CASE got'[c] # got[c]
    <3>1. got'[c] = got[c] \cup {n} /\ key'[n].val = c /\ key'[n].exp = now + Ttl
      BY <1>2, <2>8 DEF LockMaster, SetNotExist, Visited,
                        TypeInv, TypeOK, MastersTypeOK, ClientsTypeOK
    <3>2. n \in Kept(c, t)'
      BY <2>4, <3>1 DEF Kept, LockedBy
    <3> QED BY <2>1, <2>3, <2>5, <2>6, <3>1, <3>2
  <2> QED BY <2>7, <2>8
<1> QED BY <1>1, <1>2, StepOwn

\* A lock that the client keeps stays backed; one that try_lock() grants is
\* backed by the masters it has counted, and one of extend_lock() is marked.
LEMMA BackedOfOwn ==
    ASSUME TypeInv, WatchInv, QuorumInv, NEW c \in Clients, Step(c), Remember
    PROVE  Backed(c)'
<1> USE LockAssumption
<1>1. now' = now /\ now \in Nat /\ until[c] \in Nat
  BY StepLocal DEF Alone, TypeInv, TypeOK, MastersTypeOK, ClientsTypeOK
<1>2. CASE until'[c] = 0
  BY <1>1, <1>2 DEF Backed, Holds
<1>3. CASE until'[c] = until[c] /\ until[c] # 0
  <2>1. pc[c] # "unlocking"
    BY <1>3 DEF TypeInv, LocalInv, Local
  <2>2. \A t \in Nat : t <= now + Ttl => Kept(c, t) \subseteq Kept(c, t)'
    BY <2>1, KeptByStep
  <2>3. c \in extended => c \in extended'
    BY <1>3 DEF Remember
  <2> QED BY <1>1, <1>3, <2>2, <2>3, StillBacked
<1>4. CASE Grant(c)
  <2>1. UNCHANGED key /\ until'[c] = ValidUntil(c) /\ pc'[c] = "out" /\ ~threw'[c]
    BY <1>4 DEF Grant, Return, TypeInv, TypeOK, ClientsTypeOK
  <2>2. TimeLeft(c) /\ IsQuorum(got[c]) /\ pc[c] \in {"locking", "extending"}
    BY <1>4 DEF Grant, Counted
  <2>3. ValidUntil(c) # 0
    BY <1>1, <2>2 DEF TimeLeft
  <2>4. CASE pc[c] = "extending"
    BY <2>1, <2>3, <2>4 DEF Remember, Backed
  <2>5. CASE pc[c] = "locking"
    <3>1. got[c] \subseteq Kept(c, start[c] + Ttl)
      BY <2>2, <2>5 DEF QuorumInv, CountedKept
    <3>2. Kept(c, start[c] + Ttl) \in SUBSET Masters
      BY DEF Kept, LockedBy
    <3>3. IsQuorum(Kept(c, start[c] + Ttl))
      BY <2>2, <3>1, <3>2, QuorumGrows
    <3>4. Kept(c, until[c])' = Kept(c, start[c] + Ttl)
      BY <2>1 DEF Kept, LockedBy, ValidUntil
    <3> QED BY <3>3, <3>4 DEF Backed, IsQuorum
  <2> QED BY <2>2, <2>4, <2>5
<1> QED BY <1>2, <1>3, <1>4, StepOwn

LEMMA NextQuorumInv ==
    ASSUME Drift = 0, TypeInv, WatchInv, QuorumInv, [Next]_vars
    PROVE  QuorumInv'
<1>1. CASE UNCHANGED vars
  BY <1>1 DEF vars, clientVars, QuorumInv, CountedKept, Backed, Holds, Kept, LockedBy,
              TimeLeft, ValidUntil
<1>2. ASSUME Next, NEW c \in Clients, Step(c), NEW d \in Clients
      PROVE  CountedKept(d)' /\ Backed(d)'
  <2>1. CASE d = c
    BY <1>2, <2>1, CountedOfOwn, BackedOfOwn DEF Next
  <2>2. CASE d # c
    <3>1. /\ now' = now /\ now \in Nat
          /\ pc'[d] = pc[d] /\ got'[d] = got[d] /\ start'[d] = start[d] /\ until'[d] = until[d]
      BY <1>2, <2>2, StepLocal, LockAssumption
         DEF Alone, TypeInv, TypeOK, MastersTypeOK
    <3>2. \A t \in Nat : t <= now + Ttl => Kept(d, t) \subseteq Kept(d, t)'
      BY <1>2, <2>2, KeptByStep
    <3>3. d \in extended /\ until[d] # 0 => d \in extended'
      BY <1>2, <3>1 DEF Next, Remember
    <3> QED BY <3>1, <3>2, <3>3, StillBacked, StillCounted
  <2> QED BY <2>1, <2>2
<1>3. ASSUME Next, Environment, NEW d \in Clients PROVE CountedKept(d)' /\ Backed(d)'
  <2>1. UNCHANGED clientVars /\ now \in Nat /\ now' \in Nat /\ now <= now'
    BY <1>3, LockAssumption DEF Environment, Tick, Expire, TypeInv, TypeOK, MastersTypeOK
  <2>2. \A t \in Nat : now < t => Kept(d, t) \subseteq Kept(d, t)'
    BY <1>3, KeptInTime
  <2>3. d \in extended /\ until[d] # 0 => d \in extended'
    BY <1>3, <2>1 DEF Next, Remember, clientVars
  <2>4. pc'[d] = pc[d] /\ got'[d] = got[d] /\ start'[d] = start[d] /\ until'[d] = until[d]
    BY <2>1 DEF clientVars
  <2> QED BY <2>1, <2>2, <2>3, <2>4, StillBacked, StillCounted
<1> QED BY <1>1, <1>2, <1>3 DEF Next, QuorumInv

\* A lock that try_lock() granted and nobody has extended is there on a quorum
\* until its time is over, if the clocks of the masters are not fast: the code
\* allows for no drift.
THEOREM FirstLockIsHeldByQuorum ==
    ASSUME Drift = 0
    PROVE  Spec => []FirstLockIsBacked
<1>1. TypeInv /\ WatchInv /\ QuorumInv /\ [Next]_vars => QuorumInv'
  BY NextQuorumInv
<1>2. TypeInv /\ QuorumInv => FirstLockIsBacked
  <2> SUFFICES ASSUME TypeInv, QuorumInv, NEW c \in Clients \ extended, Holds(c)
               PROVE  IsQuorum(Kept(c, until[c] + Drift))
    BY DEF FirstLockIsBacked
  <2>1. until[c] + Drift = until[c]
    BY LockAssumption DEF TypeInv, TypeOK, ClientsTypeOK
  <2> QED BY <2>1 DEF QuorumInv, Backed
<1> QED BY <1>1, <1>2, InitQuorumInv, AlwaysTypeInv, AlwaysWatchInv, PTL DEF Spec
=============================================================================
