--------------------------- MODULE RedLock_proofs ---------------------------
(***************************************************************************)
(* Proofs about RedLockMutex, for any number of clients and masters, any   *)
(* order of the masters, any ttl and drift, and any number of attempts:    *)
(* its type, that a valid lock is held on a quorum, that there is at most  *)
(* one, and that clients clean up and delete only what is theirs. Then     *)
(* about the guard RedLock on top of it, and, in the last part, about the  *)
(* thread that extends the locks of RedMutex objects (LockWatcher).        *)
(***************************************************************************)
EXTENDS RedLock, LockWatcher, FiniteSetTheorems, TLAPS

Unlocking == {"retrying", "abandoning", "unlocking"}

-----------------------------------------------------------------------------
(* Quorums.                                                                *)

\* What contains a quorum is a quorum.
LEMMA QuorumGrows ==
    ASSUME NEW S \in SUBSET Masters, NEW T \in SUBSET S, IsQuorum(T)
    PROVE  IsQuorum(S)
<1>1. IsFiniteSet(Masters)
  BY LockAssumption
<1>2. IsFiniteSet(S)
  BY <1>1, FS_Subset
<1>3. Cardinality(T) <= Cardinality(S)
  BY <1>2, FS_Subset
<1>4. IsFiniteSet(T)
  BY <1>2, FS_Subset
<1>5. Cardinality(S) \in Nat /\ Cardinality(T) \in Nat /\ Cardinality(Masters) \in Nat
  BY <1>1, <1>2, <1>4, FS_CardinalityType
<1> QED BY <1>3, <1>5 DEF IsQuorum

\* Two quorums have a master in common.
LEMMA QuorumsMeet ==
    ASSUME NEW S \in SUBSET Masters, NEW T \in SUBSET Masters, IsQuorum(S), IsQuorum(T)
    PROVE  S \cap T # {}
<1>1. IsFiniteSet(Masters)
  BY LockAssumption
<1>2. IsFiniteSet(S) /\ IsFiniteSet(T)
  BY <1>1, FS_Subset
<1>3. Cardinality(S) \in Nat /\ Cardinality(T) \in Nat /\ Cardinality(Masters) \in Nat
  BY <1>1, <1>2, FS_CardinalityType
<1>4. Cardinality(S) + Cardinality(T) > Cardinality(Masters)
  BY <1>3 DEF IsQuorum
<1> QED BY <1>1, <1>4, FS_MajoritiesIntersect

-----------------------------------------------------------------------------
(* The type.                                                               *)

\* What a client knows of its own: the time it began, that another attempt is
\* left when it prepares one, and that outside of extend_lock() a client in a
\* call has no lock.
Local(c) ==
    /\ start[c] <= now
    /\ pc[c] = "retrying" => tries[c] < RetryCount
    /\ pc[c] \notin {"out", "extending"} => until[c] = 0
    /\ until[c] # 0 => until[c] + Drift <= now + Ttl

LocalInv == \A c \in Clients : Local(c)

TypeInv == TypeOK /\ LocalInv

LEMMA InitTypeInv == Init => TypeInv
  BY LockAssumption, RetryAssumption
     DEF Init, MastersInit, ClientsInit, TypeInv, TypeOK, MastersTypeOK, ClientsTypeOK,
         NoKey, Locations, LocalInv, Local

\* The arithmetic of a grant.
LEMMA GrantTimes ==
    ASSUME TypeInv, NEW c \in Clients, TimeLeft(c)
    PROVE  /\ ValidUntil(c) \in 1..MaxTime + Ttl
           /\ ValidUntil(c) + Drift = start[c] + Ttl
           /\ ValidUntil(c) + Drift <= now + Ttl
           /\ now < ValidUntil(c)
<1>1. start[c] \in 0..MaxTime /\ now \in 0..MaxTime /\ start[c] <= now
  BY DEF TypeInv, TypeOK, MastersTypeOK, ClientsTypeOK, LocalInv, Local
<1> QED BY <1>1, LockAssumption DEF TimeLeft, ValidUntil

\* A command to a master keeps the type of the keys.
LEMMA KeyType ==
    ASSUME MastersTypeOK, NEW c \in Clients, NEW m \in Masters,
           SetNotExist(m, c) \/ ExtendKey(m, c) \/ DeleteKey(m, c)
    PROVE  key' \in [Masters -> [val : Clients \cup {Nobody}, exp : 0..MaxTime + Ttl]]
<1>1. now + Ttl \in 0..MaxTime + Ttl /\ 0 \in 0..MaxTime + Ttl
  BY LockAssumption DEF MastersTypeOK
<1>2. CASE SetNotExist(m, c)
  BY <1>1, <1>2 DEF SetNotExist, MastersTypeOK
<1>3. CASE ExtendKey(m, c)
  BY <1>1, <1>3 DEF ExtendKey, MastersTypeOK
<1>4. CASE DeleteKey(m, c)
  BY <1>1, <1>4 DEF DeleteKey, NoKey, MastersTypeOK
<1> QED BY <1>2, <1>3, <1>4

\* The clients that do not take a step keep what they know.
LEMMA LocalOfOthers ==
    ASSUME TypeInv, NEW c \in Clients, Local(c)',
           now' = now,
           \A d \in Clients \ {c} : /\ start'[d] = start[d] /\ pc'[d] = pc[d]
                                    /\ tries'[d] = tries[d] /\ until'[d] = until[d]
    PROVE  LocalInv'
  BY DEF TypeInv, LocalInv, Local

LEMMA NextTypeInv == TypeInv /\ [Next]_vars => TypeInv'
<1> SUFFICES ASSUME TypeInv, [Next]_vars PROVE TypeInv'
  OBVIOUS
<1> USE LockAssumption, RetryAssumption
<1>1. ASSUME NEW c \in Clients, Step(c) PROVE TypeInv'
  <2> USE DEF TypeInv, TypeOK, MastersTypeOK, ClientsTypeOK, Locations
  <2>0. Local(c) /\ now \in Nat /\ start[c] \in Nat /\ tries[c] \in Nat /\ until[c] \in Nat
    BY DEF LocalInv
  <2>1. CASE BeginLock(c)
    <3>1. TypeOK'
      BY <2>1 DEF BeginLock, Visit
    <3>2. Local(c)'
      BY <2>1, <2>0 DEF BeginLock, Visit, Local
    <3> QED BY <3>1, <3>2, <2>1, LocalOfOthers DEF BeginLock, Visit
  <2>2. CASE LockSucceeds(c) \/ ExtendSucceeds(c)
    <3>0. /\ Grant(c)
          /\ ValidUntil(c) \in 1..MaxTime + Ttl
          /\ ValidUntil(c) + Drift <= now + Ttl
      BY <2>2, GrantTimes DEF LockSucceeds, ExtendSucceeds
    <3>1. TypeOK'
      BY <3>0 DEF Grant, Return
    <3>2. Local(c)'
      BY <3>0, <2>0 DEF Grant, Return, Local
    <3> QED BY <3>0, <3>1, <3>2, LocalOfOthers DEF Grant, Return
  <2>3. CASE LockFails(c)
    <3>1. TypeOK'
      BY <2>3 DEF LockFails, Visit
    <3>2. Local(c)'
      BY <2>3, <2>0 DEF LockFails, Visit, Local
    <3> QED BY <3>1, <3>2, <2>3, LocalOfOthers DEF LockFails, Visit
  <2>4. CASE Retry(c)
    <3>1. TypeOK'
      BY <2>4, <2>0 DEF Retry, Visit, Local
    <3>2. Local(c)'
      BY <2>4, <2>0 DEF Retry, Visit, Local
    <3> QED BY <3>1, <3>2, <2>4, LocalOfOthers DEF Retry, Visit
  <2>5. CASE BeginExtend(c)
    <3>1. TypeOK'
      BY <2>5 DEF BeginExtend, Visit
    <3>2. Local(c)'
      BY <2>5, <2>0 DEF BeginExtend, Visit, Local
    <3> QED BY <3>1, <3>2, <2>5, LocalOfOthers DEF BeginExtend, Visit
  <2>6. CASE ExtendFails(c)
    <3>1. TypeOK'
      BY <2>6 DEF ExtendFails, Visit
    <3>2. Local(c)'
      BY <2>6, <2>0 DEF ExtendFails, Visit, Local
    <3> QED BY <3>1, <3>2, <2>6, LocalOfOthers DEF ExtendFails, Visit
  <2>7. CASE BeginUnlock(c)
    <3>1. TypeOK'
      BY <2>7 DEF BeginUnlock, Visit
    <3>2. Local(c)'
      BY <2>7, <2>0 DEF BeginUnlock, Visit, Local
    <3> QED BY <3>1, <3>2, <2>7, LocalOfOthers DEF BeginUnlock, Visit
  <2>8. CASE UnlockDone(c)
    <3>1. TypeOK'
      BY <2>8 DEF UnlockDone, Return
    <3>2. Local(c)'
      BY <2>8, <2>0 DEF UnlockDone, Return, Local
    <3> QED BY <3>1, <3>2, <2>8, LocalOfOthers DEF UnlockDone, Return
  <2>9. ASSUME NEW m \in Masters, LockInstance(c, m) \/ ExtendInstance(c, m) \/ UnlockInstance(c, m)
        PROVE  TypeInv'
    <3>1. key' \in [Masters -> [val : Clients \cup {Nobody}, exp : 0..MaxTime + Ttl]]
      BY <2>9, KeyType DEF LockInstance, ExtendInstance, UnlockInstance
    <3>2. todo' = [todo EXCEPT ![c] = @ \ {m}]
      BY <2>9 DEF LockInstance, ExtendInstance, UnlockInstance
    <3>3. got' \in [Clients -> SUBSET Masters]
      <4>1. PICK G \in SUBSET Masters : got' = [got EXCEPT ![c] = G]
        <5>1. /\ got[c] \in SUBSET Masters
              /\ got[c] \cup {m} \in SUBSET Masters
              /\ got = [got EXCEPT ![c] = got[c]]
          OBVIOUS
        <5> QED BY <2>9, <5>1 DEF LockInstance, ExtendInstance, UnlockInstance
      <4> QED BY <4>1
    <3>4. UNCHANGED <<now, pc, start, tries, until, threw>>
      BY <2>9 DEF LockInstance, ExtendInstance, UnlockInstance
    <3>5. todo' \in [Clients -> SUBSET Masters]
      BY <3>2
    <3>6. TypeOK'
      BY <3>1, <3>3, <3>4, <3>5
    <3>7. LocalInv'
      BY <3>4 DEF LocalInv, Local
    <3> QED BY <3>6, <3>7
  <2>10. ASSUME NEW m \in Masters, CommandFails(c, m) PROVE TypeInv'
    <3>1. key' \in [Masters -> [val : Clients \cup {Nobody}, exp : 0..MaxTime + Ttl]]
      BY <2>10, KeyType DEF CommandFails
    <3>2. TypeOK'
      BY <2>10, <3>1 DEF CommandFails, Return
    <3>3. Local(c)'
      BY <2>10, <2>0 DEF CommandFails, Return, Local
    <3> QED BY <3>2, <3>3, <2>10, LocalOfOthers DEF CommandFails, Return
  <2> QED
    BY <1>1, <2>1, <2>2, <2>3, <2>4, <2>5, <2>6, <2>7, <2>8, <2>9, <2>10 DEF Step
<1>2. CASE Environment
  <2>0. MastersTypeOK'
    BY <1>2 DEF Environment, Tick, Expire, TypeInv, TypeOK, MastersTypeOK, NoKey
  <2>1. TypeOK'
    BY <1>2, <2>0 DEF Environment, TypeInv, TypeOK, ClientsTypeOK, clientVars
  <2>2. now' \in Nat /\ now \in Nat /\ now <= now'
    BY <1>2 DEF Environment, Tick, Expire, TypeInv, TypeOK, MastersTypeOK, ClientsTypeOK
  <2>3. LocalInv'
    BY <1>2, <2>2
       DEF Environment, TypeInv, TypeOK, ClientsTypeOK, LocalInv, Local, clientVars
  <2> QED BY <2>1, <2>3 DEF TypeInv
<1>3. CASE UNCHANGED vars
  BY <1>3 DEF vars, clientVars, TypeInv, TypeOK, MastersTypeOK, ClientsTypeOK,
              LocalInv, Local
<1> QED BY <1>1, <1>2, <1>3 DEF Next

\* The variables always have their types; so RetryCount bounds the attempts, no
\* key outlives its ttl, and no lock is granted for longer than ttl - drift.
THEOREM TypeCorrect == Spec => []TypeInv
<1> QED BY InitTypeInv, NextTypeInv, PTL DEF Spec

THEOREM TypeSafe == Spec => []TypeOK
<1>1. TypeInv => TypeOK
  BY DEF TypeInv
<1> QED BY <1>1, TypeCorrect, PTL

-----------------------------------------------------------------------------
(* Who holds the lock.                                                     *)

\* What a step of a client does to a key: it creates its own, sets the expiry
\* of its own, or deletes its own.
KeyMoves(c, m) ==
    \/ key'[m] = key[m]
    \/ pc[c] = "locking" /\ key[m].val = Nobody /\ key'[m] = [val |-> c, exp |-> now + Ttl]
    \/ pc[c] = "extending" /\ key[m].val = c /\ key'[m].val = c /\ key'[m].exp = now + Ttl
    \/ pc[c] \in Unlocking /\ key[m].val = c /\ key'[m].val = Nobody

LEMMA StepKeyMoves ==
    ASSUME TypeInv, NEW c \in Clients, Step(c)
    PROVE  now' = now /\ \A m \in Masters : KeyMoves(c, m)
<1> USE DEF TypeInv, TypeOK, MastersTypeOK, ClientsTypeOK, KeyMoves, Unlocking
<1>1. ASSUME UNCHANGED key PROVE \A m \in Masters : KeyMoves(c, m)
  BY <1>1
<1>2. ASSUME NEW n \in Masters, pc[c] = "locking", SetNotExist(n, c)
      PROVE  \A m \in Masters : KeyMoves(c, m)
  BY <1>2 DEF SetNotExist
<1>3. ASSUME NEW n \in Masters, pc[c] = "extending", ExtendKey(n, c)
      PROVE  \A m \in Masters : KeyMoves(c, m)
  BY <1>3 DEF ExtendKey
<1>4. ASSUME NEW n \in Masters, pc[c] \in Unlocking, DeleteKey(n, c)
      PROVE  \A m \in Masters : KeyMoves(c, m)
  BY <1>4 DEF DeleteKey, NoKey
<1>5. CASE \E n \in Masters :
              LockInstance(c, n) \/ ExtendInstance(c, n) \/ UnlockInstance(c, n)
  BY <1>5, <1>2, <1>3, <1>4 DEF LockInstance, ExtendInstance, UnlockInstance
<1>6. CASE \E n \in Masters : CommandFails(c, n)
  BY <1>6, <1>1, <1>2, <1>3, <1>4 DEF CommandFails
<1>7. CASE \/ BeginLock(c) \/ LockSucceeds(c) \/ LockFails(c) \/ Retry(c) \/ BeginExtend(c)
           \/ ExtendSucceeds(c) \/ ExtendFails(c) \/ BeginUnlock(c) \/ UnlockDone(c)
  <2>1. UNCHANGED <<now, key>>
    BY <1>7 DEF BeginLock, LockSucceeds, LockFails, Retry, BeginExtend, ExtendSucceeds,
                ExtendFails, BeginUnlock, UnlockDone, Grant
  <2> QED BY <2>1, <1>1
<1> QED BY <1>5, <1>6, <1>7 DEF Step

\* A step leaves alone the keys of the other clients, and makes no key of its
\* own client shorter unless that client is unlocking.
LEMMA KeptByStep ==
    ASSUME TypeInv, NEW c \in Clients, NEW d \in Clients, Step(c),
           d # c \/ pc[c] \notin Unlocking, NEW t \in Nat, t <= now + Ttl
    PROVE  Kept(d, t) \subseteq Kept(d, t)'
<1> SUFFICES ASSUME NEW m \in Masters, key[m].val = d, key[m].exp >= t
             PROVE  key'[m].val = d /\ key'[m].exp >= t
  BY DEF Kept, LockedBy
<1>1. KeyMoves(c, m)
  BY StepKeyMoves
<1> QED BY <1>1, LockAssumption DEF KeyMoves

\* What a step does to the lock and to the counted masters of its client.
LEMMA StepOwn ==
    ASSUME TypeInv, NEW c \in Clients, Step(c)
    PROVE  /\ \A d \in Clients \ {c} :
                 /\ pc'[d] = pc[d] /\ got'[d] = got[d] /\ start'[d] = start[d]
                 /\ until'[d] = until[d] /\ todo'[d] = todo[d] /\ threw'[d] = threw[d]
           /\ \/ until'[c] \in {until[c], 0}
              \/ /\ Grant(c)
                 /\ TimeLeft(c)
                 /\ IsQuorum(got[c])
                 /\ pc[c] \in {"locking", "extending"}
           /\ \/ pc'[c] \notin {"locking", "extending"}
              \/ got'[c] = {}
              \/ \E m \in Masters : LockInstance(c, m) \/ ExtendInstance(c, m)
<1> USE DEF TypeInv, TypeOK, ClientsTypeOK
<1>1. CASE BeginLock(c)
  BY <1>1 DEF BeginLock, Visit
<1>2. CASE LockSucceeds(c) \/ ExtendSucceeds(c)
  BY <1>2 DEF LockSucceeds, ExtendSucceeds, Grant, Return
<1>3. CASE LockFails(c)
  BY <1>3 DEF LockFails, Visit
<1>4. CASE Retry(c)
  BY <1>4 DEF Retry, Visit
<1>5. CASE BeginExtend(c)
  BY <1>5 DEF BeginExtend, Visit
<1>6. CASE ExtendFails(c)
  BY <1>6 DEF ExtendFails, Visit
<1>7. CASE BeginUnlock(c)
  BY <1>7 DEF BeginUnlock, Visit
<1>8. CASE UnlockDone(c)
  BY <1>8 DEF UnlockDone, Return
<1>9. CASE \E m \in Masters : LockInstance(c, m) \/ ExtendInstance(c, m)
  BY <1>9 DEF LockInstance, ExtendInstance
<1>10. CASE \E m \in Masters : UnlockInstance(c, m)
  BY <1>10 DEF UnlockInstance
<1>11. CASE \E m \in Masters : CommandFails(c, m)
  BY <1>11 DEF CommandFails, Return
<1> QED
  BY <1>1, <1>2, <1>3, <1>4, <1>5, <1>6, <1>7, <1>8, <1>9, <1>10, <1>11 DEF Step

\* While there is time left, every master a loop has counted keeps the key for
\* a ttl from the start of the call.
Counted(c) ==
    pc[c] \in {"locking", "extending"} /\ TimeLeft(c) => got[c] \subseteq Kept(c, start[c] + Ttl)

Backed(c) == Holds(c) => IsQuorum(Kept(c, until[c] + Drift))

QuorumInv == \A c \in Clients : Counted(c) /\ Backed(c)

LEMMA InitQuorumInv == Init => QuorumInv
  BY DEF Init, MastersInit, ClientsInit, QuorumInv, Counted, Backed, Holds

\* The clients that do not take the step.
LEMMA QuorumOfOthers ==
    ASSUME TypeInv, QuorumInv, NEW c \in Clients, Step(c), NEW d \in Clients \ {c}
    PROVE  Counted(d)' /\ Backed(d)'
<1> USE LockAssumption
<1>1. /\ pc'[d] = pc[d] /\ got'[d] = got[d] /\ start'[d] = start[d] /\ until'[d] = until[d]
      /\ now' = now
  BY StepOwn, StepKeyMoves
<1>2. /\ start[d] \in Nat /\ until[d] \in Nat /\ now \in Nat
      /\ start[d] <= now /\ (until[d] # 0 => until[d] + Drift <= now + Ttl)
  BY DEF TypeInv, TypeOK, MastersTypeOK, ClientsTypeOK, LocalInv, Local
<1>3. Counted(d)'
  <2>1. PICK t \in Nat : t = start[d] + Ttl
    BY <1>2
  <2>2. t <= now + Ttl
    BY <2>1, <1>2
  <2>3. Kept(d, t) \subseteq Kept(d, t)'
    BY <2>2, KeptByStep
  <2>4. Counted(d)
    BY DEF QuorumInv
  <2> QED BY <1>1, <2>1, <2>3, <2>4 DEF Counted, TimeLeft
<1>4. Backed(d)'
  <2> SUFFICES ASSUME now < until[d] PROVE IsQuorum(Kept(d, until[d] + Drift))'
    BY <1>1 DEF Backed, Holds
  <2>1. PICK t \in Nat : t = until[d] + Drift
    BY <1>2
  <2>2. t <= now + Ttl
    BY <2>1, <1>2
  <2>3. Kept(d, t) \subseteq Kept(d, t)'
    BY <2>2, KeptByStep
  <2>4. IsQuorum(Kept(d, t))
    BY <2>1 DEF QuorumInv, Backed, Holds
  <2>5. Kept(d, t)' \in SUBSET Masters
    BY DEF Kept, LockedBy
  <2>6. IsQuorum(Kept(d, t)')
    BY <2>3, <2>4, <2>5, QuorumGrows
  <2> QED BY <1>1, <2>1, <2>6 DEF IsQuorum
<1> QED BY <1>3, <1>4

\* The client that takes the step has counted only masters it locked or
\* extended after the start of its call.
LEMMA CountedOfOwn ==
    ASSUME TypeInv, QuorumInv, NEW c \in Clients, Step(c)
    PROVE  Counted(c)'
<1> USE LockAssumption
<1>1. CASE pc'[c] \notin {"locking", "extending"} \/ got'[c] = {}
  BY <1>1 DEF Counted
<1>2. ASSUME NEW n \in Masters, LockInstance(c, n) \/ ExtendInstance(c, n)
      PROVE  Counted(c)'
  <2>1. /\ pc[c] \in {"locking", "extending"}
        /\ UNCHANGED <<now, pc, start>>
    BY <1>2 DEF LockInstance, ExtendInstance
  <2> SUFFICES ASSUME TimeLeft(c) PROVE got'[c] \subseteq Kept(c, start[c] + Ttl)'
    BY <2>1 DEF Counted, TimeLeft
  <2>2. start[c] \in Nat /\ now \in Nat /\ start[c] <= now
    BY DEF TypeInv, TypeOK, MastersTypeOK, ClientsTypeOK, LocalInv, Local
  <2>3. PICK t \in Nat : t = start[c] + Ttl
    BY <2>2
  <2>4. t <= now + Ttl
    BY <2>2, <2>3
  <2>5. got[c] \subseteq Kept(c, t)
    BY <2>1, <2>3 DEF QuorumInv, Counted
  <2>6. Kept(c, t) \subseteq Kept(c, t)'
    <3>1. pc[c] \notin Unlocking
      BY <2>1 DEF Unlocking
    <3> QED BY <2>4, <3>1, KeptByStep
  <2>7. CASE got'[c] = got[c]
    BY <2>1, <2>3, <2>5, <2>6, <2>7
  <2>8. CASE got'[c] # got[c]
    <3>1. /\ got'[c] = got[c] \cup {n}
          /\ key'[n].val = c
          /\ key'[n].exp = now + Ttl
      BY <1>2, <2>8 DEF LockInstance, ExtendInstance, SetNotExist, ExtendKey,
                        TypeInv, TypeOK, MastersTypeOK, ClientsTypeOK
    <3>2. n \in Kept(c, t)'
      BY <2>4, <3>1 DEF Kept, LockedBy
    <3> QED BY <2>1, <2>3, <2>5, <2>6, <3>1, <3>2
  <2> QED BY <2>7, <2>8
<1> QED BY <1>1, <1>2, StepOwn

\* A lock that the client keeps stays backed; one that it gets is backed by the
\* masters it has counted.
LEMMA BackedOfOwn ==
    ASSUME TypeInv, QuorumInv, NEW c \in Clients, Step(c)
    PROVE  Backed(c)'
<1> USE LockAssumption
<1>1. now' = now /\ now \in Nat /\ until[c] \in Nat
  BY StepKeyMoves DEF TypeInv, TypeOK, MastersTypeOK, ClientsTypeOK
<1>2. Kept(c, until[c] + Drift)' \in SUBSET Masters
  BY DEF Kept, LockedBy
<1>3. CASE until'[c] = 0
  BY <1>1, <1>3 DEF Backed, Holds
<1>4. CASE until'[c] = until[c]
  <2> SUFFICES ASSUME now < until[c] PROVE IsQuorum(Kept(c, until[c] + Drift))'
    BY <1>1, <1>4 DEF Backed, Holds
  <2>1. pc[c] \notin Unlocking /\ until[c] + Drift <= now + Ttl
    BY <1>1 DEF TypeInv, LocalInv, Local, Unlocking
  <2>2. PICK t \in Nat : t = until[c] + Drift
    BY <1>1
  <2>3. Kept(c, t) \subseteq Kept(c, t)'
    BY <2>1, <2>2, KeptByStep
  <2>4. IsQuorum(Kept(c, t))
    BY <2>2 DEF QuorumInv, Backed, Holds
  <2>5. Kept(c, t)' \in SUBSET Masters
    BY DEF Kept, LockedBy
  <2>6. IsQuorum(Kept(c, t)')
    BY <2>3, <2>4, <2>5, QuorumGrows
  <2> QED BY <1>4, <2>2, <2>6 DEF IsQuorum
<1>5. CASE /\ Grant(c) /\ TimeLeft(c) /\ IsQuorum(got[c])
           /\ pc[c] \in {"locking", "extending"}
  <2>1. UNCHANGED key /\ until'[c] = ValidUntil(c)
    BY <1>5 DEF Grant, TypeInv, TypeOK, ClientsTypeOK
  <2>2. until'[c] + Drift = start[c] + Ttl
    BY <1>5, <2>1, GrantTimes
  <2>3. got[c] \subseteq Kept(c, start[c] + Ttl)
    BY <1>5 DEF QuorumInv, Counted
  <2>4. Kept(c, start[c] + Ttl) \in SUBSET Masters
    BY DEF Kept, LockedBy
  <2>5. IsQuorum(Kept(c, start[c] + Ttl))
    BY <1>5, <2>3, <2>4, QuorumGrows
  <2>6. Kept(c, until[c] + Drift)' = Kept(c, start[c] + Ttl)
    BY <2>1, <2>2 DEF Kept, LockedBy
  <2> QED BY <2>5, <2>6 DEF Backed, IsQuorum
<1> QED BY <1>3, <1>4, <1>5, StepOwn

\* Time takes no key away that a lock or a loop still counts on.
LEMMA QuorumInTime ==
    ASSUME TypeInv, QuorumInv, Environment, NEW c \in Clients
    PROVE  Counted(c)' /\ Backed(c)'
<1> USE LockAssumption
<1>1. UNCHANGED clientVars /\ now' \in Nat /\ now \in Nat /\ now <= now'
  BY DEF Environment, Tick, Expire, TypeInv, TypeOK, MastersTypeOK, ClientsTypeOK
<1>2. start[c] \in Nat /\ until[c] \in Nat
  BY DEF TypeInv, TypeOK, ClientsTypeOK
<1>3. ASSUME NEW t \in Nat, now + Drift < t PROVE Kept(c, t) \subseteq Kept(c, t)'
  <2> SUFFICES ASSUME NEW m \in Masters, key[m].val = c, key[m].exp >= t
               PROVE  key'[m] = key[m]
    BY DEF Kept, LockedBy
  <2>1. key[m].exp \in Nat
    BY DEF TypeInv, TypeOK, MastersTypeOK, ClientsTypeOK
  <2>2. CASE Tick
    BY <2>2 DEF Tick
  <2>3. ASSUME NEW n \in Masters, Expire(n) PROVE key'[m] = key[m]
    <3>1. n # m
      BY <1>1, <1>3, <2>1, <2>3 DEF Expire
    <3> QED BY <2>3, <3>1 DEF Expire, TypeInv, TypeOK, MastersTypeOK, ClientsTypeOK
  <2> QED BY <2>2, <2>3 DEF Environment
<1>4. Counted(c)'
  <2> SUFFICES ASSUME pc[c] \in {"locking", "extending"}, TimeLeft(c)'
               PROVE  got[c] \subseteq Kept(c, start[c] + Ttl)'
    BY <1>1 DEF Counted, clientVars
  <2>1. PICK t \in Nat : t = start[c] + Ttl
    BY <1>2
  <2>2. now + Drift < t
    BY <1>1, <1>2, <2>1 DEF TimeLeft, clientVars
  <2>3. got[c] \subseteq Kept(c, t)
    BY <2>1, <2>2 DEF QuorumInv, Counted, TimeLeft
  <2>4. got[c] \subseteq Kept(c, t)'
    BY <1>3, <2>2, <2>3
  <2> QED BY <1>1, <2>1, <2>4 DEF clientVars
<1>5. Backed(c)'
  <2> SUFFICES ASSUME Holds(c)' PROVE IsQuorum(Kept(c, until[c] + Drift))'
    BY DEF Backed
  <2>1. PICK t \in Nat : t = until[c] + Drift
    BY <1>2
  <2>2. now < until[c]
    BY <1>1, <1>2 DEF Holds, clientVars
  <2>3. now + Drift < t
    BY <1>1, <1>2, <2>1, <2>2
  <2>4. Kept(c, t) \subseteq Kept(c, t)'
    BY <1>3, <2>3
  <2>5. IsQuorum(Kept(c, t))
    BY <2>1, <2>2 DEF QuorumInv, Backed, Holds
  <2>6. Kept(c, t)' \in SUBSET Masters
    BY DEF Kept, LockedBy
  <2>7. IsQuorum(Kept(c, t)')
    BY <2>4, <2>5, <2>6, QuorumGrows
  <2> QED BY <1>1, <2>1, <2>7 DEF IsQuorum, clientVars
<1> QED BY <1>4, <1>5

LEMMA NextQuorumInv == TypeInv /\ QuorumInv /\ [Next]_vars => QuorumInv'
<1> SUFFICES ASSUME TypeInv, QuorumInv, [Next]_vars PROVE QuorumInv'
  OBVIOUS
<1>1. ASSUME NEW c \in Clients, Step(c) PROVE QuorumInv'
  BY <1>1, QuorumOfOthers, CountedOfOwn, BackedOfOwn DEF QuorumInv
<1>2. CASE Environment
  BY <1>2, QuorumInTime DEF QuorumInv
<1>3. CASE UNCHANGED vars
  BY <1>3 DEF vars, clientVars, QuorumInv, Counted, Backed, Holds, Kept, LockedBy, TimeLeft
<1> QED BY <1>1, <1>2, <1>3 DEF Next

LEMMA AlwaysQuorumInv == Spec => []QuorumInv
<1> QED BY InitQuorumInv, NextQuorumInv, TypeCorrect, PTL DEF Spec

\* A LockInfo that is still valid is true: on a quorum of the masters the key
\* has the value of its client, and it lives longer than the LockInfo even if
\* the clock of the master is fast.
THEOREM LockIsHeldByQuorum == Spec => []HeldByQuorum
<1>1. QuorumInv => HeldByQuorum
  BY DEF QuorumInv, Backed, HeldByQuorum
<1> QED BY <1>1, AlwaysQuorumInv, PTL

\* Mutual exclusion: never two clients with a valid LockInfo.
THEOREM MutualExclusion == Spec => []AtMostOneHolder
<1>1. TypeInv /\ QuorumInv => AtMostOneHolder
  <2> SUFFICES ASSUME QuorumInv, NEW c \in Clients, NEW d \in Clients, Holds(c), Holds(d)
               PROVE  c = d
    BY DEF AtMostOneHolder
  <2>1. IsQuorum(Kept(c, until[c] + Drift)) /\ IsQuorum(Kept(d, until[d] + Drift))
    BY DEF QuorumInv, Backed
  <2>2. /\ Kept(c, until[c] + Drift) \in SUBSET Masters
        /\ Kept(d, until[d] + Drift) \in SUBSET Masters
    BY DEF Kept, LockedBy
  <2>3. Kept(c, until[c] + Drift) \cap Kept(d, until[d] + Drift) # {}
    BY <2>1, <2>2, QuorumsMeet
  <2> QED BY <2>3 DEF Kept, LockedBy
<1> QED BY <1>1, AlwaysQuorumInv, TypeCorrect, PTL

-----------------------------------------------------------------------------
(* What is left on the masters.                                            *)

\* While a client unlocks, its keys are on masters it has still to visit.
NoneBehind(c) ==
    /\ pc[c] \in Unlocking => LockedBy(c) \subseteq todo[c]
    /\ pc[c] = "out" /\ until[c] = 0 /\ ~threw[c] => LockedBy(c) = {}

NoneBehindInv == \A c \in Clients : NoneBehind(c)

LEMMA InitNoneBehind == Init => NoneBehindInv
  BY LockAssumption
     DEF Init, MastersInit, ClientsInit, NoKey, NoneBehindInv, NoneBehind, LockedBy, Unlocking

\* A client that is not locking gets no key.
LEMMA NoNewKeys ==
    ASSUME TypeInv, NEW c \in Clients, NEW d \in Clients, Step(d),
           c # d \/ pc[c] # "locking"
    PROVE  LockedBy(c)' \subseteq LockedBy(c)
<1> SUFFICES ASSUME NEW m \in Masters, key'[m].val = c PROVE key[m].val = c
  BY DEF LockedBy
<1>1. KeyMoves(d, m)
  BY StepKeyMoves
<1>2. c # Nobody
  BY LockAssumption
<1> QED BY <1>1, <1>2 DEF KeyMoves

LEMMA NoneBehindOfOwn ==
    ASSUME TypeInv, NoneBehindInv, NEW c \in Clients, Step(c)
    PROVE  NoneBehind(c)'
<1> USE DEF TypeInv, TypeOK, MastersTypeOK, ClientsTypeOK
<1>1. NoneBehind(c)
  BY DEF NoneBehindInv
<1>2. LockedBy(c)' \subseteq Masters
  BY DEF LockedBy
<1>3. CASE BeginLock(c)
  BY <1>3 DEF BeginLock, Visit, NoneBehind, Unlocking
<1>4. CASE LockSucceeds(c) \/ ExtendSucceeds(c)
  <2>1. Grant(c) /\ ValidUntil(c) # 0
    BY <1>4, GrantTimes, LockAssumption DEF LockSucceeds, ExtendSucceeds
  <2> QED BY <2>1 DEF Grant, Return, NoneBehind, Unlocking
<1>5. CASE LockFails(c)
  BY <1>2, <1>5 DEF LockFails, Visit, NoneBehind
<1>6. CASE Retry(c)
  BY <1>6 DEF Retry, Visit, NoneBehind, Unlocking
<1>7. CASE BeginExtend(c)
  BY <1>7 DEF BeginExtend, Visit, NoneBehind, Unlocking
<1>8. CASE ExtendFails(c)
  BY <1>2, <1>8 DEF ExtendFails, Visit, NoneBehind
<1>9. CASE BeginUnlock(c)
  BY <1>2, <1>9 DEF BeginUnlock, Visit, NoneBehind
<1>10. CASE UnlockDone(c)
  BY <1>1, <1>10 DEF UnlockDone, Return, NoneBehind, LockedBy, Unlocking
<1>11. CASE \E m \in Masters : LockInstance(c, m) \/ ExtendInstance(c, m)
  BY <1>11 DEF LockInstance, ExtendInstance, NoneBehind, Unlocking
<1>12. ASSUME NEW m \in Masters, UnlockInstance(c, m) PROVE NoneBehind(c)'
  <2>1. pc'[c] = pc[c] /\ pc[c] \in Unlocking /\ todo'[c] = todo[c] \ {m} /\ pc[c] # "locking"
    BY <1>12 DEF UnlockInstance, Unlocking
  <2>2. m \notin LockedBy(c)'
    <3>1. key'[m].val # c
      BY <1>12, LockAssumption DEF UnlockInstance, DeleteKey, NoKey
    <3> QED BY <3>1 DEF LockedBy
  <2>3. LockedBy(c)' \subseteq LockedBy(c)
    BY <1>12, <2>1, NoNewKeys DEF Step
  <2>4. LockedBy(c) \subseteq todo[c]
    BY <1>1, <2>1 DEF NoneBehind
  <2> QED BY <2>1, <2>2, <2>3, <2>4 DEF NoneBehind, Unlocking
<1>13. CASE \E m \in Masters : CommandFails(c, m)
  BY <1>13 DEF CommandFails, Return, NoneBehind, Unlocking
<1> QED
  BY <1>3, <1>4, <1>5, <1>6, <1>7, <1>8, <1>9, <1>10, <1>11, <1>12, <1>13 DEF Step

LEMMA NextNoneBehind == TypeInv /\ NoneBehindInv /\ [Next]_vars => NoneBehindInv'
<1> SUFFICES ASSUME TypeInv, NoneBehindInv, [Next]_vars, NEW c \in Clients
             PROVE  NoneBehind(c)'
  BY DEF NoneBehindInv
<1>1. NoneBehind(c)
  BY DEF NoneBehindInv
<1>2. ASSUME NEW d \in Clients, Step(d) PROVE NoneBehind(c)'
  <2>1. CASE c = d
    BY <1>2, <2>1, NoneBehindOfOwn
  <2>2. CASE c # d
    <3>1. LockedBy(c)' \subseteq LockedBy(c)
      BY <1>2, <2>2, NoNewKeys
    <3>2. pc'[c] = pc[c] /\ todo'[c] = todo[c] /\ until'[c] = until[c] /\ threw'[c] = threw[c]
      BY <1>2, <2>2, StepOwn
    <3> QED BY <1>1, <3>1, <3>2 DEF NoneBehind
  <2> QED BY <2>1, <2>2
<1>3. CASE Environment
  <2>1. ASSUME UNCHANGED key
        PROVE  LockedBy(c)' \subseteq LockedBy(c)
    BY <2>1 DEF LockedBy
  <2>2. ASSUME NEW m \in Masters, key' = [key EXCEPT ![m] = NoKey]
        PROVE  LockedBy(c)' \subseteq LockedBy(c)
    BY <2>2, LockAssumption
       DEF NoKey, LockedBy, TypeInv, TypeOK, MastersTypeOK, ClientsTypeOK
  <2>3. LockedBy(c)' \subseteq LockedBy(c)
    BY <1>3, <2>1, <2>2 DEF Environment, Tick, Expire
  <2> QED BY <1>1, <1>3, <2>3 DEF Environment, NoneBehind, clientVars
<1>4. CASE UNCHANGED vars
  BY <1>1, <1>4 DEF vars, clientVars, NoneBehind, LockedBy
<1> QED BY <1>2, <1>3, <1>4 DEF Next

\* A client whose last call failed or unlocked without an exception has no key
\* on any master, whatever was left there by calls that had thrown before.
THEOREM CallsCleanUp == Spec => []NothingLeftBehind
<1>1. NoneBehindInv => NothingLeftBehind
  BY DEF NoneBehindInv, NoneBehind, NothingLeftBehind
<1> QED BY <1>1, InitNoneBehind, NextNoneBehind, TypeCorrect, PTL DEF Spec

\* unlock() never frees a key that is not of its own client.
THEOREM UnlockDeletesOwn == Spec => OnlyOwnerDeletes
<1> DEFINE Ok(m, c) ==
              /\ key[m].val = c
              /\ key'[m].val # c
              => \/ key[m].exp <= now + Drift
                 \/ pc[c] \in {"retrying", "abandoning", "unlocking"}
<1>1. TypeInv /\ [Next]_vars => [\A m \in Masters, c \in Clients : Ok(m, c)]_vars
  <2> SUFFICES ASSUME TypeInv, Next, NEW m \in Masters, NEW c \in Clients PROVE Ok(m, c)
    OBVIOUS
  <2>1. ASSUME NEW d \in Clients, Step(d) PROVE Ok(m, c)
    <3>1. KeyMoves(d, m)
      BY <2>1, StepKeyMoves
    <3>2. c # Nobody
      BY LockAssumption
    <3> QED BY <3>1, <3>2 DEF KeyMoves, Unlocking
  <2>2. CASE Environment
    BY <2>2 DEF Environment, Tick, Expire, TypeInv, TypeOK, MastersTypeOK, ClientsTypeOK
  <2> QED BY <2>1, <2>2 DEF Next
<1> QED BY <1>1, TypeCorrect, PTL DEF Spec, OnlyOwnerDeletes

-----------------------------------------------------------------------------
(* The guard RedLock.                                                      *)

\* While the mutex has returned and the guard has not, the lock ends no later
\* than the guard will say; afterwards no later than it says. A destroyed guard
\* is at most unlocking, and says that it has nothing when that is over.
GuardKnows(c) ==
    /\ timeLeft[c] # 0 => pc[c] = "out" /\ until[c] <= now + timeLeft[c] /\ c \notin destroyed
    /\ timeLeft[c] = 0 => until[c] <= releaseTp[c]
    /\ c \in destroyed => /\ pc[c] \in {"out", "unlocking"}
                          /\ pc[c] = "out" => releaseTp[c] <= now

GuardInv ==
    /\ TypeInv
    /\ GuardTypeOK
    /\ \A c \in Clients : GuardKnows(c)

LEMMA InitGuardInv == GuardInit => GuardInv
<1>1. 0 \in 0..Ttl /\ 0 \in 0..MaxTime + Ttl
  BY LockAssumption
<1>2. GuardInit => TypeInv /\ now = 0
  BY InitTypeInv DEF GuardInit, Init, MastersInit
<1> QED
  BY <1>1, <1>2 DEF GuardInit, GuardInv, GuardTypeOK, GuardKnows, Init, ClientsInit, TypeInv

\* A destructor that unlocks does to the mutex what BeginUnlock does, also when
\* the mutex has no lock: an extension failed, and the guard does not know.
DestructorUnlocks(c) ==
    /\ pc[c] = "out"
    /\ Visit(c, "unlocking")
    /\ until' = [until EXCEPT ![c] = 0]
    /\ UNCHANGED <<now, key, start, tries, threw>>

\* Every other step of a guard is one of its mutex, or leaves the mutex alone.
LEMMA GuardStepIsStep ==
    ASSUME NEW c \in Clients, GuardStep(c)
    PROVE  Step(c) \/ DestructorUnlocks(c) \/ UNCHANGED vars
<1>1. CASE GuardLocks(c) \/ GuardExtends(c) \/ MutexGrants(c) \/ GuardUnlocks(c) \/ GuardReturns(c)
  BY <1>1 DEF GuardLocks, GuardExtends, MutexGrants, GuardUnlocks, GuardReturns, Step
<1>2. CASE MutexWorks(c)
  BY <1>2 DEF MutexWorks, Step
<1>3. CASE SetReleaseTp(c)
  BY <1>3 DEF SetReleaseTp
<1>4. CASE Destroy(c)
  BY <1>4 DEF Destroy, DestructorUnlocks
<1> QED BY <1>1, <1>2, <1>3, <1>4 DEF GuardStep

LEMMA GuardKeepsTypeInv ==
    ASSUME TypeInv, [GuardNext]_<<vars, guardVars>>
    PROVE  TypeInv'
<1>1. CASE [Next]_vars
  BY <1>1, NextTypeInv
<1>2. ASSUME NEW c \in Clients, DestructorUnlocks(c) PROVE TypeInv'
  <2> USE DEF TypeInv, TypeOK, MastersTypeOK, ClientsTypeOK, Locations
  <2>1. TypeOK'
    BY <1>2, LockAssumption DEF DestructorUnlocks, Visit
  <2>2. Local(c)'
    BY <1>2, LockAssumption DEF DestructorUnlocks, Visit, Local, LocalInv
  <2> QED BY <1>2, <2>1, <2>2, LocalOfOthers DEF DestructorUnlocks, Visit
<1> QED BY <1>1, <1>2, GuardStepIsStep DEF GuardNext, Next

\* What a step of a guard does to the others: nothing.
LEMMA OtherGuardsKnow ==
    ASSUME GuardInv, NEW c \in Clients, GuardStep(c), NEW d \in Clients \ {c}
    PROVE  GuardKnows(d)'
<1> USE DEF GuardInv, GuardTypeOK, TypeInv, TypeOK, ClientsTypeOK
<1>1. now' = now /\ pc'[d] = pc[d] /\ until'[d] = until[d]
  <2>1. CASE Step(c)
    BY <2>1, StepOwn, StepKeyMoves
  <2>2. CASE DestructorUnlocks(c)
    BY <2>2 DEF DestructorUnlocks, Visit
  <2>3. CASE UNCHANGED vars
    BY <2>3 DEF vars, clientVars
  <2> QED BY <2>1, <2>2, <2>3, GuardStepIsStep
<1>2. timeLeft'[d] = timeLeft[d] /\ releaseTp'[d] = releaseTp[d]
  BY DEF GuardStep, GuardLocks, GuardExtends, MutexGrants, SetReleaseTp, GuardUnlocks,
         Destroy, GuardReturns, MutexWorks, guardVars
<1>3. d \in destroyed' <=> d \in destroyed
  BY DEF GuardStep, GuardLocks, GuardExtends, MutexGrants, SetReleaseTp, GuardUnlocks,
         Destroy, GuardReturns, MutexWorks, guardVars
<1> QED BY <1>1, <1>2, <1>3 DEF GuardKnows

\* Its own step: the type of what the guard keeps, and what it knows.
LEMMA OwnGuardKnows ==
    ASSUME GuardInv, NEW c \in Clients, GuardStep(c)
    PROVE  /\ timeLeft' \in [Clients -> 0..Ttl]
           /\ releaseTp' \in [Clients -> 0..MaxTime + Ttl]
           /\ destroyed' \subseteq Clients
           /\ GuardKnows(c)'
<1> USE LockAssumption
    DEF GuardInv, GuardTypeOK, TypeInv, TypeOK, MastersTypeOK, ClientsTypeOK
<1>1. GuardKnows(c) /\ Local(c)
  BY DEF LocalInv
<1>2. CASE GuardLocks(c)
  BY <1>1, <1>2 DEF GuardLocks, Callable, BeginLock, Visit, guardVars, GuardKnows
<1>3. CASE GuardExtends(c)
  BY <1>1, <1>3 DEF GuardExtends, Callable, BeginExtend, Visit, guardVars, GuardKnows
<1>4. CASE MutexGrants(c)
  <2>1. Grant(c) /\ TimeLeft(c) /\ pc[c] \in {"locking", "extending"}
    BY <1>4 DEF MutexGrants, LockSucceeds, ExtendSucceeds
  <2>2. /\ ValidUntil(c) \in Nat /\ now < ValidUntil(c) /\ ValidUntil(c) <= now + Ttl
        /\ now \in Nat
    <3>1. ValidUntil(c) \in 1..MaxTime + Ttl /\ now < ValidUntil(c)
          /\ ValidUntil(c) + Drift <= now + Ttl
      BY <2>1, GrantTimes
    <3> QED BY <3>1
  <2>3. ValidUntil(c) - now \in 1..Ttl /\ now + (ValidUntil(c) - now) = ValidUntil(c)
    BY <2>2
  <2>4. /\ timeLeft' = [timeLeft EXCEPT ![c] = ValidUntil(c) - now]
        /\ UNCHANGED <<now, releaseTp, destroyed>>
        /\ pc'[c] = "out" /\ until'[c] = ValidUntil(c)
    BY <1>4, <2>1 DEF MutexGrants, Grant, Return
  <2>5. c \notin destroyed
    BY <1>1, <2>1 DEF GuardKnows
  <2>6. timeLeft'[c] = ValidUntil(c) - now
    BY <2>4
  <2>7. timeLeft' \in [Clients -> 0..Ttl]
    BY <2>3, <2>4
  <2>8. GuardKnows(c)'
    BY <2>3, <2>4, <2>5, <2>6 DEF GuardKnows
  <2> QED BY <2>4, <2>7, <2>8
<1>5. CASE SetReleaseTp(c)
  <2>1. now + timeLeft[c] \in 0..MaxTime + Ttl /\ 0 \in 0..Ttl
    OBVIOUS
  <2>2. /\ UNCHANGED <<now, pc, until, destroyed>>
        /\ releaseTp'[c] = now + timeLeft[c] /\ timeLeft'[c] = 0
    BY <1>5 DEF SetReleaseTp, vars, clientVars
  <2>3. timeLeft' \in [Clients -> 0..Ttl] /\ releaseTp' \in [Clients -> 0..MaxTime + Ttl]
    BY <1>5, <2>1 DEF SetReleaseTp
  <2>4. timeLeft[c] # 0
    BY <1>5 DEF SetReleaseTp
  <2> QED BY <1>1, <2>2, <2>3, <2>4 DEF GuardKnows
<1>6. CASE GuardUnlocks(c)
  BY <1>1, <1>6 DEF GuardUnlocks, Callable, BeginUnlock, Visit, guardVars, GuardKnows
<1>7. CASE Destroy(c)
  BY <1>1, <1>7 DEF Destroy, Callable, OwnsLock, Visit, vars, clientVars, GuardKnows
<1>8. CASE GuardReturns(c)
  <2>1. pc'[c] = "out" /\ UNCHANGED <<now, until, timeLeft, destroyed>>
    BY <1>8 DEF GuardReturns, UnlockDone, CommandFails, Return
  <2>2. releaseTp'[c] = IF pc[c] = "unlocking" THEN 0 ELSE releaseTp[c]
    BY <1>8 DEF GuardReturns
  <2>3. releaseTp' \in [Clients -> 0..MaxTime + Ttl]
    BY <1>8 DEF GuardReturns
  <2> QED BY <1>1, <2>1, <2>2, <2>3 DEF GuardKnows, Local
<1>9. CASE MutexWorks(c)
  <2>1. /\ UNCHANGED guardVars /\ now' = now
        /\ until'[c] \in {until[c], 0} /\ pc[c] # "out" /\ pc'[c] # "out"
        /\ pc[c] = "unlocking" => pc'[c] = "unlocking"
    BY <1>9 DEF MutexWorks, LockFails, ExtendFails, LockInstance, ExtendInstance,
                UnlockInstance, Visit
  <2>2. pc[c] = "unlocking" \/ c \notin destroyed
    BY <1>1, <2>1 DEF GuardKnows
  <2> QED BY <1>1, <2>1, <2>2 DEF GuardKnows, guardVars
<1> QED BY <1>2, <1>3, <1>4, <1>5, <1>6, <1>7, <1>8, <1>9 DEF GuardStep

LEMMA NextGuardInv == GuardInv /\ [GuardNext]_<<vars, guardVars>> => GuardInv'
<1> SUFFICES ASSUME GuardInv, [GuardNext]_<<vars, guardVars>> PROVE GuardInv'
  OBVIOUS
<1>1. TypeInv'
  BY GuardKeepsTypeInv DEF GuardInv
<1>2. TypeOK'
  BY <1>1 DEF TypeInv
<1>3. ASSUME NEW c \in Clients, GuardStep(c) PROVE GuardInv'
  BY <1>1, <1>2, <1>3, OtherGuardsKnow, OwnGuardKnows DEF GuardInv, GuardTypeOK
<1>4. CASE Environment /\ UNCHANGED guardVars
  <2>1. UNCHANGED <<pc, until, timeLeft, releaseTp, destroyed>>
    BY <1>4 DEF Environment, clientVars, guardVars
  <2>2. now \in Nat /\ now' \in Nat /\ now <= now'
    BY <1>4, LockAssumption
       DEF Environment, Tick, Expire, GuardInv, TypeInv, TypeOK, MastersTypeOK
  <2>3. ASSUME NEW c \in Clients PROVE GuardKnows(c)'
    <3>1. /\ GuardKnows(c)
          /\ timeLeft[c] \in Nat /\ until[c] \in Nat /\ releaseTp[c] \in Nat
      BY LockAssumption DEF GuardInv, GuardTypeOK, TypeOK, ClientsTypeOK
    <3> QED BY <2>1, <2>2, <3>1 DEF GuardKnows
  <2> QED BY <1>1, <1>2, <2>1, <2>3 DEF GuardInv, GuardTypeOK
<1>5. CASE UNCHANGED <<vars, guardVars>>
  BY <1>1, <1>2, <1>5 DEF vars, clientVars, guardVars, GuardInv, GuardTypeOK, GuardKnows
<1> QED BY <1>3, <1>4, <1>5 DEF GuardNext

LEMMA AlwaysGuardInv == GuardSpec => []GuardInv
<1> QED BY InitGuardInv, NextGuardInv, PTL DEF GuardSpec

\* A guard whose mutex has a valid lock says so, however long its thread was
\* delayed between the return of the mutex and its own.
THEOREM GuardOwnsWhatIsHeld == GuardSpec => []HeldIsOwned
<1>1. GuardInv => HeldIsOwned
  <2> SUFFICES ASSUME GuardInv, NEW c \in Clients, timeLeft[c] = 0, now < until[c]
               PROVE  now < releaseTp[c]
    BY DEF HeldIsOwned, Idle, Holds, OwnsLock
  <2>1. until[c] \in Nat /\ releaseTp[c] \in Nat /\ now \in Nat
    BY LockAssumption
       DEF GuardInv, GuardTypeOK, TypeOK, MastersTypeOK, ClientsTypeOK
  <2> QED BY <2>1 DEF GuardInv, GuardKnows
<1> QED BY <1>1, AlwaysGuardInv, PTL

\* What a client has left on the masters: no key lives for longer than a ttl from
\* now, and while the client is outside of its mutex with a lock, after a call
\* that did not throw, none for a ttl after the end of that lock.
Leaves(c) ==
    /\ \A m \in LockedBy(c) : key[m].exp <= now + Ttl
    /\ pc[c] = "out" /\ until[c] # 0 /\ ~threw[c]
       => \A m \in LockedBy(c) : key[m].exp < until[c] + Ttl

LeavesInv == NoneBehindInv /\ \A c \in Clients : Leaves(c)

LEMMA InitLeaves == GuardInit => LeavesInv
<1>1. GuardInit => NoneBehindInv
  BY InitNoneBehind DEF GuardInit
<1>2. GuardInit => \A c \in Clients : Leaves(c)
  BY LockAssumption DEF GuardInit, Init, MastersInit, NoKey, Leaves, LockedBy
<1> QED BY <1>1, <1>2 DEF LeavesInv

\* A key that a client has after a step, it had before, with the same expiry, or
\* it has just been set or extended by that client.
LEMMA KeyOfStep ==
    ASSUME TypeInv, NEW c \in Clients, NEW d \in Clients, Step(d), NEW m \in LockedBy(c)'
    PROVE  \/ m \in LockedBy(c) /\ key'[m].exp = key[m].exp
           \/ d = c /\ pc[c] # "out" /\ key'[m].exp = now + Ttl
<1>1. m \in Masters /\ key'[m].val = c /\ c # Nobody
  BY LockAssumption DEF LockedBy
<1>2. KeyMoves(d, m)
  BY <1>1, StepKeyMoves
<1> QED BY <1>1, <1>2 DEF KeyMoves, LockedBy, Unlocking

LEMMA LeavesOfOwn ==
    ASSUME TypeInv, NEW c \in Clients, Leaves(c), Step(c)
    PROVE  Leaves(c)'
<1> USE DEF TypeInv, TypeOK, MastersTypeOK, ClientsTypeOK
<1>1. now' = now /\ now \in Nat /\ Ttl \in Nat
  BY StepKeyMoves, LockAssumption
<1>2. ASSUME NEW m \in LockedBy(c)' PROVE key'[m].exp <= now' + Ttl
  BY <1>1, <1>2, KeyOfStep DEF Leaves
<1>3. CASE pc'[c] # "out" \/ until'[c] = 0 \/ threw'[c]
  BY <1>2, <1>3 DEF Leaves
<1>4. CASE LockSucceeds(c) \/ ExtendSucceeds(c)
  <2>1. Grant(c) /\ until'[c] = ValidUntil(c) /\ ValidUntil(c) \in Nat /\ now < ValidUntil(c)
    BY <1>4, GrantTimes, LockAssumption DEF LockSucceeds, ExtendSucceeds, Grant
  <2>2. ASSUME NEW m \in LockedBy(c)' PROVE key'[m].exp < until'[c] + Ttl
    <3>1. key'[m].exp = key[m].exp /\ key[m].exp \in Nat /\ key[m].exp <= now + Ttl
      BY <2>1, <2>2, LockAssumption DEF Grant, LockedBy, Leaves
    <3> QED BY <1>1, <2>1, <3>1
  <2> QED BY <1>2, <2>2 DEF Leaves
<1>5. CASE UnlockDone(c)
  <2>1. until'[c] = 0
    BY <1>5 DEF UnlockDone, LocalInv, Local
  <2> QED BY <1>3, <2>1
<1>6. CASE \E m \in Masters : CommandFails(c, m)
  <2>1. threw'[c]
    BY <1>6 DEF CommandFails
  <2> QED BY <1>3, <2>1
<1>7. CASE \/ BeginLock(c) \/ LockFails(c) \/ Retry(c) \/ BeginExtend(c) \/ ExtendFails(c)
           \/ BeginUnlock(c)
           \/ \E m \in Masters : LockInstance(c, m) \/ ExtendInstance(c, m) \/ UnlockInstance(c, m)
  <2>1. pc'[c] # "out"
    BY <1>7 DEF BeginLock, LockFails, Retry, BeginExtend, ExtendFails, BeginUnlock, Visit,
                LockInstance, ExtendInstance, UnlockInstance
  <2> QED BY <1>3, <2>1
<1> QED BY <1>4, <1>5, <1>6, <1>7 DEF Step

LEMMA NextLeaves ==
    ASSUME TypeInv, NEW c \in Clients, Leaves(c), [Next]_vars
    PROVE  Leaves(c)'
<1> USE DEF TypeInv, TypeOK, MastersTypeOK, ClientsTypeOK
<1>1. ASSUME NEW d \in Clients, Step(d) PROVE Leaves(c)'
  <2>1. CASE d = c
    BY <1>1, <2>1, LeavesOfOwn
  <2>2. CASE d # c
    <3>1. now' = now /\ pc'[c] = pc[c] /\ until'[c] = until[c] /\ threw'[c] = threw[c]
      BY <1>1, <2>2, StepOwn, StepKeyMoves
    <3>2. \A m \in LockedBy(c)' : m \in LockedBy(c) /\ key'[m].exp = key[m].exp
      BY <1>1, <2>2, KeyOfStep
    <3> QED BY <3>1, <3>2 DEF Leaves
  <2> QED BY <2>1, <2>2
<1>2. CASE Environment
  <2>1. /\ now \in Nat /\ now' \in Nat /\ now <= now' /\ Ttl \in Nat
        /\ UNCHANGED <<pc, until, threw>>
    BY <1>2, LockAssumption DEF Environment, Tick, Expire, clientVars
  <2>2. ASSUME NEW m \in LockedBy(c)'
        PROVE  m \in LockedBy(c) /\ key'[m].exp = key[m].exp /\ key[m].exp \in Nat
    BY <1>2, <2>2, LockAssumption DEF Environment, Tick, Expire, NoKey, LockedBy
  <2> QED BY <2>1, <2>2 DEF Leaves
<1>3. CASE UNCHANGED vars
  BY <1>3 DEF vars, clientVars, Leaves, LockedBy
<1> QED BY <1>1, <1>2, <1>3 DEF Next

LEMMA GuardKeepsLeaves ==
    ASSUME TypeInv, LeavesInv, [GuardNext]_<<vars, guardVars>>
    PROVE  LeavesInv'
<1>1. CASE [Next]_vars
  BY <1>1, NextNoneBehind, NextLeaves DEF LeavesInv
<1>2. ASSUME NEW c \in Clients, DestructorUnlocks(c) PROVE LeavesInv'
  <2> USE DEF TypeInv, TypeOK, ClientsTypeOK
  <2>1. /\ UNCHANGED <<now, key, threw>>
        /\ pc'[c] = "unlocking" /\ todo'[c] = Masters
        /\ \A d \in Clients \ {c} : /\ pc'[d] = pc[d] /\ todo'[d] = todo[d]
                                    /\ until'[d] = until[d]
    BY <1>2 DEF DestructorUnlocks, Visit
  <2>2. ASSUME NEW d \in Clients PROVE NoneBehind(d)' /\ Leaves(d)'
    <3>1. NoneBehind(d) /\ Leaves(d)
      BY DEF LeavesInv, NoneBehindInv
    <3>2. LockedBy(d)' = LockedBy(d) /\ LockedBy(d) \subseteq Masters
      BY <2>1 DEF LockedBy
    <3>3. CASE d = c
      BY <2>1, <3>1, <3>2, <3>3 DEF NoneBehind, Leaves
    <3>4. CASE d # c
      BY <2>1, <3>1, <3>2, <3>4 DEF NoneBehind, Leaves
    <3> QED BY <3>3, <3>4
  <2> QED BY <2>2 DEF LeavesInv, NoneBehindInv
<1> QED BY <1>1, <1>2, GuardStepIsStep DEF GuardNext, Next

\* ~RedLock releases the lock on the masters: a destroyed guard leaves there only
\* keys of a lock that was over before, for less than a ttl, also if earlier calls
\* have thrown, or an extension failed that the guard does not know of.
THEOREM DestructorReleases == GuardSpec => []DestroyedReleases
<1>1. GuardInv /\ LeavesInv /\ [GuardNext]_<<vars, guardVars>> => LeavesInv'
  BY GuardKeepsLeaves DEF GuardInv
<1>2. GuardInv /\ LeavesInv => DestroyedReleases
  <2> SUFFICES ASSUME GuardInv, LeavesInv, NEW c \in destroyed,
                      pc[c] = "out", timeLeft[c] = 0, ~threw[c], NEW m \in LockedBy(c)
               PROVE  releaseTp[c] \in 1..now /\ key[m].exp < releaseTp[c] + Ttl
    BY DEF DestroyedReleases, Idle
  <2>1. c \in Clients /\ m \in Masters
    BY DEF GuardInv, GuardTypeOK, LockedBy
  <2>2. /\ until[c] \in Nat /\ releaseTp[c] \in Nat /\ now \in Nat /\ Ttl \in Nat
        /\ key[m].exp \in Nat
    BY <2>1, LockAssumption
       DEF GuardInv, GuardTypeOK, TypeOK, MastersTypeOK, ClientsTypeOK
  <2>3. until[c] <= releaseTp[c] /\ releaseTp[c] <= now
    BY <2>1 DEF GuardInv, GuardKnows
  <2>4. until[c] # 0
    BY <2>1 DEF LeavesInv, NoneBehindInv, NoneBehind
  <2>5. key[m].exp < until[c] + Ttl
    BY <2>1, <2>4 DEF LeavesInv, Leaves
  <2> QED BY <2>2, <2>3, <2>4, <2>5
<1> QED BY <1>1, <1>2, InitLeaves, AlwaysGuardInv, PTL DEF GuardSpec

-----------------------------------------------------------------------------
(* The thread that extends the locks of RedMutex objects (LockWatcher).    *)

\* When the thread fetches tasks it has run all those it had.
BatchDone == wpc = "fetch" => batch = None

WatcherInv == WatcherTypeOK /\ BatchDone

LEMMA WatcherInitHolds == WatcherInit => WatcherInv
<1> SUFFICES ASSUME WatcherInit PROVE WatcherInv
  OBVIOUS
<1>1. None \in [Mutexes -> Nat] /\ None \in [Mutexes -> 0..MaxIds]
  BY WatcherAssumption DEF None
<1>2. {tasks, batch, again} \subseteq [Mutexes -> Nat] /\ lockId \in [Mutexes -> 0..MaxIds]
  BY <1>1 DEF WatcherInit
<1>3. {appRef, terminate} \subseteq BOOLEAN
  BY DEF WatcherInit
<1>4. keyId \in 0..MaxIds /\ ids \in 0..MaxIds
  BY WatcherAssumption DEF WatcherInit
<1> QED BY <1>2, <1>3, <1>4, WatcherAssumption DEF WatcherInit, WatcherInv, WatcherTypeOK, BatchDone

\* The tasks that are ready and those that are not make up the queue.
LEMMA FetchSplits ==
    ASSUME WatcherInv, NEW m \in Mutexes, Fetch(m), NEW n \in Mutexes
    PROVE  /\ tasks' \in [Mutexes -> Nat] /\ batch' \in [Mutexes -> Nat]
           /\ tasks[n] = tasks'[n] + batch'[n]
<1>1. PICK ready \in [Mutexes -> 0..MaxIds] :
          /\ \A k \in Mutexes : ready[k] <= tasks[k]
          /\ batch' = ready
          /\ tasks' = [k \in Mutexes |-> tasks[k] - ready[k]]
  BY DEF Fetch
<1>2. \A k \in Mutexes : tasks[k] \in Nat /\ ready[k] \in Nat /\ tasks[k] - ready[k] \in Nat
  BY <1>1, WatcherAssumption DEF WatcherInv, WatcherTypeOK
<1>3. batch' \in [Mutexes -> Nat]
  BY <1>1, WatcherAssumption
<1>4. tasks' \in [Mutexes -> Nat]
  BY <1>1, <1>2
<1>5. tasks'[n] = tasks[n] - ready[n] /\ batch'[n] = ready[n]
  BY <1>1
<1> QED BY <1>2, <1>3, <1>4, <1>5

LEMMA WatcherKeeps == WatcherInv /\ [WatcherNext]_allVars => WatcherInv'
<1> SUFFICES ASSUME WatcherInv, [WatcherNext]_allVars PROVE WatcherInv'
  OBVIOUS
<1> USE WatcherAssumption DEF WatcherInv, WatcherTypeOK, BatchDone, userVars, watcherVars
<1>1. ASSUME NEW m \in Mutexes, TryLock(m) PROVE WatcherInv'
  BY <1>1 DEF TryLock
<1>2. ASSUME NEW m \in Mutexes, TryLockThrows(m) PROVE WatcherInv'
  BY <1>2 DEF TryLockThrows
<1>3. ASSUME NEW m \in Mutexes, Unlock(m) PROVE WatcherInv'
  BY <1>3 DEF Unlock
<1>4. ASSUME NEW m \in Mutexes, DestroyMutex(m) PROVE WatcherInv'
  BY <1>4 DEF DestroyMutex, LetGo
<1>5. CASE DropWatcher
  BY <1>5 DEF DropWatcher, LetGo
<1>6. CASE KeyExpires
  BY <1>6 DEF KeyExpires
<1>7. CASE Joined
  BY <1>7 DEF Joined
<1>8. ASSUME NEW m \in Mutexes, Fetch(m) PROVE WatcherInv'
  <2>1. tasks' \in [Mutexes -> Nat] /\ batch' \in [Mutexes -> Nat]
    BY <1>8, FetchSplits
  <2>2. /\ wpc = "fetch" /\ wpc' = "run"
        /\ UNCHANGED <<keyId, ids, lockId, userRef, appRef, terminate, again, cur, dtor>>
    BY <1>8 DEF Fetch
  <2> QED BY <2>1, <2>2
<1>9. CASE FetchTerminate
  BY <1>9 DEF FetchTerminate
<1>10. ASSUME NEW m \in Mutexes, StartTask(m) PROVE WatcherInv'
  BY <1>10 DEF StartTask
<1>11. CASE CheckLocked
  BY <1>11 DEF CheckLocked
<1>12. CASE ExtendUnlocked
  BY <1>12 DEF ExtendUnlocked
<1>13. CASE TaskExtends
  BY <1>13 DEF TaskExtends
<1>14. CASE TaskFails
  BY <1>14 DEF TaskFails, Cleanup
<1>15. CASE Release
  BY <1>15 DEF Release
<1>16. CASE Reschedule
  BY <1>16 DEF Reschedule, None
<1>17. CASE UNCHANGED allVars
  BY <1>17 DEF allVars
<1> QED
  BY <1>1, <1>2, <1>3, <1>4, <1>5, <1>6, <1>7, <1>8, <1>9, <1>10, <1>11, <1>12, <1>13,
     <1>14, <1>15, <1>16, <1>17 DEF WatcherNext, User, Watcher, RunTasks

\* The variables of the mutexes, of the queue and of the watcher thread always
\* have their types; the thread holds a mutex exactly while it runs a task.
THEOREM WatcherTypeCorrect == WatcherSpec => []WatcherTypeOK
<1>1. WatcherInv => WatcherTypeOK
  BY DEF WatcherInv
<1> QED BY <1>1, WatcherInitHolds, WatcherKeeps, PTL DEF WatcherSpec

-----------------------------------------------------------------------------
\* Where the task of m may be.
Watched(m) ==
    \/ tasks[m] > 0 \/ batch[m] > 0 \/ again[m] > 0
    \/ cur = m /\ wpc \in {"check", "extend"}

LEMMA NextWatched == WatcherInv /\ LockedIsWatched /\ [WatcherNext]_allVars => LockedIsWatched'
<1> SUFFICES ASSUME WatcherInv, LockedIsWatched, [WatcherNext]_allVars, NEW n \in userRef', Locked(n)'
             PROVE  Watched(n)'
  BY DEF LockedIsWatched, Watched
<1> USE WatcherAssumption DEF WatcherInv, WatcherTypeOK, userVars, watcherVars
<1>0. n \in Mutexes /\ n \in userRef /\ (Locked(n) => Watched(n))
  <2>1. userRef' \subseteq userRef
    BY DEF WatcherNext, User, Watcher, RunTasks, TryLock, TryLockThrows, Unlock, KeyExpires,
           DestroyMutex, DropWatcher, LetGo, Joined, Fetch, FetchTerminate, StartTask,
           CheckLocked, ExtendUnlocked, TaskExtends, TaskFails, Release, Reschedule, allVars
  <2> QED BY <2>1 DEF LockedIsWatched, Watched
<1>1. ASSUME NEW m \in Mutexes, TryLock(m) PROVE Watched(n)'
  BY <1>0, <1>1 DEF TryLock, Watched, Locked
<1>2. ASSUME NEW m \in Mutexes, Unlock(m) PROVE Watched(n)'
  BY <1>0, <1>2 DEF Unlock, Watched, Locked
<1>3. CASE \/ \E m \in Mutexes : TryLockThrows(m) \/ DestroyMutex(m)
           \/ DropWatcher \/ KeyExpires \/ Joined
  BY <1>0, <1>3 DEF TryLockThrows, DestroyMutex, DropWatcher, LetGo, KeyExpires, Joined,
                    Watched, Locked
<1>4. ASSUME NEW m \in Mutexes, Fetch(m) PROVE Watched(n)'
  <2>1. tasks' \in [Mutexes -> Nat] /\ batch' \in [Mutexes -> Nat] /\ tasks[n] = tasks'[n] + batch'[n]
    BY <1>0, <1>4, FetchSplits
  <2>2. wpc = "fetch" /\ batch[n] = 0
    BY <1>0, <1>4 DEF Fetch, BatchDone, None
  <2>3. UNCHANGED <<lockId, again>>
    BY <1>4 DEF Fetch
  <2> QED BY <1>0, <2>1, <2>2, <2>3 DEF Watched, Locked
<1>5. CASE FetchTerminate
  BY <1>0, <1>5 DEF FetchTerminate, Watched, Locked
<1>6. ASSUME NEW m \in Mutexes, StartTask(m) PROVE Watched(n)'
  BY <1>0, <1>6 DEF StartTask, Watched, Locked
<1>7. CASE CheckLocked
  BY <1>0, <1>7 DEF CheckLocked, Watched, Locked
<1>8. CASE ExtendUnlocked
  BY <1>0, <1>8 DEF ExtendUnlocked, Watched, Locked
<1>9. CASE TaskExtends
  BY <1>0, <1>9 DEF TaskExtends, Watched, Locked
<1>10. CASE TaskFails
  BY <1>0, <1>10 DEF TaskFails, Watched, Locked
<1>11. CASE Release
  BY <1>0, <1>11 DEF Release, Watched, Locked
<1>12. CASE Reschedule
  BY <1>0, <1>12 DEF Reschedule, Watched, Locked, None
<1>13. CASE UNCHANGED allVars
  BY <1>0, <1>13 DEF allVars, Watched, Locked
<1> QED
  BY <1>1, <1>2, <1>3, <1>4, <1>5, <1>6, <1>7, <1>8, <1>9, <1>10, <1>11, <1>12, <1>13
     DEF WatcherNext, User, Watcher, RunTasks

\* A locked mutex always has a task that will extend its lock or find that it
\* is lost, in whatever order the application unlocks and locks it again.
THEOREM WatchedWhileLocked == WatcherSpec => []LockedIsWatched
<1>1. WatcherInit => LockedIsWatched
  BY DEF WatcherInit, LockedIsWatched, Locked, None
<1> QED BY <1>1, WatcherInitHolds, WatcherKeeps, NextWatched, PTL DEF WatcherSpec

-----------------------------------------------------------------------------
\* ~LockWatcher() has begun, and the task that ends the thread is queued, exactly
\* when nobody has a reference to the watcher: not the application, no RedMutex,
\* and no task that runs. The thread ends only then.
EndsInTime ==
    /\ userRef = {} /\ ~appRef /\ cur = NoMutex <=> dtor # "none"
    /\ terminate <=> dtor # "none"
    /\ wpc = "ended" => terminate
    /\ dtor = "done" => wpc = "ended"

LEMMA NextEndsInTime == WatcherInv /\ EndsInTime /\ [WatcherNext]_allVars => EndsInTime'
<1> SUFFICES ASSUME WatcherInv, EndsInTime, [WatcherNext]_allVars PROVE EndsInTime'
  OBVIOUS
<1>0. wpc \in {"check", "extend", "release"} <=> cur # NoMutex
  BY DEF WatcherInv, WatcherTypeOK
<1> USE DEF EndsInTime
\* While somebody has a reference the destructor has not begun.
<1>1. ASSUME NEW m \in Mutexes, TryLock(m) \/ TryLockThrows(m) \/ Unlock(m) PROVE EndsInTime'
  BY <1>1 DEF TryLock, TryLockThrows, Unlock, watcherVars
<1>2. ASSUME NEW m \in Mutexes, DestroyMutex(m) PROVE EndsInTime'
  BY <1>2 DEF DestroyMutex, LetGo
<1>3. CASE DropWatcher
  BY <1>3 DEF DropWatcher, LetGo
<1>4. CASE KeyExpires
  BY <1>4 DEF KeyExpires, watcherVars
<1>5. CASE Joined
  BY <1>5 DEF Joined, userVars
<1>6. ASSUME NEW m \in Mutexes, Fetch(m) PROVE EndsInTime'
  BY <1>6 DEF Fetch, userVars
<1>7. CASE FetchTerminate
  BY <1>7 DEF FetchTerminate, userVars
<1>8. ASSUME NEW m \in Mutexes, StartTask(m) PROVE EndsInTime'
  BY <1>0, <1>8, WatcherAssumption DEF StartTask, userVars
<1>9. CASE CheckLocked \/ ExtendUnlocked \/ TaskExtends \/ TaskFails
  BY <1>0, <1>9 DEF CheckLocked, ExtendUnlocked, TaskExtends, TaskFails, userVars
\* The task may have had the last one.
<1>10. CASE Release
  BY <1>0, <1>10 DEF Release, userVars
<1>11. CASE Reschedule
  BY <1>11 DEF Reschedule, userVars
<1>12. CASE UNCHANGED allVars
  BY <1>12 DEF allVars, userVars, watcherVars
<1> QED
  BY <1>1, <1>2, <1>3, <1>4, <1>5, <1>6, <1>7, <1>8, <1>9, <1>10, <1>11, <1>12
     DEF WatcherNext, User, Watcher, RunTasks

\* The thread of the watcher is ended neither early, while a mutex may still be
\* locked, nor late, with an application that waits in join() for a thread that
\* nobody has told.
THEOREM WatcherEndsInTime ==
    ASSUME Mutexes # {}
    PROVE  WatcherSpec => []EndsInTime
<1>1. WatcherInit => EndsInTime
  BY DEF WatcherInit, EndsInTime
<1> QED BY <1>1, WatcherInitHolds, WatcherKeeps, NextEndsInTime, PTL DEF WatcherSpec
=============================================================================
