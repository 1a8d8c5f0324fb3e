----------------------- MODULE ConnectionPool_proofs ------------------------
(***************************************************************************)
(* Proofs about ConnectionPool, for any number of threads, any size and    *)
(* both modes: its type, that no connection is lost or lent twice, that a  *)
(* fetched connection is not broken, and that no wakeup is lost.           *)
(***************************************************************************)
EXTENDS ConnectionPool, FiniteSetTheorems, TLAPS

-----------------------------------------------------------------------------
(* The deque.                                                              *)

\* push_back adds exactly the connection that is released.
LEMMA ElementsAppend ==
    ASSUME NEW S, NEW s \in Seq(S), NEW x \in S
    PROVE  Elements(Append(s, x)) = Elements(s) \cup {x}
<1>1. /\ DOMAIN Append(s, x) = 1..Len(s) + 1
      /\ DOMAIN s = 1..Len(s)
      /\ \A i \in 1..Len(s) : Append(s, x)[i] = s[i]
      /\ Append(s, x)[Len(s) + 1] = x
  OBVIOUS
<1>2. 1..Len(s) + 1 = (1..Len(s)) \cup {Len(s) + 1}
  OBVIOUS
<1> QED BY <1>1, <1>2 DEF Elements

\* A deque without duplicates keeps that when an element it lacks is appended.
LEMMA AppendDistinct ==
    ASSUME NEW S, NEW s \in Seq(S), NEW x \in S, x \notin Elements(s),
           \A i, j \in DOMAIN s : s[i] = s[j] => i = j
    PROVE  \A i, j \in DOMAIN Append(s, x) : Append(s, x)[i] = Append(s, x)[j] => i = j
<1>1. /\ DOMAIN Append(s, x) = 1..Len(s) + 1
      /\ DOMAIN s = 1..Len(s)
      /\ \A i \in 1..Len(s) : Append(s, x)[i] = s[i]
      /\ Append(s, x)[Len(s) + 1] = x
  OBVIOUS
<1>2. \A i \in 1..Len(s) : s[i] # x
  BY <1>1 DEF Elements
<1> QED BY <1>1, <1>2

\* Without duplicates, pop_front removes exactly the front.
LEMMA TailRemovesHead ==
    ASSUME NEW S, NEW s \in Seq(S), s # <<>>,
           \A i, j \in DOMAIN s : s[i] = s[j] => i = j
    PROVE  /\ Head(s) \in Elements(s)
           /\ Elements(Tail(s)) = Elements(s) \ {Head(s)}
           /\ \A i, j \in DOMAIN Tail(s) : Tail(s)[i] = Tail(s)[j] => i = j
<1>1. /\ DOMAIN s = 1..Len(s)
      /\ Len(s) \in Nat \ {0}
      /\ DOMAIN Tail(s) = 1..Len(s) - 1
      /\ \A i \in 1..Len(s) - 1 : Tail(s)[i] = s[i + 1]
      /\ Head(s) = s[1]
  OBVIOUS
<1>2. Head(s) \in Elements(s)
  BY <1>1 DEF Elements
<1>3. ASSUME NEW y \in Elements(Tail(s))
      PROVE  y \in Elements(s) \ {Head(s)}
  <2>1. PICK i \in 1..Len(s) - 1 : y = s[i + 1]
    BY <1>1, <1>3 DEF Elements
  <2>2. i + 1 \in 1..Len(s) /\ i + 1 # 1 /\ 1 \in 1..Len(s)
    BY <1>1
  <2> QED BY <1>1, <2>1, <2>2 DEF Elements
<1>4. ASSUME NEW y \in Elements(s) \ {Head(s)}
      PROVE  y \in Elements(Tail(s))
  <2>1. PICK i \in 1..Len(s) : y = s[i] /\ i # 1
    BY <1>1, <1>4 DEF Elements
  <2>2. i - 1 \in 1..Len(s) - 1 /\ Tail(s)[i - 1] = y
    BY <1>1, <2>1
  <2> QED BY <1>1, <2>2 DEF Elements
<1>5. \A i, j \in DOMAIN Tail(s) : Tail(s)[i] = Tail(s)[j] => i = j
  BY <1>1
<1> QED BY <1>2, <1>3, <1>4, <1>5

-----------------------------------------------------------------------------
(* Types.                                                                  *)

\* One step of a thread, of a connection's peer or of the service, by name.
LEMMA NextCases ==
    ASSUME Next
    PROVE  \/ \E t \in Threads :
                \/ FetchNew(t) \/ FetchWait(t) \/ FetchIdle(t)
                \/ SpuriousWakeup(t) \/ Timeout(t) \/ WaitAgain(t) \/ ThrowTimeout(t)
                \/ Reconnect(t) \/ AskSentinel(t) \/ Adopt(t) \/ ConnectFails(t)
                \/ Create(t) \/ Execute(t) \/ Release(t) \/ Notify(t)
           \/ \E c \in Slots : PeerCloses(c)
           \/ \E h \in Hosts : Failover(h)
BY DEF Next, Step

\* The connection of a thread that has one is one of the slots.
HeldWhere ==
    \A t \in Threads :
        /\ pc[t] \in {"out", "waiting", "woken", "timedout", "notifying"} => held[t] = 0
        /\ pc[t] \in {"using", "used", "failed"} => held[t] # 0
        /\ ~SentinelMode => pc[t] # "created" /\ (pc[t] = "connecting" => held[t] # 0)

TypeInv == TypeOK /\ HeldWhere

LEMMA InitTypeInv == Init => TypeInv
BY PoolAssumption DEF Init, TypeInv, TypeOK, HeldWhere, Connection, Dummy, Links, Locations, Slots

LEMMA CutTypes == \A k \in Connection : Cut(k) \in Connection
BY DEF Cut, Connection, Links

LEMMA NextTypeInv == TypeInv /\ [Next]_vars => TypeInv'
<1> SUFFICES ASSUME TypeInv, [Next]_vars
             PROVE  TypeInv'
  OBVIOUS
<1> USE PoolAssumption
    DEF TypeInv, TypeOK, HeldWhere, Connection, Dummy, Links, Locations, Slots, Move
<1>0. CASE UNCHANGED vars
  BY <1>0 DEF vars
<1>a. ASSUME NEW t \in Threads
      PROVE  /\ FetchNew(t) => TypeInv'
             /\ FetchWait(t) => TypeInv'
             /\ FetchIdle(t) => TypeInv'
             /\ SpuriousWakeup(t) => TypeInv'
             /\ Timeout(t) => TypeInv'
             /\ WaitAgain(t) => TypeInv'
             /\ ThrowTimeout(t) => TypeInv'
             /\ Reconnect(t) => TypeInv'
             /\ AskSentinel(t) => TypeInv'
             /\ Adopt(t) => TypeInv'
             /\ ConnectFails(t) => TypeInv'
             /\ Create(t) => TypeInv'
             /\ Execute(t) => TypeInv'
             /\ Release(t) => TypeInv'
             /\ Notify(t) => TypeInv'
  <2>1. FetchNew(t) => TypeInv'
    BY <1>a DEF FetchNew
  <2>2. FetchWait(t) => TypeInv'
    BY <1>a DEF FetchWait
  <2>3. FetchIdle(t) => TypeInv'
    <3> SUFFICES ASSUME FetchIdle(t) PROVE TypeInv'
      OBVIOUS
    <3>1. Head(pool) \in 1..Size /\ Tail(pool) \in Seq(1..Size) /\ Head(pool) # 0
      BY <1>a DEF FetchIdle
    <3>2. CASE Move(t, "connecting")
      <4>1. TypeOK'
        BY <1>a, <3>1, <3>2 DEF FetchIdle
      <4>2. HeldWhere'
        BY <1>a, <3>1, <3>2 DEF FetchIdle
      <4> QED BY <4>1, <4>2
    <3>3. CASE Move(t, "using")
      <4>1. TypeOK'
        BY <1>a, <3>1, <3>3 DEF FetchIdle
      <4>2. HeldWhere'
        BY <1>a, <3>1, <3>3 DEF FetchIdle
      <4> QED BY <4>1, <4>2
    <3> QED BY <3>2, <3>3 DEF FetchIdle
  <2>4. SpuriousWakeup(t) => TypeInv'
    BY <1>a DEF SpuriousWakeup
  <2>5. Timeout(t) => TypeInv'
    BY <1>a DEF Timeout
  <2>6. WaitAgain(t) => TypeInv'
    BY <1>a DEF WaitAgain
  <2>7. ThrowTimeout(t) => TypeInv'
    BY <1>a DEF ThrowTimeout
  <2>8. Reconnect(t) => TypeInv'
    <3> SUFFICES ASSUME Reconnect(t) PROVE TypeInv'
      OBVIOUS
    <3>1. held[t] \in 1..Size
      BY <1>a DEF Reconnect
    <3>2. TypeOK'
      <4>1. \A k \in Connection : [k EXCEPT !.link = "ok"] \in Connection
        OBVIOUS
      <4>2. conn' \in [Slots -> Connection]
        BY <1>a, <3>1, <4>1 DEF Reconnect
      <4>3. pc' \in [Threads -> Locations]
        BY <1>a DEF Reconnect
      <4>4. UNCHANGED <<opts, used, pool, held, fresh, server>>
        BY <1>a DEF Reconnect
      <4> QED BY <4>2, <4>3, <4>4
    <3>3. HeldWhere'
      BY <1>a, <3>1 DEF Reconnect
    <3> QED BY <3>2, <3>3
  <2>9. AskSentinel(t) => TypeInv'
    BY <1>a DEF AskSentinel
  <2>10. Adopt(t) => TypeInv'
    <3> SUFFICES ASSUME Adopt(t) PROVE TypeInv'
      OBVIOUS
    <3>1. CASE held[t] # 0
      <4>1. held[t] \in 1..Size /\ fresh[t] \in Connection
        BY <1>a, <3>1
      <4>2. TypeOK'
        BY <1>a, <3>1, <4>1 DEF Adopt
      <4>3. HeldWhere'
        BY <1>a, <3>1 DEF Adopt
      <4> QED BY <4>2, <4>3
    <3>2. CASE held[t] = 0
      BY <1>a, <3>2 DEF Adopt
    <3> QED BY <3>1, <3>2
  <2>11. ConnectFails(t) => TypeInv'
    <3> SUFFICES ASSUME ConnectFails(t) PROVE TypeInv'
      OBVIOUS
    <3>1. CASE held[t] # 0
      BY <1>a, <3>1 DEF ConnectFails
    <3>2. CASE held[t] = 0
      BY <1>a, <3>2 DEF ConnectFails
    <3> QED BY <3>1, <3>2
  <2>12. Create(t) => TypeInv'
    BY <1>a DEF Create
  <2>13. Execute(t) => TypeInv'
    <3> SUFFICES ASSUME Execute(t) PROVE TypeInv'
      OBVIOUS
    <3>1. held[t] \in 1..Size
      BY <1>a DEF Execute
    <3>2. CASE UNCHANGED conn
      BY <1>a, <3>2 DEF Execute
    <3>3. CASE conn' = [conn EXCEPT ![held[t]].link = "broken"]
      <4>1. \A k \in Connection : [k EXCEPT !.link = "broken"] \in Connection
        OBVIOUS
      <4>2. conn' \in [Slots -> Connection] /\ pc' \in [Threads -> Locations]
        BY <1>a, <3>1, <3>3, <4>1 DEF Execute
      <4>3. UNCHANGED <<opts, used, pool, held, fresh, server>>
        BY <1>a DEF Execute
      <4>4. TypeOK'
        BY <4>2, <4>3
      <4>5. HeldWhere'
        BY <1>a DEF Execute
      <4> QED BY <4>4, <4>5
    <3> QED BY <3>2, <3>3 DEF Execute
  <2>14. Release(t) => TypeInv'
    <3> SUFFICES ASSUME Release(t) PROVE TypeInv'
      OBVIOUS
    <3>1. held[t] \in 1..Size
      BY <1>a DEF Release
    <3>2. Append(pool, held[t]) \in Seq(1..Size)
      BY <3>1
    <3>3. TypeOK'
      BY <1>a, <3>2 DEF Release
    <3>4. HeldWhere'
      BY <1>a DEF Release
    <3> QED BY <3>3, <3>4
  <2>15. Notify(t) => TypeInv'
    <3> SUFFICES ASSUME Notify(t) PROVE TypeInv'
      OBVIOUS
    <3>1. CASE Move(t, "out")
      BY <1>a, <3>1 DEF Notify
    <3>2. ASSUME NEW w \in Threads, pc[w] = "waiting",
                 pc' = [pc EXCEPT ![t] = "out", ![w] = "woken"]
          PROVE  TypeInv'
      <4>1. TypeOK'
        BY <1>a, <3>2 DEF Notify
      <4>2. HeldWhere'
        BY <1>a, <3>2 DEF Notify
      <4> QED BY <4>1, <4>2
    <3> QED BY <3>1, <3>2 DEF Notify
  <2> QED BY <2>1, <2>2, <2>3, <2>4, <2>5, <2>6, <2>7, <2>8, <2>9, <2>10, <2>11, <2>12,
             <2>13, <2>14, <2>15
<1>b. ASSUME NEW c \in Slots, PeerCloses(c)
      PROVE  TypeInv'
  <2>1. TypeOK'
    <3>1. conn' \in [Slots -> Connection]
      BY <1>b, CutTypes DEF PeerCloses
    <3>2. UNCHANGED <<opts, used, pool, pc, held, fresh, server>>
      BY <1>b DEF PeerCloses
    <3> QED BY <3>1, <3>2
  <2>2. HeldWhere'
    BY <1>b DEF PeerCloses
  <2> QED BY <2>1, <2>2
<1>c. ASSUME NEW h \in Hosts, Failover(h)
      PROVE  TypeInv'
  <2>1. TypeOK'
    <3>1. conn' \in [Slots -> Connection]
      BY <1>c, CutTypes DEF Failover
    <3>2. fresh' \in [Threads -> Connection]
      BY <1>c, CutTypes DEF Failover
    <3>3. server' \in Hosts /\ UNCHANGED <<opts, used, pool, pc, held>>
      BY <1>c DEF Failover
    <3> QED BY <3>1, <3>2, <3>3
  <2>2. HeldWhere'
    BY <1>c DEF Failover
  <2> QED BY <2>1, <2>2
<1> QED BY <1>0, <1>a, <1>b, <1>c, NextCases

\* The state always has the type the code declares, and a thread has a
\* connection exactly where the code holds one in a variable.
THEOREM TypeCorrect == Spec => []TypeInv
BY InitTypeInv, NextTypeInv, PTL DEF Spec

\* The type invariant alone.
THEOREM TypeSafe == Spec => []TypeOK
BY TypeCorrect, PTL DEF TypeInv

-----------------------------------------------------------------------------
(* No connection is lost or lent twice.                                    *)

\* Only taking a connection and giving it back touch the deque, the counter
\* and what the threads hold.
LEMMA WhoTouchesThePool ==
    ASSUME [Next]_vars
    PROVE  \/ UNCHANGED <<used, pool, held>>
           \/ \E t \in Threads : FetchNew(t) \/ FetchIdle(t) \/ Release(t)
<1>1. CASE UNCHANGED vars
  BY <1>1 DEF vars
<1>2. CASE Next
  BY <1>2, NextCases
     DEF FetchWait, SpuriousWakeup, Timeout, WaitAgain, ThrowTimeout, Reconnect, AskSentinel,
         Adopt, ConnectFails, Create, Execute, Notify, PeerCloses, Failover
<1> QED BY <1>1, <1>2

LEMMA InitConservation == Init => Conservation
BY PoolAssumption DEF Init, Conservation, Idle, Elements, Slots

LEMMA NextConservation ==
    TypeInv /\ Conservation /\ [Next]_vars => Conservation'
<1> SUFFICES ASSUME TypeInv, Conservation, [Next]_vars
             PROVE  Conservation'
  OBVIOUS
<1> USE PoolAssumption DEF TypeInv, TypeOK, Slots
<1>1. CASE UNCHANGED <<used, pool, held>>
  BY <1>1 DEF Conservation, Idle, Elements
<1>2. ASSUME NEW t \in Threads, FetchNew(t)
      PROVE  Conservation'
  <2>1. /\ pool = <<>> /\ pool' = pool
        /\ used' = used + 1 /\ used' \in 1..Size
        /\ held[t] = 0
        /\ held' = [held EXCEPT ![t] = used + 1]
    BY <1>2 DEF FetchNew, HeldWhere
  <2>2. Idle = {} /\ Idle' = {}
    BY <2>1 DEF Idle, Elements
  <2>3. \A u \in Threads : held[u] <= used
    BY <2>1 DEF Conservation
  <2>4. \A u, w \in Threads : held'[u] # 0 /\ held'[u] = held'[w] => u = w
    BY <2>1, <2>3 DEF Conservation
  <2>5. \A c \in Slots : c <= used' <=> \E u \in Threads : held'[u] = c
    <3>1. \A c \in Slots : c <= used <=> \E u \in Threads : held[u] = c
      BY <2>2 DEF Conservation
    <3>2. \A c \in Slots : c <= used' <=> c <= used \/ c = used + 1
      BY <2>1
    <3>3. \A c \in Slots : (\E u \in Threads : held'[u] = c) <=>
                             (\E u \in Threads : held[u] = c) \/ c = used + 1
      BY <2>1
    <3> QED BY <3>1, <3>2, <3>3
  <2> QED BY <2>1, <2>2, <2>4, <2>5 DEF Conservation
<1>3. ASSUME NEW t \in Threads, FetchIdle(t)
      PROVE  Conservation'
  <2>1. /\ pool # <<>> /\ pool' = Tail(pool)
        /\ used' = used
        /\ held[t] = 0
        /\ held' = [held EXCEPT ![t] = Head(pool)]
    BY <1>3 DEF FetchIdle, HeldWhere
  <2>2. /\ Head(pool) \in Idle /\ Head(pool) \in Slots
        /\ Idle' = Idle \ {Head(pool)}
        /\ \A i, j \in DOMAIN pool' : pool'[i] = pool'[j] => i = j
    <3>1. /\ pool \in Seq(Slots)
          /\ \A i, j \in DOMAIN pool : pool[i] = pool[j] => i = j
      BY DEF Conservation
    <3>2. /\ Head(pool) \in Elements(pool)
          /\ Elements(Tail(pool)) = Elements(pool) \ {Head(pool)}
          /\ \A i, j \in DOMAIN Tail(pool) : Tail(pool)[i] = Tail(pool)[j] => i = j
      BY ONLY <2>1, <3>1, TailRemovesHead
    <3> QED BY <2>1, <3>2 DEF Idle
  <2>3. \A u, w \in Threads : held'[u] # 0 /\ held'[u] = held'[w] => u = w
    BY <2>1, <2>2 DEF Conservation
  <2>4. \A u \in Threads : held'[u] \notin Idle'
    BY <2>1, <2>2 DEF Conservation
  <2>5. \A c \in Slots : c <= used' <=> (c \in Idle' \/ \E u \in Threads : held'[u] = c)
    <3>1. \A c \in Slots : (\E u \in Threads : held'[u] = c) <=>
                             (\E u \in Threads : held[u] = c) \/ c = Head(pool)
      BY <2>1
    <3> QED BY <2>1, <2>2, <3>1 DEF Conservation
  <2> QED BY <2>2, <2>3, <2>4, <2>5 DEF Conservation
<1>4. ASSUME NEW t \in Threads, Release(t)
      PROVE  Conservation'
  <2>1. /\ held[t] \in 1..Size
        /\ pool' = Append(pool, held[t])
        /\ used' = used
        /\ held' = [held EXCEPT ![t] = 0]
    BY <1>4 DEF Release, HeldWhere
  <2>2. /\ Idle' = Idle \cup {held[t]}
        /\ \A i, j \in DOMAIN pool' : pool'[i] = pool'[j] => i = j
    <3>1. /\ pool \in Seq(Slots) /\ held[t] \in Slots /\ held[t] \notin Elements(pool)
          /\ \A i, j \in DOMAIN pool : pool[i] = pool[j] => i = j
      BY <2>1 DEF Conservation, Idle
    <3>2. Elements(Append(pool, held[t])) = Elements(pool) \cup {held[t]}
      <4> HIDE DEF Slots, TypeInv, TypeOK
      <4> QED BY ONLY <3>1, ElementsAppend
    <3>3. \A i, j \in DOMAIN Append(pool, held[t]) :
             Append(pool, held[t])[i] = Append(pool, held[t])[j] => i = j
      BY ONLY <3>1, AppendDistinct
    <3> QED BY <2>1, <3>2, <3>3 DEF Idle
  <2>3. \A u, w \in Threads : held'[u] # 0 /\ held'[u] = held'[w] => u = w
    BY <2>1 DEF Conservation
  <2>4. \A u \in Threads : held'[u] \notin Idle'
    <3>1. 0 \notin Idle
      BY DEF Idle, Elements
    <3> QED BY <2>1, <2>2, <3>1 DEF Conservation
  <2>5. \A c \in Slots : c <= used' <=> (c \in Idle' \/ \E u \in Threads : held'[u] = c)
    BY <2>1, <2>2 DEF Conservation
  <2> QED BY <2>2, <2>3, <2>4, <2>5 DEF Conservation
<1> QED BY <1>1, <1>2, <1>3, <1>4, WhoTouchesThePool

\* Every connection the pool has counted is idle or with exactly one thread.
THEOREM NothingLostOrSharedTwice == Spec => []Conservation
<1>1. TypeInv /\ Conservation /\ [Next]_vars => TypeInv' /\ Conservation'
  BY NextTypeInv, NextConservation
<1> QED BY InitTypeInv, InitConservation, <1>1, PTL DEF Spec

-----------------------------------------------------------------------------
(* A fetched connection is not broken.                                     *)

\* What sentinel.create() has returned is connected, until _create() adopts it.
FreshUsable == \A t \in Threads : pc[t] = "created" => fresh[t].link # "broken"

LEMMA NextFreshUsable == TypeInv /\ FreshUsable /\ [Next]_vars => FreshUsable'
<1> SUFFICES ASSUME TypeInv, FreshUsable, [Next]_vars
             PROVE  FreshUsable'
  OBVIOUS
<1> USE DEF TypeInv, TypeOK, Move, FreshUsable
<1>0. CASE UNCHANGED vars
  BY <1>0 DEF vars
<1>1. ASSUME NEW t \in Threads, Adopt(t)
      PROVE  FreshUsable'
  <2>1. pc'[t] # "created" /\ \A u \in Threads \ {t} : pc'[u] = pc[u] /\ fresh'[u] = fresh[u]
    BY <1>1 DEF Adopt
  <2> QED BY <2>1
<1>2. ASSUME NEW t \in Threads, AskSentinel(t)
      PROVE  FreshUsable'
  BY <1>2 DEF AskSentinel
<1>3. ASSUME NEW t \in Threads,
             \/ FetchNew(t) \/ FetchWait(t) \/ FetchIdle(t)
             \/ SpuriousWakeup(t) \/ Timeout(t) \/ WaitAgain(t) \/ ThrowTimeout(t)
             \/ Reconnect(t) \/ ConnectFails(t) \/ Create(t) \/ Execute(t) \/ Release(t)
             \/ Notify(t)
      PROVE  FreshUsable'
  <2>1. fresh' = fresh /\ \A u \in Threads : pc'[u] = "created" => pc[u] = "created"
    BY <1>3 DEF FetchNew, FetchWait, FetchIdle, SpuriousWakeup, Timeout, WaitAgain,
                ThrowTimeout, Reconnect, ConnectFails, Create, Execute, Release, Notify
  <2> QED BY <2>1
<1>4. ASSUME NEW c \in Slots, PeerCloses(c)
      PROVE  FreshUsable'
  BY <1>4 DEF PeerCloses
<1>5. ASSUME NEW h \in Hosts, Failover(h)
      PROVE  FreshUsable'
  BY <1>5 DEF Failover, Cut, Connection
<1> QED BY <1>0, <1>1, <1>2, <1>3, <1>4, <1>5, NextCases

LEMMA NextFetchedNotBroken ==
    TypeInv /\ Conservation /\ FreshUsable /\ FetchedNotBroken /\ [Next]_vars
        => FetchedNotBroken'
<1> SUFFICES ASSUME TypeInv, Conservation, FreshUsable, FetchedNotBroken, [Next]_vars
             PROVE  FetchedNotBroken'
  OBVIOUS
<1>h. ASSUME NEW t \in Threads, held[t] # 0
      PROVE  \A u \in Threads \ {t} : held[u] # held[t]
  BY <1>h DEF Conservation
<1> USE PoolAssumption DEF TypeInv, TypeOK, HeldWhere, Slots, Move, FetchedNotBroken
<1>0. CASE UNCHANGED vars
  BY <1>0 DEF vars
<1>1. ASSUME NEW t \in Threads, FetchNew(t)
      PROVE  FetchedNotBroken'
  <2>1. \A u \in Threads : held[u] <= used
    BY DEF Conservation
  <2>2. used' = used + 1 /\ used' \in Slots
    BY <1>1 DEF FetchNew
  <2>3. \A u \in Threads \ {t} : held'[u] = held[u] /\ pc'[u] = pc[u] /\ held[u] # used'
    BY <1>1, <2>1, <2>2 DEF FetchNew
  <2> QED BY <1>1, <2>2, <2>3 DEF FetchNew
<1>2. ASSUME NEW t \in Threads, FetchIdle(t)
      PROVE  FetchedNotBroken'
  <2>1. Head(pool) \in 1..Size
    BY <1>2 DEF FetchIdle
  <2> QED BY <1>2, <2>1 DEF FetchIdle, MustReconnect
<1>3. ASSUME NEW t \in Threads, Reconnect(t)
      PROVE  FetchedNotBroken'
  <2>1. held[t] \in Slots
    BY <1>3 DEF Reconnect
  <2>2. conn'[held[t]].link = "ok"
    BY <1>3, <2>1 DEF Reconnect, Connection
  <2>3. \A u \in Threads \ {t} : pc'[u] = pc[u] /\ held[u] # held[t]
    BY <1>h, <1>3 DEF Reconnect
  <2>4. \A c \in Slots \ {held[t]} : conn'[c] = conn[c]
    BY <1>3 DEF Reconnect
  <2> QED BY <1>3, <2>1, <2>2, <2>3, <2>4 DEF Reconnect
<1>4. ASSUME NEW t \in Threads, Adopt(t)
      PROVE  FetchedNotBroken'
  <2>1. CASE held[t] = 0
    BY <1>4, <2>1 DEF Adopt
  <2>2. CASE held[t] # 0
    <3>1. held[t] \in Slots /\ fresh[t].link # "broken"
      BY <1>4, <2>2 DEF Adopt, FreshUsable
    <3>2. /\ conn'[held[t]] = fresh[t]
          /\ \A c \in Slots \ {held[t]} : conn'[c] = conn[c]
          /\ held' = held
          /\ \A u \in Threads \ {t} : pc'[u] = pc[u]
      BY <1>4, <2>2, <3>1 DEF Adopt
    <3> QED BY <1>h, <2>2, <3>1, <3>2
  <2> QED BY <2>1, <2>2
<1>5. ASSUME NEW t \in Threads, Execute(t)
      PROVE  FetchedNotBroken'
  <2>1. /\ held[t] \in Slots
        /\ \A c \in Slots \ {held[t]} : conn'[c] = conn[c]
        /\ held' = held
        /\ pc'[t] = "used"
        /\ \A u \in Threads \ {t} : pc'[u] = pc[u]
    BY <1>5 DEF Execute
  <2> QED BY <1>h, <2>1
<1>6. ASSUME NEW t \in Threads, Notify(t)
      PROVE  FetchedNotBroken'
  BY <1>6 DEF Notify
<1>7. ASSUME NEW t \in Threads,
             \/ FetchWait(t) \/ SpuriousWakeup(t) \/ Timeout(t) \/ WaitAgain(t)
             \/ ThrowTimeout(t) \/ AskSentinel(t) \/ ConnectFails(t) \/ Create(t) \/ Release(t)
      PROVE  FetchedNotBroken'
  BY <1>7 DEF FetchWait, SpuriousWakeup, Timeout, WaitAgain, ThrowTimeout, AskSentinel,
              ConnectFails, Create, Release
<1>8. ASSUME NEW c \in Slots, PeerCloses(c)
      PROVE  FetchedNotBroken'
  BY <1>8 DEF PeerCloses, Cut, Connection
<1>9. ASSUME NEW h \in Hosts, Failover(h)
      PROVE  FetchedNotBroken'
  BY <1>9 DEF Failover, Cut, Connection
<1> QED BY <1>0, <1>1, <1>2, <1>3, <1>4, <1>5, <1>6, <1>7, <1>8, <1>9, NextCases

\* The assertion of SafeConnection and GuardedConnection holds whenever fetch()
\* returns, in both modes.
THEOREM FetchReturnsUsable == Spec => []FetchedNotBroken
<1> DEFINE Inv == TypeInv /\ Conservation /\ FreshUsable /\ FetchedNotBroken
<1>1. Init => Inv
  <2>1. Init => FreshUsable /\ FetchedNotBroken
    BY DEF Init, FreshUsable, FetchedNotBroken
  <2> QED BY <2>1, InitTypeInv, InitConservation
<1>2. Inv /\ [Next]_vars => Inv'
  BY NextTypeInv, NextConservation, NextFreshUsable, NextFetchedNotBroken
<1>3. Inv => FetchedNotBroken
  OBVIOUS
<1> HIDE DEF Inv
<1> QED BY <1>1, <1>2, <1>3, PTL DEF Spec

-----------------------------------------------------------------------------
(* No wakeup is lost.                                                      *)

LEMMA ComingFinite == Coming \subseteq Threads /\ IsFiniteSet(Coming) /\ Cardinality(Coming) \in Nat
BY PoolAssumption, FS_Subset, FS_CardinalityType DEF Coming

\* A thread that joins those on their way adds one to them, and one that
\* leaves takes one away.
LEMMA ComingChanges ==
    ASSUME TypeOK, NEW t \in Threads, NEW l \in Locations, pc' = [pc EXCEPT ![t] = l]
    PROVE  LET on == {"notifying", "woken", "timedout"}
           IN  /\ (pc[t] \in on <=> l \in on) => Cardinality(Coming') = Cardinality(Coming)
               /\ pc[t] \notin on /\ l \in on => Cardinality(Coming') = Cardinality(Coming) + 1
               /\ pc[t] \in on /\ l \notin on => Cardinality(Coming') = Cardinality(Coming) - 1
<1> DEFINE on == {"notifying", "woken", "timedout"}
<1>1. \A u \in Threads : u \in Coming <=> pc[u] \in on
  BY DEF Coming
<1>2. \A u \in Threads : u \in Coming' <=> pc'[u] \in on
  BY DEF Coming
<1>3. /\ pc'[t] = l
      /\ \A u \in Threads \ {t} : pc'[u] = pc[u]
  BY DEF TypeOK
<1>4. Coming \subseteq Threads /\ Coming' \subseteq Threads
  BY DEF Coming
<1>5. ASSUME pc[t] \in on <=> l \in on
      PROVE  Cardinality(Coming') = Cardinality(Coming)
  <2>1. Coming' = Coming
    BY <1>1, <1>2, <1>3, <1>4, <1>5
  <2> QED BY <2>1
<1>6. ASSUME pc[t] \notin on, l \in on
      PROVE  Cardinality(Coming') = Cardinality(Coming) + 1
  <2>1. Coming' = Coming \cup {t} /\ t \notin Coming
    BY <1>1, <1>2, <1>3, <1>4, <1>6
  <2> QED BY <2>1, ComingFinite, FS_AddElement
<1>7. ASSUME pc[t] \in on, l \notin on
      PROVE  Cardinality(Coming') = Cardinality(Coming) - 1
  <2>1. Coming' = Coming \ {t} /\ t \in Coming
    BY <1>1, <1>2, <1>3, <1>4, <1>7
  <2> QED BY <2>1, ComingFinite, FS_RemoveElement
<1> QED BY <1>5, <1>6, <1>7

LEMMA NextNoLostWakeup == TypeInv /\ NoLostWakeup /\ [Next]_vars => NoLostWakeup'
<1> SUFFICES ASSUME TypeInv, NoLostWakeup, [Next]_vars
             PROVE  NoLostWakeup'
  OBVIOUS
<1> DEFINE on == {"notifying", "woken", "timedout"}
<1>t. /\ TypeOK /\ HeldWhere
      /\ Len(pool) \in Nat /\ Cardinality(Coming) \in Nat
  BY ComingFinite DEF TypeInv, TypeOK
<1>0. ASSUME UNCHANGED <<pool, pc>>
      PROVE  NoLostWakeup'
  <2>1. Coming' = Coming
    BY <1>0 DEF Coming
  <2> QED BY <1>0, <2>1 DEF NoLostWakeup
\* A thread that moves without touching the deque, and neither begins to wait
\* nor leaves those on their way.
<1>1. ASSUME NEW t \in Threads, NEW l \in Locations,
             pool' = pool, pc' = [pc EXCEPT ![t] = l], l # "waiting",
             pc[t] \in on => l \in on
      PROVE  NoLostWakeup'
  <2>1. Cardinality(Coming') \in {Cardinality(Coming), Cardinality(Coming) + 1}
    BY <1>t, <1>1, ComingChanges
  <2>2. \A u \in Threads : pc'[u] = "waiting" => pc[u] = "waiting"
    BY <1>t, <1>1 DEF TypeOK
  <2> QED BY <1>t, <1>1, <2>1, <2>2 DEF NoLostWakeup
\* With an empty deque there is nothing to wait next to.
<1>2. ASSUME pool' = <<>>, pc' \in [Threads -> Locations]
      PROVE  NoLostWakeup'
  <2>1. Len(pool') = 0
    BY <1>2
  <2>2. Coming' \subseteq Threads
    BY DEF Coming
  <2>3. Cardinality(Coming') \in Nat
    BY <2>2, PoolAssumption, FS_Subset, FS_CardinalityType
  <2> QED BY <2>1, <2>3 DEF NoLostWakeup
<1>3. ASSUME NEW t \in Threads, FetchIdle(t)
      PROVE  NoLostWakeup'
  <2>1. Len(pool') = Len(pool) - 1
    BY <1>t, <1>3 DEF FetchIdle, TypeOK
  <2>2. PICK l \in {"connecting", "using"} : pc' = [pc EXCEPT ![t] = l]
    BY <1>3 DEF FetchIdle, Move
  <2>3. Cardinality(Coming') \in {Cardinality(Coming), Cardinality(Coming) - 1}
    BY <1>t, <2>2, ComingChanges DEF Locations
  <2>4. \A u \in Threads : pc'[u] = "waiting" => pc[u] = "waiting"
    BY <1>t, <2>2 DEF TypeOK
  <2> QED BY <1>t, <2>1, <2>3, <2>4 DEF NoLostWakeup
<1>4. ASSUME NEW t \in Threads, Release(t)
      PROVE  NoLostWakeup'
  <2>1. Len(pool') = Len(pool) + 1
    <3>1. held[t] \in Slots
      BY <1>t, <1>4 DEF Release, HeldWhere, TypeOK, Slots
    <3> QED BY <1>t, <1>4, <3>1 DEF Release, TypeOK
  <2>2. pc' = [pc EXCEPT ![t] = "notifying"] /\ pc[t] \notin on
    BY <1>4 DEF Release, Move
  <2>3. Cardinality(Coming') = Cardinality(Coming) + 1
    BY <1>t, <2>2, ComingChanges DEF Locations
  <2>4. \A u \in Threads : pc'[u] = "waiting" => pc[u] = "waiting"
    BY <1>t, <2>2 DEF TypeOK
  <2> QED BY <1>t, <2>1, <2>3, <2>4 DEF NoLostWakeup
<1>5. ASSUME NEW t \in Threads, Notify(t)
      PROVE  NoLostWakeup'
  <2>1. pool' = pool /\ pc[t] = "notifying"
    BY <1>5 DEF Notify
  <2>2. CASE /\ \A w \in Threads : pc[w] # "waiting"
             /\ pc' = [pc EXCEPT ![t] = "out"]
    <3>1. \A w \in Threads : pc'[w] # "waiting"
      BY <1>t, <2>2 DEF TypeOK
    <3> QED BY <3>1 DEF NoLostWakeup
  <2>3. ASSUME NEW w \in Threads, pc[w] = "waiting",
               pc' = [pc EXCEPT ![t] = "out", ![w] = "woken"]
        PROVE  NoLostWakeup'
    <3>1. /\ t \in Coming /\ w \notin Coming
          /\ Coming' = (Coming \ {t}) \cup {w}
      BY <1>t, <2>1, <2>3 DEF Coming, TypeOK
    <3>2. /\ IsFiniteSet(Coming \ {t})
          /\ Cardinality(Coming \ {t}) = Cardinality(Coming) - 1
          /\ w \notin Coming \ {t}
      BY <3>1, ComingFinite, FS_RemoveElement
    <3>3. Cardinality(Coming') = Cardinality(Coming)
      <4> DEFINE rest == Coming \ {t}
      <4>1. Cardinality(rest \cup {w}) = Cardinality(rest) + 1
        BY <3>2, FS_AddElement
      <4> QED BY <1>t, <3>1, <3>2, <4>1
    <3>4. \A u \in Threads : pc'[u] = "waiting" => pc[u] = "waiting"
      BY <1>t, <2>3 DEF TypeOK
    <3> QED BY <2>1, <3>3, <3>4 DEF NoLostWakeup
  <2> QED BY <1>5, <2>2, <2>3 DEF Notify, Move
<1>6. TypeOK'
  BY NextTypeInv DEF TypeInv
<1>7. ASSUME NEW t \in Threads,
             FetchNew(t) \/ FetchWait(t) \/ WaitAgain(t) \/ ThrowTimeout(t)
      PROVE  NoLostWakeup'
  BY <1>2, <1>6, <1>7 DEF FetchNew, FetchWait, WaitAgain, ThrowTimeout, TypeOK
<1>8. ASSUME NEW t \in Threads, SpuriousWakeup(t) \/ Timeout(t)
      PROVE  NoLostWakeup'
  BY <1>1, <1>8 DEF SpuriousWakeup, Timeout, Move, Locations
<1>9. ASSUME NEW t \in Threads,
             Reconnect(t) \/ AskSentinel(t) \/ Adopt(t) \/ ConnectFails(t) \/ Create(t) \/ Execute(t)
      PROVE  NoLostWakeup'
  <2>1. pool' = pool /\ pc[t] \notin on
    BY <1>9 DEF Reconnect, AskSentinel, Adopt, ConnectFails, Create, Execute
  <2>2. \E l \in Locations : l # "waiting" /\ pc' = [pc EXCEPT ![t] = l]
    BY <1>9 DEF Reconnect, AskSentinel, Adopt, ConnectFails, Create, Execute, Move, Locations
  <2> QED BY <1>1, <2>1, <2>2
<1>10. ASSUME \/ \E c \in Slots : PeerCloses(c)
              \/ \E h \in Hosts : Failover(h)
       PROVE  NoLostWakeup'
  BY <1>0, <1>10 DEF PeerCloses, Failover
<1>11. CASE UNCHANGED vars
  BY <1>0, <1>11 DEF vars
<1> QED BY <1>3, <1>4, <1>5, <1>7, <1>8, <1>9, <1>10, <1>11, NextCases

\* Whatever the interleaving of releases, notifications, timeouts and threads
\* that overtake a waiter, an idle connection and a sleeping waiter never stay
\* together without somebody on the way who will change that.
THEOREM NoWakeupIsLost == Spec => []NoLostWakeup
<1>1. Init => NoLostWakeup
  BY DEF Init, NoLostWakeup
<1>2. TypeInv /\ NoLostWakeup /\ [Next]_vars => TypeInv' /\ NoLostWakeup'
  BY NextTypeInv, NextNoLostWakeup
<1> QED BY <1>1, <1>2, InitTypeInv, PTL DEF Spec

-----------------------------------------------------------------------------
(* The pool implements SlotPool.                                           *)

\* The owner of a connection, read off the state of the pool.
Owners ==
    \A c \in Slots :
        /\ \A t \in Threads : OwnerOf(c) = t <=> held[t] = c
        /\ OwnerOf(c) = "free" <=> c \in Idle
        /\ OwnerOf(c) = "unborn" <=> c > used
        /\ OwnerOf(c) \in Threads \cup {"unborn", "free"}

LEMMA OwnerIs == TypeInv /\ Conservation => Owners
<1> SUFFICES ASSUME TypeInv, Conservation, NEW c \in Slots
             PROVE  /\ \A t \in Threads : OwnerOf(c) = t <=> held[t] = c
                    /\ OwnerOf(c) = "free" <=> c \in Idle
                    /\ OwnerOf(c) = "unborn" <=> c > used
                    /\ OwnerOf(c) \in Threads \cup {"unborn", "free"}
  BY DEF Owners
<1> USE PoolAssumption DEF TypeInv, TypeOK, Slots
<1>1. ASSUME NEW t \in Threads, held[t] = c
      PROVE  OwnerOf(c) = t /\ c \notin Idle /\ c <= used
  <2>1. \A u \in Threads : held[u] = c => u = t
    BY <1>1 DEF Conservation
  <2> QED BY <1>1, <2>1 DEF OwnerOf, Conservation
<1>2. ASSUME \A t \in Threads : held[t] # c
      PROVE  OwnerOf(c) = (IF c \in Idle THEN "free" ELSE "unborn") /\ (c \in Idle <=> c <= used)
  BY <1>2 DEF OwnerOf, Conservation
<1> QED BY <1>1, <1>2

LEMMA InitSlots == Init => Slot!SlotInit
<1> SUFFICES ASSUME Init PROVE Slot!SlotInit
  OBVIOUS
<1>1. Owners
  BY InitTypeInv, InitConservation, OwnerIs
<1>2. \A c \in Slots : c > used
  BY PoolAssumption DEF Init, Slots
<1>3. \A c \in Slots : OwnerOf(c) = "unborn"
  BY <1>1, <1>2 DEF Owners
<1> QED BY <1>3 DEF Slot!SlotInit, Slot!Slots, Slots, owned

LEMMA StepSlots ==
    TypeInv /\ Conservation /\ TypeInv' /\ Conservation' /\ [Next]_vars
        => [Slot!SlotNext]_owned
<1> SUFFICES ASSUME TypeInv, Conservation, TypeInv', Conservation', [Next]_vars
             PROVE  [Slot!SlotNext]_owned
  OBVIOUS
<1>1. Owners
  BY OwnerIs
<1>2. Owners'
  BY OwnerIs, PTL
<1>3. CASE UNCHANGED <<used, pool, held>>
  BY <1>3 DEF owned, OwnerOf, Idle, Elements
<1>4. ASSUME NEW t \in Threads, NEW d \in Slots,
             held[t] = 0, held' = [held EXCEPT ![t] = d],
             OwnerOf(d) \in {"unborn", "free"},
             \A c \in Slots \ {d} : OwnerOf(c)' \in {"unborn", "free"} => OwnerOf(c)' = OwnerOf(c)
      PROVE  Slot!SlotNext
  <2>1. OwnerOf(d)' = t
    BY <1>2, <1>4 DEF Owners, TypeInv, TypeOK
  <2>2. ASSUME NEW c \in Slots \ {d}
        PROVE  OwnerOf(c)' = OwnerOf(c)
    <3>1. CASE \E u \in Threads : OwnerOf(c)' = u
      <4>1. PICK u \in Threads : OwnerOf(c)' = u
        BY <3>1
      <4>2. held'[u] = c
        BY <1>2, <4>1 DEF Owners
      <4>3. held[u] = c
        BY <1>4, <2>2, <4>2 DEF TypeInv, TypeOK
      <4> QED BY <1>1, <4>1, <4>3 DEF Owners
    <3>2. CASE OwnerOf(c)' \in {"unborn", "free"}
      BY <1>4, <3>2
    <3> QED BY <1>2, <3>1, <3>2 DEF Owners
  <2>3. owned' = [owned EXCEPT ![d] = t]
    BY <2>1, <2>2 DEF owned
  <2>4. \A c \in Slots : owned[c] # t
    BY <1>1, <1>4, PoolAssumption DEF owned, Owners, Slots
  <2>5. Slot!Lend(t)
    BY <1>4, <2>3, <2>4 DEF Slot!Lend, Slot!Slots, Slots, owned
  <2> QED BY <2>5 DEF Slot!SlotNext
<1>5. ASSUME NEW t \in Threads, FetchNew(t)
      PROVE  Slot!SlotNext
  <2> DEFINE d == used + 1
  <2>1. /\ d \in Slots /\ used' = d /\ pool' = pool
        /\ held[t] = 0 /\ held' = [held EXCEPT ![t] = d]
    BY <1>5, PoolAssumption DEF FetchNew, TypeInv, TypeOK, HeldWhere, Slots
  <2>2. OwnerOf(d) = "unborn"
    BY <1>1, <2>1 DEF Owners, TypeInv, TypeOK
  <2>3. Idle' = Idle
    BY <2>1 DEF Idle
  <2>4. \A c \in Slots \ {d} : c > used' <=> c > used
    BY <2>1 DEF TypeInv, TypeOK, Slots
  <2>5. \A c \in Slots \ {d} : OwnerOf(c)' \in {"unborn", "free"} => OwnerOf(c)' = OwnerOf(c)
    BY <1>1, <1>2, <2>3, <2>4 DEF Owners
  <2> QED BY <1>4, <2>1, <2>2, <2>5
<1>6. ASSUME NEW t \in Threads, FetchIdle(t)
      PROVE  Slot!SlotNext
  <2> DEFINE d == Head(pool)
  <2>1. /\ d \in Slots /\ d \in Idle /\ Idle' = Idle \ {d} /\ used' = used
        /\ held[t] = 0 /\ held' = [held EXCEPT ![t] = d]
    <3>1. /\ pool # <<>> /\ pool' = Tail(pool) /\ used' = used
          /\ held[t] = 0 /\ held' = [held EXCEPT ![t] = d]
          /\ pool \in Seq(Slots)
      BY <1>6 DEF FetchIdle, TypeInv, TypeOK, HeldWhere
    <3>2. \A i, j \in DOMAIN pool : pool[i] = pool[j] => i = j
      BY DEF Conservation
    <3>3. Head(pool) \in Elements(pool) /\ Elements(Tail(pool)) = Elements(pool) \ {Head(pool)}
      BY ONLY <3>1, <3>2, TailRemovesHead
    <3> QED BY <3>1, <3>3 DEF Idle
  <2>2. OwnerOf(d) = "free"
    BY <1>1, <2>1 DEF Owners
  <2>3. \A c \in Slots \ {d} : OwnerOf(c)' \in {"unborn", "free"} => OwnerOf(c)' = OwnerOf(c)
    BY <1>1, <1>2, <2>1 DEF Owners
  <2> QED BY <1>4, <2>1, <2>2, <2>3
<1>7. ASSUME NEW t \in Threads, Release(t)
      PROVE  Slot!SlotNext
  <2>0. PICK d \in Slots : d = held[t]
    BY <1>7 DEF Release, TypeInv, TypeOK, HeldWhere, Slots
  <2>1. /\ held[t] = d /\ d \in Slots /\ used' = used
        /\ pool' = Append(pool, d) /\ held' = [held EXCEPT ![t] = 0]
    BY <1>7, <2>0 DEF Release
  <2>2. Idle' = Idle \cup {d}
    <3>1. pool \in Seq(Slots)
      BY DEF TypeInv, TypeOK
    <3>2. Elements(Append(pool, d)) = Elements(pool) \cup {d}
      BY ONLY <2>1, <3>1, ElementsAppend
    <3> QED BY <2>1, <3>2 DEF Idle
  <2>3. OwnerOf(d) = t /\ OwnerOf(d)' = "free"
    BY <1>1, <1>2, <2>1, <2>2 DEF Owners
  <2>4. ASSUME NEW c \in Slots \ {d}
        PROVE  OwnerOf(c)' = OwnerOf(c)
    <3>1. \A u \in Threads : held'[u] = c <=> held[u] = c
      BY <2>1, <2>4 DEF TypeInv, TypeOK, Slots
    <3>2. (c \in Idle' <=> c \in Idle) /\ (c > used' <=> c > used)
      BY <2>1, <2>2, <2>4
    <3> QED BY <1>1, <1>2, <3>1, <3>2 DEF Owners
  <2>5. owned' = [owned EXCEPT ![d] = "free"]
    BY <2>1, <2>3, <2>4 DEF owned
  <2>6. Slot!GiveBack(t)
    BY <2>1, <2>3, <2>5 DEF Slot!GiveBack, Slot!Slots, Slots, owned
  <2> QED BY <2>6 DEF Slot!SlotNext
<1> QED BY <1>3, <1>5, <1>6, <1>7, WhoTouchesThePool

\* The pool implements SlotPool, for every number of threads and every size.
THEOREM PoolImplementsSlotPool == Spec => ImplementsSlotPool
<1>1. Init => Slot!SlotInit
  BY InitSlots
<1>2. TypeInv /\ Conservation /\ TypeInv' /\ Conservation' /\ [Next]_vars => [Slot!SlotNext]_owned
  BY StepSlots
<1>3. Spec => []TypeInv
  BY TypeCorrect
<1>4. Spec => []Conservation
  BY NothingLostOrSharedTwice
<1>5. Init /\ []TypeInv /\ []Conservation /\ [][Next]_vars => Slot!SlotInit /\ [][Slot!SlotNext]_owned
  BY <1>1, <1>2, PTL
<1> QED BY <1>3, <1>4, <1>5, PTL DEF Spec, ImplementsSlotPool, Slot!SlotSpec
=============================================================================
