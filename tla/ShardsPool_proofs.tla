-------------------------- MODULE ShardsPool_proofs --------------------------
(***************************************************************************)
(* Proofs about ShardsPool, for any cluster, any threads and any number of *)
(* attempts; and about the functions of HashSlots that it relies on, for   *)
(* maps and keys of any size.                                              *)
(***************************************************************************)
EXTENDS ShardsPool, HashSlots, SequenceTheorems, TLAPS

-----------------------------------------------------------------------------
(* The cluster: its maps are never changed, only added to.                 *)

LEMMA MapsAreNumbered ==
    ASSUME ClusterTypeOK
    PROVE  Latest \in Nat /\ Latest >= 1 /\ DOMAIN maps = 1..Latest
BY LenProperties DEF ClusterTypeOK, Latest

\* A map added by the cluster leaves the others as they are.
LEMMA NewMapTypes ==
    ASSUME ClusterTypeOK, NEW f \in SlotMaps, NEW n \in Nodes, NewMap(f, n)
    PROVE  /\ maps' \in Seq(SlotMaps) /\ maps' # <<>>
           /\ DOMAIN maps \subseteq DOMAIN maps'
           /\ \A i \in DOMAIN maps : maps'[i] = maps[i]
           /\ known' \in [Nodes -> DOMAIN maps']
<1>1. maps' \in Seq(SlotMaps) /\ Len(maps') = Latest + 1
  BY DEF ClusterTypeOK, NewMap, Latest
<1>2. Latest \in Nat /\ DOMAIN maps = 1..Latest /\ DOMAIN maps' = 1..Latest + 1
  BY <1>1, MapsAreNumbered, LenProperties
<1>3. \A i \in DOMAIN maps : maps'[i] = maps[i]
  BY <1>2 DEF ClusterTypeOK, NewMap, Latest
<1>4. known' \in [Nodes -> DOMAIN maps']
  BY <1>2 DEF ClusterTypeOK, NewMap
<1> QED BY <1>1, <1>2, <1>3, <1>4

LEMMA ClusterTypes ==
    ASSUME ClusterTypeOK, ClusterStep
    PROVE  /\ ClusterTypeOK'
           /\ DOMAIN maps \subseteq DOMAIN maps'
           /\ \A i \in DOMAIN maps : maps'[i] = maps[i]
<1> DEFINE Goal == /\ ClusterTypeOK'
                   /\ DOMAIN maps \subseteq DOMAIN maps'
                   /\ \A i \in DOMAIN maps : maps'[i] = maps[i]
<1>1. ASSUME NEW s \in Slots, NEW n \in Nodes, Migrate(s, n)
      PROVE  Goal
  BY <1>1 DEF Migrate, ClusterTypeOK
<1>2. ASSUME NEW s \in Slots, NEW n \in Nodes, SetSlot(s, n)
      PROVE  Goal
  <2>1. [maps[Latest] EXCEPT ![s] = importing[s]] \in SlotMaps
    BY MapsAreNumbered DEF ClusterTypeOK, SlotMaps
  <2> QED BY <1>2, <2>1, NewMapTypes DEF SetSlot, ClusterTypeOK
<1>3. ASSUME NEW s \in Slots, NEW n \in Nodes, NEW m \in Nodes \cup {NoNode}, Assign(s, m, n)
      PROVE  Goal
  <2>1. [maps[Latest] EXCEPT ![s] = m] \in SlotMaps
    BY MapsAreNumbered DEF ClusterTypeOK, SlotMaps
  <2> QED BY <1>3, <2>1, NewMapTypes DEF Assign, ClusterTypeOK
<1>4. ASSUME NEW n \in Nodes, Crash(n) \/ Restart(n)
      PROVE  Goal
  BY <1>4 DEF Crash, Restart, ClusterTypeOK
<1>5. ASSUME NEW n \in Nodes, NEW m \in Nodes, Promote(n, m)
      PROVE  Goal
  <2>1. [s \in Slots |-> IF maps[Latest][s] = m THEN n ELSE maps[Latest][s]] \in SlotMaps
    BY MapsAreNumbered DEF ClusterTypeOK, SlotMaps
  <2> QED BY <1>5, <2>1, NewMapTypes DEF Promote, ClusterTypeOK
<1>6. ASSUME NEW n \in Nodes, Learn(n)
      PROVE  Goal
  BY <1>6, MapsAreNumbered DEF Learn, ClusterTypeOK
<1> QED BY <1>1, <1>2, <1>3, <1>4, <1>5, <1>6 DEF ClusterStep, Changes

-----------------------------------------------------------------------------
(* Types, and the answer of CLUSTER SLOTS is a map the cluster has had.    *)

AnswerInv ==
    \A t \in All : /\ pc[t] = "adopt" => answer[t] \in DOMAIN maps
                   /\ pc[t] = "redirected" => target[t] \in Nodes

\* The worker runs no commands. While the others do, nobody has their result,
\* and what was executed is bounded by the attempts that are over.
CommandInv ==
    /\ pc[Worker] \in {"waiting", "update", "slots", "adopt", "ended"}
    /\ \A t \in Threads :
          /\ pc[t] \in {"out", "fetch", "send", "redirected", "asking", "update", "slots", "adopt"}
          /\ pc[t] = "out" => idx[t] = 0
          /\ pc[t] # "out" => result[t] = "none" /\ (~lost[t] => done[t] = 0)
          /\ pc[t] \in {"send", "redirected", "asking"} => done[t] < idx[t]
          /\ pc[t] \in {"fetch", "update", "slots", "adopt"} => done[t] <= idx[t]
          /\ pc[t] = "fetch" => idx[t] < 2

IInv == TypeOK /\ AnswerInv /\ MapHasPools /\ CommandInv /\ RepeatsAreSafe

LEMMA InitIInv == Init => IInv
<1> SUFFICES ASSUME Init PROVE IInv
  OBVIOUS
<1> USE ClusterAssumption, ShardsAssumption DEF Init, ClusterInit, All
<1>1. ClusterTypeOK
  BY DEF ClusterTypeOK, SlotMaps
<1>2. NodesOf(1) \subseteq Nodes
  BY <1>1, MapsAreNumbered DEF ClusterTypeOK, SlotMaps, NodesOf
<1>3. TypeOK
  <2>1. 1 \in DOMAIN maps
    BY <1>1, MapsAreNumbered
  <2>2. slot \in [Threads -> Slots]
    OBVIOUS
  <2>3. upd \in [All -> 0..Attempts - 1]
    OBVIOUS
  <2>4. pc \in [All -> Locations] /\ target \in [All -> Nodes \cup {NoNode}] /\ answer \in [All -> Nat]
    BY DEF Locations
  <2>5. /\ idx \in [Threads -> 0..2] /\ done \in [Threads -> 0..2]
        /\ lost \in [Threads -> BOOLEAN] /\ result \in [Threads -> {"none", "ok", "thrown"}]
    OBVIOUS
  <2>6. stop \in BOOLEAN /\ pools \subseteq Nodes /\ shards \in DOMAIN maps
    BY <1>2, <2>1
  <2> QED BY ONLY <1>1, <2>2, <2>3, <2>4, <2>5, <2>6 DEF TypeOK
<1>4. AnswerInv /\ MapHasPools
  BY DEF AnswerInv, MapHasPools
<1>5. CommandInv /\ RepeatsAreSafe
  BY DEF CommandInv, RepeatsAreSafe
<1> QED BY <1>3, <1>4, <1>5 DEF IInv

-----------------------------------------------------------------------------
(* The steps.                                                              *)

\* What TypeOK says of the variables that the cluster does not have.
PoolTypes ==
    /\ pools \subseteq Nodes
    /\ stop \in BOOLEAN
    /\ pc \in [All -> Locations]
    /\ slot \in [Threads -> Slots]
    /\ idx \in [Threads -> 0..2]
    /\ upd \in [All -> 0..Attempts - 1]
    /\ target \in [All -> Nodes \cup {NoNode}]
    /\ answer \in [All -> Nat]
    /\ done \in [Threads -> 0..2]
    /\ lost \in [Threads -> BOOLEAN]
    /\ result \in [Threads -> {"none", "ok", "thrown"}]

LEMMA TypeParts == TypeOK <=> ClusterTypeOK /\ shards \in DOMAIN maps /\ PoolTypes
BY DEF TypeOK, PoolTypes

\* A step of the cluster.
LEMMA ClusterKeeps ==
    ASSUME IInv, Cluster
    PROVE  IInv'
<1>1. /\ ClusterTypeOK'
      /\ DOMAIN maps \subseteq DOMAIN maps'
      /\ \A i \in DOMAIN maps : maps'[i] = maps[i]
  BY ClusterTypes DEF IInv, TypeOK, Cluster
<1> USE DEF Cluster, poolVars, commandVars, updateVars
<1>2. TypeOK'
  BY <1>1 DEF IInv, TypeOK
<1>3. AnswerInv'
  BY <1>1 DEF IInv, AnswerInv
<1>4. MapHasPools'
  BY <1>1 DEF IInv, TypeOK, MapHasPools, NodesOf
<1>5. CommandInv' /\ RepeatsAreSafe'
  BY DEF IInv, CommandInv, RepeatsAreSafe
<1> QED BY <1>2, <1>3, <1>4, <1>5 DEF IInv

\* Every other step leaves the cluster as it is. What is left to show for it
\* is about the threads and the pool.
LEMMA Rest ==
    ASSUME IInv, UNCHANGED clusterVars,
           PoolTypes', shards' \in DOMAIN maps, MapHasPools', AnswerInv', CommandInv', RepeatsAreSafe'
    PROVE  IInv'
BY DEF IInv, TypeOK, PoolTypes, ClusterTypeOK, clusterVars

\* Steps of a command.
LEMMA CommandKeeps ==
    ASSUME IInv, NEW t \in Threads, Call(t) \/ Command(t)
    PROVE  IInv'
<1> USE ClusterAssumption, ShardsAssumption
    DEF All, Goto, Leave, End, Sent, AfterAsking, clusterVars, poolVars, commandVars, updateVars
<1> DEFINE Kept == PoolTypes' /\ AnswerInv' /\ CommandInv' /\ RepeatsAreSafe'
<1>0. TypeOK /\ PoolTypes /\ ClusterTypeOK /\ shards \in DOMAIN maps
  BY TypeParts DEF IInv
<1>1. UNCHANGED clusterVars /\ shards' \in DOMAIN maps
  BY <1>0 DEF Call, Command, Fetch, Reply, ConnectionFails, ReplyUnread, NoReply, Moved, Ask,
              FetchNode, OtherError
<1>2. MapHasPools'
  BY <1>1 DEF Call, Command, Fetch, Reply, ConnectionFails, ReplyUnread, NoReply, Moved, Ask,
              FetchNode, OtherError, IInv, MapHasPools, NodesOf
<1> USE DEF PoolTypes, Locations, AnswerInv, CommandInv, RepeatsAreSafe, IInv
<1>3. Call(t) => Kept
  BY <1>0 DEF Call
<1>4. Fetch(t) => Kept
  BY <1>0 DEF Fetch, GetPool
<1>5. Reply(t) => Kept
  BY <1>0 DEF Reply
<1>6. ConnectionFails(t) => Kept
  BY <1>0, SMTT(20) DEF ConnectionFails, NoReply
<1>7. Moved(t) => Kept
  BY <1>0 DEF Moved
<1>8. Ask(t) => Kept
  BY <1>0, SMTT(20) DEF Ask, Asks, Owns, ClusterTypeOK
<1>9. FetchNode(t) => Kept
  BY <1>0 DEF FetchNode
<1>10. OtherError(t) => Kept
  BY <1>0 DEF OtherError
<1>11. ReplyUnread(t) => Kept
  BY <1>0, SMTT(20) DEF ReplyUnread, NoReply
<1> QED BY <1>1, <1>2, <1>3, <1>4, <1>5, <1>6, <1>7, <1>8, <1>9, <1>10, <1>11, Rest DEF Command

\* Steps of update().
LEMMA UpdateKeeps ==
    ASSUME IInv, NEW t \in All, Update(t)
    PROVE  IInv'
<1> USE ClusterAssumption, ShardsAssumption
    DEF All, Goto, Leave, End, clusterVars, poolVars, commandVars, updateVars
<1> DEFINE Kept == PoolTypes' /\ AnswerInv' /\ CommandInv' /\ RepeatsAreSafe'
<1>0. TypeOK /\ PoolTypes /\ ClusterTypeOK /\ shards \in DOMAIN maps
  BY TypeParts DEF IInv
<1> USE DEF PoolTypes, Locations, AnswerInv, CommandInv, RepeatsAreSafe, IInv
<1>1. PickNode(t) => Kept
  BY <1>0 DEF PickNode, GetPool, AttemptFails
<1>2. ClusterSlots(t) => Kept
  BY <1>0, MapsAreNumbered DEF ClusterSlots, ClusterTypeOK
<1>3. ClusterSlotsFails(t) => Kept
  BY <1>0, SMTT(20) DEF ClusterSlotsFails, AttemptFails
<1>4. ASSUME PickNode(t) \/ ClusterSlots(t) \/ ClusterSlotsFails(t)
      PROVE  UNCHANGED <<clusterVars, shards>> /\ shards' \in DOMAIN maps /\ MapHasPools'
  BY <1>0, <1>4 DEF PickNode, ClusterSlots, ClusterSlotsFails, IInv, MapHasPools, NodesOf, clusterVars
<1>5. ASSUME Adopt(t)
      PROVE  IInv'
  <2>1. answer[t] \in DOMAIN maps
    BY <1>5 DEF Adopt, IInv, AnswerInv
  <2>2. NodesOf(answer[t]) \subseteq Nodes
    BY <1>0, <2>1 DEF ClusterTypeOK, SlotMaps, NodesOf
  <2>3. UNCHANGED clusterVars /\ shards' \in DOMAIN maps
    BY <1>5, <2>1 DEF Adopt
  <2>4. MapHasPools'
    BY <1>5, <2>3 DEF Adopt, NewPools, MapHasPools, NodesOf, clusterVars
  <2>5. PoolTypes'
    BY <1>0, <1>5, <2>2 DEF Adopt, Updated, NewPools, PoolTypes, Locations
  <2>6. AnswerInv' /\ CommandInv' /\ RepeatsAreSafe'
    BY <1>0, <1>5 DEF Adopt, Updated, PoolTypes, Locations, AnswerInv, IInv, CommandInv, RepeatsAreSafe, clusterVars
  <2> QED BY <2>3, <2>4, <2>5, <2>6, Rest
<1> QED BY <1>1, <1>2, <1>3, <1>4, <1>5, Rest DEF Update

LEMMA WorkerKeeps ==
    ASSUME IInv, Refresh \/ WorkerEnds \/ Destroy
    PROVE  IInv'
<1> USE ClusterAssumption, ShardsAssumption DEF All, Goto, poolVars, commandVars, updateVars
<1>0. TypeOK /\ PoolTypes /\ ClusterTypeOK /\ shards \in DOMAIN maps
  BY TypeParts DEF IInv
<1>1. UNCHANGED <<clusterVars, shards, pools>>
  BY DEF Refresh, WorkerEnds, Destroy
<1>2. PoolTypes'
  BY <1>0 DEF Refresh, WorkerEnds, Destroy, PoolTypes, Locations
<1>3. AnswerInv' /\ CommandInv' /\ RepeatsAreSafe'
  BY <1>0, <1>1 DEF Refresh, WorkerEnds, Destroy, PoolTypes, Locations, AnswerInv, IInv, CommandInv, RepeatsAreSafe, clusterVars
<1>4. MapHasPools'
  BY <1>1 DEF IInv, MapHasPools, NodesOf, clusterVars
<1> QED BY <1>0, <1>1, <1>2, <1>3, <1>4, Rest DEF clusterVars

LEMMA NextIInv == IInv /\ [Next]_vars => IInv'
<1> SUFFICES ASSUME IInv, [Next]_vars PROVE IInv'
  OBVIOUS
<1>1. CASE UNCHANGED vars
  <2> USE <1>1 DEF vars, clusterVars, poolVars, commandVars, updateVars
  <2>1. TypeOK' /\ MapHasPools'
    BY DEF IInv, TypeOK, ClusterTypeOK, MapHasPools, NodesOf
  <2>2. AnswerInv' /\ CommandInv' /\ RepeatsAreSafe'
    BY DEF IInv, AnswerInv, CommandInv, RepeatsAreSafe
  <2> QED BY <2>1, <2>2 DEF IInv
<1>2. CASE Next
  BY <1>2, ClusterKeeps, CommandKeeps, UpdateKeeps, WorkerKeeps DEF Next
<1> QED BY <1>1, <1>2

-----------------------------------------------------------------------------
(* The theorems.                                                           *)

THEOREM Invariant == Spec => []IInv
BY InitIInv, NextIInv, PTL DEF Spec

\* The type invariant: a command makes at most two attempts, and update()
\* gives up after its own.
THEOREM TypeSafe == Spec => []TypeOK
<1>1. IInv => TypeOK
  BY DEF IInv
<1> QED BY Invariant, <1>1, PTL

\* Threads and the worker may adopt maps in any order: _get_pool() finds a pool
\* for each node of the map.
THEOREM NodesHavePools == Spec => []MapHasPools
<1>1. IInv => MapHasPools
  BY DEF IInv
<1> QED BY Invariant, <1>1, PTL

\* A command is executed twice only if a reply to it was lost, and never more
\* often; one that threw although no reply was lost or unreadable was not executed.
THEOREM CommandsAreRepeatedSafely == Spec => []RepeatsAreSafe
<1>1. IInv => RepeatsAreSafe
  BY DEF IInv
<1> QED BY Invariant, <1>1, PTL

-----------------------------------------------------------------------------
(* The slot of a key and the node of a slot.                               *)

\* lower_bound on the last slots, and one comparison with the first, find the
\* range of every slot, its first and its last included, and nothing for a slot
\* that no range covers.
THEOREM LookupFindsTheRange ==
    ASSUME NEW ranges, Disjoint(ranges), NEW n \in Nat
    PROVE  Lookup(ranges, n) = Covering(ranges, n)
<1>1. ASSUME NEW r \in Lookup(ranges, n) PROVE r \in Covering(ranges, n)
    BY <1>1 DEF Lookup, LowerBound, Covering
<1>2. ASSUME NEW r \in Covering(ranges, n) PROVE r \in Lookup(ranges, n)
    <2>1. r \in ranges /\ r.min <= n /\ n <= r.max
        BY <1>2 DEF Covering
    <2>2. ASSUME NEW o \in ranges, o.max >= n PROVE ~(o.max < r.max)
        <3>1. CASE o = r
            BY <3>1, <2>1 DEF Disjoint
        <3>2. CASE o # r
            <4>1. r.max < o.min \/ o.max < r.min
                BY <3>2, <2>1 DEF Disjoint
            <4>2. /\ r.min \in Nat /\ r.max \in Nat
                  /\ o.min \in Nat /\ o.max \in Nat /\ o.min <= o.max
                BY <2>1 DEF Disjoint
            <4>. QED BY <4>1, <4>2, <2>1, <2>2
        <3>. QED BY <3>1, <3>2
    <2>3. r.max >= n
        BY <2>1 DEF Disjoint
    <2>. QED BY <2>1, <2>2, <2>3 DEF Lookup, LowerBound, Precedes
<1> QED BY <1>1, <1>2

\* Entries that share no slot are all kept: emplace() drops only what has the
\* last slot of another entry.
THEOREM EmplaceKeepsAll ==
    ASSUME NEW ranges, NEW r, Disjoint(ranges \cup {r})
    PROVE  Emplace(ranges, r) = ranges \cup {r}
<1>1. ASSUME NEW o \in ranges, o # r PROVE o.max < r.max \/ r.max < o.max
    <2>1. /\ o.min \in Nat /\ o.max \in Nat /\ o.min <= o.max
          /\ r.min \in Nat /\ r.max \in Nat /\ r.min <= r.max
          /\ o.max < r.min \/ r.max < o.min
        BY <1>1 DEF Disjoint
    <2>. QED BY <2>1
<1>2. CASE r \in ranges
    BY <1>2 DEF Emplace
<1>3. CASE r \notin ranges
    BY <1>1, <1>3 DEF Emplace, Precedes
<1> QED BY <1>2, <1>3

\* A key has one pair of brackets that matter.
LEMMA BracketsAreUnique ==
    ASSUME NEW C, NEW k \in Seq(C), NEW s, NEW e, NEW s2, NEW e2,
           Encloses(k, s, e), Encloses(k, s2, e2)
    PROVE  s = s2 /\ e = e2
<1>. /\ s \in Nat /\ e \in Nat /\ s2 \in Nat /\ e2 \in Nat
     /\ s >= 1 /\ s2 >= 1 /\ s + 2 <= e /\ s2 + 2 <= e2
     /\ k[s] = LeftBrace /\ k[s2] = LeftBrace /\ k[e] = RightBrace /\ k[e2] = RightBrace
    BY LenProperties DEF Encloses
<1>1. s = s2
    <2>1. ~(s < s2)
        BY DEF Encloses
    <2>2. ~(s2 < s)
        BY DEF Encloses
    <2>. QED BY <2>1, <2>2
<1>2. ~(e < e2)
    <2>. SUFFICES ASSUME e < e2 PROVE FALSE
        OBVIOUS
    <2>1. e \in (s2 + 1)..(e2 - 1)
        BY <1>1
    <2>. QED BY <2>1 DEF Encloses
<1>3. ~(e2 < e)
    <2>. SUFFICES ASSUME e2 < e PROVE FALSE
        OBVIOUS
    <2>1. e2 \in (s + 1)..(e - 1)
        BY <1>1
    <2>. QED BY <2>1 DEF Encloses
<1> QED BY <1>1, <1>2, <1>3

LEMMA HashedTag ==
    ASSUME NEW C, NEW k \in Seq(C), NEW s, NEW e, Encloses(k, s, e)
    PROVE  Hashed(k) = SubSeq(k, s + 1, e - 1)
<1>. DEFINE tags == {p \in (1..Len(k)) \X (1..Len(k)) : Encloses(k, p[1], p[2])}
            tag  == CHOOSE p \in tags : TRUE
<1>1. <<s, e>> \in tags
    BY LenProperties DEF Encloses
<1>2. tag \in tags
    BY <1>1
<1>3. tag[1] = s /\ tag[2] = e
    BY <1>2, BracketsAreUnique
<1> QED BY <1>1, <1>3 DEF Hashed

LEMMA HashedAll ==
    ASSUME NEW C, NEW k \in Seq(C), \A s, e : ~Encloses(k, s, e)
    PROVE  Hashed(k) = k
BY DEF Hashed

\* The argument hash_tag of RedisCluster::pipeline() and its like leads to the
\* node of every key that has it as its tag: hashing a tag gives the tag again.
THEOREM TagsHashToThemselves ==
    ASSUME NEW C, NEW k \in Seq(C)
    PROVE  Hashed(Hashed(k)) = Hashed(k)
<1>1. CASE \A s, e : ~Encloses(k, s, e)
    BY <1>1, HashedAll
<1>2. ASSUME NEW s, NEW e, Encloses(k, s, e)
      PROVE  Hashed(Hashed(k)) = Hashed(k)
    <2>. DEFINE t == SubSeq(k, s + 1, e - 1)
    <2>1. /\ s \in Nat /\ e \in Nat /\ 1 <= s /\ s + 2 <= e /\ e <= Len(k)
          /\ \A i \in (s + 1)..(e - 1) : k[i] # RightBrace
        BY <1>2, LenProperties DEF Encloses
    <2>2. t \in Seq(C) /\ Len(t) = e - s - 1 /\ \A i \in 1..Len(t) : t[i] = k[s + i]
        BY <2>1, SubSeqProperties, LenProperties
    <2>3. \A i \in 1..Len(t) : t[i] # RightBrace
        BY <2>1, <2>2, SMTT(20)
    <2>4. \A a, b : ~Encloses(t, a, b)
        <3>. SUFFICES ASSUME NEW a, NEW b, Encloses(t, a, b) PROVE FALSE
            OBVIOUS
        <3>1. b \in 1..Len(t) /\ t[b] = RightBrace
            BY <2>2 DEF Encloses
        <3>. QED BY <3>1, <2>3
    <2>. QED BY <2>2, <2>4, <1>2, HashedTag, HashedAll
<1> QED BY <1>1, <1>2

\* Keys with the same text between their first brackets share their slot,
\* whatever surrounds it.
THEOREM SameTagSameSlot ==
    ASSUME NEW C, NEW k \in Seq(C), NEW l \in Seq(C), NEW s, NEW e, NEW s2, NEW e2,
           Encloses(k, s, e), Encloses(l, s2, e2),
           SubSeq(k, s + 1, e - 1) = SubSeq(l, s2 + 1, e2 - 1)
    PROVE  Hashed(k) = Hashed(l)
BY HashedTag
=============================================================================
