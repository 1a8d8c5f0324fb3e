------------------------ MODULE AsyncShardsPool_proofs ------------------------
(***************************************************************************)
(* Proofs about AsyncShardsPool, for any cluster, any commands and any     *)
(* number of attempts to update the map.                                   *)
(***************************************************************************)
EXTENDS AsyncShardsPool, SequenceTheorems, TLAPS

Places == {"out", "sent", "asking", "held"}
Results == {"none", "ok", "failed", "lost"}

EventTypes ==
    /\ at \in [Commands -> Places]
    /\ done \in [Commands -> Nat]
    /\ result \in [Commands -> Results]

\* The event of a command is in one place: in the queue, in the batch of the
\* worker, or with neither of them when it is on the loop or over.
OnePlace(c) ==
    /\ c \in events \cup batch => at[c] = "held"
    /\ ~(c \in events /\ c \in batch)

\* While there is an event, the command was not executed and has no result.
Unfinished(c) == at[c] # "out" \/ result[c] = "none" => result[c] = "none" /\ done[c] = 0

Once(c) ==
    /\ done[c] <= 1
    /\ result[c] = "ok" => done[c] = 1
    /\ result[c] = "failed" => done[c] = 0

CommandInv(c) == OnePlace(c) /\ Unfinished(c) /\ Once(c)

IInv == EventTypes /\ \A c \in Commands : CommandInv(c)

\* A step that does nothing to the command c: its event stays where it is.
Stays(c) ==
    /\ at'[c] = at[c] /\ done'[c] = done[c] /\ result'[c] = result[c]
    /\ c \in events' \cup batch' => c \in events \cup batch
    /\ c \in events' /\ c \in batch' => c \in events /\ c \in batch


LEMMA StaysKeeps ==
    ASSUME NEW c \in Commands, CommandInv(c), Stays(c)
    PROVE  CommandInv(c)'
BY DEF CommandInv, OnePlace, Unfinished, Once, Stays

LEMMA InitIInv == Init => IInv
BY AsyncShardsAssumption
   DEF Init, IInv, EventTypes, Places, Results, CommandInv, OnePlace, Unfinished, Once

-----------------------------------------------------------------------------
(* The application and the loop.                                           *)

LEMMA SendKeeps ==
    ASSUME IInv, NEW c \in Commands, Send(c)
    PROVE  IInv'
<1>1. at[c] = "out" /\ result[c] = "none" /\ done' = done /\ events' = events /\ batch' = batch
    BY DEF Send, poolVars, workerVars
<1>2. \/ at' = at /\ result' = Update(c, result, "failed")
      \/ at' = Update(c, at, "sent") /\ result' = result
    BY DEF Send
<1>3. EventTypes'
    BY <1>1, <1>2 DEF IInv, EventTypes, Update, Places, Results
<1>4. ASSUME NEW d \in Commands, d # c PROVE CommandInv(d)'
    BY <1>1, <1>2, <1>4, StaysKeeps DEF IInv, EventTypes, Update, Stays
<1>5. CommandInv(c)'
    BY <1>1, <1>2 DEF IInv, EventTypes, Update, CommandInv, OnePlace, Unfinished, Once, Places, Results
<1>. QED BY <1>3, <1>4, <1>5 DEF IInv

\* An event that is completed by the loop.
LEMMA CompleteKeeps ==
    ASSUME IInv, NEW c \in Commands, OnLoop(c), batch' = batch,
           NEW r \in {"ok", "failed", "lost"}, Complete(c, r, {}) \/ Complete(c, r, {"update"}),
           \/ done' = done /\ r # "ok"
           \/ done' = Update(c, done, done[c] + 1) /\ r # "failed"
    PROVE  IInv'
<1>1. /\ at[c] # "out" /\ c \notin events \cup batch
      /\ at' = Update(c, at, "out") /\ result' = Update(c, result, r)
      /\ events' \subseteq events \cup {"update", "stop"}
    BY DEF IInv, EventTypes, CommandInv, OnePlace, OnLoop, Complete
<1>2. done[c] = 0 /\ done[c] \in Nat
    BY <1>1 DEF IInv, EventTypes, CommandInv, Unfinished
<1>3. EventTypes'
    BY <1>1, <1>2 DEF IInv, EventTypes, Update, Places, Results
<1>4. \A d \in Commands : d \in events' => d \in events
    BY <1>1, AsyncShardsAssumption
<1>5. ASSUME NEW d \in Commands, d # c PROVE CommandInv(d)'
    BY <1>1, <1>4, <1>5, StaysKeeps DEF IInv, EventTypes, Update, Stays
<1>6. CommandInv(c)'
    <2>1. at'[c] = "out" /\ result'[c] = r /\ r # "none"
        BY <1>1 DEF IInv, EventTypes, Update
    <2>2. (done'[c] = 0 /\ r # "ok") \/ (done'[c] = 1 /\ r # "failed")
        BY <1>2 DEF IInv, EventTypes, Update
    <2>3. c \notin events' /\ c \notin batch'
        BY <1>1, <1>4
    <2>. QED BY <2>1, <2>2, <2>3 DEF CommandInv, OnePlace, Unfinished, Once
<1>. QED BY <1>3, <1>5, <1>6 DEF IInv

LEMMA CallbackKeeps ==
    ASSUME IInv, NEW c \in Commands, Callback(c)
    PROVE  IInv'
<1>1. CASE Reply(c)
    BY <1>1, CompleteKeeps DEF Reply, workerVars
<1>2. CASE ConnectionFails(c)
    BY <1>2, CompleteKeeps DEF ConnectionFails, MayBeExecuted, workerVars
<1>3. CASE OtherError(c)
    BY <1>3, CompleteKeeps DEF OtherError, workerVars
<1>4. CASE Moved(c)
    <2>0. OnLoop(c) /\ done' = done /\ batch' = batch
        BY <1>4 DEF Moved, IsMoved, workerVars
    <2>1. CASE state[c] = "NORMAL"
        <3>1. /\ at' = Update(c, at, "held") /\ result' = result /\ events' = events \cup {c}
              /\ at[c] # "out" /\ c \notin events \cup batch
            BY <1>4, <2>0, <2>1 DEF Moved, IInv, EventTypes, CommandInv, OnePlace, OnLoop
        <3>2. EventTypes'
            BY <2>0, <3>1 DEF IInv, EventTypes, Update, Places
        <3>3. ASSUME NEW d \in Commands, d # c PROVE CommandInv(d)'
            BY <2>0, <3>1, <3>3, StaysKeeps DEF IInv, EventTypes, Update, Stays
        <3>4. CommandInv(c)'
            BY <2>0, <3>1 DEF IInv, EventTypes, Update, CommandInv, OnePlace, Unfinished, Once
        <3>. QED BY <3>2, <3>3, <3>4 DEF IInv
    <2>2. CASE state[c] # "NORMAL"
        BY <1>4, <2>0, <2>2, CompleteKeeps DEF Moved
    <2>. QED BY <2>1, <2>2
<1>5. CASE Ask(c)
    <2>1. /\ at' = Update(c, at, "asking") /\ result' = result /\ done' = done
          /\ events' = events /\ batch' = batch
          /\ at[c] # "out" /\ c \notin events \cup batch
        BY <1>5 DEF Ask, IInv, EventTypes, CommandInv, OnePlace, OnLoop, workerVars, historyVars
    <2>2. EventTypes'
        BY <2>1 DEF IInv, EventTypes, Update, Places
    <2>3. ASSUME NEW d \in Commands, d # c PROVE CommandInv(d)'
        BY <2>1, <2>3, StaysKeeps DEF IInv, EventTypes, Update, Stays
    <2>4. CommandInv(c)'
        BY <2>1 DEF IInv, EventTypes, Update, CommandInv, OnePlace, Unfinished, Once
    <2>. QED BY <2>2, <2>3, <2>4 DEF IInv
<1>. QED BY <1>1, <1>2, <1>3, <1>4, <1>5 DEF Callback

-----------------------------------------------------------------------------
(* The worker.                                                             *)

\* Steps that leave every event where it is, if they do not take it along.
LEMMA OthersKeep ==
    ASSUME IInv, at' = at, done' = done, result' = result,
           \/ events' \subseteq events \cup {"update", "stop"} /\ batch' \subseteq batch
           \/ events' = {} /\ batch' \subseteq events
    PROVE  IInv'
<1>1. ASSUME NEW c \in Commands PROVE Stays(c)
    BY AsyncShardsAssumption DEF Stays
<1>. QED BY <1>1, StaysKeeps DEF IInv, EventTypes

\* The worker has done with the event c, which was in its batch.
LEMMA TakenKeeps ==
    ASSUME IInv, NEW c \in Commands, c \in batch, batch' = batch \ {c},
           events' = events, done' = done,
           \/ at' = Update(c, at, "out") /\ result' = Update(c, result, "failed")
           \/ at' = Update(c, at, "sent") /\ result' = result
    PROVE  IInv'
<1>1. at[c] = "held" /\ c \notin events
    BY DEF IInv, CommandInv, OnePlace
<1>2. EventTypes'
    BY DEF IInv, EventTypes, Update, Places, Results
<1>3. ASSUME NEW d \in Commands, d # c PROVE CommandInv(d)'
    BY <1>3, StaysKeeps DEF IInv, EventTypes, Update, Stays
<1>4. CommandInv(c)'
    BY <1>1 DEF IInv, EventTypes, Update, CommandInv, OnePlace, Unfinished, Once
<1>. QED BY <1>2, <1>3, <1>4 DEF IInv

LEMMA WorkerKeeps ==
    ASSUME IInv, Worker
    PROVE  IInv'
<1>. USE DEF eventVars, historyVars, poolVars
<1>1. CASE FetchEvents
    BY <1>1, OthersKeep DEF FetchEvents
<1>2. CASE Adopt
    BY <1>2, OthersKeep DEF Adopt
<1>3. CASE BatchDone
    BY <1>3, OthersKeep DEF BatchDone
<1>4. ASSUME NEW n \in Nodes \cup {NoNode}, GetShards(n) \/ GetShardsFails(n)
      PROVE  IInv'
    BY <1>4, OthersKeep DEF GetShards, GetShardsFails
<1>5. ASSUME NEW c \in Commands, Redeliver(c)
      PROVE  IInv'
    BY <1>5, TakenKeeps DEF Redeliver, Held, FailHeld
<1>6. ASSUME NEW c \in Commands, FailEvent(c)
      PROVE  IInv'
    BY <1>6, TakenKeeps DEF FailEvent, Held, FailHeld
<1>. QED BY <1>1, <1>2, <1>3, <1>4, <1>5, <1>6 DEF Worker

LEMMA NextIInv ==
    ASSUME IInv, [Next]_vars
    PROVE  IInv'
<1>. USE DEF eventVars, historyVars, poolVars, workerVars
<1>1. ASSUME NEW c \in Commands, Send(c) \/ Callback(c) PROVE IInv'
    BY <1>1, SendKeeps, CallbackKeeps
<1>2. CASE DropPool
    BY <1>2, OthersKeep DEF DropPool
<1>3. CASE Worker
    BY <1>3, WorkerKeeps
<1>4. CASE UNCHANGED clientVars
    BY <1>4, OthersKeep DEF clientVars
<1>5. CASE UNCHANGED vars
    BY <1>5, OthersKeep DEF vars
<1>. QED BY <1>1, <1>2, <1>3, <1>4, <1>5 DEF Next

\* The inductive invariant: an event is in one place at a time, and what it
\* stands for was not executed before it leaves the loop for good.
THEOREM EventsAreTracked == Spec => []IInv
BY InitIInv, NextIInv, PTL DEF Spec

\* No redirection, no second delivery by the worker and no failure makes a node
\* execute a command twice, also one whose reply was lost or could not be read; a
\* command that fails for any other reason was not executed at all.
THEOREM CommandsRunOnce == Spec => []AtMostOnce
<1>1. IInv => AtMostOnce
    BY DEF IInv, CommandInv, Once, AtMostOnce
<1>. QED BY <1>1, EventsAreTracked, PTL

-----------------------------------------------------------------------------
(* The cluster: its maps are never changed, only added to.                 *)

LEMMA MapsAreNumbered ==
    ASSUME ClusterTypeOK
    PROVE  Latest \in Nat /\ Latest >= 1 /\ DOMAIN maps = 1..Latest
BY LenProperties DEF ClusterTypeOK, Latest

\* Every map that was ever there is still there.
MapsStay == DOMAIN maps \subseteq DOMAIN maps' /\ \A i \in DOMAIN maps : maps'[i] = maps[i]

LEMMA NewMapTypes ==
    ASSUME ClusterTypeOK, NEW f \in SlotMaps, NEW n \in Nodes, NewMap(f, n)
    PROVE  /\ MapsStay
           /\ maps' \in Seq(SlotMaps) /\ maps' # <<>> /\ known' \in [Nodes -> DOMAIN maps']
<1>1. maps' \in Seq(SlotMaps) /\ Len(maps') = Latest + 1
    BY DEF ClusterTypeOK, NewMap, Latest
<1>2. Latest \in Nat /\ DOMAIN maps = 1..Latest /\ DOMAIN maps' = 1..Latest + 1
    BY <1>1, MapsAreNumbered, LenProperties
<1>3. MapsStay
    BY <1>2 DEF ClusterTypeOK, NewMap, Latest, MapsStay
<1>4. known' \in [Nodes -> DOMAIN maps']
    BY <1>2 DEF ClusterTypeOK, NewMap
<1>. QED BY <1>1, <1>2, <1>3, <1>4

LEMMA ClusterTypes ==
    ASSUME ClusterTypeOK, ClusterStep
    PROVE  ClusterTypeOK' /\ MapsStay
<1>1. ASSUME NEW s \in Slots, NEW n \in Nodes, Migrate(s, n)
      PROVE  ClusterTypeOK' /\ MapsStay
    BY <1>1 DEF Migrate, ClusterTypeOK, MapsStay
<1>2. ASSUME NEW s \in Slots, NEW n \in Nodes, SetSlot(s, n)
      PROVE  ClusterTypeOK' /\ MapsStay
    <2>1. [maps[Latest] EXCEPT ![s] = importing[s]] \in SlotMaps
        BY MapsAreNumbered DEF ClusterTypeOK, SlotMaps
    <2>. QED BY <1>2, <2>1, NewMapTypes DEF SetSlot, ClusterTypeOK
<1>3. ASSUME NEW s \in Slots, NEW n \in Nodes, NEW m \in Nodes \cup {NoNode}, Assign(s, m, n)
      PROVE  ClusterTypeOK' /\ MapsStay
    <2>1. [maps[Latest] EXCEPT ![s] = m] \in SlotMaps
        BY MapsAreNumbered DEF ClusterTypeOK, SlotMaps
    <2>. QED BY <1>3, <2>1, NewMapTypes DEF Assign, ClusterTypeOK
<1>4. ASSUME NEW n \in Nodes, Crash(n) \/ Restart(n)
      PROVE  ClusterTypeOK' /\ MapsStay
    BY <1>4 DEF Crash, Restart, ClusterTypeOK, MapsStay
<1>5. ASSUME NEW n \in Nodes, NEW m \in Nodes, Promote(n, m)
      PROVE  ClusterTypeOK' /\ MapsStay
    <2>1. [s \in Slots |-> IF maps[Latest][s] = m THEN n ELSE maps[Latest][s]] \in SlotMaps
        BY MapsAreNumbered DEF ClusterTypeOK, SlotMaps
    <2>. QED BY <1>5, <2>1, NewMapTypes DEF Promote, ClusterTypeOK
<1>6. ASSUME NEW n \in Nodes, Learn(n)
      PROVE  ClusterTypeOK' /\ MapsStay
    BY <1>6, MapsAreNumbered DEF Learn, ClusterTypeOK, MapsStay
<1>. QED BY <1>1, <1>2, <1>3, <1>4, <1>5, <1>6 DEF ClusterStep, Changes

-----------------------------------------------------------------------------
(* The map in use, and what the worker has.                                *)

\* Each node of the map in use has a pool.
NodesHavePools == \A s \in Slots : MapOf(shards)[s] \in pools \cup {NoNode}

\* The worker adopts only a map that the cluster has had.
AdoptsMap == pc = "adopt" => answer \in DOMAIN maps

\* An event that waits to be delivered again is in the queue, or in the batch.
HeldIsQueued == \A c \in Commands : at[c] = "held" => c \in events \cup batch

\* The worker asks for events only when it has none left.
WaitsForMore == pc = "waiting" => batch = {}

\* Nobody has a reference to the pool.
Unreferenced == ~app /\ \A c \in Commands : at[c] = "out"

\* The worker is told to stop, or has stopped, exactly when the last reference
\* is gone: not before, or it would leave events behind, and not later.
StoppedInTime ==
    Unreferenced <=> "stop" \in events \cup batch \/ pc \in {"ended", "crashed"}

WorkerInv ==
    /\ TypeOK /\ AdoptsMap /\ NodesHavePools
    /\ HeldIsQueued /\ WaitsForMore /\ StoppedInTime

LEMMA GetPoolIs ==
    ASSUME TypeOK, NEW s \in Slots
    PROVE  GetPool(s) \in pools \cup {NoNode} /\ MapOf(shards)[s] \in Nodes \cup {NoNode}
<1>1. MapOf(shards) \in SlotMaps
    BY ClusterAssumption DEF TypeOK, ClusterTypeOK, MapOf, SlotMaps
<1>. QED BY <1>1 DEF GetPool, SlotMaps

LEMMA WorkerInvInit == Init => WorkerInv
<1>. SUFFICES ASSUME Init PROVE WorkerInv
    OBVIOUS
<1>. USE ClusterAssumption, AsyncShardsAssumption DEF Init
<1>1. ClusterTypeOK
    BY DEF ClusterInit, ClusterTypeOK, SlotMaps
<1>2. TypeOK
    <2>1. slot \in [Commands -> Slots] /\ upd \in 0..Attempts - 1
        OBVIOUS
    <2>2. done \in [Commands -> 0..2] /\ result \in [Commands -> {"none", "ok", "failed", "lost"}]
        OBVIOUS
    <2>3. /\ at \in [Commands -> {"out", "sent", "asking", "held"}]
          /\ state \in [Commands -> {"NORMAL", "MOVED", "ASKING"}]
          /\ target \in [Commands -> Nodes \cup {NoNode}]
        OBVIOUS
    <2>. QED BY <1>1, <2>1, <2>2, <2>3 DEF TypeOK
<1>3. NodesHavePools
    BY DEF NodesHavePools, MapOf
<1>4. AdoptsMap /\ HeldIsQueued /\ WaitsForMore /\ StoppedInTime
    BY DEF AdoptsMap, HeldIsQueued, WaitsForMore, StoppedInTime, Unreferenced
<1>. QED BY <1>2, <1>3, <1>4 DEF WorkerInv

-----------------------------------------------------------------------------
(* Types, and the map that is adopted.                                     *)

\* TypeOK without the cluster and the counters that CommandsRunOnce is about.
PoolTypes ==
    /\ pools \subseteq Nodes
    /\ events \subseteq Commands \cup {"update", "stop"}
    /\ pc \in {"waiting", "update", "adopt", "deliver", "fail", "ended", "crashed"}
    /\ upd \in 0..Attempts - 1
    /\ batch \subseteq Commands \cup {"stop"}
    /\ at \in [Commands -> {"out", "sent", "asking", "held"}]
    /\ state \in [Commands -> {"NORMAL", "MOVED", "ASKING"}]
    /\ slot \in [Commands -> Slots] /\ target \in [Commands -> Nodes \cup {NoNode}]
    /\ app \in BOOLEAN

MapTypes == shards \in {0} \cup DOMAIN maps /\ answer \in {0} \cup DOMAIN maps

LEMMA TypeParts == TypeOK => ClusterTypeOK /\ PoolTypes /\ MapTypes
BY DEF TypeOK, PoolTypes, MapTypes

LEMMA TypesAgain ==
    ASSUME ClusterTypeOK', PoolTypes', MapTypes', IInv'
    PROVE  TypeOK'
<1>1. done' \in [Commands -> 0..2]
    BY DEF IInv, EventTypes, CommandInv, Once
<1>. QED BY <1>1 DEF TypeOK, PoolTypes, MapTypes, IInv, EventTypes, Places, Results

LEMMA CompleteTypes ==
    ASSUME PoolTypes, NEW c \in Commands, NEW r, NEW p, p \subseteq {"update"}, Complete(c, r, p)
    PROVE  /\ events' \subseteq Commands \cup {"update", "stop"}
           /\ at' \in [Commands -> {"out", "sent", "asking", "held"}]
           /\ state' \in [Commands -> {"NORMAL", "MOVED", "ASKING"}]
           /\ target' \in [Commands -> Nodes \cup {NoNode}]
           /\ slot' = slot /\ app' = app /\ shards' = shards
BY DEF PoolTypes, Complete, Update

LEMMA CallbackTypes ==
    ASSUME TypeOK, PoolTypes, NEW c \in Commands, Callback(c)
    PROVE  PoolTypes' /\ shards' = shards /\ pools \subseteq pools'
<1>0. upd' = upd /\ pc' = pc /\ batch' = batch
    BY DEF Callback, Reply, ConnectionFails, OtherError, Moved, Ask, workerVars
<1>1. CASE \E r, p : p \subseteq {"update"} /\ Complete(c, r, p) /\ pools' = pools
    BY <1>0, <1>1, CompleteTypes DEF PoolTypes
<1>2. CASE Reply(c) \/ ConnectionFails(c) \/ OtherError(c)
    BY <1>1, <1>2 DEF Reply, ConnectionFails, OtherError
<1>3. CASE Moved(c) /\ state[c] = "NORMAL"
    BY <1>0, <1>3 DEF Moved, PoolTypes, Update
<1>4. CASE Moved(c) /\ state[c] # "NORMAL"
    BY <1>1, <1>4 DEF Moved
<1>5. CASE Ask(c)
    <2>1. slot[c] \in Slots /\ importing[slot[c]] \in Nodes
        BY <1>5 DEF Ask, Asks, PoolTypes, TypeOK, ClusterTypeOK
    <2>. QED BY <1>0, <1>5, <2>1 DEF Ask, PoolTypes, Update
<1>. QED BY <1>2, <1>3, <1>4, <1>5 DEF Callback

LEMMA SendTypes ==
    ASSUME TypeOK, PoolTypes, NEW c \in Commands, Send(c)
    PROVE  PoolTypes'
<1>. USE DEF Send, poolVars, workerVars
<1>1. PICK s \in Slots : \/ UNCHANGED <<at, slot, target>>
                         \/ /\ at' = Update(c, at, "sent") /\ slot' = Update(c, slot, s)
                            /\ target' = Update(c, target, GetPool(s))
    OBVIOUS
<1>2. GetPool(s) \in Nodes \cup {NoNode}
    BY GetPoolIs DEF PoolTypes
<1>. QED BY <1>1, <1>2 DEF PoolTypes, Update

LEMMA AnswersAreMaps ==
    ASSUME TypeOK, NEW n, GetShards(n)
    PROVE  answer' \in DOMAIN maps
BY DEF GetShards, TypeOK, ClusterTypeOK

\* The nodes of a map that the cluster has had.
LEMMA NodesAreNodes ==
    ASSUME TypeOK, NEW i \in DOMAIN maps
    PROVE  NodesOf(i) \subseteq Nodes /\ \A s \in Slots : maps[i][s] \in NodesOf(i) \cup {NoNode}
BY DEF TypeOK, ClusterTypeOK, SlotMaps, NodesOf

LEMMA WorkerTypes ==
    ASSUME TypeOK, PoolTypes, AdoptsMap, Worker
    PROVE  PoolTypes'
<1>. USE DEF eventVars, historyVars, poolVars
<1>1. CASE FetchEvents
    BY <1>1 DEF FetchEvents, PoolTypes
<1>2. CASE Adopt
    BY <1>2, NodesAreNodes, AsyncShardsAssumption DEF Adopt, PoolTypes, AdoptsMap
<1>3. CASE BatchDone
    BY <1>3 DEF BatchDone, PoolTypes
<1>4. ASSUME NEW n \in Nodes \cup {NoNode}, GetShards(n)
      PROVE  PoolTypes'
    BY <1>4 DEF GetShards, PoolTypes
<1>5. ASSUME NEW n \in Nodes \cup {NoNode}, GetShardsFails(n)
      PROVE  PoolTypes'
    <2>1. upd' \in 0..Attempts - 1
        BY <1>5, AsyncShardsAssumption DEF GetShardsFails, PoolTypes
    <2>. QED BY <1>5, <2>1 DEF GetShardsFails, PoolTypes
<1>6. ASSUME NEW c \in Commands, FailHeld(c)
      PROVE  /\ at' \in [Commands -> {"out", "sent", "asking", "held"}]
             /\ state' \in [Commands -> {"NORMAL", "MOVED", "ASKING"}]
             /\ pc' \in {pc, "crashed"} /\ target' = target
    BY <1>6 DEF FailHeld, Update, PoolTypes
<1>7. ASSUME NEW c \in Commands, Redeliver(c)
      PROVE  PoolTypes'
    <2>1. GetPool(slot[c]) \in Nodes \cup {NoNode}
        BY GetPoolIs DEF PoolTypes
    <2>2. CASE FailHeld(c)
        BY <1>6, <1>7, <2>2 DEF Redeliver, PoolTypes
    <2>3. CASE ~FailHeld(c)
        BY <1>7, <2>1, <2>3 DEF Redeliver, PoolTypes, Update
    <2>. QED BY <2>2, <2>3
<1>8. ASSUME NEW c \in Commands, FailEvent(c)
      PROVE  PoolTypes'
    BY <1>6, <1>8 DEF FailEvent, PoolTypes
<1>. QED BY <1>1, <1>2, <1>3, <1>4, <1>5, <1>7, <1>8 DEF Worker

LEMMA TypesNext ==
    ASSUME TypeOK, AdoptsMap, IInv', Next
    PROVE  TypeOK'
<1>0. ClusterTypeOK /\ PoolTypes /\ MapTypes
    BY TypeParts
<1>1. PoolTypes'
    <2>. USE DEF poolVars, workerVars, eventVars, historyVars
    <2>1. CASE DropPool
        BY <1>0, <2>1 DEF DropPool, PoolTypes
    <2>2. CASE UNCHANGED clientVars
        BY <1>0, <2>2 DEF clientVars, PoolTypes
    <2>. QED BY <1>0, <2>1, <2>2, SendTypes, CallbackTypes, WorkerTypes DEF Next
<1>2. ClusterTypeOK' /\ MapsStay
    <2>1. CASE UNCHANGED clusterVars
        BY <1>0, <2>1 DEF clusterVars, ClusterTypeOK, MapsStay
    <2>. QED BY <1>0, <2>1, ClusterTypes
         DEF Next, Send, Callback, Reply, ConnectionFails, OtherError, Moved, Ask, DropPool, Worker,
             FetchEvents, Adopt, BatchDone, GetShards, GetShardsFails, Redeliver, FailEvent
<1>3. shards' \in {0} \cup DOMAIN maps
    <2>1. CASE Adopt
        BY <2>1 DEF Adopt, AdoptsMap
    <2>2. CASE \E c \in Commands : Callback(c)
        BY <1>0, <2>2, CallbackTypes DEF MapTypes
    <2>. QED BY <1>0, <2>1, <2>2
         DEF Next, Worker, Send, DropPool, FetchEvents, BatchDone, GetShards, GetShardsFails,
             Redeliver, FailEvent, clientVars, poolVars, MapTypes
<1>4. answer' \in {0} \cup DOMAIN maps
    <2>1. ASSUME NEW n, GetShards(n) PROVE answer' \in DOMAIN maps
        BY <2>1, AnswersAreMaps
    <2>. QED BY <1>0, <2>1
         DEF Next, Worker, Send, Callback, Reply, ConnectionFails, OtherError, Moved, Ask, DropPool,
             FetchEvents, BatchDone, GetShardsFails, Redeliver, FailEvent, Adopt,
             clientVars, workerVars, MapTypes
<1>. QED BY <1>1, <1>2, <1>3, <1>4, TypesAgain DEF MapTypes, MapsStay

LEMMA AdoptsMapNext ==
    ASSUME TypeOK, AdoptsMap, Next, DOMAIN maps \subseteq DOMAIN maps'
    PROVE  AdoptsMap'
<1>1. CASE pc' = pc /\ answer' = answer
    BY <1>1 DEF AdoptsMap
<1>2. CASE pc' # "adopt"
    BY <1>2 DEF AdoptsMap
<1>3. ASSUME NEW n, GetShards(n) PROVE AdoptsMap'
    BY <1>3, AnswersAreMaps DEF AdoptsMap
<1>. QED BY <1>1, <1>2, <1>3
     DEF Next, Worker, Send, Callback, Reply, ConnectionFails, OtherError, Moved, Ask, DropPool,
         FetchEvents, BatchDone, GetShardsFails, Redeliver, FailEvent, FailHeld, Adopt,
         clientVars, workerVars

LEMMA NodesHavePoolsNext ==
    ASSUME TypeOK, AdoptsMap, NodesHavePools, Next, MapsStay
    PROVE  NodesHavePools'
<1>1. CASE Adopt
    <2>1. MapOf(shards') = maps[answer] /\ maps' = maps
        BY <1>1, MapsAreNumbered DEF Adopt, AdoptsMap, MapOf, TypeOK, clusterVars
    <2>2. MapOf(shards)' = maps[answer]
        BY <1>1, <2>1, MapsAreNumbered DEF Adopt, AdoptsMap, MapOf, TypeOK
    <2>. QED BY <1>1, <2>2, NodesAreNodes DEF Adopt, AdoptsMap, NodesHavePools
<1>2. CASE shards' = shards /\ pools \subseteq pools'
    <2>1. MapOf(shards)' = MapOf(shards)
        BY <1>2 DEF MapOf, MapsStay, TypeOK
    <2>. QED BY <1>2, <2>1 DEF NodesHavePools
<1>3. CASE \E c \in Commands : Callback(c)
    BY <1>2, <1>3, CallbackTypes, TypeParts
<1>. QED BY <1>1, <1>2, <1>3
     DEF Next, Worker, Send, DropPool, FetchEvents, BatchDone, GetShards, GetShardsFails,
         Redeliver, FailEvent, clientVars, poolVars

-----------------------------------------------------------------------------
(* Where the events and the null event are.                                *)

QueueInv == HeldIsQueued /\ WaitsForMore /\ StoppedInTime

\* Steps that do nothing to the events of commands and the references.
LEMMA QueueKept ==
    ASSUME QueueInv, at' = at, app' = app, pc' # "waiting" \/ batch' = {},
           \A e : e # "update" => (e \in events' \cup batch' <=> e \in events \cup batch),
           pc' \in {"ended", "crashed"} <=> pc \in {"ended", "crashed"}
    PROVE  QueueInv'
<1>1. HeldIsQueued' /\ WaitsForMore'
    BY AsyncShardsAssumption DEF QueueInv, HeldIsQueued, WaitsForMore
<1>2. StoppedInTime'
    BY DEF QueueInv, StoppedInTime, Unreferenced
<1>. QED BY <1>1, <1>2 DEF QueueInv

LEMMA CompleteQueue ==
    ASSUME TypeOK, QueueInv, NEW c \in Commands, NEW r, NEW p, p \subseteq {"update"},
           OnLoop(c), Complete(c, r, p), batch' = batch, pc' = pc
    PROVE  QueueInv'
<1>1. at' = [at EXCEPT ![c] = "out"] /\ app' = app /\ at[c] # "out" /\ at[c] # "held"
    BY DEF Complete, Update, OnLoop
<1>2. ~Unreferenced /\ (Unreferenced' <=> LastReference(app, c))
    BY <1>1 DEF Unreferenced, LastReference, TypeOK
<1>3. "stop" \notin events \cup batch /\ pc \notin {"ended", "crashed"}
    BY <1>2 DEF QueueInv, StoppedInTime
<1>4. "stop" \in events' <=> LastReference(app, c)
    BY <1>3 DEF Complete
<1>5. HeldIsQueued' /\ WaitsForMore'
    BY <1>1 DEF Complete, QueueInv, HeldIsQueued, WaitsForMore, TypeOK
<1>6. StoppedInTime'
    BY <1>2, <1>3, <1>4 DEF StoppedInTime
<1>. QED BY <1>5, <1>6 DEF QueueInv

\* A step after which the event of c is there, as it was before, or is sent first.
LEMMA BusyQueue ==
    ASSUME TypeOK, QueueInv, NEW c \in Commands, NEW p \in {"sent", "asking", "held"},
           app \/ at[c] # "out", at' = Update(c, at, p), app' = app, pc' = pc,
           "stop" \in events' \cup batch' => "stop" \in events \cup batch,
           \A d \in Commands : d # c /\ d \in events \cup batch => d \in events' \cup batch',
           p = "held" => c \in events',
           pc = "waiting" => batch' = batch
    PROVE  QueueInv'
<1>1. at'[c] = p /\ \A d \in Commands : d # c => at'[d] = at[d]
    BY DEF Update, TypeOK
<1>2. ~Unreferenced /\ ~Unreferenced'
    BY <1>1 DEF Unreferenced
<1>3. StoppedInTime'
    BY <1>2 DEF QueueInv, StoppedInTime
<1>4. HeldIsQueued' /\ WaitsForMore'
    BY <1>1 DEF QueueInv, HeldIsQueued, WaitsForMore
<1>. QED BY <1>3, <1>4 DEF QueueInv

LEMMA CallbackQueue ==
    ASSUME TypeOK, QueueInv, NEW c \in Commands, Callback(c)
    PROVE  QueueInv'
<1>0. OnLoop(c) /\ pc' = pc /\ batch' = batch
    BY DEF Callback, Reply, ConnectionFails, OtherError, Moved, IsMoved, Ask, workerVars
<1>1. CASE \E r, p : p \subseteq {"update"} /\ Complete(c, r, p)
    BY <1>0, <1>1, CompleteQueue
<1>2. CASE Reply(c) \/ ConnectionFails(c) \/ OtherError(c)
    BY <1>1, <1>2 DEF Reply, ConnectionFails, OtherError
<1>3. CASE Moved(c) /\ state[c] = "NORMAL"
    <2>1. at' = Update(c, at, "held") /\ events' = events \cup {c} /\ app' = app /\ at[c] # "out"
        BY <1>0, <1>3 DEF Moved, OnLoop
    <2>. QED BY <1>0, <2>1, BusyQueue, AsyncShardsAssumption
<1>4. CASE Moved(c) /\ state[c] # "NORMAL"
    BY <1>1, <1>4 DEF Moved
<1>5. CASE Ask(c)
    <2>1. at' = Update(c, at, "asking") /\ events' = events /\ app' = app /\ at[c] # "out"
        BY <1>0, <1>5 DEF Ask, OnLoop
    <2>. QED BY <1>0, <2>1, BusyQueue
<1>. QED BY <1>2, <1>3, <1>4, <1>5 DEF Callback

LEMMA ApplicationQueue ==
    ASSUME TypeOK, QueueInv, DropPool \/ \E c \in Commands : Send(c)
    PROVE  QueueInv'
<1>. USE DEF poolVars, workerVars, eventVars
<1>1. ASSUME NEW c \in Commands, Send(c) PROVE QueueInv'
    <2>1. app' = app /\ app /\ events' = events /\ batch' = batch /\ pc' = pc
        BY <1>1 DEF Send
    <2>2. CASE at' = at
        BY <2>1, <2>2, QueueKept DEF QueueInv, WaitsForMore
    <2>3. CASE at' = Update(c, at, "sent")
        BY <2>1, <2>3, BusyQueue
    <2>. QED BY <1>1, <2>2, <2>3 DEF Send
<1>2. CASE DropPool
    <2>1. ~Unreferenced /\ (Unreferenced' <=> \A c \in Commands : at[c] = "out")
        BY <1>2 DEF DropPool, Unreferenced
    <2>2. StoppedInTime'
        BY <1>2, <2>1 DEF DropPool, QueueInv, StoppedInTime
    <2>3. HeldIsQueued' /\ WaitsForMore'
        BY <1>2 DEF DropPool, QueueInv, HeldIsQueued, WaitsForMore
    <2>. QED BY <2>2, <2>3 DEF QueueInv
<1>. QED BY <1>1, <1>2

\* The worker has completed an event, or sent it.
LEMMA FailHeldQueue ==
    ASSUME IInv, TypeOK, QueueInv, NEW c \in Commands, c \in batch, FailHeld(c),
           batch' = batch \ {c}, events' = events, app' = app
    PROVE  QueueInv'
<1>1. at' = [at EXCEPT ![c] = "out"] /\ at[c] = "held"
    BY DEF FailHeld, Update, IInv, CommandInv, OnePlace
<1>2. ~Unreferenced /\ (Unreferenced' <=> LastReference(app, c))
    BY <1>1 DEF Unreferenced, LastReference, TypeOK
<1>3. "stop" \notin events \cup batch /\ pc \notin {"ended", "crashed"}
    BY <1>2 DEF QueueInv, StoppedInTime
<1>4. StoppedInTime'
    BY <1>2, <1>3 DEF StoppedInTime, FailHeld
<1>5. HeldIsQueued' /\ WaitsForMore'
    BY <1>1 DEF FailHeld, QueueInv, HeldIsQueued, WaitsForMore, TypeOK
<1>. QED BY <1>4, <1>5 DEF QueueInv

LEMMA WorkerQueue ==
    ASSUME IInv, TypeOK, QueueInv, Worker
    PROVE  QueueInv'
<1>. USE DEF poolVars, eventVars
<1>1. CASE FetchEvents
    <2>1. batch = {}
        BY <1>1 DEF FetchEvents, QueueInv, WaitsForMore
    <2>. QED BY <1>1, <2>1, QueueKept DEF FetchEvents
<1>2. CASE Adopt
    BY <1>2, QueueKept DEF Adopt
<1>3. CASE BatchDone
    <2>1. batch \subseteq {"stop"} /\ batch' = {} /\ at' = at /\ app' = app
        BY <1>3 DEF BatchDone, Held
    <2>2. HeldIsQueued' /\ WaitsForMore'
        BY <1>3, <2>1, AsyncShardsAssumption DEF BatchDone, QueueInv, HeldIsQueued, WaitsForMore
    <2>3. pc \notin {"ended", "crashed"} /\ (pc' \in {"ended", "crashed"} <=> "stop" \in batch)
        BY <1>3 DEF BatchDone
    <2>4. "stop" \in events' <=> "stop" \in events
        BY <1>3 DEF BatchDone
    <2>5. StoppedInTime'
        BY <2>1, <2>3, <2>4 DEF QueueInv, StoppedInTime, Unreferenced
    <2>. QED BY <2>2, <2>5 DEF QueueInv
<1>4. ASSUME NEW n \in Nodes \cup {NoNode}, GetShards(n) \/ GetShardsFails(n)
      PROVE  QueueInv'
    BY <1>4, QueueKept DEF GetShards, GetShardsFails
<1>5. ASSUME NEW c \in Commands, Redeliver(c)
      PROVE  QueueInv'
    <2>1. c \in batch /\ batch' = batch \ {c} /\ events' = events /\ app' = app /\ pc = "deliver"
        BY <1>5 DEF Redeliver, Held
    <2>2. CASE FailHeld(c)
        BY <2>1, <2>2, FailHeldQueue
    <2>3. CASE ~FailHeld(c)
        <3>1. at' = Update(c, at, "sent") /\ pc' = pc
            BY <1>5, <2>3 DEF Redeliver
        <3>2. at[c] # "out"
            BY <2>1 DEF IInv, CommandInv, OnePlace
        <3>. QED BY <2>1, <3>1, <3>2, BusyQueue
    <2>. QED BY <2>2, <2>3
<1>6. ASSUME NEW c \in Commands, FailEvent(c)
      PROVE  QueueInv'
    BY <1>6, FailHeldQueue DEF FailEvent, Held
<1>. QED BY <1>1, <1>2, <1>3, <1>4, <1>5, <1>6 DEF Worker

LEMMA QueueNext ==
    ASSUME IInv, TypeOK, QueueInv, Next
    PROVE  QueueInv'
<1>1. CASE UNCHANGED clientVars
    BY <1>1, QueueKept
    DEF clientVars, poolVars, workerVars, eventVars, QueueInv, WaitsForMore
<1>. QED BY <1>1, CallbackQueue, ApplicationQueue, WorkerQueue DEF Next

-----------------------------------------------------------------------------
LEMMA ClusterNext ==
    ASSUME TypeOK, Next
    PROVE  MapsStay
<1>1. CASE UNCHANGED clusterVars
    BY <1>1 DEF clusterVars, MapsStay
<1>. QED BY <1>1, ClusterTypes, TypeParts
     DEF Next, Send, Callback, Reply, ConnectionFails, OtherError, Moved, Ask, DropPool, Worker,
         FetchEvents, Adopt, BatchDone, GetShards, GetShardsFails, Redeliver, FailEvent

LEMMA WorkerInvNext ==
    ASSUME IInv, IInv', WorkerInv, [Next]_vars
    PROVE  WorkerInv'
<1>1. CASE Next
    BY <1>1, ClusterNext, TypesNext, AdoptsMapNext, NodesHavePoolsNext, QueueNext
    DEF WorkerInv, QueueInv, MapsStay
<1>2. CASE UNCHANGED vars
    <2>. USE <1>2 DEF vars, clusterVars, poolVars, workerVars, eventVars, historyVars
    <2>1. TypeOK' /\ AdoptsMap' /\ NodesHavePools'
        BY DEF WorkerInv, TypeOK, ClusterTypeOK, AdoptsMap, NodesHavePools, MapOf
    <2>2. HeldIsQueued' /\ WaitsForMore' /\ StoppedInTime'
        BY DEF WorkerInv, HeldIsQueued, WaitsForMore, StoppedInTime, Unreferenced
    <2>. QED BY <2>1, <2>2 DEF WorkerInv
<1>. QED BY <1>1, <1>2

LEMMA WorkerInvHolds == Spec => []WorkerInv
<1>1. IInv /\ IInv' /\ WorkerInv /\ [Next]_vars => WorkerInv'
    BY WorkerInvNext
<1>. QED BY <1>1, WorkerInvInit, EventsAreTracked, PTL DEF Spec

\* Types, for any cluster, any commands and any number of attempts: what the
\* worker adopts is always a map that the cluster has had.
THEOREM TypeSafe == Spec => []TypeOK
<1>1. WorkerInv => TypeOK
    BY DEF WorkerInv
<1>. QED BY <1>1, WorkerInvHolds, PTL

\* _get_pool() finds a pool for every slot that the map in use covers: also after
\* the worker has adopted an older map, and with pools that an ASK has added.
THEOREM CoveredSlotsHavePools == Spec => []NodesHavePools
<1>1. WorkerInv => NodesHavePools
    BY DEF WorkerInv
<1>. QED BY <1>1, WorkerInvHolds, PTL

\* No event is lost between the loop and the worker: one that waits to be sent
\* again is in _events, or in the batch that the worker has taken.
THEOREM RedirectedAreQueued == Spec => []HeldIsQueued
<1>1. WorkerInv => HeldIsQueued
    BY DEF WorkerInv
<1>. QED BY <1>1, WorkerInvHolds, PTL

\* The null event of ~AsyncShardsPool() is neither lost nor early: while somebody
\* has a reference, no worker stops that may still be given an event; once the
\* last one is gone the null event waits for the worker, or the worker is over.
THEOREM WorkerStopsInTime == Spec => []StoppedInTime
<1>1. WorkerInv => StoppedInTime
    BY DEF WorkerInv
<1>. QED BY <1>1, WorkerInvHolds, PTL
=============================================================================
