--------------------------- MODULE AsyncShardsPool ---------------------------
(***************************************************************************)
(* sw::redis::AsyncShardsPool (async_shards_pool.h, .cpp) with the events  *)
(* of AsyncRedisCluster (ClusterEvent and AskingEvent, async_connection.h),*)
(* over the cluster of ClusterNodes.                                       *)
(*                                                                         *)
(* A command with a key is an event on a connection to a node. The loop    *)
(* calls back with its reply; a redirection gives the event to the worker, *)
(* which updates the map and delivers it again, or sends it to another node*)
(* after ASKING. AsyncConnectionPool and AsyncConnection are the connections*)
(* in detail: here a node of `pools' has one that never blocks.            *)
(*                                                                         *)
(* Every event has a reference to the pool. Whoever drops the last one runs*)
(* the destructor: the application, the loop, or the worker itself.        *)
(***************************************************************************)
EXTENDS ClusterNodes

CONSTANTS Commands,  \* events of commands, each sent once
          Attempts   \* of _update_shards(): 4 in the code

ASSUME AsyncShardsAssumption ==
    /\ {"update", "stop"} \cap Commands = {}
    /\ Attempts \in Nat \ {0}

VARIABLES
    \* AsyncShardsPool
    shards,   \* _shards: a map that the cluster has had, 0 for the first one
    pools,    \* the nodes that have a pool in _pools
    events,   \* _events; UpdateShardsEvent is "update", and a null event "stop"
    \* the worker
    pc, upd, answer,
    batch,    \* the events that it took: commands, and "stop"
    \* the events
    at,       \* where it is: "out" before and after its life
    state,    \* ClusterEvent::_state
    slot, target,
    \* the application
    app,      \* it has a reference to the pool
    done,     \* history: how often nodes executed the command
    result    \* history: how the command ended: "lost" if its reply never came or
              \* cannot be parsed, "failed" with any other error

poolVars == <<shards, pools, events>>
workerVars == <<pc, upd, answer, batch>>
eventVars == <<at, state, slot, target>>
historyVars == <<done, result>>
vars == <<clusterVars, poolVars, workerVars, eventVars, app, historyVars>>

TypeOK ==
    /\ ClusterTypeOK
    /\ shards \in {0} \cup DOMAIN maps /\ pools \subseteq Nodes
    /\ events \subseteq Commands \cup {"update", "stop"}
    /\ pc \in {"waiting", "update", "adopt", "deliver", "fail", "ended", "crashed"}
    /\ upd \in 0..Attempts - 1 /\ answer \in {0} \cup DOMAIN maps
    /\ batch \subseteq Commands \cup {"stop"}
    /\ at \in [Commands -> {"out", "sent", "asking", "held"}]
    /\ state \in [Commands -> {"NORMAL", "MOVED", "ASKING"}]
    /\ slot \in [Commands -> Slots] /\ target \in [Commands -> Nodes \cup {NoNode}]
    /\ app \in BOOLEAN
    /\ done \in [Commands -> 0..2]
    /\ result \in [Commands -> {"none", "ok", "failed", "lost"}]

\* The constructor: all slots are those of the given node, until update() is done.
Init ==
    /\ ClusterInit
    /\ shards = 0 /\ pools = {Seed} /\ events = {"update"}
    /\ pc = "waiting" /\ upd = 0 /\ answer = 0 /\ batch = {}
    /\ at = [c \in Commands |-> "out"] /\ state = [c \in Commands |-> "NORMAL"]
    /\ slot \in {[c \in Commands |-> s] : s \in Slots}
    /\ target = [c \in Commands |-> NoNode]
    /\ app = TRUE
    /\ done = [c \in Commands |-> 0] /\ result = [c \in Commands |-> "none"]

MapOf(i) == IF i = 0 THEN [s \in Slots |-> Seed] ELSE maps[i]

\* _get_pool()
GetPool(s) == IF MapOf(shards)[s] \in pools THEN MapOf(shards)[s] ELSE NoNode

Update(c, f, v) == [f EXCEPT ![c] = v]

\* Nobody has the pool when the application (stays) and the event of c are gone.
LastReference(stays, c) == ~stays /\ \A d \in Commands \ {c} : at[d] = "out"

-----------------------------------------------------------------------------
(***************************************************************************)
(* Commands, and the callbacks of the loop                                 *)
(***************************************************************************)
\* fetch(key) and send(), or SlotUncoveredError.
Send(c) ==
    /\ app /\ at[c] = "out" /\ result[c] = "none"
    /\ \E s \in Slots :
          IF GetPool(s) = NoNode
          THEN result' = Update(c, result, "failed") /\ UNCHANGED <<at, slot, target>>
          ELSE /\ at' = Update(c, at, "sent")
               /\ slot' = Update(c, slot, s)
               /\ target' = Update(c, target, GetPool(s))
               /\ UNCHANGED result
    /\ UNCHANGED <<clusterVars, poolVars, workerVars, state, app, done>>

\* The loop: c is on a connection to a node.
OnLoop(c) == at[c] \in {"sent", "asking"}
Asked(c) == at[c] = "asking"

\* The event is completed and deleted, after it may have pushed an "update". If
\* its reference was the last one, the destructor stops the worker.
Complete(c, r, pushed) ==
    /\ result' = Update(c, result, r)
    /\ at' = Update(c, at, "out")
    /\ state' = Update(c, state, "NORMAL")
    /\ target' = Update(c, target, NoNode)
    /\ events' = events \cup pushed \cup (IF LastReference(app, c) THEN {"stop"} ELSE {})
    /\ UNCHANGED <<shards, slot, app>>

\* A node executes the command and answers. set_value() throws, and the event
\* fails, if the reply is not one of the type that the caller asked for.
Reply(c) ==
    /\ OnLoop(c) /\ target[c] \in up /\ Serves(target[c], slot[c], Asked(c))
    /\ done' = Update(c, done, done[c] + 1)
    /\ \E r \in {"ok", "lost"} : Complete(c, r, {})
    /\ UNCHANGED <<clusterVars, pools, workerVars>>

\* The event may have been executed when the connection is lost.
MayBeExecuted(c) ==
    \/ UNCHANGED done
    \/ /\ target[c] \in up /\ Serves(target[c], slot[c], Asked(c))
       /\ done' = Update(c, done, done[c] + 1)

\* Mutant: a command without a reply is delivered again, as in ShardsPool.
ConnectionFails_repeats(c) ==
    /\ OnLoop(c) /\ MayBeExecuted(c)
    /\ IF state[c] = "NORMAL"
       THEN /\ state' = Update(c, state, "MOVED")
            /\ at' = Update(c, at, "held")
            /\ target' = Update(c, target, NoNode)
            /\ events' = events \cup {c}
            /\ UNCHANGED <<shards, slot, app, result>>
       ELSE \E pushed \in {{}, {"update"}} : Complete(c, "lost", pushed)
    /\ UNCHANGED <<clusterVars, pools, workerVars>>

\* A null reply: the connection ends before or after the command was sent. With
\* IoError or ClosedError the map is updated; with ProtoError, OomError or another
\* one (hiredis could not read the reply) it is not. The command fails.
ConnectionFails(c) ==
    /\ OnLoop(c) /\ MayBeExecuted(c)
    /\ \E pushed \in {{}, {"update"}} : Complete(c, "lost", pushed)
    /\ UNCHANGED <<clusterVars, pools, workerVars>>

\* Any other error reply, or the event cannot be sent: it was not executed.
OtherError(c) ==
    /\ OnLoop(c)
    /\ Complete(c, "failed", {})
    /\ UNCHANGED <<clusterVars, pools, workerVars, done>>

IsMoved(c) == OnLoop(c) /\ target[c] \in up /\ Moves(target[c], slot[c], Asked(c))

\* MOVED: the event is delivered again when the map is updated, once.
Moved(c) ==
    /\ IsMoved(c)
    /\ IF state[c] = "NORMAL"
       THEN /\ state' = Update(c, state, "MOVED")
            /\ at' = Update(c, at, "held")
            /\ target' = Update(c, target, NoNode)
            /\ events' = events \cup {c}
            /\ UNCHANGED <<shards, slot, app, result>>
       ELSE Complete(c, "failed", {})
    /\ UNCHANGED <<clusterVars, pools, workerVars, done>>

\* ASK: to the node that imports the slot, which may get a pool, after ASKING.
Ask(c) ==
    /\ OnLoop(c) /\ target[c] \in up /\ Asks(target[c], slot[c])
    /\ state' = Update(c, state, "ASKING")
    /\ at' = Update(c, at, "asking")
    /\ target' = Update(c, target, importing[slot[c]])
    /\ pools' = pools \cup {importing[slot[c]]}
    /\ UNCHANGED <<clusterVars, shards, events, workerVars, slot, app, historyVars>>

\* The application lets go of the pool, with or without pending commands.
DropPool ==
    /\ app /\ app' = FALSE
    /\ events' = IF \A c \in Commands : at[c] = "out" THEN events \cup {"stop"} ELSE events
    /\ UNCHANGED <<clusterVars, shards, pools, workerVars, eventVars, historyVars>>

-----------------------------------------------------------------------------
(***************************************************************************)
(* The worker                                                              *)
(***************************************************************************)
\* Mutant: a timeout does not lead to an update.
FetchEvents_idle ==
    /\ pc = "waiting" /\ events # {}
    /\ batch' = events \ {"update"} /\ events' = {}
    /\ pc' = "update"
    /\ UNCHANGED <<clusterVars, shards, pools, upd, answer, eventVars, app, historyVars>>

\* _fetch_events(): there are some, or slot_map_refresh_interval has passed. An
\* UpdateShardsEvent does no more than to wake the worker.
FetchEvents ==
    /\ pc = "waiting"
    /\ batch' = events \ {"update"} /\ events' = {}
    /\ pc' = "update"
    /\ UNCHANGED <<clusterVars, shards, pools, upd, answer, eventVars, app, historyVars>>

\* The node of a random slot, at last the one that the user gave. (Nobody else
\* changes _shards before that node is asked.)
Candidates == IF upd < Attempts - 1 THEN {MapOf(shards)[s] : s \in Slots} ELSE {Seed}

\* A ShardsPool is made for node n: CLUSTER SLOTS.
GetShards(n) ==
    /\ pc = "update" /\ n \in Candidates \cap up
    /\ NodesOf(known[n]) # {}
    /\ answer' = known[n] /\ pc' = "adopt"
    /\ UNCHANGED <<clusterVars, poolVars, upd, batch, eventVars, app, historyVars>>

\* There is none, or it cannot be asked. After the last attempt _update_shards()
\* throws.
GetShardsFails(n) ==
    /\ pc = "update" /\ n \in Candidates
    /\ upd' = IF upd < Attempts - 1 THEN upd + 1 ELSE 0
    /\ pc' = IF upd < Attempts - 1 THEN "update" ELSE "fail"
    /\ UNCHANGED <<clusterVars, poolVars, answer, batch, eventVars, app, historyVars>>

\* The critical section of _update_shards().
Adopt ==
    /\ pc = "adopt"
    /\ shards' = answer /\ pools' = NodesOf(answer)
    /\ answer' = 0 /\ upd' = 0 /\ pc' = "deliver"
    /\ UNCHANGED <<clusterVars, events, batch, eventVars, app, historyVars>>

\* The worker completes an event. With the last reference it runs the destructor,
\* which joins the thread it runs on: the process ends.
FailHeld(c) ==
    /\ result' = Update(c, result, "failed")
    /\ at' = Update(c, at, "out")
    /\ state' = Update(c, state, "NORMAL")
    /\ pc' = IF LastReference(app, c) THEN "crashed" ELSE pc
    /\ UNCHANGED target

Held == batch \ {"stop"}

\* _redeliver_events(), one event: it is sent, or fails for want of a node or of
\* a connection.
Redeliver(c) ==
    /\ pc = "deliver" /\ c \in Held
    /\ batch' = batch \ {c}
    /\ \/ FailHeld(c)
       \/ /\ GetPool(slot[c]) # NoNode
          /\ at' = Update(c, at, "sent")
          /\ target' = Update(c, target, GetPool(slot[c]))
          /\ UNCHANGED <<result, state, pc>>
    /\ UNCHANGED <<clusterVars, poolVars, upd, answer, slot, app, done>>

\* Mutant: the promise of the event is not set.
FailEvent_forgets(c) ==
    /\ pc = "fail" /\ c \in Held
    /\ batch' = batch \ {c}
    /\ UNCHANGED <<clusterVars, poolVars, pc, upd, answer, eventVars, app, historyVars>>

\* _fail_events(), one event.
FailEvent(c) ==
    /\ pc = "fail" /\ c \in Held
    /\ batch' = batch \ {c}
    /\ FailHeld(c)
    /\ UNCHANGED <<clusterVars, poolVars, upd, answer, slot, app, done>>

\* Mutant: _fail_events() returns before it has seen the null event.
BatchDone_forgetsStop ==
    /\ pc \in {"deliver", "fail"} /\ Held = {}
    /\ pc' = IF pc = "deliver" /\ "stop" \in batch THEN "ended" ELSE "waiting"
    /\ events' = IF pc = "fail" THEN events \cup {"update"} ELSE events
    /\ batch' = {}
    /\ UNCHANGED <<clusterVars, shards, pools, upd, answer, eventVars, app, historyVars>>

\* The null event ends the worker; after a failure it will update again.
BatchDone ==
    /\ pc \in {"deliver", "fail"} /\ Held = {}
    /\ pc' = IF "stop" \in batch THEN "ended" ELSE "waiting"
    /\ events' = IF pc = "fail" /\ "stop" \notin batch THEN events \cup {"update"} ELSE events
    /\ batch' = {}
    /\ UNCHANGED <<clusterVars, shards, pools, upd, answer, eventVars, app, historyVars>>

-----------------------------------------------------------------------------
Callback(c) == Reply(c) \/ ConnectionFails(c) \/ OtherError(c) \/ Moved(c) \/ Ask(c)

Worker ==
    \/ FetchEvents \/ Adopt \/ BatchDone
    \/ \E n \in Nodes \cup {NoNode} : GetShards(n) \/ GetShardsFails(n)
    \/ \E c \in Commands : Redeliver(c) \/ FailEvent(c)

clientVars == <<poolVars, workerVars, eventVars, app, historyVars>>

Next ==
    \/ \E c \in Commands : Send(c) \/ Callback(c)
    \/ DropPool \/ Worker
    \/ ClusterStep /\ UNCHANGED clientVars

Spec == Init /\ [][Next]_vars

\* The loop runs what is ready, timeouts bound what the worker waits for, the
\* refresh interval passes, and what a part of the cluster knows reaches the rest.
Fairness ==
    /\ \A c \in Commands : WF_vars(Callback(c))
    /\ WF_vars(Worker)
    /\ WF_vars((\E n \in Nodes : Learn(n)) /\ UNCHANGED clientVars)

FairSpec == Spec /\ Fairness

-----------------------------------------------------------------------------
(***************************************************************************)
(* Properties                                                              *)
(***************************************************************************)
\* A command is executed at most once, whatever redirections it went through and
\* whichever thread sent it last: once if its caller got a reply, and not at all
\* if it failed for want of a node, after too many redirections, in the worker, or
\* with an error reply. A caller that lost the reply, or cannot read it, knows no
\* more than that it is not going to be executed again.
AtMostOnce ==
    \A c \in Commands :
        /\ done[c] <= 1
        /\ result[c] = "ok" => done[c] = 1
        /\ result[c] = "failed" => done[c] = 0

\* A future becomes ready: an event goes between the connections and the worker
\* only so often, also while the cluster changes and after the application let
\* go of the pool.
EventsComplete == \A c \in Commands : at[c] # "out" ~> at[c] = "out"

\* If the cluster no longer changes and its nodes answer, the map in use becomes
\* the last one, unless the application lets go of the pool; although the worker
\* begins without a map and may adopt old ones.
MapConverges ==
    \/ []<><<TRUE>>_<<maps, up, importing>>
    \/ []<><<\E n \in up : GetShardsFails(n)>>_vars
    \/ <>[](app /\ NodesOf(Latest) # {} => MapOf(shards) = maps[Latest])

\* ~AsyncShardsPool() returns, on the application's thread or the loop's: the
\* worker finds the null event whether or not it can update the map.
DestructorReturns ==
    ~app /\ (\A c \in Commands : at[c] = "out") ~> pc \in {"ended", "crashed"}

\* The destructor is never run by the thread that it joins.
NoSelfJoin == pc # "crashed"
=============================================================================
