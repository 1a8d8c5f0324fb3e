----------------------------- MODULE ShardsPool -----------------------------
(***************************************************************************)
(* sw::redis::ShardsPool (shards_pool.h, shards_pool.cpp) and the loop of  *)
(* RedisCluster::_command (redis_cluster.hpp) that sends a command with a  *)
(* key, follows redirections and repeats what failed.                      *)
(*                                                                         *)
(* An action is one critical section of `_mutex' or one exchange with a    *)
(* node. The map `_shards' is the number of the map of the cluster that    *)
(* was adopted last; the reply to CLUSTER SLOTS is such a number, too.     *)
(* Threads run commands; Worker is the thread that refreshes the map.      *)
(***************************************************************************)
EXTENDS ClusterNodes

CONSTANTS Threads,  \* threads that run commands
          Worker,   \* _worker
          Attempts  \* of update(): 4 in the code, all but the last on a random pool

ASSUME ShardsAssumption ==
    /\ Worker \notin Threads
    /\ Attempts \in Nat \ {0}

All == Threads \cup {Worker}

VARIABLES shards,  \* _shards
          pools,   \* the nodes that have a pool in _pools
          stop,    \* _stop
          pc,      \* where each thread is
          slot,    \* the slot of the key of a command
          idx,     \* the attempts of _command() that have begun
          upd,     \* the attempts of update() that have failed
          target,  \* the node whose pool a thread has fetched
          answer,  \* the slots that a node has sent
          done,    \* history: how often nodes executed the command
          lost,    \* history: a reply was lost, or could not be read
          result   \* history: how the last command ended

poolVars == <<shards, pools, stop>>
commandVars == <<slot, idx, done, lost, result>>
updateVars == <<upd, answer>>
vars == <<clusterVars, poolVars, pc, target, commandVars, updateVars>>

Locations == {"out", "fetch", "send", "redirected", "asking",
              "update", "slots", "adopt", "waiting", "ended"}

TypeOK ==
    /\ ClusterTypeOK
    /\ shards \in DOMAIN maps
    /\ pools \subseteq Nodes
    /\ stop \in BOOLEAN
    /\ pc \in [All -> Locations]
    /\ slot \in [Threads -> Slots]
    /\ idx \in [Threads -> 0..2]
    /\ upd \in [All -> 0..Attempts - 1]
    /\ target \in [All -> Nodes \cup {NoNode}]
    /\ answer \in [All -> Nat]
    /\ done \in [Threads -> 0..2]
    /\ lost \in [Threads -> BOOLEAN]
    /\ result \in [Threads -> {"none", "ok", "thrown"}]

\* The constructor: the map of Seed, with a pool for each of its nodes.
Init ==
    /\ ClusterInit
    /\ shards = 1
    /\ pools = NodesOf(1)
    /\ stop = FALSE
    /\ pc = [t \in All |-> IF t = Worker THEN "waiting" ELSE "out"]
    /\ slot \in {[t \in Threads |-> s] : s \in Slots}
    /\ idx = [t \in Threads |-> 0]
    /\ upd = [t \in All |-> 0]
    /\ target = [t \in All |-> NoNode]
    /\ answer = [t \in All |-> 0]
    /\ done = [t \in Threads |-> 0]
    /\ lost = [t \in Threads |-> FALSE]
    /\ result = [t \in Threads |-> "none"]

Goto(t, l) == pc' = [pc EXCEPT ![t] = l]
Leave(t) == target' = [target EXCEPT ![t] = NoNode]

\* _get_pool(): the node of slot s, if the map covers it and it has a pool.
GetPool(s) == IF maps[shards][s] \in pools THEN maps[shards][s] ELSE NoNode

\* The command of t ends with result r.
End(t, r) ==
    /\ Goto(t, "out")
    /\ Leave(t)
    /\ idx' = [idx EXCEPT ![t] = 0]
    /\ result' = [result EXCEPT ![t] = r]

(***************************************************************************)
(* RedisCluster::_command()                                                *)
(***************************************************************************)
Call(t) ==
    /\ ~stop
    /\ pc[t] = "out"
    /\ \E s \in Slots : slot' = [slot EXCEPT ![t] = s]
    /\ done' = [done EXCEPT ![t] = 0]
    /\ lost' = [lost EXCEPT ![t] = FALSE]
    /\ result' = [result EXCEPT ![t] = "none"]
    /\ Goto(t, "fetch")
    /\ UNCHANGED <<clusterVars, poolVars, target, idx, updateVars>>

\* An attempt begins: fetch(key), or SlotUncoveredError.
Fetch(t) ==
    /\ pc[t] = "fetch"
    /\ LET n == GetPool(slot[t]) IN
          IF n = NoNode
          THEN End(t, "thrown")
          ELSE /\ target' = [target EXCEPT ![t] = n]
               /\ idx' = [idx EXCEPT ![t] = @ + 1]
               /\ Goto(t, "send")
               /\ UNCHANGED result
    /\ UNCHANGED <<clusterVars, poolVars, slot, done, lost, updateVars>>

\* A thread waits for the reply to its command.
Sent(t, n) == pc[t] \in {"send", "asking"} /\ n = target[t]
AfterAsking(t) == pc[t] = "asking"

\* Mutant: the handler of AskError drops the reply, and the loop goes on.
Reply_notReturned(t) ==
    /\ \E n \in up : Sent(t, n) /\ Serves(n, slot[t], AfterAsking(t))
    /\ done' = [done EXCEPT ![t] = @ + 1]
    /\ IF AfterAsking(t) /\ idx[t] < 2
       THEN Goto(t, "fetch") /\ Leave(t) /\ UNCHANGED <<idx, result>>
       ELSE End(t, "ok")
    /\ UNCHANGED <<clusterVars, poolVars, slot, lost, updateVars>>

\* The node executes the command and its reply arrives.
Reply(t) ==
    /\ \E n \in up : Sent(t, n) /\ Serves(n, slot[t], AfterAsking(t))
    /\ done' = [done EXCEPT ![t] = @ + 1]
    /\ End(t, "ok")
    /\ UNCHANGED <<clusterVars, poolVars, slot, lost, updateVars>>

\* There is no reply that t can read; the node may have executed the command.
NoReply(t) ==
    /\ \E n \in Nodes :
          /\ Sent(t, n)
          /\ \/ UNCHANGED done
             \/ n \in up /\ Serves(n, slot[t], AfterAsking(t)) /\ done' = [done EXCEPT ![t] = @ + 1]
    /\ lost' = [lost EXCEPT ![t] = TRUE]

\* IoError or ClosedError, which leads to update(), except after ASKING, where
\* nothing catches it.
ConnectionFails(t) ==
    /\ NoReply(t)
    /\ IF AfterAsking(t)
       THEN End(t, "thrown")
       ELSE Goto(t, "update") /\ Leave(t) /\ UNCHANGED <<idx, result>>
    /\ UNCHANGED <<clusterVars, poolVars, slot, updateVars>>

\* Another exception of recv(), such as ProtoError or OomError, or of the parser
\* of the reply: "just throw it".
ReplyUnread(t) ==
    /\ NoReply(t)
    /\ End(t, "thrown")
    /\ UNCHANGED <<clusterVars, poolVars, slot, updateVars>>

\* MOVED: update(), or an Error after ASKING.
Moved(t) ==
    /\ \E n \in up : Sent(t, n) /\ Moves(n, slot[t], AfterAsking(t))
    /\ IF AfterAsking(t)
       THEN End(t, "thrown")
       ELSE Goto(t, "update") /\ Leave(t) /\ UNCHANGED <<idx, result>>
    /\ UNCHANGED <<clusterVars, poolVars, slot, done, lost, updateVars>>

\* ASK: the next node is the one that imports the slot.
Ask(t) ==
    /\ pc[t] = "send"
    /\ target[t] \in up
    /\ Asks(target[t], slot[t])
    /\ target' = [target EXCEPT ![t] = importing[slot[t]]]
    /\ Goto(t, "redirected")
    /\ UNCHANGED <<clusterVars, poolVars, commandVars, updateVars>>

\* fetch(node), which adds a pool for a node it does not know; then ASKING.
FetchNode(t) ==
    /\ pc[t] = "redirected"
    /\ pools' = pools \cup {target[t]}
    /\ Goto(t, "asking")
    /\ UNCHANGED <<clusterVars, shards, stop, target, commandVars, updateVars>>

\* Any other error, where the command is not executed (the pool has no connection
\* to give, CLUSTERDOWN, TRYAGAIN, WRONGTYPE), goes to the caller.
OtherError(t) ==
    /\ pc[t] \in {"send", "asking"}
    /\ End(t, "thrown")
    /\ UNCHANGED <<clusterVars, poolVars, slot, done, lost, updateVars>>

(***************************************************************************)
(* ShardsPool::update()                                                    *)
(***************************************************************************)
\* What follows an update(): the next attempt of the command, or after two of
\* them an Error; the worker waits again.
Updated(t) ==
    IF t = Worker THEN Goto(t, "waiting") /\ Leave(t) /\ UNCHANGED <<idx, result>>
    ELSE IF idx[t] < 2 THEN Goto(t, "fetch") /\ Leave(t) /\ UNCHANGED <<idx, result>>
    ELSE End(t, "thrown")

\* Mutant: update() tries until it succeeds.
AttemptFails_forever(t) ==
    /\ upd' = [upd EXCEPT ![t] = (@ + 1) % Attempts]
    /\ Leave(t)
    /\ Goto(t, "update")
    /\ UNCHANGED <<idx, result>>

\* Mutant: an update() that throws ends the worker.
AttemptFails_uncaught(t) ==
    IF upd[t] < Attempts - 1
    THEN /\ upd' = [upd EXCEPT ![t] = @ + 1]
         /\ Leave(t)
         /\ Goto(t, "update")
         /\ UNCHANGED <<idx, result>>
    ELSE /\ upd' = [upd EXCEPT ![t] = 0]
         /\ IF t = Worker THEN Goto(t, "ended") /\ Leave(t) /\ UNCHANGED <<idx, result>>
                          ELSE End(t, "thrown")

\* An attempt to update fails. After the last update() throws, which ends a
\* command; the worker ignores it.
AttemptFails(t) ==
    IF upd[t] < Attempts - 1
    THEN /\ upd' = [upd EXCEPT ![t] = @ + 1]
         /\ Leave(t)
         /\ Goto(t, "update")
         /\ UNCHANGED <<idx, result>>
    ELSE /\ upd' = [upd EXCEPT ![t] = 0]
         /\ IF t = Worker THEN Goto(t, "waiting") /\ Leave(t) /\ UNCHANGED <<idx, result>>
                          ELSE End(t, "thrown")

\* The pool of a random slot, at last the node that the user gave.
PickNode(t) ==
    /\ pc[t] = "update"
    /\ \E n \in IF upd[t] < Attempts - 1 THEN {GetPool(s) : s \in Slots} ELSE {Seed} :
          IF n = NoNode
          THEN AttemptFails(t)
          ELSE /\ target' = [target EXCEPT ![t] = n]
               /\ Goto(t, "slots")
               /\ UNCHANGED <<upd, idx, result>>
    /\ UNCHANGED <<clusterVars, poolVars, slot, done, lost, answer>>

\* CLUSTER SLOTS. An answer without slots is an Error.
ClusterSlots(t) ==
    /\ pc[t] = "slots"
    /\ target[t] \in up
    /\ NodesOf(known[target[t]]) # {}
    /\ answer' = [answer EXCEPT ![t] = known[target[t]]]
    /\ Leave(t)
    /\ Goto(t, "adopt")
    /\ UNCHANGED <<clusterVars, poolVars, commandVars, upd>>

\* No connection, no reply, or one that is not as expected.
ClusterSlotsFails(t) ==
    /\ pc[t] = "slots"
    /\ AttemptFails(t)
    /\ UNCHANGED <<clusterVars, poolVars, slot, done, lost, answer>>

\* Mutant: nodes that are gone are erased, new ones are not added.
NewPools_dropsUnknown(i) == pools \cap NodesOf(i)

\* Pools of nodes that are gone are erased, pools for new nodes are added.
NewPools(i) == (pools \cap NodesOf(i)) \cup NodesOf(i)

\* The critical section of update(). An answer may be older than the map that
\* it replaces.
Adopt(t) ==
    /\ pc[t] = "adopt"
    /\ shards' = answer[t]
    /\ pools' = NewPools(answer[t])
    /\ answer' = [answer EXCEPT ![t] = 0]
    /\ upd' = [upd EXCEPT ![t] = 0]
    /\ Updated(t)
    /\ UNCHANGED <<clusterVars, stop, slot, done, lost>>

(***************************************************************************)
(* The worker and the destructor                                           *)
(***************************************************************************)
\* Mutant: wait_for() without the predicate.
Refresh_ignoresStop ==
    /\ pc[Worker] = "waiting"
    /\ Goto(Worker, "update")
    /\ UNCHANGED <<clusterVars, poolVars, target, commandVars, updateVars>>

\* slot_map_refresh_interval has passed without _stop.
Refresh ==
    /\ pc[Worker] = "waiting"
    /\ ~stop
    /\ Goto(Worker, "update")
    /\ UNCHANGED <<clusterVars, poolVars, target, commandVars, updateVars>>

\* wait_for() returns with _stop, and the destructor's join() with it.
WorkerEnds ==
    /\ pc[Worker] = "waiting"
    /\ stop
    /\ Goto(Worker, "ended")
    /\ UNCHANGED <<clusterVars, poolVars, target, commandVars, updateVars>>

\* ~ShardsPool(), when no command uses the pool.
Destroy ==
    /\ ~stop
    /\ \A t \in Threads : pc[t] = "out"
    /\ stop' = TRUE
    /\ UNCHANGED <<clusterVars, shards, pools, pc, target, commandVars, updateVars>>

-----------------------------------------------------------------------------
Command(t) ==
    \/ Fetch(t) \/ Reply(t) \/ ConnectionFails(t) \/ ReplyUnread(t) \/ Moved(t) \/ Ask(t)
    \/ FetchNode(t) \/ OtherError(t)

Update(t) == PickNode(t) \/ ClusterSlots(t) \/ ClusterSlotsFails(t) \/ Adopt(t)

Cluster == ClusterStep /\ UNCHANGED <<poolVars, pc, target, commandVars, updateVars>>

Next ==
    \/ \E t \in Threads : Call(t) \/ Command(t)
    \/ \E t \in All : Update(t)
    \/ Refresh \/ WorkerEnds \/ Destroy
    \/ Cluster

Spec == Init /\ [][Next]_vars

\* Threads run, timeouts bound what they wait for, the refresh interval passes
\* again and again, and what a part of the cluster knows reaches the others.
Fairness ==
    /\ \A t \in Threads : WF_vars(Command(t))
    /\ \A t \in All : WF_vars(Update(t))
    /\ WF_vars(Refresh \/ WorkerEnds)
    /\ \A n \in Nodes : WF_vars(Learn(n) /\ Cluster)

FairSpec == Spec /\ Fairness

-----------------------------------------------------------------------------
(***************************************************************************)
(* Properties                                                              *)
(***************************************************************************)
\* Whatever the order in which threads adopt maps, new or old, and follow ASK
\* to nodes that no map has: each node of the map in use has a pool, so that
\* _get_pool() throws for a slot that no node owns, and for no other.
MapHasPools == NodesOf(shards) \subseteq pools

\* _command() repeats a command that may have been executed only after an I/O
\* error, and once: if no reply was lost or unreadable, a command was executed
\* once if its caller got the reply, and not at all if its caller got an
\* exception, whatever redirections it went through.
RepeatsAreSafe ==
    \A t \in Threads :
        /\ done[t] <= IF lost[t] THEN 2 ELSE 1
        /\ result[t] = "ok" => done[t] # 0
        /\ result[t] = "thrown" /\ ~lost[t] => done[t] = 0

\* A call ends, however often the cluster changes under it.
CommandEnds == \A t \in Threads : pc[t] # "out" ~> pc[t] = "out"

\* README.md: "it will finally update the slot-node mapping". If the cluster no
\* longer changes, and reachable nodes answer, the map in use becomes the last
\* one and stays it, although threads adopt older answers after newer ones.
MapConverges ==
    \/ []<><<Changes>>_vars
    \/ []<><<\E t \in All : target[t] \in up /\ ClusterSlotsFails(t)>>_vars
    \/ <>stop
    \/ <>[](NodesOf(Latest) # {} => maps[shards] = maps[Latest])

\* ~ShardsPool() returns.
DestructorReturns == stop ~> pc[Worker] = "ended"
=============================================================================
