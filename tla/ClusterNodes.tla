---------------------------- MODULE ClusterNodes ----------------------------
(***************************************************************************)
(* A Redis Cluster, as far as its clients can see it: external to the      *)
(* library. The slot maps the cluster has had are numbered; a node knows   *)
(* one of them, perhaps not the last. A node that is not reachable answers *)
(* nothing.                                                                *)
(***************************************************************************)
EXTENDS Naturals, Sequences

CONSTANTS Slots,    \* hash slots
          Nodes,    \* addresses of nodes
          Seed,     \* the node of the ConnectionOptions of the user
          NoNode,   \* the node of a slot that is not covered
          MaxMaps   \* bound on the number of maps

ASSUME ClusterAssumption ==
    /\ Slots # {}
    /\ Seed \in Nodes
    /\ NoNode \notin Nodes
    /\ MaxMaps \in Nat \ {0}

VARIABLES maps,       \* maps[i][s]: the owner of s in the i-th slot map
          known,      \* known[n]: the number of the map that n knows
          up,         \* nodes that can be reached
          importing   \* importing[s]: the node s is being migrated to

clusterVars == <<maps, known, up, importing>>

SlotMaps == [Slots -> Nodes \cup {NoNode}]

Latest == Len(maps)
NodesOf(i) == {maps[i][s] : s \in Slots} \ {NoNode}

ClusterTypeOK ==
    /\ maps \in Seq(SlotMaps)
    /\ maps # <<>>
    /\ known \in [Nodes -> DOMAIN maps]
    /\ up \subseteq Nodes
    /\ importing \in [Slots -> Nodes \cup {NoNode}]

ClusterInit ==
    /\ \E f \in SlotMaps : maps = <<f>>
    /\ NodesOf(1) # {}
    /\ known = [n \in Nodes |-> 1]
    /\ up = Nodes
    /\ importing = [s \in Slots |-> NoNode]

\* What node n answers to a command for a key of slot s.
Owns(n, s) == maps[known[n]][s] = n
Serves(n, s, asking) == Owns(n, s) \/ (asking /\ importing[s] = n)
Asks(n, s) == Owns(n, s) /\ importing[s] \notin {NoNode, n}
Moves(n, s, asking) == maps[known[n]][s] # NoNode /\ ~Serves(n, s, asking)

(***************************************************************************)
(* Steps of the cluster                                                    *)
(***************************************************************************)
\* The cluster agrees on another map, and node n is the first to know.
NewMap(f, n) ==
    /\ Latest < MaxMaps
    /\ maps' = Append(maps, f)
    /\ known' = [known EXCEPT ![n] = Latest + 1]

Migrate(s, n) ==
    /\ n \in up
    /\ Latest < MaxMaps
    /\ importing[s] = NoNode
    /\ maps[Latest][s] \notin {n, NoNode}
    /\ importing' = [importing EXCEPT ![s] = n]
    /\ UNCHANGED <<maps, known, up>>

\* The migration is over (n is the new owner, or the old one).
SetSlot(s, n) ==
    /\ importing[s] # NoNode
    /\ n \in {importing[s], maps[Latest][s]} \cap up
    /\ NewMap([maps[Latest] EXCEPT ![s] = importing[s]], n)
    /\ importing' = [importing EXCEPT ![s] = NoNode]
    /\ UNCHANGED up

\* A slot is taken away from its owner, or given to a node.
Assign(s, m, n) ==
    /\ importing[s] = NoNode
    /\ n \in up
    /\ m # maps[Latest][s]
    /\ NewMap([maps[Latest] EXCEPT ![s] = m], n)
    /\ UNCHANGED <<up, importing>>

Crash(n) ==
    /\ n # Seed
    /\ n \in up
    /\ up' = up \ {n}
    /\ UNCHANGED <<maps, known, importing>>

\* Node n takes over the slots of m, which is down.
Promote(n, m) ==
    /\ n \in up
    /\ m \notin up
    /\ m \in NodesOf(Latest)
    /\ NewMap([s \in Slots |-> IF maps[Latest][s] = m THEN n ELSE maps[Latest][s]], n)
    /\ UNCHANGED <<up, importing>>

Restart(n) ==
    /\ n \notin up
    /\ up' = up \cup {n}
    /\ UNCHANGED <<maps, known, importing>>

\* The map reaches another node that is up.
Learn(n) ==
    /\ n \in up
    /\ known[n] # Latest
    /\ known' = [known EXCEPT ![n] = Latest]
    /\ UNCHANGED <<maps, up, importing>>

\* The steps after which a client has something to find out.
Changes ==
    \/ \E s \in Slots, n \in Nodes :
          Migrate(s, n) \/ SetSlot(s, n) \/ \E m \in Nodes \cup {NoNode} : Assign(s, m, n)
    \/ \E n \in Nodes : Crash(n) \/ Restart(n) \/ \E m \in Nodes : Promote(n, m)

ClusterStep == Changes \/ \E n \in Nodes : Learn(n)
=============================================================================
