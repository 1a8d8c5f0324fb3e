----------------------------- MODULE NodeLookup -----------------------------
(***************************************************************************)
(* What asking the sentinels promises (Sentinel::master() and slave(),     *)
(* sentinel.h), with nothing of how they are asked: a call finds a node    *)
(* that had the right role while the call ran, or it fails. SentinelNodes  *)
(* shows that the code keeps the promise; AsyncConnectionPool relies on no *)
(* more than that.                                                         *)
(***************************************************************************)
CONSTANTS Nodes,   \* addresses of the Redis nodes
          NoHost,  \* no address
          Roles    \* the roles that are looked for

ASSUME NodesAssumption ==
    /\ NoHost \notin Nodes
    /\ Roles \subseteq {"none", "master", "slave"}

VARIABLES role,    \* "master" or "slave", "none" where there is no sentinel
          lookup,  \* "idle", "asking", "found", "failed"
          node,    \* the node that was found
          master   \* the node that is the master now (external)

lookupVars == <<role, lookup, node, master>>

LookupTypeOK ==
    /\ role \in Roles
    /\ lookup \in {"idle", "asking", "found", "failed"}
    /\ node \in Nodes \cup {NoHost}
    /\ master \in Nodes

LookupInit ==
    /\ role \in Roles /\ master \in Nodes
    /\ lookup = "idle" /\ node = NoHost

RightRole(n) == role = (IF n = master THEN "master" ELSE "slave")

BeginLookup ==
    /\ lookup = "idle" /\ lookup' = "asking"
    /\ UNCHANGED <<role, node, master>>

\* The node has the role when it is asked for it, and may have lost it when the
\* caller hears of it.
Find(n) ==
    /\ lookup = "asking" /\ RightRole(n)
    /\ lookup' = "found" /\ node' = n
    /\ UNCHANGED <<role, master>>

LookupFails ==
    /\ lookup = "asking" /\ lookup' = "failed"
    /\ UNCHANGED <<role, node, master>>

EndLookup ==
    /\ lookup \in {"found", "failed"}
    /\ lookup' = "idle" /\ node' = NoHost
    /\ UNCHANGED <<role, master>>

\* The master moves (external).
Promote(n) == n # master /\ master' = n /\ UNCHANGED <<role, lookup, node>>

LookupNext ==
    \/ BeginLookup \/ LookupFails \/ EndLookup
    \/ \E n \in Nodes : Find(n) \/ Promote(n)

LookupSpec == LookupInit /\ [][LookupNext]_lookupVars
=============================================================================
