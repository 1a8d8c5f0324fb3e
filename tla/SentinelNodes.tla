--------------------------- MODULE SentinelNodes ----------------------------
(***************************************************************************)
(* sw::redis::Sentinel (sentinel.cpp): master() and slave(), which walk    *)
(* over the sentinels until one of them names a node that can be connected *)
(* and has the right role. Sentinel::_mutex is held from begin to end, so  *)
(* one call runs at a time; what happens meanwhile is that sentinels and   *)
(* nodes fail, and that the master moves. A connection is closed by its    *)
(* peer unnoticed: it is broken() after a command failed on it.            *)
(*                                                                         *)
(* master() and slave() differ in what a sentinel answers: one candidate,  *)
(* or a list. With one candidate, "the next slave" is "the next sentinel". *)
(***************************************************************************)
EXTENDS Naturals, FiniteSets, SequencesExt

CONSTANTS Sentinels,  \* SentinelOptions::nodes
          Nodes,      \* addresses of the Redis nodes
          MaxRetry,   \* SentinelOptions::max_retry
          NoHost      \* an empty host

ASSUME SentinelAssumption == MaxRetry \in Nat /\ NoHost \notin Nodes /\ IsFiniteSet(Sentinels)

VARIABLES
    \* Sentinel
    healthy,     \* _healthy_sentinels
    broken,      \* _broken_sentinels
    bad,         \* healthy sentinels whose connection is broken()
    \* the call of master() or slave()
    role,        \* which of them is called
    at,          \* where the call is
    left,        \* Iterator::_healthy_size and _broken_size
    retries,
    candidates,  \* nodes that a sentinel has named and that were not tried, or
                 \* the one that was found
    tried,       \* history: sentinels tried since the iteration was started
    \* the servers (external)
    master,      \* the node that is the master
    knows        \* the node a sentinel takes for it

listVars == <<healthy, broken, bad, left>>
vars == <<listVars, role, at, retries, candidates, tried, master, knows>>

Elements(s) == Range(s)

TypeOK ==
    /\ healthy \in Seq(Sentinels) /\ broken \in Seq(Sentinels)
    /\ bad \subseteq Sentinels /\ tried \subseteq Sentinels
    /\ role \in {"master", "slave"}
    /\ at \in {"idle", "next", "ask", "try", "found", "failed"}
    /\ left \in [healthy : Nat, broken : Nat]
    /\ retries \in Nat
    /\ candidates \subseteq Nodes
    /\ master \in Nodes /\ knows \in [Sentinels -> Nodes]

\* Connections to the sentinels are made lazily.
Init ==
    /\ healthy = <<>> /\ broken = SetToSeq(Sentinels) /\ bad = {}
    /\ role \in {"master", "slave"}
    /\ at = "idle" /\ left = [healthy |-> 0, broken |-> 0]
    /\ retries = 0 /\ candidates = {} /\ tried = {}
    /\ master \in Nodes /\ knows = [s \in Sentinels |-> master]

(***************************************************************************)
(* Iterator                                                                *)
(***************************************************************************)
\* reset(): every sentinel is due.
StartIteration ==
    /\ left' = [healthy |-> Len(healthy), broken |-> Len(broken)]
    /\ tried' = {}

NextSentinel == at' = "next" /\ candidates' = {}

\* Mutant: a sentinel that is set aside is not counted as due.
SetAside_uncounted ==
    /\ at = "next" /\ left.healthy > 0 /\ Head(healthy) \in bad
    /\ broken' = <<Head(healthy)>> \o broken
    /\ healthy' = Tail(healthy) /\ bad' = bad \ {Head(healthy)}
    /\ left' = [left EXCEPT !.healthy = @ - 1]
    /\ UNCHANGED <<role, at, retries, candidates, tried, master, knows>>

\* next(): the connection of a healthy sentinel is broken. The sentinel is set
\* aside, and will be connected again in this iteration.
SetAside ==
    /\ at = "next" /\ left.healthy > 0 /\ Head(healthy) \in bad
    /\ broken' = <<Head(healthy)>> \o broken
    /\ healthy' = Tail(healthy) /\ bad' = bad \ {Head(healthy)}
    /\ left' = [healthy |-> left.healthy - 1, broken |-> left.broken + 1]
    /\ UNCHANGED <<role, at, retries, candidates, tried, master, knows>>

Rotated(s) == Append(Tail(s), Head(s))

\* next(): a healthy sentinel, which goes to the end of the list.
NextHealthy ==
    /\ at = "next" /\ left.healthy > 0 /\ Head(healthy) \notin bad
    /\ healthy' = Rotated(healthy)
    /\ left' = [left EXCEPT !.healthy = @ - 1]
    /\ tried' = tried \cup {Head(healthy)}
    /\ at' = "ask"
    /\ UNCHANGED <<broken, bad, role, retries, candidates, master, knows>>

\* next(): no healthy sentinel is left, and a broken one is connected, or not.
Reconnect ==
    /\ at = "next" /\ left.healthy = 0 /\ left.broken > 0
    /\ left' = [left EXCEPT !.broken = @ - 1]
    /\ tried' = tried \cup {Head(broken)}
    /\ \/ /\ healthy' = Append(healthy, Head(broken)) /\ broken' = Tail(broken)
          /\ at' = "ask"
       \/ /\ broken' = Rotated(broken)
          /\ UNCHANGED <<healthy, at>>
    /\ UNCHANGED <<bad, role, retries, candidates, master, knows>>

\* next() throws StopIterError, and so does the call.
GiveUp ==
    /\ at = "next" /\ left.healthy = 0 /\ left.broken = 0
    /\ at' = "failed"
    /\ UNCHANGED <<listVars, role, retries, candidates, tried, master, knows>>

(***************************************************************************)
(* master() and slave()                                                    *)
(***************************************************************************)
\* The call begins.
BeginCall ==
    /\ at = "idle" /\ at' = "next"
    /\ StartIteration
    /\ UNCHANGED <<healthy, broken, bad, role, retries, candidates, master, knows>>

\* What sentinel s answers; replicas that are down are left out.
Answers(s) == IF role = "master" THEN {{knows[s]}} ELSE SUBSET (Nodes \ {knows[s]})

\* The sentinel names candidates.
AskSentinel ==
    /\ at = "ask"
    /\ candidates' \in Answers(Last(healthy)) \ {{}}
    /\ at' = "try"
    /\ UNCHANGED <<listVars, role, retries, tried, master, knows>>

\* It knows none, answers with an error, or does not answer.
AskFails ==
    /\ at = "ask"
    /\ NextSentinel
    /\ bad' \in {bad, bad \cup {Last(healthy)}}
    /\ UNCHANGED <<healthy, broken, left, role, retries, tried, master, knows>>

RightRole(n) == role = (IF n = master THEN "master" ELSE "slave")

\* Mutant: the role is not asked for.
Found_unchecked(n) ==
    /\ at = "try" /\ n \in candidates
    /\ at' = "found" /\ candidates' = {n}
    /\ UNCHANGED <<listVars, role, retries, tried, master, knows>>

\* A candidate (in any order, although slave() prefers the one that its options
\* name) can be connected and has the role that is asked for.
Found(n) ==
    /\ at = "try" /\ n \in candidates /\ RightRole(n)
    /\ at' = "found" /\ candidates' = {n}
    /\ UNCHANGED <<listVars, role, retries, tried, master, knows>>

\* After an exception: the next slave, or the next sentinel.
TryNext(n) ==
    IF candidates = {n} THEN NextSentinel ELSE candidates' = candidates \ {n} /\ UNCHANGED at

\* Mutant: the number of retries is not checked.
WrongRole_forever(n) ==
    /\ at = "try" /\ n \in candidates /\ ~RightRole(n)
    /\ NextSentinel /\ StartIteration
    /\ UNCHANGED <<healthy, broken, bad, role, retries, master, knows>>

\* It has another role: start again, at most max_retry times.
WrongRole(n) ==
    /\ at = "try" /\ n \in candidates /\ ~RightRole(n)
    /\ IF retries < MaxRetry
       THEN /\ retries' = retries + 1
            /\ NextSentinel /\ StartIteration
       ELSE /\ TryNext(n)
            /\ UNCHANGED <<retries, left, tried>>
    /\ UNCHANGED <<healthy, broken, bad, role, master, knows>>

\* It cannot be connected, or does not say its role.
NodeFails(n) ==
    /\ at = "try" /\ n \in candidates
    /\ TryNext(n)
    /\ UNCHANGED <<listVars, role, retries, tried, master, knows>>

Call ==
    \/ SetAside \/ NextHealthy \/ Reconnect \/ GiveUp \/ AskSentinel \/ AskFails
    \/ \E n \in Nodes : Found(n) \/ WrongRole(n) \/ NodeFails(n)

\* It returns, or throws.
CallEnds ==
    /\ at \in {"found", "failed"} /\ at' = "idle" /\ candidates' = {} /\ tried' = {} /\ retries' = 0
    /\ left' = [healthy |-> 0, broken |-> 0]
    /\ UNCHANGED <<healthy, broken, bad, role, master, knows>>

(***************************************************************************)
(* The servers (external)                                                  *)
(***************************************************************************)
\* Another node becomes the master, and each sentinel hears of it some time.
Failover(n) ==
    /\ n # master /\ master' = n
    /\ UNCHANGED <<listVars, role, at, retries, candidates, tried, knows>>

Learn(s) ==
    /\ knows[s] # master
    /\ knows' = [knows EXCEPT ![s] = master]
    /\ UNCHANGED <<listVars, role, at, retries, candidates, tried, master>>

-----------------------------------------------------------------------------
Next ==
    \/ BeginCall \/ Call \/ CallEnds
    \/ \E n \in Nodes : Failover(n)
    \/ \E s \in Sentinels : Learn(s)

Spec == Init /\ [][Next]_vars

\* Each step of a call ends: connections to sentinels and to nodes have
\* timeouts, which the constructor does not allow to be 0.
FairSpec == Spec /\ WF_vars(Call)

-----------------------------------------------------------------------------
(***************************************************************************)
(* Properties                                                              *)
(***************************************************************************)
\* A call fails only when every sentinel was tried since it (re)started: one
\* that failed in an earlier call and was set aside, and one whose connection
\* turned out to be broken in this one, are connected again. So none is lost or
\* forgotten between the two lists either.
GivesUpAfterAll == at = "failed" => tried = Sentinels

\* A call ends, although it starts again when the node it found has another role
\* and although failovers never stop.
CallReturns == at \notin {"idle", "found", "failed"} ~> at \in {"found", "failed"}

Lookup == INSTANCE NodeLookup WITH
    Roles <- {"master", "slave"},
              lookup <- IF at \in {"next", "ask", "try"} THEN "asking" ELSE at,
              node <- IF at = "found" THEN CHOOSE n \in candidates : TRUE ELSE NoHost

\* A node that is returned had the role that was asked for during the call,
\* whatever sentinels that are behind said, and whichever way the call started
\* again: what AsyncConnectionPool relies on.
ImplementsLookup == Lookup!LookupSpec
=============================================================================
