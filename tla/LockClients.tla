---------------------------- MODULE LockClients -----------------------------
(***************************************************************************)
(* What both versions of Redlock (patterns/redlock.h) have in common: a    *)
(* client calls its mutex, the mutex visits the masters one after the      *)
(* other, and the client believes in its lock for some time.               *)
(***************************************************************************)
EXTENDS LockMasters

CONSTANTS MayExtend,  \* whether clients extend their locks
          MayFail     \* whether a command may end with an exception

ASSUME ClientAssumption == {MayExtend, MayFail} \subseteq BOOLEAN

VARIABLES pc,     \* what a client is doing: "out" between calls
          todo,   \* masters it has still to visit in this loop
          got,    \* masters counted as locked
          start,  \* when the call began
          until,  \* until when the client believes in its lock, 0 if it has none
          threw   \* the last call of the client ended with an exception

ClientsTypeOK ==
    /\ todo \in [Clients -> SUBSET Masters]
    /\ got \in [Clients -> SUBSET Masters]
    /\ start \in [Clients -> 0..MaxTime]
    /\ until \in [Clients -> 0..MaxTime + Ttl]
    /\ threw \in [Clients -> BOOLEAN]

ClientsInit ==
    /\ pc = [c \in Clients |-> "out"]
    /\ todo = [c \in Clients |-> {}]
    /\ got = [c \in Clients |-> {}]
    /\ start = [c \in Clients |-> 0]
    /\ until = [c \in Clients |-> 0]
    /\ threw = [c \in Clients |-> FALSE]

\* Begin a loop over all masters.
Visit(c, loop) ==
    /\ pc' = [pc EXCEPT ![c] = loop]
    /\ todo' = [todo EXCEPT ![c] = Masters]
    /\ got' = [got EXCEPT ![c] = {}]

-----------------------------------------------------------------------------
(***************************************************************************)
(* Properties                                                              *)
(***************************************************************************)
Holds(c) == now < until[c]

\* The masters on which the key of c lives until t, by the clock of the clients.
Kept(c, t) == {m \in LockedBy(c) : key[m].exp >= t}

\* What a client believes of its lock is true on a quorum of the masters: the
\* key has the value of this client there and will stay for as long, although
\* replies were late, attempts were repeated and clocks of masters are fast.
HeldByQuorum == \A c \in Clients : Holds(c) => IsQuorum(Kept(c, until[c] + Drift))

\* At no time do two clients have a lock that is still valid.
AtMostOneHolder == \A c, d \in Clients : Holds(c) /\ Holds(d) => c = d

\* A call that failed or unlocked, without an exception, leaves no key of its
\* client on any master, whatever earlier calls left there.
NothingLeftBehind ==
    \A c \in Clients : pc[c] = "out" /\ until[c] = 0 /\ ~threw[c] => LockedBy(c) = {}
=============================================================================
