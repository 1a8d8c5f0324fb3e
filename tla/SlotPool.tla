------------------------------ MODULE SlotPool ------------------------------
(***************************************************************************)
(* What a connection pool promises its clients, with nothing of how it     *)
(* keeps the promise: at most Size connections ever exist, each of them is *)
(* free or lent to exactly one thread, and a thread has at most one.       *)
(* `ConnectionPoolOptions::size' ("Max number of connections, including    *)
(* both in-use and idle ones") is the Size of this module.                 *)
(***************************************************************************)
EXTENDS Naturals

CONSTANTS Threads,  \* the threads that use the pool
          Size,     \* ConnectionPoolOptions::size
          Unborn,   \* the owner of a connection nobody has asked for yet
          Free      \* the owner of an idle connection

Slots == 1..Size

VARIABLE owner      \* owner[c]: Unborn, Free, or the thread that has c

SlotTypeOK == owner \in [Slots -> Threads \cup {Unborn, Free}]

SlotInit == owner = [c \in Slots |-> Unborn]

\* A thread without a connection is lent one that nobody has.
Lend(t) ==
    /\ \A c \in Slots : owner[c] # t
    /\ \E c \in Slots : /\ owner[c] \in {Unborn, Free}
                        /\ owner' = [owner EXCEPT ![c] = t]

\* A thread gives its connection back.
GiveBack(t) ==
    \E c \in Slots : /\ owner[c] = t
                     /\ owner' = [owner EXCEPT ![c] = Free]

SlotNext == \E t \in Threads : Lend(t) \/ GiveBack(t)

SlotSpec == SlotInit /\ [][SlotNext]_owner
=============================================================================
