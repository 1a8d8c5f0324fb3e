----------------------------- MODULE MCRedLock ------------------------------
(***************************************************************************)
(* Instances of RedLock for TLC.                                           *)
(***************************************************************************)
EXTENDS RedLock, TLC

CONSTANTS a, b,        \* clients
          m1, m2       \* masters

TwoClients == {a, b}
TwoMasters == {m1, m2}

\* The clients list the masters in opposite orders.
OppositeLists == (a :> (m1 :> 1 @@ m2 :> 2)) @@ (b :> (m1 :> 2 @@ m2 :> 1))

\* Exchanging the clients and reversing the masters leaves Rank as it is.
Mirror == {f \in Permutations(Clients \cup Masters) :
              \A c \in Clients, m \in Masters :
                 f[c] \in Clients /\ f[m] \in Masters /\ Rank[f[c]][f[m]] = Rank[c][m]}
=============================================================================
