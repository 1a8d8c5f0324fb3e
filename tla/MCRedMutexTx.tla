---------------------------- MODULE MCRedMutexTx ----------------------------
(***************************************************************************)
(* Instances of RedMutexTx for TLC.                                        *)
(***************************************************************************)
EXTENDS RedMutexTx, TLC

CONSTANTS a, b,        \* clients
          m1, m2, m3   \* masters

TwoClients == {a, b}
ThreeMasters == {m1, m2, m3}
TwoMasters == {m1, m2}

\* The clients list the masters in opposite orders.
OppositeLists == (a :> (m1 :> 1 @@ m2 :> 2 @@ m3 :> 3)) @@ (b :> (m1 :> 3 @@ m2 :> 2 @@ m3 :> 1))
OppositePairs == (a :> (m1 :> 1 @@ m2 :> 2)) @@ (b :> (m1 :> 2 @@ m2 :> 1))

\* Exchanging the clients and reversing the masters leaves Rank as it is.
Mirror == {f \in Permutations(Clients \cup Masters) :
              \A c \in Clients, m \in Masters :
                 f[c] \in Clients /\ f[m] \in Masters /\ Rank[f[c]][f[m]] = Rank[c][m]}
=============================================================================
