------------------------- MODULE MCAsyncShardsPool --------------------------
(***************************************************************************)
(* Instances of AsyncShardsPool for TLC.                                   *)
(***************************************************************************)
EXTENDS AsyncShardsPool

CONSTANTS n1, n2,  \* nodes
          s1,      \* a slot
          c1, c2   \* commands

TwoNodes == {n1, n2}
OneSlot == {s1}
OneCommand == {c1}
TwoCommands == {c1, c2}
=============================================================================
