------------------------- MODULE MCAsyncConnection -------------------------
(***************************************************************************)
(* Instances of AsyncConnection for TLC.                                   *)
(***************************************************************************)
EXTENDS AsyncConnection

CONSTANTS c1, c2,     \* connections
          e1, e2, e3  \* events

OneConn == {c1}
TwoConns == {c1, c2}
OneEvent == {e1}
ThreeEvents == {e1, e2, e3}
OnlyAuth == {"AUTHING"}
AuthAndSelect == {"AUTHING", "SELECTING_DB"}
=============================================================================
