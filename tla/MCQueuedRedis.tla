--------------------------- MODULE MCQueuedRedis ----------------------------
(***************************************************************************)
(* Instances of QueuedRedis for TLC.                                       *)
(***************************************************************************)
EXTENDS QueuedRedis

CONSTANTS q1, s1  \* a transaction or pipeline, and the pooled connection

OneQueue == {q1}
OneSlot == {s1}
=============================================================================
