---------------------------- MODULE MCLockWatcher ----------------------------
(***************************************************************************)
(* Instances of LockWatcher for TLC.                                       *)
(***************************************************************************)
EXTENDS LockWatcher

CONSTANTS m1, m2  \* mutexes

TwoMutexes == {m1, m2}

\* The other one uses transactions.
OnlyFirst == {m1}
=============================================================================
