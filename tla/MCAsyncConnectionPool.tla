----------------------- MODULE MCAsyncConnectionPool ------------------------
(***************************************************************************)
(* Instances of AsyncConnectionPool for TLC.                               *)
(***************************************************************************)
EXTENDS AsyncConnectionPool

CONSTANTS t1, t2,  \* threads
          h1, h2   \* Redis nodes

TwoThreads == {t1, t2}
TwoNodes == {h1, h2}

MasterOrDirect == {"none", "master"}
=============================================================================
