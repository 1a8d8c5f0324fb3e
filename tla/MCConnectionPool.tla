-------------------------- MODULE MCConnectionPool --------------------------
(***************************************************************************)
(* Instances of ConnectionPool for TLC.                                    *)
(***************************************************************************)
EXTENDS ConnectionPool

CONSTANTS t1, t2, t3, t4,  \* threads
          h1, h2           \* the addresses a service moves between

ThreeThreads == {t1, t2, t3}
FourThreads == {t1, t2, t3, t4}
OneHost == {h1}
TwoHosts == {h1, h2}
=============================================================================
