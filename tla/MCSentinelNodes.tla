-------------------------- MODULE MCSentinelNodes ---------------------------
(***************************************************************************)
(* Instances of SentinelNodes for TLC.                                     *)
(***************************************************************************)
EXTENDS SentinelNodes

CONSTANTS h1, h2, h3, \* Redis nodes
          s1, s2, s3  \* sentinels

ThreeNodes == {h1, h2, h3}
ThreeSentinels == {s1, s2, s3}
=============================================================================
