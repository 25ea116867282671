------------------------------- MODULE MCTrail ------------------------------
(* Instances of Trail for TLC.                                             *)
EXTENDS Trail

CONSTANTS c1
=============================================================================
