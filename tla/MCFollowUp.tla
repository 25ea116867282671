----------------------------- MODULE MCFollowUp -----------------------------
(* Instances of FollowUp for TLC.                                          *)
EXTENDS FollowUp

CONSTANTS a1, h1, h2, w1, w2
=============================================================================
