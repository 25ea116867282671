------------------------------ MODULE MCIntake ------------------------------
(* Instances of Intake for TLC.                                            *)
EXTENDS Intake, TLC

CONSTANTS p1, p2, p3, p4, ann, ben, home, work

(* Ann and Ben write from one contact, and Ben again from another, which   *)
(* is also the contact of the reply.                                       *)
MCNameOf == (p1 :> ann @@ p2 :> ben @@ p3 :> ben @@ p4 :> ann)
MCContactOf == (p1 :> home @@ p2 :> home @@ p3 :> work @@ p4 :> work)
=============================================================================
