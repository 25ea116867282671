------------------------------ MODULE MCBooking ------------------------------
(***************************************************************************)
(* Small instances of Booking for TLC.                                     *)
(***************************************************************************)
EXTENDS Booking, TLC

(* Two services on one staff member's calendar: "cut" takes one unit of    *)
(* time, "colour" two and a buffer of one.                                 *)
MCDuration == [v \in Services |-> IF v = "colour" THEN 2 ELSE 1]
MCBuffer == [v \in Services |-> IF v = "colour" THEN 1 ELSE 0]

(* Everybody does everything, except that nobody but the first does        *)
(* colours.                                                                *)
MCPerforms == {<<s, v>> \in Staff \X Services : v = "colour" => s = "ann"}

(* The last unit of the day is blocked.                                    *)
MCBookable == {<<s, v, b>> \in Staff \X Services \X Time :
                 b + MCDuration[v] =< MaxTime}

MCSymmetry == Permutations(Appts) \cup Permutations(Requests)
                \cup Permutations(Keys)

=============================================================================
