--------------------------- MODULE MCAvailability ---------------------------
(***************************************************************************)
(* A small instance of SlotCheck, and so of Availability, for TLC: days of *)
(* eight units, weeks of two days.                                         *)
(***************************************************************************)
EXTENDS SlotCheck

MCRule(d, b, e) == [weekday |-> d, start |-> b, end |-> e]
MCBooking(b, e, buf) == [start |-> b, end |-> e, buffer |-> buf]

(* A split shift and a long one; shifts that overlap; a free day.          *)
MCRuleSets ==
  { {MCRule(0, 1, 4), MCRule(0, 4, 7), MCRule(1, 0, 5)},
    {MCRule(0, 0, 5), MCRule(0, 3, 7)},
    {MCRule(1, 2, 6)} }

(* Nothing; an hour off within a shift and a night across two days.        *)
MCBlockedSets == { {}, {W(3, 4), W(6, 9)}, {W(-2, 2)} }

(* The hours and the blocked periods read as Booking's.                    *)
MCTheRules == {MCRule(0, 1, 4), MCRule(0, 4, 7), MCRule(1, 0, 5)}
MCTheBlocked == {W(3, 4), W(6, 9)}

(* Bookings with and without a buffer, one of them in the second week.     *)
MCBookings ==
  {MCBooking(1, 3, 0), MCBooking(2, 3, 2), MCBooking(4, 6, 0),
   MCBooking(10, 12, 1), MCBooking(16, 18, 0)}

MCBookedSets ==
  {bs \in SUBSET MCBookings :
     /\ Cardinality(bs) =< 2
     /\ \A k1, k2 \in bs : k1 = k2 \/ ~ Overlaps(k1, k2)}

(* A day, a search over several days, and windows that start in the middle *)
(* of a shift or in the past.                                              *)
MCAsks ==
  {[start |-> b, end |-> b + l, now |-> n] :
      b \in {-1, 0, 3, 8}, l \in {8, 13}, n \in {-2, 1, 4}}

=============================================================================
