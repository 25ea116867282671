--------------------------- MODULE SlotCheckProofs ---------------------------
(***************************************************************************)
(* The loops of module Availability compute the predicate of module        *)
(* Booking, for every table, slot, notice and horizon.                     *)
(***************************************************************************)
EXTENDS SlotCheck, AvailabilityProofs

(* Booking's predicate says of the offered slot what the reference says,   *)
(* which knows of the bound and of effective windows only.                 *)
LEMMA PredicateIsReference ==
  ASSUME Inv, offer # None, TheService \notin Bookings,
         rules = TheRules, blocked = TheBlocked
  PROVE  CheckedAtOnce <=> IsFree(offer)
<1> DEFINE b == offer.start
           e == offer.end
<1>1. /\ b \in Int /\ e \in Int /\ Duration \in Int /\ ask.now \in Int
      /\ Notice \in Int /\ Horizon \in Int
      /\ e = b + Duration /\ offer = W(b, e) /\ b < e
      /\ ask.start = b /\ ask.end = e
      /\ InWorkingHours(offer)
      /\ \A x \in blocked : ~ Overlaps(offer, x)
  BY AvailabilityConstants DEF Inv, TypeOK, OfferInv, Window, W, Ask
<1>2. ASSUME NEW k \in Bookings
      PROVE  /\ k.start \in Int /\ k.end \in Int /\ k.buffer \in Nat
             /\ k # TheService /\ k.start + (k.end - k.start) = k.end
  BY AvailabilityConstants DEF Booking
<1>3. booked \subseteq Bookings
  BY DEF Inv, TypeOK
<1>4. Open(b) /\ Unblocked(b)
  BY <1>1 DEF Open, Unblocked, InWorkingHours
<1>5. Engine!BookedWindows(TheStaff, b, e, skip)
        = {<<k.start, k.end + k.buffer>> :
             k \in {x \in booked \ {skip} : x.start < e /\ b < x.end}}
  <2>1. ASSUME NEW k \in Bookings
        PROVE  /\ Engine!End(k) = k.end
               /\ Engine!Booked(k) <=> k \in booked
    BY <1>2 DEF Engine!End, Engine!Booked, AsRow, AsService
  <2> QED
    BY <1>2, <1>3, <2>1 DEF Engine!BookedWindows, Engine!Overlaps, AsRow, AsService
<1>6. CheckedAtOnce <=>
        /\ ask.now + Notice =< b
        /\ e =< ask.now + Horizon
        /\ \A k \in booked \ {skip} :
              k.start < e /\ b < k.end => ~ (b < k.end + k.buffer /\ k.start < e)
  <2> DEFINE D == [v \in AsService |-> IF v = TheService THEN Duration ELSE v.end - v.start]
             taken == Engine!BookedWindows(TheStaff, b, e, skip)
  <2>1. b + D[TheService] = e
    BY <1>1 DEF AsService
  <2>2. <<TheStaff, TheService, b>>
          \in {x \in {TheStaff} \X {TheService} \X Int : Open(x[3]) /\ Unblocked(x[3])}
    BY <1>1, <1>4
  <2>3. CheckedAtOnce <=>
          /\ ask.now + Notice =< b
          /\ e =< ask.now + Horizon
          /\ \A w \in taken : ~ (b < w[2] /\ w[1] < e)
    BY <2>1, <2>2 DEF CheckedAtOnce, Engine!IsSlotAvailable, Engine!Overlaps
  <2> HIDE DEF taken
  <2>4. (\A w \in taken : ~ (b < w[2] /\ w[1] < e)) <=>
          \A k \in booked \ {skip} :
             k.start < e /\ b < k.end => ~ (b < k.end + k.buffer /\ k.start < e)
    <3> DEFINE Taken(k) == <<k.start, k.end + k.buffer>>
               near == {k \in booked \ {skip} : k.start < e /\ b < k.end}
    <3>1. taken = {Taken(k) : k \in near}
      BY <1>5 DEF taken
    <3>2. \A k : Taken(k)[1] = k.start /\ Taken(k)[2] = k.end + k.buffer
      OBVIOUS
    <3> HIDE DEF Taken
    <3>3. (\A w \in taken : ~ (b < w[2] /\ w[1] < e)) <=>
            \A k \in near : ~ (b < k.end + k.buffer /\ k.start < e)
      BY <3>1, <3>2
    <3> QED
      BY <3>3
  <2> QED
    BY <2>3, <2>4
<1>7. IsFree(offer) <=>
        /\ ask.now + Notice =< b
        /\ e =< ask.now + Horizon
        /\ \A k \in booked \ {skip} :
              /\ ~ (b < k.end /\ k.start < e)
              /\ Overlaps(k, Bound) => ~ (b < k.end + k.buffer /\ k.start < e)
  BY <1>1 DEF IsFree, InPolicy, Clear, Overlaps, EffectiveWindow, W
<1>8. ASSUME ask.now + Notice =< b, e =< ask.now + Horizon
      PROVE  Bound.start = b /\ Bound.end = e
  BY <1>1, <1>8 DEF Bound, W, Later, Earlier
<1> QED
  BY <1>1, <1>2, <1>3, <1>6, <1>7, <1>8 DEF Overlaps

(* The loops of a re-check answer what Booking's predicate says of the     *)
(* tables, for every working hours and blocked periods and any service.    *)
THEOREM LoopsAnswerBookingCorrect ==
  ASSUME TheService \notin Bookings
  PROVE  Spec => []LoopsAnswerBooking
<1>1. Inv => LoopsAnswerBooking
  BY RecheckDecides, PredicateIsReference DEF LoopsAnswerBooking
<1> QED
  BY <1>1, LoopsCorrect, PTL

=============================================================================
