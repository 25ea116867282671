------------------------------ MODULE SlotCheck ------------------------------
(***************************************************************************)
(* Availability and Booking together.  Booking asks is_slot_available in   *)
(* one step, as a predicate over its table (booking.py:93,                 *)
(* appointments.py:98); Availability runs the loops behind the question.   *)
(* Here the tables of a re-check are read as Booking's tables, and the     *)
(* loops give the answer of the predicate.                                 *)
(***************************************************************************)
EXTENDS Availability

CONSTANTS
  TheStaff,    \* the staff member
  TheService,  \* the service that is booked or moved
  TheRules,    \* his working hours
  TheBlocked   \* the blocked periods that apply to him

(* The starts Booking takes for granted: inside working hours, and outside *)
(* blocked periods.                                                        *)
Open(b) ==
  LET d == DayOf(b)
  IN  \E r \in TheRules : /\ r.weekday = Weekday(d)
                          /\ d * DayLength + r.start =< b
                          /\ b + Duration =< d * DayLength + r.end

Unblocked(b) == \A x \in TheBlocked : ~ Overlaps(W(b, b + Duration), x)

(* A row is its own primary key and its own service; it is BOOKED while it *)
(* is in the table.  No session runs, and the clock stands at the call.    *)
AsService == Bookings \cup {TheService}

AsRow(k) ==
  [status |-> IF k \in booked THEN "BOOKED" ELSE "FREE",
   staff |-> TheStaff, service |-> k, start |-> k.start, key |-> None]

Engine == INSTANCE Booking WITH
  Appts <- Bookings,
  Requests <- {}, Sweepers <- {}, Keys <- {},
  Staff <- {TheStaff}, Services <- AsService,
  Performs <- {TheStaff} \X AsService,
  Bookable <- {x \in {TheStaff} \X {TheService} \X Int : Open(x[3]) /\ Unblocked(x[3])},
  Duration <- [v \in AsService |-> IF v = TheService THEN Duration ELSE v.end - v.start],
  Buffer <- [v \in AsService |-> IF v = TheService THEN 0 ELSE v.buffer],
  BookingNotice <- Notice, Notice <- 0, Grace <- 0,
  MaxRequestTicks <- 0, MaxTime <- 0,
  row <- [k \in Bookings |-> AsRow(k)],
  clock <- ask.now,
  pc <- <<>>, req <- <<>>, todo <- <<>>, answer <- <<>>, recovery <- <<>>

(* Booking's predicate, asked about the slot that is re-checked.           *)
CheckedAtOnce ==
  Engine!IsSlotAvailable(TheStaff, TheService, offer.start, ask.now, skip)

(* Module Booking takes is_slot_available for one look at the table: that  *)
(* is what the loops of a re-check answer, in however many steps and in    *)
(* whatever order the rows come, with the row that is being moved left out *)
(* (availability.py:187-211).                                              *)
LoopsAnswerBooking ==
  pc = "listed" /\ offer # None /\ rules = TheRules /\ blocked = TheBlocked =>
    (Available <=> CheckedAtOnce)

=============================================================================
