---------------------------- MODULE Availability ----------------------------
(***************************************************************************)
(* The availability engine (app/domain/availability.py) for one staff      *)
(* member: list_available_slots as its loops run, and is_slot_available,   *)
(* which is the same listing over a window that is one slot long.  A slot  *)
(* is listed, offered, and re-checked later, when time has passed and      *)
(* other appointments have been booked.                                    *)
(*                                                                         *)
(* Times are minutes, negative ones included.  A day has DayLength of      *)
(* them: the wall clock of the business and universal time differ by the   *)
(* same offset all over the window.                                        *)
(***************************************************************************)
EXTENDS Integers, FiniteSets

CONSTANTS
  DayLength, DaysPerWeek,
  Duration,     \* Service.duration_minutes
  Notice,       \* Business.min_booking_notice_minutes
  Horizon,      \* Business.max_booking_horizon_days
  None,
  RuleSets,     \* what staff_working_hours may say of the staff member
  BlockedSets,  \* the blocked periods that may apply to him
  Bookings,     \* the rows appointments may hold for him
  BookedSets,   \* those it may hold at the start
  Asks,         \* the listings that may be asked for
  Delays        \* how much later a listed slot may be re-checked

Rule == [weekday : 0 .. DaysPerWeek - 1, start : Int, end : Int]
Window == [start : Int, end : Int]
Booking == [start : Int, end : Int, buffer : Nat]
Ask == [start : Int, end : Int, now : Int]

ASSUME AvailabilityConstants ==
  /\ DayLength \in Nat \ {0}
  /\ DaysPerWeek \in Nat \ {0}
  /\ Duration \in Nat \ {0}
  /\ Notice \in Nat
  /\ Horizon \in Nat
  /\ RuleSets \subseteq SUBSET Rule
  /\ \A rs \in RuleSets : \A r \in rs :
        0 =< r.start /\ r.start < r.end /\ r.end < DayLength
  /\ BlockedSets \subseteq SUBSET Window
  /\ \A bs \in BlockedSets : \A b \in bs : b.start < b.end
  /\ Bookings \subseteq Booking
  /\ \A b \in Bookings : b.start < b.end
  /\ None \notin Bookings \cup Window
  /\ BookedSets \subseteq SUBSET Bookings
  /\ Asks \subseteq Ask
  /\ Delays \subseteq Nat

VARIABLES
  rules, blocked, booked,  \* the tables
  pc,
  ask,     \* the listing that runs, or ran last
  offer,   \* the listed slot that is re-checked; None in a listing
  skip,    \* the appointment left out because it is being moved, or None
  day,     \* the local day whose working hours come next
  hours,   \* working hours found so far, clipped to the bound
  todo,    \* blockers that are not subtracted yet
  free,    \* what the hours are reduced to
  uncut,   \* what is left to be cut into slots
  slots

tables == <<rules, blocked, booked>>
call == <<ask, offer, skip>>
vars == <<tables, pc, call, day, hours, todo, free, uncut, slots>>

W(b, e) == [start |-> b, end |-> e]

Overlaps(x, y) == x.start < y.end /\ y.start < x.end

DayOf(t) == t \div DayLength
Weekday(d) == d % DaysPerWeek

Later(a, b) == IF a < b THEN b ELSE a
Earlier(a, b) == IF a < b THEN a ELSE b

(* A slip: the notice, which the listing has seen to, is not asked again.  *)
BoundWithoutNotice == W(ask.start, Earlier(ask.end, ask.now + Horizon))

(* The window asked for, clipped to the notice and the horizon.            *)
Bound == W(Later(ask.start, ask.now + Notice),
           Earlier(ask.end, ask.now + Horizon))

(* A slip: the row is taken as it is.                                      *)
RowAsWindow(k) == k

EffectiveWindow(k) == W(k.start, k.end + k.buffer)

(* Both queries select the rows that overlap the bound by their own times. *)
BlockedWindows == {b \in blocked : Overlaps(b, Bound)}

(* Slips: the row that is being moved is not left out; only rows inside    *)
(* the bound are selected.                                                 *)
BookedInside ==
  {EffectiveWindow(k) : k \in {x \in booked \ {skip} : /\ Bound.start =< x.start
                                                        /\ x.end =< Bound.end}}
BookedAll == {EffectiveWindow(k) : k \in {x \in booked : Overlaps(x, Bound)}}

BookedWindows ==
  {EffectiveWindow(k) : k \in {x \in booked \ {skip} : Overlaps(x, Bound)}}

Blockers == BlockedWindows \cup BookedWindows

(* A slip: the day on which the bound ends is left out.                    *)
DayBeforeLast == DayOf(Bound.end) - 1

LastDay == DayOf(Bound.end)

(* The working hours of a local day, clipped.                              *)
DayHours(d) ==
  {w \in {W(Later(d * DayLength + r.start, Bound.start),
            Earlier(d * DayLength + r.end, Bound.end)) :
            r \in {x \in rules : x.weekday = Weekday(d)}} : w.start < w.end}

(* A slip: only what comes before the blocker is kept.                     *)
HeadOnly(w, b) ==
  IF ~ Overlaps(w, b) THEN {w}
  ELSE {x \in {W(w.start, Earlier(b.start, w.end))} : b.start > w.start}

(* What is left of a free window when a blocker is taken out of it.        *)
Remainder(w, b) ==
  IF ~ Overlaps(w, b) THEN {w}
  ELSE {x \in {W(w.start, Earlier(b.start, w.end))} : b.start > w.start}
         \cup {x \in {W(Later(b.end, w.start), w.end)} : b.end < w.end}

-----------------------------------------------------------------------------

Idle == hours = {} /\ todo = {} /\ free = {} /\ uncut = {} /\ slots = {}

Init ==
  /\ rules \in RuleSets
  /\ blocked \in BlockedSets
  /\ booked \in BookedSets
  /\ pc = "clip"
  /\ ask \in Asks
  /\ offer = None
  /\ skip = None
  /\ day = 0
  /\ Idle

(* The notice and the horizon may leave nothing of the window.             *)
Clip ==
  /\ pc = "clip"
  /\ \/ /\ Bound.start < Bound.end
        /\ pc' = "hours"
        /\ day' = DayOf(Bound.start)
     \/ /\ Bound.start >= Bound.end
        /\ pc' = "listed"
        /\ UNCHANGED day
  /\ UNCHANGED <<tables, call, hours, todo, free, uncut, slots>>

WorkingDay ==
  /\ pc = "hours"
  /\ day =< LastDay
  /\ hours' = hours \cup DayHours(day)
  /\ day' = day + 1
  /\ UNCHANGED <<tables, pc, call, todo, free, uncut, slots>>

LoadBlockers ==
  /\ pc = "hours"
  /\ day > LastDay
  /\ pc' = "subtract"
  /\ todo' = Blockers
  /\ free' = hours
  /\ UNCHANGED <<tables, call, day, hours, uncut, slots>>

(* The queries have no ORDER BY: blockers come in any order.               *)
Subtract ==
  /\ pc = "subtract"
  /\ \E b \in todo :
       /\ free' = UNION {Remainder(w, b) : w \in free}
       /\ todo' = todo \ {b}
  /\ UNCHANGED <<tables, pc, call, day, hours, uncut, slots>>

StartCutting ==
  /\ pc = "subtract"
  /\ todo = {}
  /\ pc' = "cut"
  /\ uncut' = free
  /\ UNCHANGED <<tables, call, day, hours, todo, free, slots>>

(* A slip: the cursor does not move on.                                    *)
CutInPlace(w) ==
  /\ w.start + Duration =< w.end
  /\ slots' = slots \cup {W(w.start, w.start + Duration)}
  /\ UNCHANGED uncut

(* One turn of the while loop.  "uncut" holds each free window from its    *)
(* cursor on.                                                              *)
Cut(w) ==
  /\ w.start + Duration =< w.end
  /\ slots' = slots \cup {W(w.start, w.start + Duration)}
  /\ uncut' = (uncut \ {w}) \cup {W(w.start + Duration, w.end)}

Drop(w) ==
  /\ w.start + Duration > w.end
  /\ uncut' = uncut \ {w}
  /\ UNCHANGED slots

CutSlots ==
  /\ pc = "cut"
  /\ \E w \in uncut : Cut(w) \/ Drop(w)
  /\ UNCHANGED <<tables, pc, call, day, hours, todo, free>>

Finish ==
  /\ pc = "cut"
  /\ uncut = {}
  /\ pc' = "listed"
  /\ UNCHANGED <<tables, call, day, hours, todo, free, uncut, slots>>

(* Another request books; the exclusion constraint compares bare times.    *)
BookElsewhere ==
  /\ pc = "listed"
  /\ offer = None
  /\ \E k \in Bookings :
       /\ \A x \in booked : ~ Overlaps(k, x)
       /\ booked' = booked \cup {k}
  /\ UNCHANGED <<rules, blocked, pc, call, day, hours, todo, free, uncut, slots>>

(* A listed slot is chosen and checked again: for a booking, or for moving *)
(* an appointment, which is then left out.                                 *)
Recheck ==
  /\ pc = "listed"
  /\ offer = None
  /\ \E s \in slots, d \in Delays, k \in booked \cup {None} :
       /\ offer' = s
       /\ skip' = k
       /\ ask' = [start |-> s.start, end |-> s.end, now |-> ask.now + d]
  /\ pc' = "clip"
  /\ hours' = {} /\ free' = {} /\ slots' = {}
  /\ UNCHANGED <<tables, day, todo, uncut>>

Step == Clip \/ WorkingDay \/ LoadBlockers \/ Subtract \/ StartCutting
          \/ CutSlots \/ Finish

Next == Step \/ BookElsewhere \/ Recheck

Spec == Init /\ [][Next]_vars

FairSpec == Spec /\ WF_vars(Step)

-----------------------------------------------------------------------------
(* Properties.                                                             *)

Available == offer \in slots

(* Every variable has its type.                                            *)
TypeOK ==
  /\ rules \in RuleSets
  /\ blocked \in BlockedSets
  /\ booked \subseteq Bookings
  /\ pc \in {"clip", "hours", "subtract", "cut", "listed"}
  /\ ask \in Ask
  /\ offer \in Window \cup {None}
  /\ skip \in Bookings \cup {None}
  /\ day \in Int
  /\ hours \subseteq Window
  /\ todo \subseteq Window
  /\ free \subseteq Window
  /\ uncut \subseteq Window
  /\ slots \subseteq Window

(* The reference, without any loop: x lies within one stretch of working   *)
(* hours, within the policy, and clear of everything that blocks.          *)
InWorkingHours(x) ==
  LET d == DayOf(x.start)
  IN  \E r \in rules : /\ r.weekday = Weekday(d)
                       /\ d * DayLength + r.start =< x.start
                       /\ x.end =< d * DayLength + r.end

InPolicy(x) ==
  /\ ask.start =< x.start /\ x.end =< ask.end
  /\ ask.now + Notice =< x.start /\ x.end =< ask.now + Horizon

Clear(x) ==
  /\ \A b \in blocked : ~ Overlaps(x, b)
  /\ \A k \in booked \ {skip} :
        /\ ~ Overlaps(x, k)
        /\ Overlaps(k, Bound) => ~ Overlaps(x, EffectiveWindow(k))

IsFree(x) == InWorkingHours(x) /\ InPolicy(x) /\ Clear(x)

(* A listing under way concerns the tables as they are: nothing is booked  *)
(* before it is over.                                                      *)
Current == pc # "listed" \/ offer # None

(* A listing, or a re-check, that is complete and still current.           *)
Complete ==
  \/ pc = "cut" /\ uncut = {}
  \/ pc = "listed" /\ offer # None

(* Every slot the engine lists can really be kept: inside one stretch of   *)
(* working hours, inside the policy, and clear of every blocked period and *)
(* appointment, although each loop sees only the rows that overlap the     *)
(* window, one by one (availability.py:166-184).                           *)
SlotsAreFree ==
  Current => \A s \in slots : s.end = s.start + Duration /\ IsFree(s)

(* Nothing is missed: wherever the service could start, the engine lists a *)
(* slot that covers this start.  So a window with no slot has no room for  *)
(* the service, which is what a run is then escalated with                 *)
(* (availability.py:53-68, 86-95, 178-184; orchestrator.py:223-225).       *)
NothingIsMissed ==
  Complete =>
     \A t \in Bound.start .. Bound.end :
        IsFree(W(t, t + Duration)) => \E s \in slots : s.start =< t /\ t < s.end

(* A slot that was listed passes the re-check, unless the notice has been  *)
(* overtaken or an appointment booked since overlaps it, and then it does  *)
(* not; the re-check sees other rows than the listing did, its window      *)
(* being one slot long (availability.py:187-211, booking.py:93).           *)
RecheckIsRight ==
  pc = "listed" /\ offer # None =>
     (Available <=> /\ ask.now + Notice =< offer.start
                    /\ \A k \in booked \ {skip} : ~ Overlaps(k, offer))

(* The listing without any loop: the hours of all days, the maximal        *)
(* stretches of each that no blocker touches, and in each stretch a slot   *)
(* after every multiple of the duration that leaves room for one.          *)
AllHours == UNION {DayHours(d) : d \in DayOf(Bound.start) .. LastDay}

Untouched(w, bs) ==
  LET starts == {w.start} \cup {b.end : b \in bs}
      ends == {w.end} \cup {b.start : b \in bs}
  IN  {x \in {W(b, e) : b \in starts, e \in ends} :
         /\ w.start =< x.start /\ x.start < x.end /\ x.end =< w.end
         /\ \A b \in bs : ~ Overlaps(x, b)}

SlotsIn(w) ==
  {W(w.start + i * Duration, w.start + (i + 1) * Duration) :
     i \in {n \in 0 .. w.end - w.start : w.start + (n + 1) * Duration =< w.end}}

Listing ==
  UNION {SlotsIn(x) : x \in UNION {Untouched(w, Blockers) : w \in AllHours}}

(* "The same inputs always produce the same slots" (availability.py:150):  *)
(* in whatever order the rows arrive and the windows are reduced and cut,  *)
(* the slots are those of the listing, a function of the tables, the       *)
(* window and the time alone.                                              *)
SameInputsSameSlots == Complete => slots = Listing

(* The loops end: a duration is positive (ck_service_duration_positive),   *)
(* so that the cursor runs out of every window (availability.py:181).      *)
ListingEnds == pc = "clip" ~> pc = "listed"

=============================================================================
