------------------------- MODULE AvailabilityProofs -------------------------
(***************************************************************************)
(* Proofs about module Availability, for every table of working hours,     *)
(* blocked periods and appointments, every window, duration and policy.    *)
(***************************************************************************)
EXTENDS Availability, TLAPS

-----------------------------------------------------------------------------
(* The calendar: a minute belongs to one day.                              *)

LEMMA DayBounds ==
  ASSUME NEW t \in Int
  PROVE  /\ DayOf(t) \in Int
         /\ DayLength * DayOf(t) =< t
         /\ t < DayLength * DayOf(t) + DayLength
  BY AvailabilityConstants DEF DayOf

LEMMA DayIsUnique ==
  ASSUME NEW t \in Int, NEW d \in Int,
         d * DayLength =< t, t < d * DayLength + DayLength
  PROVE  DayOf(t) = d
<1>1. /\ DayOf(t) \in Int
      /\ DayLength * DayOf(t) =< t
      /\ t < DayLength * DayOf(t) + DayLength
  BY DayBounds
<1>2. d * DayLength = DayLength * d
  BY AvailabilityConstants
<1>3. ASSUME NEW a \in Int, NEW b \in Int, a + 1 =< b
      PROVE  DayLength * a + DayLength =< DayLength * b
  <2>1. DayLength * (a + 1) =< DayLength * b
    BY <1>3, AvailabilityConstants
  <2>2. DayLength * (a + 1) = DayLength * a + DayLength
    BY AvailabilityConstants
  <2> QED
    BY <2>1, <2>2, AvailabilityConstants
<1>4. ~ (DayOf(t) + 1 =< d) /\ ~ (d + 1 =< DayOf(t))
  BY <1>1, <1>2, <1>3, AvailabilityConstants
<1> QED
  BY <1>1, <1>4

LEMMA DaysAreOrdered ==
  ASSUME NEW s \in Int, NEW t \in Int, s =< t
  PROVE  DayOf(s) =< DayOf(t)
<1>1. /\ DayOf(s) \in Int /\ DayOf(t) \in Int
      /\ DayLength * DayOf(s) =< s
      /\ t < DayLength * DayOf(t) + DayLength
  BY DayBounds
<1> SUFFICES ASSUME DayOf(t) + 1 =< DayOf(s) PROVE FALSE
  BY <1>1
<1>2. DayLength * (DayOf(t) + 1) =< DayLength * DayOf(s)
  BY <1>1, AvailabilityConstants
<1>3. DayLength * (DayOf(t) + 1) = DayLength * DayOf(t) + DayLength
  BY <1>1, AvailabilityConstants
<1> QED
  BY <1>1, <1>2, <1>3, AvailabilityConstants

-----------------------------------------------------------------------------
(* Type correctness.                                                       *)

LEMMA WindowType ==
  ASSUME NEW b \in Int, NEW e \in Int
  PROVE  W(b, e) \in Window /\ W(b, e).start = b /\ W(b, e).end = e
  BY DEF W, Window

LEMMA BoundType ==
  ASSUME TypeOK
  PROVE  /\ Bound \in Window
         /\ Bound.start \in Int /\ Bound.end \in Int
         /\ Bound.start >= ask.start /\ Bound.start >= ask.now + Notice
         /\ Bound.end =< ask.end /\ Bound.end =< ask.now + Horizon
         /\ Bound.start = ask.start \/ Bound.start = ask.now + Notice
         /\ Bound.end = ask.end \/ Bound.end = ask.now + Horizon
  BY AvailabilityConstants DEF TypeOK, Ask, Bound, W, Window, Later, Earlier

LEMMA BlockersType ==
  ASSUME TypeOK
  PROVE  Blockers \subseteq Window
<1>1. BlockedWindows \subseteq Window
  BY AvailabilityConstants DEF TypeOK, BlockedWindows
<1>2. BookedWindows \subseteq Window
  BY AvailabilityConstants
  DEF TypeOK, BookedWindows, EffectiveWindow, Booking, Window, W
<1> QED
  BY <1>1, <1>2 DEF Blockers

LEMMA RuleType ==
  ASSUME TypeOK, NEW r \in rules
  PROVE  /\ r.start \in Int /\ r.end \in Int
         /\ 0 =< r.start /\ r.start < r.end /\ r.end < DayLength
  BY AvailabilityConstants DEF TypeOK, Rule

LEMMA DayHoursType ==
  ASSUME TypeOK, NEW d \in Int
  PROVE  DayHours(d) \subseteq Window
<1> SUFFICES ASSUME NEW r \in rules
             PROVE  W(Later(d * DayLength + r.start, Bound.start),
                      Earlier(d * DayLength + r.end, Bound.end)) \in Window
  BY DEF DayHours
<1>1. d * DayLength \in Int
  BY AvailabilityConstants
<1> QED
  BY <1>1, RuleType, BoundType DEF W, Window, Later, Earlier

LEMMA RemainderType ==
  ASSUME NEW w \in Window, NEW b \in Window
  PROVE  Remainder(w, b) \subseteq Window
  BY DEF Remainder, W, Window, Later, Earlier

LEMMA TypeStep == TypeOK /\ [Next]_vars => TypeOK'
<1> SUFFICES ASSUME TypeOK, [Next]_vars PROVE TypeOK'
  OBVIOUS
<1>1. CASE Clip
  BY <1>1, BoundType, DayBounds DEF TypeOK, Clip, tables, call
<1>2. CASE WorkingDay
  <2>1. DayHours(day) \subseteq Window
    BY DayHoursType DEF TypeOK
  <2> QED
    BY <1>2, <2>1 DEF TypeOK, WorkingDay, tables, call
<1>3. CASE LoadBlockers
  BY <1>3, BlockersType DEF TypeOK, LoadBlockers, tables, call
<1>4. CASE Subtract
  <2>1. PICK b \in todo : /\ free' = UNION {Remainder(w, b) : w \in free}
                          /\ todo' = todo \ {b}
    BY <1>4 DEF Subtract
  <2>2. free' \subseteq Window /\ todo' \subseteq Window
    BY <2>1, RemainderType DEF TypeOK
  <2> QED
    BY <1>4, <2>2 DEF TypeOK, Subtract, tables, call
<1>5. CASE StartCutting
  BY <1>5 DEF TypeOK, StartCutting, tables, call
<1>6. CASE CutSlots
  <2>1. PICK w \in uncut : Cut(w) \/ Drop(w)
    BY <1>6 DEF CutSlots
  <2>2. w.start \in Int /\ w.end \in Int /\ Duration \in Int
    BY AvailabilityConstants DEF TypeOK, Window
  <2>3. /\ W(w.start, w.start + Duration) \in Window
        /\ W(w.start + Duration, w.end) \in Window
    BY <2>2, WindowType
  <2>4. slots' \subseteq Window /\ uncut' \subseteq Window
    BY <2>1, <2>3 DEF TypeOK, Cut, Drop
  <2> QED
    BY <1>6, <2>4 DEF TypeOK, CutSlots, tables, call
<1>7. CASE Finish
  BY <1>7 DEF TypeOK, Finish, tables, call
<1>8. CASE BookElsewhere
  BY <1>8 DEF TypeOK, BookElsewhere, call
<1>9. CASE Recheck
  <2>1. PICK s \in slots, d \in Delays, k \in booked \cup {None} :
          /\ offer' = s /\ skip' = k
          /\ ask' = [start |-> s.start, end |-> s.end, now |-> ask.now + d]
    BY <1>9 DEF Recheck
  <2>2. ask' \in Ask /\ offer' \in Window /\ skip' \in Bookings \cup {None}
    BY <2>1, AvailabilityConstants DEF TypeOK, Ask, Window
  <2> QED
    BY <1>9, <2>2 DEF TypeOK, Recheck, tables
<1>10. CASE UNCHANGED vars
  BY <1>10 DEF TypeOK, vars, tables, call
<1> QED
  BY <1>1, <1>2, <1>3, <1>4, <1>5, <1>6, <1>7, <1>8, <1>9, <1>10 DEF Next, Step

(* Every variable of the engine keeps its type.                            *)
THEOREM TypeCorrect == Spec => []TypeOK
<1>1. Init => TypeOK
  BY AvailabilityConstants DEF Init, Idle, TypeOK
<1> QED
  BY <1>1, TypeStep, PTL DEF Spec

-----------------------------------------------------------------------------
(* The loop invariants.  They speak of the stretches [b, e) of a window,   *)
(* so that a piece of a good window is good without another word.          *)

Usable(b, e) ==
  InWorkingHours(W(b, e)) /\ Bound.start =< b /\ e =< Bound.end

ClearOf(b, e, S) == \A x \in S : ~ Overlaps(W(b, e), x)

(* Every stretch of w is usable and touches nothing of S.                  *)
Sound(w, S) ==
  \A b, e \in Int :
     w.start =< b /\ b < e /\ e =< w.end => Usable(b, e) /\ ClearOf(b, e, S)

(* A set of windows lies within the hours and clear of S;                  *)
AllSound(ws, S) == \A w \in ws : Sound(w, S)

(* and every usable stretch that is clear of S lies within one of them.    *)
Holds(ws, b, e) == \E w \in ws : w.start =< b /\ e =< w.end

HoursInv ==
  pc = "hours" =>
    /\ Bound.start < Bound.end
    /\ AllSound(hours, {})
    /\ \A b, e \in Int : b < e /\ Usable(b, e) /\ DayOf(b) < day => Holds(hours, b, e)

(* While blockers are subtracted, the free windows are what is left of the *)
(* hours by those that have been taken.                                    *)
FreeInv ==
  pc = "subtract" =>
    /\ todo \subseteq Blockers
    /\ AllSound(free, Blockers \ todo)
    /\ \A b, e \in Int :
         b < e /\ Usable(b, e) /\ ClearOf(b, e, Blockers \ todo) => Holds(free, b, e)

Covered(t) == \E s \in slots : s.start =< t /\ t < s.end

(* While windows are cut, a start is covered by a slot or still to come.   *)
CutInv ==
  pc = "cut" =>
    /\ AllSound(uncut, Blockers)
    /\ \A t \in Int :
         Usable(t, t + Duration) /\ ClearOf(t, t + Duration, Blockers)
           => Covered(t) \/ Holds(uncut, t, t + Duration)

(* What has been listed is usable, and clear of the blocked periods for    *)
(* ever, of the appointments until another one is booked.                  *)
SlotsInv ==
  /\ \A s \in slots :
        /\ s.end = s.start + Duration
        /\ Usable(s.start, s.end)
        /\ \A b \in blocked : ~ Overlaps(s, b)
        /\ Current => ClearOf(s.start, s.end, Blockers)
  /\ pc = "listed" /\ Current =>
       \A t \in Int :
         Usable(t, t + Duration) /\ ClearOf(t, t + Duration, Blockers) => Covered(t)

(* The slot that is re-checked was listed.                                 *)
OfferInv ==
  offer # None =>
    /\ offer.end = offer.start + Duration
    /\ ask.start = offer.start /\ ask.end = offer.end
    /\ InWorkingHours(offer)
    /\ \A b \in blocked : ~ Overlaps(offer, b)
    /\ offer.end =< ask.now + Horizon

(* What each phase starts with.                                            *)
PhaseInv ==
  /\ pc = "clip" => hours = {}
  /\ pc # "subtract" => todo = {}
  /\ pc # "cut" => uncut = {}
  /\ pc \in {"clip", "hours", "subtract"} => slots = {}

Inv == /\ TypeOK /\ PhaseInv
       /\ HoursInv /\ FreeInv /\ CutInv /\ SlotsInv /\ OfferInv

(* A step that changes neither the rules nor the call leaves what is       *)
(* usable alone; one that changes no table, the blockers too.              *)
LEMMA UsableFrame ==
  ASSUME UNCHANGED <<rules, ask>>
  PROVE  /\ Bound' = Bound
         /\ \A b, e \in Int : Usable(b, e)' <=> Usable(b, e)
<1>1. Bound' = Bound
  BY DEF Bound
<1> QED
  BY <1>1 DEF Usable, InWorkingHours

LEMMA BlockersFrame ==
  ASSUME UNCHANGED <<tables, call>>
  PROVE  Blockers' = Blockers
<1>1. Bound' = Bound
  BY DEF Bound, call
<1> QED
  BY <1>1 DEF Blockers, BlockedWindows, BookedWindows, tables, call

-----------------------------------------------------------------------------
(* What the helpers compute.                                               *)

(* The hours of a day are exactly what is usable of that day.              *)
LEMMA DayHoursAreRight ==
  ASSUME TypeOK, NEW d \in Int
  PROVE  /\ AllSound(DayHours(d), {})
         /\ \A b, e \in Int :
              b < e /\ Usable(b, e) /\ DayOf(b) = d => Holds(DayHours(d), b, e)
<1> DEFINE H(r) == W(Later(d * DayLength + r.start, Bound.start),
                     Earlier(d * DayLength + r.end, Bound.end))
<1>0. d * DayLength \in Int /\ DayLength \in Int
  BY AvailabilityConstants
<1>1. ASSUME NEW r \in rules
      PROVE  /\ H(r).start \in Int /\ H(r).end \in Int
             /\ \A b \in Int : H(r).start =< b <=>
                                d * DayLength + r.start =< b /\ Bound.start =< b
             /\ \A e \in Int : e =< H(r).end <=>
                                e =< d * DayLength + r.end /\ e =< Bound.end
  BY <1>0, RuleType, BoundType DEF W, Later, Earlier
<1>2. ASSUME NEW w \in DayHours(d), NEW b \in Int, NEW e \in Int,
             w.start =< b, b < e, e =< w.end
      PROVE  Usable(b, e)
  <2>1. PICK r \in rules : r.weekday = Weekday(d) /\ w = H(r)
    BY DEF DayHours
  <2>2. /\ d * DayLength + r.start =< b /\ Bound.start =< b
        /\ e =< d * DayLength + r.end /\ e =< Bound.end
    BY <1>1, <1>2, <2>1
  <2>3. DayOf(b) = d
    BY <1>0, <1>2, <2>2, RuleType, DayIsUnique
  <2>4. W(b, e).start = b /\ W(b, e).end = e
    BY DEF W
  <2>5. InWorkingHours(W(b, e))
    BY <2>1, <2>2, <2>3, <2>4 DEF InWorkingHours
  <2> QED
    BY <2>2, <2>5 DEF Usable
<1>3. ASSUME NEW b \in Int, NEW e \in Int, b < e, Usable(b, e), DayOf(b) = d
      PROVE  Holds(DayHours(d), b, e)
  <2>1. W(b, e).start = b /\ W(b, e).end = e
    BY DEF W
  <2>2. PICK r \in rules : /\ r.weekday = Weekday(d)
                           /\ d * DayLength + r.start =< b
                           /\ e =< d * DayLength + r.end
    BY <1>3, <2>1 DEF Usable, InWorkingHours
  <2>3. H(r).start =< b /\ e =< H(r).end
    BY <1>1, <1>3, <2>2 DEF Usable
  <2>4. H(r).start < H(r).end
    BY <1>1, <1>3, <2>3
  <2>5. H(r) \in DayHours(d)
    BY <2>2, <2>4 DEF DayHours
  <2> QED
    BY <2>3, <2>5 DEF Holds
<1> QED
  BY <1>2, <1>3 DEF AllSound, Sound, ClearOf

(* Taking a blocker out of a window leaves exactly the stretches of the    *)
(* window that do not touch it.                                            *)
LEMMA RemainderIsRight ==
  ASSUME NEW w \in Window, NEW x \in Window,
         NEW b \in Int, NEW e \in Int, b < e
  PROVE  Holds(Remainder(w, x), b, e) <=>
           w.start =< b /\ e =< w.end /\ ~ Overlaps(W(b, e), x)
<1>1. /\ w.start \in Int /\ w.end \in Int
      /\ x.start \in Int /\ x.end \in Int
      /\ W(b, e).start = b /\ W(b, e).end = e
  BY DEF Window, W
<1>2. CASE ~ Overlaps(w, x)
  <2>1. Remainder(w, x) = {w}
    BY <1>2 DEF Remainder
  <2> QED
    BY <1>1, <1>2, <2>1 DEF Holds, Overlaps
<1>3. CASE Overlaps(w, x)
  <2> DEFINE L == W(w.start, Earlier(x.start, w.end))
             R == W(Later(x.end, w.start), w.end)
  <2>1. /\ L.start = w.start /\ L.end = x.start
        /\ R.start = x.end /\ R.end = w.end
    BY <1>1, <1>3 DEF W, Earlier, Later, Overlaps
  <2>2. Holds(Remainder(w, x), b, e) <=>
          \/ x.start > w.start /\ L.start =< b /\ e =< L.end
          \/ x.end < w.end /\ R.start =< b /\ e =< R.end
    BY <1>3 DEF Remainder, Holds
  <2> HIDE DEF L, R
  <2> QED
    BY <1>1, <1>3, <2>1, <2>2 DEF Overlaps
<1> QED
  BY <1>2, <1>3

(* A usable stretch that is clear of the blockers is clear of every        *)
(* blocked period: those that were not selected are out of the bound.      *)
LEMMA BlockersSuffice ==
  ASSUME TypeOK, NEW b \in Int, NEW e \in Int, b < e,
         Bound.start =< b, e =< Bound.end, ClearOf(b, e, Blockers),
         NEW x \in blocked
  PROVE  ~ Overlaps(W(b, e), x)
<1>1. x.start \in Int /\ x.end \in Int /\ Bound.start \in Int /\ Bound.end \in Int
  BY AvailabilityConstants, BoundType DEF TypeOK, Window
<1>2. W(b, e).start = b /\ W(b, e).end = e
  BY DEF W
<1>3. Overlaps(x, Bound) => x \in Blockers
  BY DEF Blockers, BlockedWindows
<1> QED
  BY <1>1, <1>2, <1>3 DEF ClearOf, Overlaps

-----------------------------------------------------------------------------
(* The loops preserve the invariant.                                       *)

LEMMA ClipStep ==
  ASSUME Inv, Clip
  PROVE  PhaseInv' /\ HoursInv' /\ FreeInv' /\ CutInv' /\ SlotsInv'
<1>0. /\ pc = "clip" /\ hours = {} /\ slots = {} /\ todo = {} /\ uncut = {}
      /\ UNCHANGED <<tables, call, hours, todo, free, uncut, slots>>
      /\ pc' \in {"hours", "listed"}
      /\ Bound' = Bound
      /\ \A b, e \in Int : Usable(b, e)' <=> Usable(b, e)
      /\ Bound.start \in Int /\ Bound.end \in Int
  BY UsableFrame, BoundType DEF Inv, PhaseInv, Clip, tables, call
<1>1. PhaseInv' /\ FreeInv' /\ CutInv'
  BY <1>0 DEF PhaseInv, FreeInv, CutInv
<1>2. HoursInv'
  <2> SUFFICES ASSUME pc' = "hours"
               PROVE  /\ Bound.start < Bound.end
                      /\ \A b, e \in Int : Usable(b, e) => ~ (DayOf(b) < day')
    BY <1>0 DEF HoursInv, AllSound
  <2>1. Bound.start < Bound.end /\ day' = DayOf(Bound.start)
    BY <1>0 DEF Clip
  <2>2. ASSUME NEW b \in Int, NEW e \in Int, Usable(b, e)
        PROVE  ~ (DayOf(b) < day')
    BY <1>0, <2>1, <2>2, DaysAreOrdered, DayBounds DEF Usable
  <2> QED
    BY <2>1, <2>2
<1>3. SlotsInv'
  <2> SUFFICES ASSUME pc' = "listed", NEW t \in Int
               PROVE  ~ Usable(t, t + Duration)
    BY <1>0, AvailabilityConstants DEF SlotsInv
  <2>1. Bound.start >= Bound.end
    BY <1>0 DEF Clip
  <2> QED
    BY <1>0, <2>1, AvailabilityConstants DEF Usable
<1> QED
  BY <1>1, <1>2, <1>3

LEMMA WorkingDayStep ==
  ASSUME Inv, WorkingDay
  PROVE  PhaseInv' /\ HoursInv' /\ FreeInv' /\ CutInv' /\ SlotsInv'
<1>0. /\ pc = "hours" /\ pc' = "hours" /\ slots = {}
      /\ UNCHANGED <<tables, call, todo, free, uncut, slots>>
      /\ hours' = hours \cup DayHours(day)
      /\ day \in Int /\ day' = day + 1
      /\ Bound' = Bound
      /\ \A b, e \in Int : Usable(b, e)' <=> Usable(b, e)
      /\ TypeOK /\ HoursInv
  BY UsableFrame DEF Inv, PhaseInv, WorkingDay, tables, call, TypeOK
<1>1. PhaseInv' /\ FreeInv' /\ CutInv' /\ SlotsInv'
  BY <1>0 DEF Inv, PhaseInv, FreeInv, CutInv, SlotsInv
<1>2. /\ AllSound(DayHours(day), {})
      /\ \A b, e \in Int :
           b < e /\ Usable(b, e) /\ DayOf(b) = day => Holds(DayHours(day), b, e)
  BY <1>0, DayHoursAreRight
<1>3. ASSUME NEW w \in hours', NEW b \in Int, NEW e \in Int,
             w.start =< b, b < e, e =< w.end
      PROVE  Usable(b, e)
  BY <1>0, <1>2, <1>3 DEF HoursInv, AllSound, Sound
<1>4. ASSUME NEW b \in Int, NEW e \in Int, b < e, Usable(b, e), DayOf(b) < day + 1
      PROVE  Holds(hours', b, e)
  <2>1. DayOf(b) < day \/ DayOf(b) = day
    BY <1>0, <1>4, DayBounds
  <2>2. Holds(hours, b, e) \/ Holds(DayHours(day), b, e)
    BY <1>0, <1>2, <1>4, <2>1 DEF HoursInv
  <2> QED
    BY <1>0, <2>2 DEF Holds
<1>5. HoursInv'
  BY <1>0, <1>3, <1>4 DEF HoursInv, AllSound, Sound, ClearOf, Holds
<1> QED
  BY <1>1, <1>5

LEMMA LoadBlockersStep ==
  ASSUME Inv, LoadBlockers
  PROVE  PhaseInv' /\ HoursInv' /\ FreeInv' /\ CutInv' /\ SlotsInv'
<1>0. /\ pc = "hours" /\ pc' = "subtract" /\ slots = {}
      /\ UNCHANGED <<tables, call, uncut, slots>>
      /\ todo' = Blockers /\ free' = hours
      /\ day \in Int /\ day > DayOf(Bound.end)
      /\ Blockers' = Blockers
      /\ \A b, e \in Int : Usable(b, e)' <=> Usable(b, e)
      /\ Bound.end \in Int /\ HoursInv
  BY UsableFrame, BlockersFrame, BoundType
  DEF Inv, PhaseInv, LoadBlockers, LastDay, tables, call, TypeOK
<1>1. PhaseInv' /\ HoursInv' /\ CutInv' /\ SlotsInv'
  BY <1>0 DEF Inv, PhaseInv, HoursInv, CutInv, SlotsInv
<1>2. Blockers' \ todo' = {}
  BY <1>0
<1>3. ASSUME NEW b \in Int, NEW e \in Int, b < e, Usable(b, e)
      PROVE  Holds(hours, b, e)
  <2>1. DayOf(b) =< DayOf(Bound.end)
    BY <1>0, <1>3, DaysAreOrdered DEF Usable
  <2>2. DayOf(b) < day
    BY <1>0, <2>1, DayBounds
  <2> QED
    BY <1>0, <1>3, <2>2 DEF HoursInv
<1>4. FreeInv'
  BY <1>0, <1>2, <1>3 DEF FreeInv, HoursInv, AllSound, Sound, ClearOf, Holds
<1> QED
  BY <1>1, <1>4

LEMMA SubtractStep ==
  ASSUME Inv, Subtract
  PROVE  PhaseInv' /\ HoursInv' /\ FreeInv' /\ CutInv' /\ SlotsInv'
<1>0. /\ pc = "subtract" /\ pc' = "subtract" /\ slots = {}
      /\ UNCHANGED <<tables, call, hours, uncut, slots>>
      /\ Blockers' = Blockers
      /\ \A b, e \in Int : Usable(b, e)' <=> Usable(b, e)
      /\ TypeOK /\ FreeInv
  BY UsableFrame, BlockersFrame DEF Inv, PhaseInv, Subtract, tables, call
<1>1. PhaseInv' /\ HoursInv' /\ CutInv' /\ SlotsInv'
  BY <1>0 DEF Inv, PhaseInv, HoursInv, CutInv, SlotsInv
<1>2. PICK x \in todo : /\ free' = UNION {Remainder(w, x) : w \in free}
                        /\ todo' = todo \ {x}
  BY DEF Subtract
<1>3. /\ x \in Window /\ free \subseteq Window
      /\ Blockers \ todo' = (Blockers \ todo) \cup {x}
      /\ todo' \subseteq Blockers
  BY <1>0, <1>2 DEF TypeOK, FreeInv
<1>4. ASSUME NEW v \in free', NEW b \in Int, NEW e \in Int,
             v.start =< b, b < e, e =< v.end
      PROVE  Usable(b, e) /\ ClearOf(b, e, Blockers \ todo')
  <2>1. PICK w \in free : v \in Remainder(w, x)
    BY <1>2, <1>4
  <2>2. Holds(Remainder(w, x), b, e)
    BY <1>4, <2>1 DEF Holds
  <2>3. w.start =< b /\ e =< w.end /\ ~ Overlaps(W(b, e), x)
    BY <1>3, <1>4, <2>2, RemainderIsRight
  <2> QED
    BY <1>0, <1>3, <1>4, <2>3 DEF FreeInv, AllSound, Sound, ClearOf
<1>5. ASSUME NEW b \in Int, NEW e \in Int, b < e, Usable(b, e),
             ClearOf(b, e, Blockers \ todo')
      PROVE  Holds(free', b, e)
  <2>1. ClearOf(b, e, Blockers \ todo) /\ ~ Overlaps(W(b, e), x)
    BY <1>3, <1>5 DEF ClearOf
  <2>2. PICK w \in free : w.start =< b /\ e =< w.end
    BY <1>0, <1>5, <2>1 DEF FreeInv, Holds
  <2>3. Holds(Remainder(w, x), b, e)
    BY <1>3, <1>5, <2>1, <2>2, RemainderIsRight
  <2> QED
    BY <1>2, <2>3 DEF Holds
<1>6. FreeInv'
  BY <1>0, <1>3, <1>4, <1>5 DEF FreeInv, AllSound, Sound, ClearOf, Holds
<1> QED
  BY <1>1, <1>6

LEMMA StartCuttingStep ==
  ASSUME Inv, StartCutting
  PROVE  PhaseInv' /\ HoursInv' /\ FreeInv' /\ CutInv' /\ SlotsInv'
<1>0. /\ pc = "subtract" /\ pc' = "cut" /\ slots = {} /\ todo = {}
      /\ UNCHANGED <<tables, call, hours, todo, free, slots>>
      /\ uncut' = free
      /\ Blockers' = Blockers
      /\ \A b, e \in Int : Usable(b, e)' <=> Usable(b, e)
      /\ FreeInv
  BY UsableFrame, BlockersFrame DEF Inv, PhaseInv, StartCutting, tables, call
<1>1. PhaseInv' /\ HoursInv' /\ FreeInv' /\ SlotsInv'
  BY <1>0 DEF Inv, PhaseInv, HoursInv, FreeInv, SlotsInv
<1>2. Blockers \ todo = Blockers
  BY <1>0
<1>3. ASSUME NEW t \in Int, Usable(t, t + Duration),
             ClearOf(t, t + Duration, Blockers)
      PROVE  Holds(free, t, t + Duration)
  BY <1>0, <1>2, <1>3, AvailabilityConstants DEF FreeInv
<1>4. CutInv'
  BY <1>0, <1>2, <1>3, AvailabilityConstants
  DEF CutInv, FreeInv, AllSound, Sound, ClearOf, Holds
<1> QED
  BY <1>1, <1>4

LEMMA CutStep ==
  ASSUME Inv, NEW w \in uncut, Cut(w), pc = "cut",
         UNCHANGED <<tables, pc, call, day, hours, todo, free>>
  PROVE  CutInv' /\ SlotsInv'
<1> DEFINE new == W(w.start, w.start + Duration)
           rest == W(w.start + Duration, w.end)
<1>0. /\ slots' = slots \cup {new} /\ uncut' = (uncut \ {w}) \cup {rest}
      /\ w.start \in Int /\ w.end \in Int /\ Duration \in Int /\ Duration > 0
      /\ w.start + Duration =< w.end
      /\ Blockers' = Blockers
      /\ \A b, e \in Int : Usable(b, e)' <=> Usable(b, e)
      /\ TypeOK /\ CutInv /\ SlotsInv
  BY UsableFrame, BlockersFrame, AvailabilityConstants
  DEF Inv, TypeOK, Window, Cut, tables, call
<1>1. /\ new.start = w.start /\ new.end = w.start + Duration
      /\ rest.start = w.start + Duration /\ rest.end = w.end
      /\ new = W(new.start, new.end)
  BY DEF W
<1> HIDE DEF new, rest
<1>2. Sound(w, Blockers)
  BY <1>0 DEF CutInv, AllSound
<1>3. Usable(new.start, new.end) /\ ClearOf(new.start, new.end, Blockers)
  BY <1>0, <1>1, <1>2 DEF Sound
<1>4. \A x \in blocked : ~ Overlaps(new, x)
  BY <1>0, <1>1, <1>3, BlockersSuffice DEF Usable
<1>5. Sound(rest, Blockers)
  BY <1>0, <1>1, <1>2 DEF Sound
<1>6. ASSUME NEW t \in Int, Usable(t, t + Duration),
             ClearOf(t, t + Duration, Blockers)
      PROVE  \/ \E s \in slots' : s.start =< t /\ t < s.end
             \/ Holds(uncut', t, t + Duration)
  <2>1. CASE Covered(t)
    BY <1>0, <2>1 DEF Covered
  <2>2. CASE Holds(uncut, t, t + Duration)
    <3>1. PICK v \in uncut : v.start =< t /\ t + Duration =< v.end
      BY <2>2 DEF Holds
    <3>2. CASE v # w
      BY <1>0, <3>1, <3>2 DEF Holds
    <3>3. CASE v = w /\ t < w.start + Duration
      BY <1>0, <1>1, <3>1, <3>3
    <3>4. CASE v = w /\ w.start + Duration =< t
      BY <1>0, <1>1, <3>1, <3>4 DEF Holds
    <3> QED
      BY <1>0, <3>2, <3>3, <3>4
  <2> QED
    BY <1>0, <1>6, <2>1, <2>2 DEF CutInv
<1>7. CutInv'
  <2>1. ASSUME NEW v \in uncut' PROVE Sound(v, Blockers)
    BY <1>0, <1>5, <2>1 DEF CutInv, AllSound
  <2> QED
    BY <1>0, <1>6, <2>1 DEF CutInv, AllSound, Sound, ClearOf, Holds, Covered
<1>8. SlotsInv'
  <2>1. ASSUME NEW s \in slots'
        PROVE  /\ s.end = s.start + Duration
               /\ Usable(s.start, s.end)
               /\ \A b \in blocked : ~ Overlaps(s, b)
               /\ ClearOf(s.start, s.end, Blockers)
               /\ s.start \in Int /\ s.end \in Int
    <3>1. CASE s \in slots
      BY <1>0, <3>1 DEF SlotsInv, Current, TypeOK, Window
    <3>2. CASE s = new
      BY <1>0, <1>1, <1>3, <1>4, <3>2
    <3> QED
      BY <1>0, <3>1, <3>2
  <2> QED
    BY <1>0, <2>1 DEF SlotsInv, Current, ClearOf, tables
<1> QED
  BY <1>7, <1>8

LEMMA DropStep ==
  ASSUME Inv, NEW w \in uncut, Drop(w), pc = "cut",
         UNCHANGED <<tables, pc, call, day, hours, todo, free>>
  PROVE  CutInv' /\ SlotsInv'
<1>0. /\ slots' = slots /\ uncut' = uncut \ {w}
      /\ w.start \in Int /\ w.end \in Int /\ Duration \in Int /\ Duration > 0
      /\ w.start + Duration > w.end
      /\ Blockers' = Blockers
      /\ \A b, e \in Int : Usable(b, e)' <=> Usable(b, e)
      /\ TypeOK /\ CutInv /\ SlotsInv
  BY UsableFrame, BlockersFrame, AvailabilityConstants
  DEF Inv, TypeOK, Window, Drop, tables, call
<1>1. ASSUME NEW t \in Int, Holds(uncut, t, t + Duration)
      PROVE  Holds(uncut', t, t + Duration)
  BY <1>0, <1>1 DEF Holds
<1>2. CutInv'
  BY <1>0, <1>1 DEF CutInv, AllSound, Sound, ClearOf, Holds, Covered
<1>3. SlotsInv'
  BY <1>0 DEF SlotsInv, Current, ClearOf, TypeOK, Window, tables
<1> QED
  BY <1>2, <1>3

LEMMA CutSlotsStep ==
  ASSUME Inv, CutSlots
  PROVE  PhaseInv' /\ HoursInv' /\ FreeInv' /\ CutInv' /\ SlotsInv'
<1>1. PICK w \in uncut : Cut(w) \/ Drop(w)
  BY DEF CutSlots
<1>2. pc = "cut" /\ UNCHANGED <<tables, pc, call, day, hours, todo, free>>
  BY DEF CutSlots
<1>3. CutInv' /\ SlotsInv'
  BY <1>1, <1>2, CutStep, DropStep
<1>4. PhaseInv' /\ HoursInv' /\ FreeInv'
  BY <1>2 DEF Inv, PhaseInv, HoursInv, FreeInv
<1> QED
  BY <1>3, <1>4

LEMMA FinishStep ==
  ASSUME Inv, Finish
  PROVE  PhaseInv' /\ HoursInv' /\ FreeInv' /\ CutInv' /\ SlotsInv'
<1>0. /\ pc = "cut" /\ pc' = "listed" /\ uncut = {}
      /\ UNCHANGED <<tables, call, hours, todo, free, uncut, slots>>
      /\ Blockers' = Blockers
      /\ \A b, e \in Int : Usable(b, e)' <=> Usable(b, e)
      /\ TypeOK /\ CutInv /\ SlotsInv
  BY UsableFrame, BlockersFrame DEF Inv, Finish, tables, call
<1>1. PhaseInv' /\ HoursInv' /\ FreeInv' /\ CutInv'
  BY <1>0 DEF Inv, PhaseInv, HoursInv, FreeInv, CutInv
<1>2. \A t \in Int : Usable(t, t + Duration) /\ ClearOf(t, t + Duration, Blockers)
                       => Covered(t)
  BY <1>0 DEF CutInv, Holds
<1>3. SlotsInv'
  BY <1>0, <1>2, AvailabilityConstants
  DEF SlotsInv, Current, ClearOf, Covered, TypeOK, Window, tables
<1> QED
  BY <1>1, <1>3

LEMMA ListingStep ==
  ASSUME Inv, Step
  PROVE  Inv'
<1>1. PhaseInv' /\ HoursInv' /\ FreeInv' /\ CutInv' /\ SlotsInv'
  BY ClipStep, WorkingDayStep, LoadBlockersStep, SubtractStep, StartCuttingStep,
     CutSlotsStep, FinishStep DEF Step
<1>2. TypeOK'
  BY TypeStep DEF Inv, Next
<1>3. UNCHANGED <<tables, call>>
  BY DEF Step, Clip, WorkingDay, LoadBlockers, Subtract, StartCutting, CutSlots, Finish
<1>4. OfferInv'
  BY <1>3 DEF Inv, OfferInv, InWorkingHours, tables, call
<1> QED
  BY <1>1, <1>2, <1>4 DEF Inv

LEMMA BookElsewhereStep ==
  ASSUME Inv, BookElsewhere
  PROVE  Inv'
<1>0. /\ pc = "listed" /\ pc' = "listed" /\ offer = None
      /\ UNCHANGED <<rules, blocked, call, hours, todo, free, uncut, slots>>
      /\ \A b, e \in Int : Usable(b, e)' <=> Usable(b, e)
      /\ TypeOK /\ SlotsInv
  BY UsableFrame DEF Inv, BookElsewhere, call
<1>1. TypeOK'
  BY TypeStep DEF Inv, Next
<1>2. PhaseInv' /\ HoursInv' /\ FreeInv' /\ CutInv' /\ OfferInv'
  BY <1>0 DEF Inv, PhaseInv, HoursInv, FreeInv, CutInv, OfferInv, call
<1>3. ~ Current'
  BY <1>0 DEF Current, call
<1>4. SlotsInv'
  BY <1>0, <1>3 DEF SlotsInv, TypeOK, Window
<1> QED
  BY <1>1, <1>2, <1>4 DEF Inv

LEMMA RecheckStep ==
  ASSUME Inv, Recheck
  PROVE  Inv'
<1>1. TypeOK'
  BY TypeStep DEF Inv, Next
<1>2. /\ pc' = "clip" /\ hours' = {} /\ slots' = {} /\ todo' = {} /\ uncut' = {}
      /\ UNCHANGED <<rules, blocked>>
  BY DEF Inv, PhaseInv, Recheck, tables
<1>3. PhaseInv' /\ HoursInv' /\ FreeInv' /\ CutInv' /\ SlotsInv'
  BY <1>2 DEF PhaseInv, HoursInv, FreeInv, CutInv, SlotsInv
<1>4. PICK s \in slots, d \in Delays :
        /\ offer' = s
        /\ ask' = [start |-> s.start, end |-> s.end, now |-> ask.now + d]
  BY DEF Recheck
<1>5. /\ s \in Window /\ s.start \in Int /\ s.end \in Int
      /\ ask.now \in Int /\ d \in Nat /\ Horizon \in Int
      /\ s = W(s.start, s.end)
  BY AvailabilityConstants DEF Inv, TypeOK, Window, Ask, W
<1>6. /\ s.end = s.start + Duration
      /\ InWorkingHours(s)
      /\ s.end =< Bound.end
      /\ \A b \in blocked : ~ Overlaps(s, b)
  BY <1>5 DEF Inv, SlotsInv, Usable
<1>7. s.end =< ask'.now + Horizon
  BY <1>4, <1>5, <1>6, BoundType DEF Inv
<1>8. OfferInv'
  BY <1>2, <1>4, <1>6, <1>7 DEF OfferInv, InWorkingHours
<1> QED
  BY <1>1, <1>3, <1>8 DEF Inv

LEMMA InvStep == Inv /\ [Next]_vars => Inv'
<1> SUFFICES ASSUME Inv, [Next]_vars PROVE Inv'
  OBVIOUS
<1>1. CASE UNCHANGED vars
  <2>1. /\ UNCHANGED <<tables, call, pc, day, hours, todo, free, uncut, slots>>
        /\ Blockers' = Blockers /\ Bound' = Bound
        /\ \A b, e \in Int : Usable(b, e)' <=> Usable(b, e)
        /\ TypeOK /\ TypeOK'
    BY <1>1, UsableFrame, BlockersFrame, TypeStep DEF Inv, vars, tables, call
  <2>2. PhaseInv' /\ HoursInv' /\ FreeInv' /\ OfferInv'
    BY <2>1 DEF Inv, PhaseInv, HoursInv, FreeInv, OfferInv, AllSound, Sound, ClearOf,
                Holds, InWorkingHours, tables, call
  <2>3. CutInv' /\ SlotsInv'
    BY <2>1, AvailabilityConstants
    DEF Inv, CutInv, SlotsInv, AllSound, Sound, ClearOf, Holds, Covered, Current,
        TypeOK, Window, tables, call
  <2> QED
    BY <2>1, <2>2, <2>3 DEF Inv
<1> QED
  BY <1>1, ListingStep, BookElsewhereStep, RecheckStep DEF Next

(* The invariants hold in every loop of every listing and re-check.        *)
THEOREM LoopsCorrect == Spec => []Inv
<1>1. Init => Inv
  <2> SUFFICES ASSUME Init PROVE Inv
    OBVIOUS
  <2>1. TypeOK
    BY AvailabilityConstants DEF Init, Idle, TypeOK
  <2> QED
    BY <2>1 DEF Init, Idle, Inv, PhaseInv, HoursInv, FreeInv, CutInv, SlotsInv, OfferInv
<1> QED
  BY <1>1, InvStep, PTL DEF Spec

-----------------------------------------------------------------------------
(* From the loops to the reference.                                        *)

(* The blockers that were selected stand for all of them.                  *)
LEMMA FreeMeans ==
  ASSUME TypeOK, NEW b \in Int, NEW e \in Int, b < e
  PROVE  IsFree(W(b, e)) <=> Usable(b, e) /\ ClearOf(b, e, Blockers)
<1> DEFINE x == W(b, e)
<1>1. x.start = b /\ x.end = e
  BY DEF W
<1>2. /\ Bound.start \in Int /\ Bound.end \in Int
      /\ InPolicy(x) <=> Bound.start =< b /\ e =< Bound.end
  BY <1>1, AvailabilityConstants
  DEF TypeOK, Ask, InPolicy, Bound, W, Later, Earlier
<1> HIDE DEF x
<1>3. ASSUME NEW k \in booked
      PROVE  /\ k.start \in Int /\ k.end \in Int /\ k.buffer \in Nat
             /\ EffectiveWindow(k).start = k.start
             /\ EffectiveWindow(k).end = k.end + k.buffer
  BY AvailabilityConstants DEF TypeOK, Booking, EffectiveWindow, W
<1>4. ASSUME Bound.start =< b, e =< Bound.end, ClearOf(b, e, Blockers)
      PROVE  Clear(x)
  <2>1. \A y \in blocked : ~ Overlaps(x, y)
    BY <1>4, BlockersSuffice DEF x
  <2>2. ASSUME NEW k \in booked \ {skip}, Overlaps(k, Bound)
        PROVE  ~ Overlaps(x, EffectiveWindow(k))
    BY <1>4, <2>2 DEF ClearOf, Blockers, BookedWindows, x
  <2>3. ASSUME NEW k \in booked \ {skip}
        PROVE  ~ Overlaps(x, k)
    BY <1>1, <1>2, <1>3, <1>4, <2>2 DEF Overlaps
  <2> QED
    BY <2>1, <2>2, <2>3 DEF Clear
<1>5. ASSUME Clear(x)
      PROVE  ClearOf(b, e, Blockers)
  BY <1>5 DEF Clear, ClearOf, Blockers, BlockedWindows, BookedWindows, x
<1> QED
  BY <1>2, <1>4, <1>5 DEF IsFree, Usable, x

(* Every slot that is listed can be kept.                                  *)
THEOREM SlotsAreFreeCorrect == Spec => []SlotsAreFree
<1>1. Inv => SlotsAreFree
  <2> SUFFICES ASSUME Inv, Current, NEW s \in slots
               PROVE  s.end = s.start + Duration /\ IsFree(s)
    BY DEF SlotsAreFree
  <2>1. /\ s.start \in Int /\ s.end \in Int /\ s = W(s.start, s.end)
    BY DEF Inv, TypeOK, Window, W
  <2>2. /\ s.end = s.start + Duration /\ Usable(s.start, s.end)
        /\ ClearOf(s.start, s.end, Blockers)
    BY DEF Inv, SlotsInv
  <2>3. s.start < s.end
    BY <2>1, <2>2, AvailabilityConstants
  <2> QED
    BY <2>1, <2>2, <2>3, FreeMeans DEF Inv
<1> QED
  BY <1>1, LoopsCorrect, PTL

(* Wherever the service could start, a slot is listed that covers the      *)
(* start: a listing without slots is no mistake.                           *)
THEOREM NothingIsMissedCorrect == Spec => []NothingIsMissed
<1>1. Inv => NothingIsMissed
  <2> SUFFICES ASSUME Inv, Complete, NEW t \in Int, IsFree(W(t, t + Duration))
               PROVE  Covered(t)
    BY BoundType DEF NothingIsMissed, Covered, Inv
  <2>1. t + Duration \in Int /\ t < t + Duration
    BY AvailabilityConstants
  <2>2. Usable(t, t + Duration) /\ ClearOf(t, t + Duration, Blockers)
    BY <2>1, FreeMeans DEF Inv
  <2>3. CASE pc = "cut" /\ uncut = {}
    BY <2>2, <2>3 DEF Inv, CutInv, Holds
  <2>4. CASE pc = "listed" /\ offer # None
    BY <2>2, <2>4 DEF Inv, SlotsInv, Current
  <2> QED
    BY <2>3, <2>4 DEF Complete
<1> QED
  BY <1>1, LoopsCorrect, PTL

(* A re-check is one decision about the tables: the loops over its window, *)
(* one slot long, find the slot if and only if it is free.                 *)
LEMMA RecheckDecides ==
  ASSUME Inv, pc = "listed", offer # None
  PROVE  Available <=> IsFree(offer)
<1>1. /\ offer.start \in Int /\ offer.end \in Int
      /\ offer = W(offer.start, offer.start + Duration)
      /\ offer = W(offer.start, offer.end)
      /\ offer.start < offer.end
      /\ Duration \in Int /\ Notice \in Int /\ Horizon \in Int /\ ask.now \in Int
  BY AvailabilityConstants DEF Inv, TypeOK, OfferInv, Window, W, Ask
<1>2. ASSUME Available
      PROVE  IsFree(offer)
  <2>1. /\ Usable(offer.start, offer.end)
        /\ ClearOf(offer.start, offer.end, Blockers)
    BY <1>2 DEF Inv, SlotsInv, Current, Available
  <2> QED
    BY <1>1, <2>1, FreeMeans DEF Inv
<1>3. ASSUME IsFree(offer)
      PROVE  Available
  <2>1. /\ Bound.start = offer.start /\ Bound.end = offer.end
        /\ Bound.start \in Int /\ Bound.end \in Int
    BY <1>1, <1>3
    DEF Inv, TypeOK, Ask, OfferInv, IsFree, InPolicy, Bound, W, Later, Earlier
  <2>2. Covered(offer.start)
    BY <1>1, <1>3, FreeMeans DEF Inv, SlotsInv, Current, OfferInv
  <2>3. PICK s \in slots : s.start =< offer.start /\ offer.start < s.end
    BY <2>2 DEF Covered
  <2>4. /\ s.end = s.start + Duration /\ Bound.start =< s.start
        /\ s.start \in Int /\ s = W(s.start, s.end)
    BY DEF Inv, SlotsInv, Usable, TypeOK, Window, W
  <2>5. s.start = offer.start
    BY <1>1, <2>1, <2>3, <2>4
  <2> QED
    BY <1>1, <2>4, <2>5 DEF Available
<1> QED
  BY <1>2, <1>3

(* The re-check of a listed slot says no only for a reason that came up    *)
(* since, and yes only without one.                                        *)
THEOREM RecheckIsRightCorrect == Spec => []RecheckIsRight
<1>1. Inv => RecheckIsRight
  <2> SUFFICES ASSUME Inv, pc = "listed", offer # None
               PROVE  IsFree(offer) <=>
                        /\ ask.now + Notice =< offer.start
                        /\ \A k \in booked \ {skip} : ~ Overlaps(k, offer)
    BY RecheckDecides DEF RecheckIsRight
  <2>1. /\ offer.start \in Int /\ offer.end \in Int
        /\ Notice \in Int /\ Horizon \in Int /\ ask.now \in Int
    BY AvailabilityConstants DEF Inv, TypeOK, Window, Ask
  <2>2. ASSUME NEW k \in booked
        PROVE  k.start \in Int /\ k.end \in Int
    BY AvailabilityConstants DEF Inv, TypeOK, Booking
  <2>3. ASSUME IsFree(offer)
        PROVE  /\ ask.now + Notice =< offer.start
               /\ \A k \in booked \ {skip} : ~ Overlaps(k, offer)
    BY <2>1, <2>2, <2>3 DEF IsFree, InPolicy, Clear, Overlaps
  <2>4. ASSUME ask.now + Notice =< offer.start,
               \A k \in booked \ {skip} : ~ Overlaps(k, offer)
        PROVE  IsFree(offer)
    <3>1. /\ Bound.start = offer.start /\ Bound.end = offer.end
      BY <2>1, <2>4 DEF Inv, TypeOK, Ask, OfferInv, Bound, W, Later, Earlier
    <3>2. InPolicy(offer)
      BY <2>1, <2>4 DEF Inv, OfferInv, InPolicy
    <3>3. Clear(offer)
      BY <2>1, <2>2, <2>4, <3>1 DEF Inv, OfferInv, Clear, Overlaps
    <3> QED
      BY <3>2, <3>3 DEF IsFree, Inv, OfferInv
  <2> QED
    BY <2>3, <2>4
<1> QED
  BY <1>1, LoopsCorrect, PTL

-----------------------------------------------------------------------------
(* The listing as a function.  The windows that are reduced and cut are    *)
(* those that the definition without loops names, whatever the order.      *)

LEMMA DayHoursAreWide ==
  ASSUME TypeOK, NEW d \in Int, NEW w \in DayHours(d)
  PROVE  w \in Window /\ w.start < w.end
  BY DayHoursType DEF DayHours

LEMMA BlockersAreWide ==
  ASSUME TypeOK, NEW b \in Blockers
  PROVE  b \in Window /\ b.start < b.end
<1>1. CASE b \in BlockedWindows
  BY <1>1, BlockersType, AvailabilityConstants DEF BlockedWindows, TypeOK
<1>2. CASE b \in BookedWindows
  <2>1. PICK k \in booked : b = EffectiveWindow(k)
    BY <1>2 DEF BookedWindows
  <2>2. k.start \in Int /\ k.end \in Int /\ k.buffer \in Nat /\ k.start < k.end
    BY AvailabilityConstants DEF TypeOK, Booking
  <2> QED
    BY <2>1, <2>2 DEF EffectiveWindow, W, Window
<1> QED
  BY <1>1, <1>2 DEF Blockers

(* The stretch x of w touches nothing of bs.                               *)
Stretch(x, w, bs) ==
  /\ w.start =< x.start /\ x.start < x.end /\ x.end =< w.end
  /\ \A b \in bs : ~ Overlaps(x, b)

(* Every stretch lies within a maximal one.                                *)
Enclosed(w, bs) ==
  \A x \in Window : Stretch(x, w, bs) =>
    \E y \in Untouched(w, bs) : y.start =< x.start /\ x.end =< y.end

LEMMA UntouchedMeans ==
  ASSUME NEW w \in Window, NEW bs \in SUBSET Window
  PROVE  \A x : x \in Untouched(w, bs) <=>
           /\ x \in Window
           /\ Stretch(x, w, bs)
           /\ x.start = w.start \/ \E b \in bs : x.start = b.end
           /\ x.end = w.end \/ \E b \in bs : x.end = b.start
<1> DEFINE starts == {w.start} \cup {b.end : b \in bs}
           ends == {w.end} \cup {b.start : b \in bs}
<1>1. starts \subseteq Int /\ ends \subseteq Int
  BY DEF Window
<1>2. \A x : x \in Untouched(w, bs) <=>
         (\E b \in starts, e \in ends : x = W(b, e)) /\ Stretch(x, w, bs)
  BY DEF Untouched, Stretch
<1>3. ASSUME NEW x, NEW b \in starts, NEW e \in ends, x = W(b, e)
      PROVE  x \in Window /\ x.start \in starts /\ x.end \in ends
  BY <1>1, <1>3, WindowType
<1>4. ASSUME NEW x \in Window
      PROVE  x = W(x.start, x.end)
  BY DEF Window, W
<1> QED
  BY <1>2, <1>3, <1>4

LEMMA UntouchedNone ==
  ASSUME NEW w \in Window, w.start < w.end
  PROVE  Untouched(w, {}) = {w} /\ Enclosed(w, {})
<1>1. \A x : x \in Untouched(w, {}) <=> x \in Window /\ x.start = w.start /\ x.end = w.end
  BY UntouchedMeans DEF Stretch, Window
<1>2. \A x \in Window : x.start = w.start /\ x.end = w.end => x = w
  BY DEF Window
<1>3. Untouched(w, {}) = {w}
  BY <1>1, <1>2
<1> QED
  BY <1>3 DEF Enclosed, Stretch

(* What Remainder leaves of a window, member by member.                    *)
LEMMA RemainderMeans ==
  ASSUME NEW w \in Window, NEW b \in Window, w.start < w.end, b.start < b.end
  PROVE  \A x : x \in Remainder(w, b) <=>
           /\ x \in Window /\ x.start < x.end /\ ~ Overlaps(x, b)
           /\ \/ x.start = w.start /\ x.end = w.end
              \/ x.start = w.start /\ x.end = b.start /\ b.start < w.end /\ w.start < b.end
              \/ x.start = b.end /\ x.end = w.end /\ b.start < w.end /\ w.start < b.end
<1>0. /\ w.start \in Int /\ w.end \in Int /\ b.start \in Int /\ b.end \in Int
      /\ \A x \in Window : x.start \in Int /\ x.end \in Int
  BY DEF Window
<1>1. \A x \in Window : x.start = w.start /\ x.end = w.end <=> x = w
  BY DEF Window
<1>2. CASE ~ Overlaps(w, b)
  <2>1. Remainder(w, b) = {w}
    BY <1>2 DEF Remainder
  <2>2. ~ (b.start < w.end /\ w.start < b.end)
    BY <1>0, <1>2 DEF Overlaps
  <2> QED
    BY <1>1, <1>2, <2>1, <2>2
<1>3. CASE Overlaps(w, b)
  <2>1. b.start < w.end /\ w.start < b.end
    BY <1>3 DEF Overlaps
  <2>2. /\ Earlier(b.start, w.end) = b.start
        /\ Later(b.end, w.start) = b.end
    BY <1>0, <2>1 DEF Earlier, Later
  <2>3. \A x : x \in Remainder(w, b) <=>
          \/ x = W(w.start, b.start) /\ b.start > w.start
          \/ x = W(b.end, w.end) /\ b.end < w.end
    BY <1>3, <2>2 DEF Remainder
  <2>4. \A x : x = W(w.start, b.start) <=>
                 x \in Window /\ x.start = w.start /\ x.end = b.start
    BY <1>0 DEF W, Window
  <2>5. \A x : x = W(b.end, w.end) <=>
                 x \in Window /\ x.start = b.end /\ x.end = w.end
    BY <1>0 DEF W, Window
  <2> QED
    BY <1>0, <2>1, <2>3, <2>4, <2>5 DEF Overlaps
<1> QED
  BY <1>2, <1>3

(* Taking one more blocker out of the maximal stretches leaves the maximal *)
(* stretches for the blockers with this one.                               *)
LEMMA UntouchedStep ==
  ASSUME NEW w \in Window, NEW bs \in SUBSET Window, NEW b \in Window,
         \A x \in bs \cup {b} : x.start < x.end,
         Enclosed(w, bs)
  PROVE  /\ UNION {Remainder(x, b) : x \in Untouched(w, bs)} = Untouched(w, bs \cup {b})
         /\ Enclosed(w, bs \cup {b})
<1>0. /\ w.start \in Int /\ w.end \in Int /\ b.start \in Int /\ b.end \in Int
      /\ \A x \in Window : x.start \in Int /\ x.end \in Int
      /\ bs \cup {b} \in SUBSET Window
  BY DEF Window
<1>1. \A x : x \in Untouched(w, bs) <=>
        /\ x \in Window /\ Stretch(x, w, bs)
        /\ x.start = w.start \/ \E c \in bs : x.start = c.end
        /\ x.end = w.end \/ \E c \in bs : x.end = c.start
  BY UntouchedMeans
<1>2. \A x : x \in Untouched(w, bs \cup {b}) <=>
        /\ x \in Window /\ Stretch(x, w, bs \cup {b})
        /\ x.start = w.start \/ \E c \in bs \cup {b} : x.start = c.end
        /\ x.end = w.end \/ \E c \in bs \cup {b} : x.end = c.start
  BY <1>0, UntouchedMeans
<1>3. \A x : Stretch(x, w, bs \cup {b}) <=> Stretch(x, w, bs) /\ ~ Overlaps(x, b)
  BY DEF Stretch
<1>4. ASSUME NEW y \in Untouched(w, bs), NEW x \in Remainder(y, b)
      PROVE  x \in Untouched(w, bs \cup {b})
  <2>1. /\ y \in Window /\ Stretch(y, w, bs)
        /\ y.start = w.start \/ \E c \in bs : y.start = c.end
        /\ y.end = w.end \/ \E c \in bs : y.end = c.start
    BY <1>1
  <2>2. /\ x \in Window /\ x.start < x.end /\ ~ Overlaps(x, b)
        /\ \/ x.start = y.start /\ x.end = y.end
           \/ x.start = y.start /\ x.end = b.start /\ b.start < y.end /\ y.start < b.end
           \/ x.start = b.end /\ x.end = y.end /\ b.start < y.end /\ y.start < b.end
    BY <2>1, RemainderMeans DEF Stretch
  <2>3. y.start =< x.start /\ x.end =< y.end
    BY <1>0, <2>1, <2>2
  <2>4. \A c \in bs : ~ Overlaps(x, c)
    BY <1>0, <2>1, <2>2, <2>3 DEF Stretch, Overlaps
  <2>5. Stretch(x, w, bs)
    BY <1>0, <2>1, <2>2, <2>3, <2>4 DEF Stretch
  <2> QED
    BY <1>2, <1>3, <2>1, <2>2, <2>5
<1>5. ASSUME NEW x \in Window, Stretch(x, w, bs \cup {b})
      PROVE  \E y \in Untouched(w, bs) :
               /\ y \in Window /\ Stretch(y, w, bs)
               /\ y.start =< x.start /\ x.end =< y.end
  BY <1>1, <1>3, <1>5 DEF Enclosed
<1>6. ASSUME NEW x \in Untouched(w, bs \cup {b})
      PROVE  \E y \in Untouched(w, bs) : x \in Remainder(y, b)
  <2>1. /\ x \in Window /\ Stretch(x, w, bs) /\ ~ Overlaps(x, b)
        /\ x.start = w.start \/ x.start = b.end \/ \E c \in bs : x.start = c.end
        /\ x.end = w.end \/ x.end = b.start \/ \E c \in bs : x.end = c.start
        /\ x.start < x.end
    BY <1>2, <1>3 DEF Stretch
  <2>2. PICK y \in Untouched(w, bs) : /\ y \in Window /\ Stretch(y, w, bs)
                                      /\ y.start =< x.start /\ x.end =< y.end
    BY <1>3, <1>5, <2>1
  <2>3. /\ w.start =< y.start /\ y.start < y.end /\ y.end =< w.end
        /\ \A c \in bs : ~ Overlaps(y, c) /\ c \in Window /\ c.start < c.end
    BY <2>2 DEF Stretch
  <2>4. y.start = x.start \/ (x.start = b.end /\ y.start < b.end)
    <3>1. CASE x.start = w.start
      BY <1>0, <2>1, <2>2, <2>3, <3>1
    <3>2. ASSUME NEW c \in bs, x.start = c.end
          PROVE  y.start = x.start
      BY <1>0, <2>1, <2>2, <2>3, <3>2 DEF Overlaps
    <3>3. CASE x.start = b.end
      BY <1>0, <2>1, <2>2, <2>3, <3>3
    <3> QED
      BY <2>1, <3>1, <3>2, <3>3
  <2>5. y.end = x.end \/ (x.end = b.start /\ b.start < y.end)
    <3>1. CASE x.end = w.end
      BY <1>0, <2>1, <2>2, <2>3, <3>1
    <3>2. ASSUME NEW c \in bs, x.end = c.start
          PROVE  y.end = x.end
      BY <1>0, <2>1, <2>2, <2>3, <3>2 DEF Overlaps
    <3>3. CASE x.end = b.start
      BY <1>0, <2>1, <2>2, <2>3, <3>3
    <3> QED
      BY <2>1, <3>1, <3>2, <3>3
  <2>6. \/ x.start = y.start /\ x.end = y.end
        \/ x.start = y.start /\ x.end = b.start /\ b.start < y.end /\ y.start < b.end
        \/ x.start = b.end /\ x.end = y.end /\ b.start < y.end /\ y.start < b.end
    BY <1>0, <2>1, <2>2, <2>3, <2>4, <2>5
  <2>7. x \in Remainder(y, b)
    BY <2>1, <2>2, <2>3, <2>6, RemainderMeans
  <2> QED
    BY <2>2, <2>7
<1>7. UNION {Remainder(x, b) : x \in Untouched(w, bs)} = Untouched(w, bs \cup {b})
  BY <1>4, <1>6
<1>8. ASSUME NEW x \in Window, Stretch(x, w, bs \cup {b})
      PROVE  \E z \in Untouched(w, bs \cup {b}) : z.start =< x.start /\ x.end =< z.end
  <2>1. PICK y \in Untouched(w, bs) : /\ y \in Window
                                      /\ y.start =< x.start /\ x.end =< y.end
    BY <1>5, <1>8
  <2>2. x.start < x.end /\ ~ Overlaps(x, b) /\ x = W(x.start, x.end)
    BY <1>3, <1>8 DEF Stretch, W, Window
  <2>3. Holds(Remainder(y, b), x.start, x.end)
    BY <1>0, <2>1, <2>2, RemainderIsRight
  <2> QED
    BY <1>7, <2>1, <2>3 DEF Holds
<1> QED
  BY <1>7, <1>8 DEF Enclosed

-----------------------------------------------------------------------------
(* Cutting a window.                                                       *)

LEMMA Multiples ==
  ASSUME NEW i \in Nat
  PROVE  /\ i * Duration \in Int
         /\ (i + 1) * Duration = i * Duration + Duration
         /\ i =< i * Duration
<1>1. Duration \in Nat /\ Duration >= 1
  BY AvailabilityConstants
<1>2. i * Duration >= i * 1
  BY <1>1
<1>3. (i + 1) * Duration = i * Duration + Duration
  BY <1>1
<1> QED
  BY <1>1, <1>2, <1>3

LEMMA SlotsInMeans ==
  ASSUME NEW w \in Window
  PROVE  \A x : x \in SlotsIn(w) <=>
           \E i \in Nat : /\ w.start + i * Duration + Duration =< w.end
                          /\ x = W(w.start + i * Duration, w.start + i * Duration + Duration)
<1>0. w.start \in Int /\ w.end \in Int /\ Duration \in Int /\ Duration > 0
  BY AvailabilityConstants DEF Window
<1>1. \A i \in Nat : w.start + (i + 1) * Duration = w.start + i * Duration + Duration
  BY <1>0, Multiples
<1>2. \A i \in Nat : w.start + i * Duration + Duration =< w.end => i \in 0 .. w.end - w.start
  BY <1>0, Multiples
<1>3. \A i \in 0 .. w.end - w.start : i \in Nat
  BY <1>0
<1>4. \A x : x \in SlotsIn(w) <=>
        \E i \in 0 .. w.end - w.start :
           /\ w.start + (i + 1) * Duration =< w.end
           /\ x = W(w.start + i * Duration, w.start + (i + 1) * Duration)
  BY DEF SlotsIn
<1> QED
  BY <1>1, <1>2, <1>3, <1>4

(* A window without room yields no slot; one with room yields the slot at  *)
(* its start, and those of the rest.                                       *)
LEMMA SlotsInNone ==
  ASSUME NEW w \in Window, w.start + Duration > w.end
  PROVE  SlotsIn(w) = {}
<1>0. w.start \in Int /\ w.end \in Int /\ Duration \in Int
  BY AvailabilityConstants DEF Window
<1>1. \A i \in Nat : ~ (w.start + i * Duration + Duration =< w.end)
  BY <1>0, Multiples
<1> QED
  BY <1>1, SlotsInMeans

LEMMA SlotsInStep ==
  ASSUME NEW w \in Window, w.start + Duration =< w.end
  PROVE  SlotsIn(w) = {W(w.start, w.start + Duration)}
                        \cup SlotsIn(W(w.start + Duration, w.end))
<1> DEFINE rest == W(w.start + Duration, w.end)
           At(i) == w.start + i * Duration
<1>0. /\ w.start \in Int /\ w.end \in Int /\ Duration \in Int
      /\ rest \in Window /\ rest.start = w.start + Duration /\ rest.end = w.end
  BY AvailabilityConstants, WindowType DEF Window
<1>1. At(0) = w.start /\ \A i \in Nat : At(i) \in Int /\ At(i + 1) = At(i) + Duration
  <2>1. 0 * Duration = 0
    BY <1>0
  <2> QED
    BY <1>0, <2>1, Multiples
<1>2. \A i \in Nat : rest.start + i * Duration = At(i + 1)
  BY <1>0, Multiples
<1>3. \A x : x \in SlotsIn(w) <=>
        \E i \in Nat : At(i) + Duration =< w.end /\ x = W(At(i), At(i) + Duration)
  BY SlotsInMeans
<1>4. \A x : x \in SlotsIn(rest) <=>
        \E i \in Nat : At(i + 1) + Duration =< w.end /\ x = W(At(i + 1), At(i + 1) + Duration)
  <2> HIDE DEF At, rest
  <2>1. \A x : x \in SlotsIn(rest) <=>
          \E i \in Nat : /\ rest.start + i * Duration + Duration =< rest.end
                         /\ x = W(rest.start + i * Duration, rest.start + i * Duration + Duration)
    BY <1>0, SlotsInMeans
  <2> QED
    BY <1>0, <1>2, <2>1
<1> HIDE DEF At, rest
<1>5. ASSUME NEW x, x \in SlotsIn(w)
      PROVE  x \in {W(w.start, w.start + Duration)} \cup SlotsIn(rest)
  <2>1. PICK i \in Nat : At(i) + Duration =< w.end /\ x = W(At(i), At(i) + Duration)
    BY <1>3, <1>5
  <2>2. CASE i = 0
    BY <1>1, <2>1, <2>2
  <2>3. CASE i # 0
    <3>1. i - 1 \in Nat /\ (i - 1) + 1 = i
      BY <2>3
    <3> QED
      BY <1>4, <2>1, <3>1
  <2> QED
    BY <2>2, <2>3
<1>6. ASSUME NEW x, x \in {W(w.start, w.start + Duration)} \cup SlotsIn(rest)
      PROVE  x \in SlotsIn(w)
  <2>1. CASE x = W(w.start, w.start + Duration)
    BY <1>0, <1>1, <1>3, <2>1
  <2>2. CASE x \in SlotsIn(rest)
    <3>1. PICK i \in Nat : At(i + 1) + Duration =< w.end /\ x = W(At(i + 1), At(i + 1) + Duration)
      BY <1>4, <2>2
    <3>2. i + 1 \in Nat
      OBVIOUS
    <3> QED
      BY <1>3, <3>1, <3>2
  <2> QED
    BY <1>6, <2>1, <2>2
<1> QED
  BY <1>5, <1>6 DEF rest

-----------------------------------------------------------------------------
(* The invariant of each loop, and the steps.                              *)

ListInv ==
  /\ pc = "hours" =>
       /\ DayOf(Bound.start) =< day /\ day =< LastDay + 1
       /\ hours = UNION {DayHours(d) : d \in DayOf(Bound.start) .. day - 1}
  /\ pc \in {"subtract", "cut", "listed"} => hours = AllHours
  /\ pc = "subtract" =>
       /\ free = UNION {Untouched(w, Blockers \ todo) : w \in hours}
       /\ \A w \in hours : Enclosed(w, Blockers \ todo)
  /\ pc = "cut" => slots \cup UNION {SlotsIn(w) : w \in uncut} = Listing
  /\ pc = "listed" /\ Current => slots = Listing

(* A step that changes neither the rules nor the call.                     *)
LEMMA HoursFrame ==
  ASSUME UNCHANGED <<rules, ask>>
  PROVE  /\ Bound' = Bound /\ LastDay' = LastDay
         /\ \A d : DayHours(d)' = DayHours(d)
         /\ AllHours' = AllHours
<1>1. Bound' = Bound
  BY DEF Bound
<1>2. /\ LastDay' = LastDay
      /\ \A d : DayHours(d)' = DayHours(d)
  BY <1>1 DEF LastDay, DayHours
<1> QED
  BY <1>1, <1>2 DEF AllHours

LEMMA ListingFrame ==
  ASSUME UNCHANGED <<tables, call>>
  PROVE  Listing' = Listing /\ Blockers' = Blockers
<1>1. Blockers' = Blockers
  BY BlockersFrame
<1>2. AllHours' = AllHours
  BY HoursFrame DEF tables, call
<1> QED
  BY <1>1, <1>2 DEF Listing

LEMMA AllHoursType ==
  ASSUME TypeOK, NEW w \in AllHours
  PROVE  w \in Window /\ w.start < w.end
<1>1. PICK d \in DayOf(Bound.start) .. LastDay : w \in DayHours(d)
  BY DEF AllHours
<1>2. d \in Int
  BY <1>1, BoundType, DayBounds DEF LastDay
<1> QED
  BY <1>1, <1>2, DayHoursAreWide

LEMMA ClipList ==
  ASSUME Inv, ListInv, Clip
  PROVE  ListInv'
<1>0. /\ hours = {} /\ slots = {} /\ TypeOK
      /\ UNCHANGED <<tables, call, hours, todo, free, uncut, slots>>
      /\ Bound' = Bound /\ LastDay' = LastDay /\ AllHours' = AllHours
      /\ \A d : DayHours(d)' = DayHours(d)
      /\ Listing' = Listing
      /\ Bound.start \in Int /\ Bound.end \in Int
      /\ DayOf(Bound.start) \in Int /\ LastDay \in Int
  BY HoursFrame, ListingFrame, BoundType, DayBounds
  DEF Inv, PhaseInv, Clip, LastDay, tables, call
<1>1. CASE Bound.start < Bound.end /\ pc' = "hours" /\ day' = DayOf(Bound.start)
  <2>1. DayOf(Bound.start) =< LastDay
    BY <1>0, <1>1, DaysAreOrdered DEF LastDay
  <2>2. DayOf(Bound.start) .. day' - 1 = {}
    BY <1>0, <1>1
  <2> QED
    BY <1>0, <1>1, <2>1, <2>2 DEF ListInv
<1>2. CASE Bound.start >= Bound.end /\ pc' = "listed"
  <2>1. ASSUME NEW d \in Int, NEW w \in DayHours(d)
        PROVE  FALSE
    <3>1. PICK r \in rules : w = W(Later(d * DayLength + r.start, Bound.start),
                                   Earlier(d * DayLength + r.end, Bound.end))
      BY <2>1 DEF DayHours
    <3>2. w.start < w.end
      BY <1>0, <2>1, DayHoursAreWide
    <3>3. d * DayLength \in Int /\ r.start \in Int /\ r.end \in Int
      BY <1>0, AvailabilityConstants, RuleType
    <3> QED
      BY <1>0, <1>2, <3>1, <3>2, <3>3 DEF W, Later, Earlier
  <2>2. AllHours = {}
    BY <1>0, <2>1 DEF AllHours
  <2>3. Listing = {}
    BY <2>2 DEF Listing
  <2> QED
    BY <1>0, <1>2, <2>2, <2>3 DEF ListInv
<1> QED
  BY <1>1, <1>2 DEF Clip

LEMMA WorkingDayList ==
  ASSUME Inv, ListInv, WorkingDay
  PROVE  ListInv'
<1>0. /\ pc = "hours" /\ pc' = "hours" /\ day =< LastDay
      /\ hours' = hours \cup DayHours(day) /\ day' = day + 1
      /\ hours = UNION {DayHours(d) : d \in DayOf(Bound.start) .. day - 1}
      /\ Bound' = Bound /\ LastDay' = LastDay
      /\ \A d : DayHours(d)' = DayHours(d)
      /\ day \in Int /\ LastDay \in Int /\ DayOf(Bound.start) \in Int
  BY HoursFrame, BoundType, DayBounds
  DEF Inv, TypeOK, ListInv, WorkingDay, LastDay, tables, call
<1>1. DayOf(Bound.start) =< day
  BY DEF ListInv, WorkingDay
<1>2. DayOf(Bound.start) .. day = (DayOf(Bound.start) .. day - 1) \cup {day}
  BY <1>0, <1>1
<1>3. hours' = UNION {DayHours(d) : d \in DayOf(Bound.start) .. day}
  BY <1>0, <1>2
<1> QED
  BY <1>0, <1>3 DEF ListInv

LEMMA LoadBlockersList ==
  ASSUME Inv, ListInv, LoadBlockers
  PROVE  ListInv'
<1>0. /\ pc = "hours" /\ pc' = "subtract" /\ day > LastDay
      /\ UNCHANGED <<tables, call, day, hours, uncut, slots>>
      /\ todo' = Blockers /\ free' = hours
      /\ DayOf(Bound.start) =< day /\ day =< LastDay + 1
      /\ hours = UNION {DayHours(d) : d \in DayOf(Bound.start) .. day - 1}
      /\ AllHours' = AllHours /\ Blockers' = Blockers
      /\ day \in Int /\ LastDay \in Int /\ TypeOK
  BY HoursFrame, ListingFrame, BoundType, DayBounds
  DEF Inv, TypeOK, ListInv, LoadBlockers, LastDay, tables, call
<1>1. day - 1 = LastDay
  BY <1>0
<1>2. hours = AllHours
  BY <1>0, <1>1 DEF AllHours
<1>3. ASSUME NEW w \in hours
      PROVE  Untouched(w, {}) = {w} /\ Enclosed(w, {})
  BY <1>0, <1>2, AllHoursType, UntouchedNone
<1>4. Blockers' \ todo' = {}
  BY <1>0
<1>5. hours = UNION {Untouched(w, {}) : w \in hours}
  BY <1>3
<1>6. /\ hours' = hours /\ hours' = AllHours'
      /\ free' = UNION {Untouched(w, Blockers' \ todo') : w \in hours'}
  BY <1>0, <1>2, <1>4, <1>5
<1>7. \A w \in hours' : Enclosed(w, Blockers' \ todo')
  BY <1>3, <1>4, <1>6
<1> QED
  BY <1>0, <1>6, <1>7 DEF ListInv

LEMMA SubtractList ==
  ASSUME Inv, ListInv, Subtract
  PROVE  ListInv'
<1> DEFINE bs == Blockers \ todo
<1>0. /\ pc = "subtract" /\ pc' = "subtract"
      /\ UNCHANGED <<tables, call, day, hours, uncut, slots>>
      /\ AllHours' = AllHours /\ Blockers' = Blockers
      /\ hours = AllHours
      /\ free = UNION {Untouched(w, bs) : w \in hours}
      /\ \A w \in hours : Enclosed(w, bs)
      /\ todo \subseteq Blockers /\ TypeOK
  BY HoursFrame, ListingFrame DEF Inv, FreeInv, ListInv, Subtract, tables, call
<1>1. PICK b \in todo : /\ free' = UNION {Remainder(w, b) : w \in free}
                        /\ todo' = todo \ {b}
  BY DEF Subtract
<1>2. Blockers' \ todo' = bs \cup {b}
  BY <1>0, <1>1
<1>3. /\ bs \in SUBSET Window /\ b \in Window
      /\ \A x \in bs \cup {b} : x.start < x.end
  BY <1>0, <1>1, BlockersAreWide
<1> HIDE DEF bs
<1>4. ASSUME NEW w \in hours
      PROVE  /\ UNION {Remainder(x, b) : x \in Untouched(w, bs)} = Untouched(w, bs \cup {b})
             /\ Enclosed(w, bs \cup {b})
  BY <1>0, <1>3, AllHoursType, UntouchedStep
<1>5. free' = UNION {UNION {Remainder(x, b) : x \in Untouched(w, bs)} : w \in hours}
  BY <1>0, <1>1
<1>6. free' = UNION {Untouched(w, bs \cup {b}) : w \in hours}
  BY <1>4, <1>5
<1>7. free' = UNION {Untouched(w, Blockers' \ todo') : w \in hours'}
  BY <1>0, <1>2, <1>6
<1>8. \A w \in hours' : Enclosed(w, Blockers' \ todo')
  BY <1>0, <1>2, <1>4
<1> QED
  BY <1>0, <1>7, <1>8 DEF ListInv

LEMMA StartCuttingList ==
  ASSUME Inv, ListInv, StartCutting
  PROVE  ListInv'
<1>0. /\ pc = "subtract" /\ pc' = "cut" /\ todo = {} /\ slots = {}
      /\ UNCHANGED <<tables, call, day, hours, todo, free, slots>>
      /\ uncut' = free /\ hours = AllHours
      /\ AllHours' = AllHours /\ Listing' = Listing
      /\ free = UNION {Untouched(w, Blockers \ todo) : w \in hours}
  BY HoursFrame, ListingFrame
  DEF Inv, PhaseInv, ListInv, StartCutting, tables, call
<1>1. Blockers \ todo = Blockers
  BY <1>0
<1>2. UNION {SlotsIn(w) : w \in free} = Listing
  BY <1>0, <1>1 DEF Listing
<1> QED
  BY <1>0, <1>2 DEF ListInv

LEMMA CutSlotsList ==
  ASSUME Inv, ListInv, CutSlots
  PROVE  ListInv'
<1>0. /\ pc = "cut" /\ pc' = "cut"
      /\ UNCHANGED <<tables, pc, call, day, hours, todo, free>>
      /\ AllHours' = AllHours /\ Listing' = Listing /\ hours = AllHours
      /\ slots \cup UNION {SlotsIn(w) : w \in uncut} = Listing
  BY HoursFrame, ListingFrame DEF ListInv, CutSlots, tables, call
<1>1. PICK w \in uncut : Cut(w) \/ Drop(w)
  BY DEF CutSlots
<1>2. w \in Window
  BY <1>1 DEF Inv, TypeOK
<1>3. CASE Cut(w)
  <2> DEFINE new == W(w.start, w.start + Duration)
             rest == W(w.start + Duration, w.end)
  <2>1. slots' = slots \cup {new} /\ uncut' = (uncut \ {w}) \cup {rest}
    BY <1>3 DEF Cut
  <2>2. SlotsIn(w) = {new} \cup SlotsIn(rest)
    BY <1>2, <1>3, SlotsInStep DEF Cut
  <2> HIDE DEF new, rest
  <2>3. slots' \cup UNION {SlotsIn(x) : x \in uncut'}
          = slots \cup UNION {SlotsIn(x) : x \in uncut}
    BY <1>1, <2>1, <2>2
  <2> QED
    BY <1>0, <2>3 DEF ListInv
<1>4. CASE Drop(w)
  <2>1. slots' = slots /\ uncut' = uncut \ {w}
    BY <1>4 DEF Drop
  <2>2. SlotsIn(w) = {}
    BY <1>2, <1>4, SlotsInNone DEF Drop
  <2>3. slots' \cup UNION {SlotsIn(x) : x \in uncut'}
          = slots \cup UNION {SlotsIn(x) : x \in uncut}
    BY <1>1, <2>1, <2>2
  <2> QED
    BY <1>0, <2>3 DEF ListInv
<1> QED
  BY <1>1, <1>3, <1>4

LEMMA FinishList ==
  ASSUME Inv, ListInv, Finish
  PROVE  ListInv'
<1>0. /\ pc = "cut" /\ pc' = "listed" /\ uncut = {}
      /\ UNCHANGED <<tables, call, hours, todo, free, uncut, slots>>
      /\ AllHours' = AllHours /\ Listing' = Listing /\ hours = AllHours
      /\ slots \cup UNION {SlotsIn(w) : w \in uncut} = Listing
  BY HoursFrame, ListingFrame DEF ListInv, Finish, tables, call
<1> QED
  BY <1>0 DEF ListInv

LEMMA BookElsewhereList ==
  ASSUME Inv, ListInv, BookElsewhere
  PROVE  ListInv'
<1>0. /\ pc = "listed" /\ pc' = "listed" /\ offer = None
      /\ UNCHANGED <<rules, call, hours>>
      /\ AllHours' = AllHours
  BY HoursFrame DEF BookElsewhere, call
<1>1. ~ Current'
  BY <1>0 DEF Current, call
<1> QED
  BY <1>0, <1>1 DEF ListInv

LEMMA ListStep == Inv /\ ListInv /\ [Next]_vars => ListInv'
<1> SUFFICES ASSUME Inv, ListInv, [Next]_vars PROVE ListInv'
  OBVIOUS
<1>1. CASE Recheck
  BY <1>1 DEF Recheck, ListInv
<1>2. CASE UNCHANGED vars
  <2>1. /\ UNCHANGED <<pc, day, hours, todo, free, uncut, slots, offer>>
        /\ Bound' = Bound /\ LastDay' = LastDay /\ AllHours' = AllHours
        /\ \A d : DayHours(d)' = DayHours(d)
        /\ Listing' = Listing /\ Blockers' = Blockers
    BY <1>2, HoursFrame, ListingFrame DEF vars, tables, call
  <2> QED
    BY <2>1 DEF ListInv, Current
<1> QED
  BY <1>1, <1>2, ClipList, WorkingDayList, LoadBlockersList, SubtractList,
     StartCuttingList, CutSlotsList, FinishList, BookElsewhereList DEF Next, Step

(* A listing is a function of the tables, the window and the time: in      *)
(* whatever order the rows come and the windows are reduced and cut.       *)
THEOREM SameInputsSameSlotsCorrect == Spec => []SameInputsSameSlots
<1>1. Init => ListInv
  BY DEF Init, ListInv
<1>2. Inv /\ ListInv => SameInputsSameSlots
  BY DEF ListInv, SameInputsSameSlots, Complete, Current
<1> QED
  BY <1>1, <1>2, ListStep, LoopsCorrect, PTL DEF Spec

=============================================================================
