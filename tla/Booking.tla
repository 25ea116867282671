------------------------------- MODULE Booking -------------------------------
(***************************************************************************)
(* The write paths of the appointment table (app/domain): booking under an *)
(* idempotency key, cancelling, rescheduling in place, and the no-show     *)
(* sweep.  API requests and background sweeps run concurrently; each is a  *)
(* database session of its own at READ COMMITTED.  A session reads, checks *)
(* what it read, and only later writes: an UPDATE names the row by its     *)
(* primary key and nothing else, so whatever committed in between is       *)
(* overwritten.  Only the two constraints of the table are evaluated       *)
(* against the rows as they are at commit.                                 *)
(*                                                                         *)
(* One action is one read or one committed write.  A session captures the  *)
(* wall clock once, when it starts, and uses it to the end.                *)
(***************************************************************************)
EXTENDS Integers, FiniteSets

CONSTANTS
  Appts,            \* primary keys of the appointments table
  Requests,         \* API request handlers that can run at the same time
  Sweepers,         \* no-show sweeps: the worker's loop, a manual tick
  Staff, Services, Keys,
  None,             \* SQL's NULL: no row, no staff member, no key
  Performs,         \* the staff_services rows: pairs <<staff, service>>
  Bookable,         \* <<staff, service, start>>: inside working hours and
                    \* outside blocked periods (module Availability)
  Duration, Buffer, \* Service.duration_minutes, Service.buffer_minutes
  BookingNotice,    \* Business.min_booking_notice_minutes
  Horizon,          \* Business.max_booking_horizon_days
  Notice,           \* Business.min_reschedule_notice_hours
  Grace,            \* Business.no_show_grace_period_minutes
  MaxRequestTicks,  \* how long a request may stay in flight
  MaxTime           \* the last instant of the model

Handlers == Requests \cup Sweepers
Time == 0 .. MaxTime

ASSUME BookingConstants ==
  /\ Requests \cap Sweepers = {}
  /\ None \notin Appts \cup Staff \cup Services \cup Keys
  /\ Performs \subseteq Staff \X Services
  /\ Bookable \subseteq Staff \X Services \X Nat
  /\ Duration \in [Services -> Nat \ {0}]
  /\ Buffer \in [Services -> Nat]
  /\ BookingNotice \in Nat /\ Horizon \in Nat /\ Notice \in Nat /\ Grace \in Nat
  /\ MaxRequestTicks \in Nat /\ MaxTime \in Nat

(* A request is answered before an appointment that it may still modify    *)
(* can end and outlive the grace period, and so is a second one that       *)
(* started while the first was in flight.                                  *)
ASSUME RequestsAreShort ==
  \A v \in Services :
     /\ MaxRequestTicks =< Notice + Duration[v] + Grace
     /\ 2 * MaxRequestTicks =< BookingNotice + Duration[v] + Grace

VARIABLES
  row,      \* the appointments table
  clock,    \* wall-clock time
  pc,       \* where each session is
  req,      \* what each session holds in memory
  todo,     \* the overdue appointments a sweep has loaded and not yet marked
  answer,   \* what each request last answered, with the appointment and
            \* the key when the answer is an appointment booked under a key
  recovery  \* how many recovery runs were opened for each appointment

vars == <<row, clock, pc, req, todo, answer, recovery>>

Status == {"FREE", "BOOKED", "CANCELLED", "NO_SHOW"}

Row == [status  : Status,
        staff   : Staff \cup {None},
        service : Services \cup {None},
        start   : Nat,
        key     : Keys \cup {None}]

NoRow == [status |-> "FREE", staff |-> None, service |-> None, start |-> 0,
          key |-> None]

(* "seen" is the start the session loaded with the row; SQLAlchemy writes  *)
(* a column only when its new value differs from the loaded one.           *)
Req == [now : Nat, appt : Appts \cup {None}, staff : Staff \cup {None},
        service : Services \cup {None}, start : Nat, seen : Nat,
        key : Keys \cup {None}]

NoReq == [now |-> 0, appt |-> None, staff |-> None, service |-> None,
          start |-> 0, seen |-> 0, key |-> None]

RequestPC == {"idle", "checking", "inserting", "conflict",
              "cancelling", "rechecking", "moving"}
SweepPC == {"idle", "sweeping"}

Answer == [kind : {"none", "booked", "existing", "unavailable", "rejected",
                   "cancelled", "rescheduled", "error"},
           appt : Appts \cup {None}, key : Keys \cup {None}]

Say(kind, a, k) == [kind |-> kind, appt |-> a, key |-> k]

Init ==
  /\ row = [a \in Appts |-> NoRow]
  /\ clock = 0
  /\ pc = [h \in Handlers |-> "idle"]
  /\ req = [h \in Handlers |-> NoReq]
  /\ todo = [h \in Sweepers |-> {}]
  /\ answer = [h \in Requests |-> Say("none", None, None)]
  /\ recovery = [a \in Appts |-> 0]

-----------------------------------------------------------------------------
(* Reading the table.                                                      *)

Booked(a) == row[a].status = "BOOKED"
End(a) == row[a].start + Duration[row[a].service]

Overlaps(b1, e1, b2, e2) == b1 < e2 /\ b2 < e1

(* What the bookings of a staff member occupy around [b, e), with the      *)
(* buffer after each.  The rows are first selected by their bare times.    *)
BookedWindows(s, b, e, skip) ==
  { <<row[a].start, End(a) + Buffer[row[a].service]>> :
      a \in { x \in Appts \ {skip} : /\ Booked(x)
                                     /\ row[x].staff = s
                                     /\ Overlaps(row[x].start, End(x), b, e) } }

IsSlotAvailable(s, v, b, now, skip) ==
  LET e == b + Duration[v]
  IN  /\ <<s, v, b>> \in Bookable
      /\ now + BookingNotice =< b
      /\ e =< now + Horizon
      /\ \A w \in BookedWindows(s, b, e, skip) : ~ Overlaps(b, e, w[1], w[2])

(* A slip: the notice window is forgotten.                                 *)
CanModifyAtAnyTime(a, now) == Booked(a)

CanModify(a, now) == Booked(a) /\ now + Notice =< row[a].start

(* Slips: the rule looks at rows that are no longer BOOKED; counts from    *)
(* the start; holds for one instant only.                                  *)
IsOverdue(a, now) == row[a].status # "FREE" /\ now > End(a) + Grace
IsNoShowFromStart(a, now) == Booked(a) /\ now > row[a].start + Grace
IsNoShowOnTheDot(a, now) == Booked(a) /\ now = End(a) + Grace + 1

IsNoShow(a, now) == Booked(a) /\ now > End(a) + Grace

WithKey(k) == {a \in Appts : row[a].status # "FREE" /\ row[a].key = k}

(* A slip: a unique constraint on the staff member and the start.          *)
UniqueStart(a, s, b, e) ==
  \A x \in Appts \ {a} : Booked(x) /\ row[x].staff = s => row[x].start # b

(* The exclusion constraint: no other BOOKED row of the staff member       *)
(* overlaps [b, e).                                                        *)
ExclusionHolds(a, s, b, e) ==
  \A x \in Appts \ {a} :
     Booked(x) /\ row[x].staff = s => ~ Overlaps(row[x].start, End(x), b, e)

(* Postgres may abort a writer as the victim of a deadlock only while      *)
(* another session is writing too.                                         *)
Contended(h) == \E g \in Requests \ {h} : pc[g] \in {"inserting", "moving"}

-----------------------------------------------------------------------------
(* Booking.                                                                *)

Finish(h, kind, a, k) ==
  /\ pc' = [pc EXCEPT ![h] = "idle"]
  /\ req' = [req EXCEPT ![h] = NoReq]
  /\ answer' = [answer EXCEPT ![h] = Say(kind, a, k)]

Continue(h, where, r) ==
  /\ pc' = [pc EXCEPT ![h] = where]
  /\ req' = [req EXCEPT ![h] = r]
  /\ answer' = [answer EXCEPT ![h] = Say("none", None, None)]

Wanted(s, v, b, k) ==
  [now |-> clock, appt |-> None, staff |-> s, service |-> v, start |-> b,
   seen |-> 0, key |-> k]

(* A known key answers with its appointment, whatever else was asked.      *)
StartBooking(h) ==
  /\ pc[h] = "idle"
  /\ \E s \in Staff, v \in Services, b \in Time, k \in Keys :
       \/ \E a \in WithKey(k) : Finish(h, "existing", a, k)
       \/ /\ WithKey(k) = {}
          /\ <<s, v>> \notin Performs
          /\ Finish(h, "rejected", None, None)
       \/ /\ WithKey(k) = {}
          /\ <<s, v>> \in Performs
          /\ Continue(h, "checking", Wanted(s, v, b, k))
  /\ UNCHANGED <<row, clock, todo, recovery>>

CheckSlot(h) ==
  /\ pc[h] = "checking"
  /\ LET r == req[h] IN
       \/ /\ IsSlotAvailable(r.staff, r.service, r.start, r.now, None)
          /\ Continue(h, "inserting", r)
       \/ /\ ~ IsSlotAvailable(r.staff, r.service, r.start, r.now, None)
          /\ Finish(h, "unavailable", None, None)
  /\ UNCHANGED <<row, clock, todo, recovery>>

InsertFits(r) ==
  ExclusionHolds(None, r.staff, r.start, r.start + Duration[r.service])

(* The commit of the INSERT.  The exclusion index was created before the   *)
(* unique one, so an overlap (23P01) is reported first; a bare duplicate   *)
(* key (23505) is not among the errors that are handled.                   *)
CommitBooking(h) ==
  /\ pc[h] = "inserting"
  /\ LET r == req[h] IN
       \/ /\ InsertFits(r)
          /\ WithKey(r.key) = {}
          /\ \E a \in Appts :
               /\ row[a].status = "FREE"
               /\ row' = [row EXCEPT ![a] =
                            [status |-> "BOOKED", staff |-> r.staff,
                             service |-> r.service, start |-> r.start,
                             key |-> r.key]]
               /\ Finish(h, "booked", a, r.key)
       \/ /\ ~ InsertFits(r) \/ Contended(h)
          /\ Continue(h, "conflict", r)
          /\ UNCHANGED row
       \/ /\ InsertFits(r)
          /\ WithKey(r.key) # {}
          /\ Finish(h, "error", None, None)
          /\ UNCHANGED row
  /\ UNCHANGED <<clock, todo, recovery>>

(* A slip: the answer is the appointment that was in the way.              *)
ResolveByOverlap(h) ==
  /\ pc[h] = "conflict"
  /\ LET r == req[h] IN
       \/ \E a \in {x \in Appts : Booked(x) /\ row[x].start = r.start} :
            Finish(h, "existing", a, r.key)
       \/ WithKey(r.key) = {} /\ Finish(h, "unavailable", None, None)
  /\ UNCHANGED <<row, clock, todo, recovery>>

(* After the rollback the key is looked up once more.                      *)
ResolveConflict(h) ==
  /\ pc[h] = "conflict"
  /\ LET k == req[h].key IN
       \/ \E a \in WithKey(k) : Finish(h, "existing", a, k)
       \/ WithKey(k) = {} /\ Finish(h, "unavailable", None, None)
  /\ UNCHANGED <<row, clock, todo, recovery>>

-----------------------------------------------------------------------------
(* Cancelling and rescheduling.                                            *)

(* A slip: only the key and the times of the appointment are loaded.       *)
LoadedTimes(a, b) ==
  [NoReq EXCEPT !.now = clock, !.appt = a, !.start = b, !.seen = row[a].start]

Loaded(a, b) ==
  [now |-> clock, appt |-> a, staff |-> row[a].staff,
   service |-> row[a].service, start |-> b, seen |-> row[a].start,
   key |-> None]

StartCancel(h) ==
  /\ pc[h] = "idle"
  /\ \E a \in Appts :
       /\ row[a].status # "FREE"
       /\ \/ CanModify(a, clock) /\ Continue(h, "cancelling", Loaded(a, row[a].start))
          \/ ~ CanModify(a, clock) /\ Finish(h, "rejected", None, None)
  /\ UNCHANGED <<row, clock, todo, recovery>>

CommitCancel(h) ==
  /\ pc[h] = "cancelling"
  /\ row' = [row EXCEPT ![req[h].appt].status = "CANCELLED"]
  /\ Finish(h, "cancelled", None, None)
  /\ UNCHANGED <<clock, todo, recovery>>

StartReschedule(h) ==
  /\ pc[h] = "idle"
  /\ \E a \in Appts, b \in Time :
       /\ row[a].status # "FREE"
       /\ \/ CanModify(a, clock) /\ Continue(h, "rechecking", Loaded(a, b))
          \/ ~ CanModify(a, clock) /\ Finish(h, "rejected", None, None)
  /\ UNCHANGED <<row, clock, todo, recovery>>

RecheckSlot(h) ==
  /\ pc[h] = "rechecking"
  /\ LET r == req[h] IN
       \/ /\ IsSlotAvailable(r.staff, r.service, r.start, r.now, r.appt)
          /\ Continue(h, "moving", r)
       \/ /\ ~ IsSlotAvailable(r.staff, r.service, r.start, r.now, r.appt)
          /\ Finish(h, "unavailable", None, None)
  /\ UNCHANGED <<row, clock, todo, recovery>>

(* A slip: the re-check alone decides whether the row may move.            *)
MoveUnchecked(r) == TRUE

(* The constraint covers the row only while the row is BOOKED, which may   *)
(* no longer be the case.                                                  *)
MoveFits(r) ==
  \/ r.start = r.seen
  \/ ~ Booked(r.appt)
  \/ ExclusionHolds(r.appt, r.staff, r.start, r.start + Duration[r.service])

CommitReschedule(h) ==
  /\ pc[h] = "moving"
  /\ LET r == req[h] IN
       \/ /\ MoveFits(r)
          /\ row' = IF r.start = r.seen THEN row
                    ELSE [row EXCEPT ![r.appt].start = r.start]
          /\ Finish(h, "rescheduled", None, None)
       \/ /\ ~ MoveFits(r) \/ (Contended(h) /\ r.start # r.seen)
          /\ Finish(h, "unavailable", None, None)
          /\ UNCHANGED row
  /\ UNCHANGED <<clock, todo, recovery>>

-----------------------------------------------------------------------------
(* The no-show sweep: every BOOKED row is loaded at once; the rule is      *)
(* applied to what was loaded, and each overdue appointment is marked in a *)
(* transaction of its own, together with the recovery run it opens.        *)

StartSweep(h) ==
  /\ pc[h] = "idle"
  /\ todo' = [todo EXCEPT ![h] = {a \in Appts : IsNoShow(a, clock)}]
  /\ pc' = [pc EXCEPT ![h] = "sweeping"]
  /\ req' = [req EXCEPT ![h] = [NoReq EXCEPT !.now = clock]]
  /\ UNCHANGED <<row, clock, answer, recovery>>

MarkNoShow(h) ==
  /\ pc[h] = "sweeping"
  /\ \E a \in todo[h] :
       /\ row' = [row EXCEPT ![a].status = "NO_SHOW"]
       /\ recovery' = [recovery EXCEPT ![a] = @ + 1]
       /\ todo' = [todo EXCEPT ![h] = @ \ {a}]
  /\ UNCHANGED <<clock, pc, req, answer>>

EndSweep(h) ==
  /\ pc[h] = "sweeping"
  /\ todo[h] = {}
  /\ pc' = [pc EXCEPT ![h] = "idle"]
  /\ req' = [req EXCEPT ![h] = NoReq]
  /\ UNCHANGED <<row, clock, todo, answer, recovery>>

-----------------------------------------------------------------------------
(* The environment: a process that dies takes its session with it, and the *)
(* open transaction is rolled back; time passes, but not past the time by  *)
(* which a request in flight is answered.                                  *)

RequestDies(h) ==
  /\ pc[h] # "idle"
  /\ Finish(h, "none", None, None)
  /\ UNCHANGED <<row, clock, todo, recovery>>

SweepDies(h) ==
  /\ pc[h] # "idle"
  /\ pc' = [pc EXCEPT ![h] = "idle"]
  /\ req' = [req EXCEPT ![h] = NoReq]
  /\ todo' = [todo EXCEPT ![h] = {}]
  /\ UNCHANGED <<row, clock, answer, recovery>>

Tick ==
  /\ clock < MaxTime
  /\ \A h \in Requests : pc[h] # "idle" => clock < req[h].now + MaxRequestTicks
  /\ clock' = clock + 1
  /\ UNCHANGED <<row, pc, req, todo, answer, recovery>>

RequestStep(h) ==
  \/ CheckSlot(h) \/ CommitBooking(h) \/ ResolveConflict(h)
  \/ CommitCancel(h) \/ RecheckSlot(h) \/ CommitReschedule(h)

RequestNext(h) ==
  \/ StartBooking(h) \/ StartCancel(h) \/ StartReschedule(h)
  \/ RequestStep(h) \/ RequestDies(h)

SweepStep(h) == StartSweep(h) \/ MarkNoShow(h) \/ EndSweep(h)

SweepNext(h) == SweepStep(h) \/ SweepDies(h)

Next ==
  \/ \E h \in Requests : RequestNext(h)
  \/ \E h \in Sweepers : SweepNext(h)
  \/ Tick

Spec == Init /\ [][Next]_vars

-----------------------------------------------------------------------------
(* Properties.                                                             *)

Modifying == {"cancelling", "rechecking", "moving"}

RowsOK ==
  /\ row \in [Appts -> Row]
  /\ \A a \in Appts :
       /\ row[a].status = "FREE" => row[a].key = None
       /\ row[a].status # "FREE" =>
            /\ row[a].staff \in Staff
            /\ row[a].service \in Services
            /\ row[a].key \in Keys

SessionsOK ==
  /\ pc \in [Handlers -> RequestPC \cup SweepPC]
  /\ req \in [Handlers -> Req]
  /\ answer \in [Requests -> Answer]
  /\ \A h \in Sweepers : pc[h] \in SweepPC
  /\ \A h \in Requests :
       /\ pc[h] \in RequestPC
       /\ pc[h] # "idle" => req[h].staff \in Staff /\ req[h].service \in Services
       /\ pc[h] \in {"checking", "inserting", "conflict"} => req[h].key \in Keys
       /\ pc[h] \in Modifying => req[h].appt \in Appts

LoadedRowsExist ==
  /\ \A h \in Requests : pc[h] \in Modifying => row[req[h].appt].status # "FREE"
  /\ \A h \in Sweepers : \A a \in todo[h] : row[a].status # "FREE"

ShapeOK ==
  /\ RowsOK
  /\ SessionsOK
  /\ clock \in Nat
  /\ todo \in [Sweepers -> SUBSET Appts]
  /\ recovery \in [Appts -> Nat]

(* Every variable has its type: an occupied row is complete, and a session *)
(* holds what its next step needs, naming only rows that exist.            *)
TypeOK == ShapeOK /\ LoadedRowsExist

(* No staff member is ever double-booked, however bookings and moves       *)
(* interleave (models.py:275, the exclusion constraint, and every write    *)
(* that could bring a row under it).                                       *)
NoDoubleBooking ==
  \A a1, a2 \in Appts :
     /\ a1 # a2
     /\ Booked(a1) /\ Booked(a2)
     /\ row[a1].staff = row[a2].staff
     => ~ Overlaps(row[a1].start, End(a1), row[a2].start, End(a2))

(* Idempotency: whatever races, a key names at most one appointment, and   *)
(* every request answered under a key, now or on a retry, was given that   *)
(* appointment (booking.py:77-81 and 129-133).                             *)
OneAppointmentPerKey ==
  /\ \A k \in Keys : \A a1, a2 \in WithKey(k) : a1 = a2
  /\ \A h \in Requests :
        answer[h].kind \in {"booked", "existing"} =>
           answer[h].appt \in WithKey(answer[h].key)

(* An appointment that has left BOOKED keeps its status for ever: no       *)
(* canceller holding a stale BOOKED row overwrites NO_SHOW, and no sweep   *)
(* overwrites CANCELLED (appointments.py:65 and jobs.py:124 both write     *)
(* without looking again).                                                 *)
StatusIsFinal ==
  [][ \A a \in Appts :
        row[a].status \notin {"FREE", "BOOKED"} => row'[a].status = row[a].status ]_vars

(* A no-show really was missed: its final time, including any move that    *)
(* raced with the sweep, ended more than the grace period ago              *)
(* (noshow.py:14-24 judges the row the sweep loaded).                      *)
NoShowWasMissed ==
  \A a \in Appts : row[a].status = "NO_SHOW" => clock > End(a) + Grace

(* Two facts about the sessions make the two properties above inductive.   *)
(* A request that may still modify an appointment will be answered before  *)
(* the appointment can become overdue, wherever other requests moved it;   *)
Early(h) ==
  LET a == req[h].appt IN
    /\ row[a].status \in {"BOOKED", "CANCELLED"}
    /\ req[h].staff = row[a].staff
    /\ req[h].service = row[a].service
    /\ req[h].now + MaxRequestTicks =< End(a) + Grace
    /\ pc[h] = "moving" => req[h].now + BookingNotice =< req[h].start

ModifiersAreEarly == \A h \in Requests : pc[h] \in Modifying => Early(h)

(* and an appointment a sweep has loaded as overdue is still where it was. *)
SweepsAreLate ==
  \A h \in Sweepers : pc[h] = "sweeping" =>
     /\ req[h].now =< clock
     /\ \A a \in todo[h] : /\ row[a].status \in {"BOOKED", "NO_SHOW"}
                           /\ req[h].now > End(a) + Grace

(* A request is answered in time.                                          *)
RequestsInTime ==
  \A h \in Requests : pc[h] # "idle" =>
     req[h].now =< clock /\ clock =< req[h].now + MaxRequestTicks

(* Together: nobody who may still modify an appointment overlaps anybody   *)
(* who has found it overdue, although neither looks again (appointments.py *)
(* :65 and 105-106, jobs.py:124).                                          *)
Timing == RequestsInTime /\ ModifiersAreEarly /\ SweepsAreLate

(* models.py:98-101: the gap reserved after a service is kept before the   *)
(* same staff member's next appointment, "enforced by the availability     *)
(* engine's deterministic re-check".                                       *)
BufferIsKept ==
  \A a1, a2 \in Appts :
     /\ a1 # a2
     /\ Booked(a1) /\ Booked(a2)
     /\ row[a1].staff = row[a2].staff
     /\ row[a1].start =< row[a2].start
     => End(a1) + Buffer[row[a1].service] =< row[a2].start

(* tests/workflow/test_jobs.py: "only one recovery attempt was ever        *)
(* opened" for a missed appointment, as long as the worker is the only one *)
(* that sweeps: recovery runs and no-shows correspond one to one, through  *)
(* every crash of the worker.                                              *)
RecoveriesMatchNoShows ==
  \A a \in Appts : recovery[a] = IF row[a].status = "NO_SHOW" THEN 1 ELSE 0

(* The worker's loop starts a tick whenever the last one is over, and is   *)
(* not killed at the same point for ever; requests run to their answer.    *)
Fairness ==
  /\ \A h \in Requests : WF_vars(RequestStep(h))
  /\ \A h \in Sweepers : WF_vars(SweepStep(h)) /\ SF_vars(MarkNoShow(h))

FairSpec == Spec /\ Fairness

(* Every overdue appointment is eventually settled, although requests keep *)
(* modifying appointments and the worker may be restarted.                 *)
OverdueIsSettled ==
  \A a \in Appts :
     Booked(a) /\ clock > End(a) + Grace ~> row[a].status = "NO_SHOW"

(* What the module promises to the rest of the system, as one atomic book. *)
Promise == INSTANCE AppointmentBook WITH
  Keys   <- Keys,
  time   <- clock,
  state  <- [a \in Appts |-> row[a].status],
  keyOf  <- [a \in Appts |-> row[a].key],
  slot   <- [a \in Appts |->
               IF Booked(a) THEN [staff |-> row[a].staff, from |-> row[a].start,
                                  until |-> End(a)]
               ELSE None]

(* The sessions implement the book: each of their steps is one atomic      *)
(* change of it or none.                                                   *)
ImplementsBook == Promise!Spec

=============================================================================
