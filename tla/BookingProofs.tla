---------------------------- MODULE BookingProofs ----------------------------
(***************************************************************************)
(* Proofs about module Booking, for any number of appointments, requests   *)
(* and sweeps and any policy that satisfies its two assumptions.           *)
(***************************************************************************)
EXTENDS Booking, FiniteSetTheorems, TLAPS

-----------------------------------------------------------------------------
(* Type correctness.                                                       *)

(* A request that ends, with a well-typed answer, leaves every session     *)
(* well typed.                                                             *)
LEMMA FinishType ==
  ASSUME SessionsOK, NEW h \in Requests,
         NEW kind \in {"none", "booked", "existing", "unavailable", "rejected",
                       "cancelled", "rescheduled", "error"},
         NEW a \in Appts \cup {None}, NEW k \in Keys \cup {None},
         Finish(h, kind, a, k)
  PROVE  SessionsOK'
<1> NoReq \in Req
  BY DEF NoReq, Req
<1> QED
  BY BookingConstants
  DEF SessionsOK, Finish, Say, Answer, Handlers, RequestPC, SweepPC, Modifying

(* So does a request that goes on with what its next step needs.           *)
LEMMA ContinueType ==
  ASSUME SessionsOK, NEW h \in Requests, NEW where \in RequestPC, NEW r \in Req,
         r.staff \in Staff, r.service \in Services,
         where \in Modifying => r.appt \in Appts,
         where \notin Modifying => r.key \in Keys,
         Continue(h, where, r)
  PROVE  SessionsOK'
  BY BookingConstants
  DEF SessionsOK, Continue, Say, Answer, Handlers, RequestPC, SweepPC, Modifying

(* A sweep that starts or ends does too.                                   *)
LEMMA SweepType ==
  ASSUME SessionsOK, NEW h \in Sweepers, NEW where \in SweepPC, NEW r \in Req,
         pc' = [pc EXCEPT ![h] = where], req' = [req EXCEPT ![h] = r],
         UNCHANGED answer
  PROVE  SessionsOK'
  BY BookingConstants DEF SessionsOK, Handlers, RequestPC, SweepPC, Modifying

(* What a request in flight holds.                                         *)
LEMMA HeldType ==
  ASSUME SessionsOK, NEW h \in Requests, pc[h] # "idle"
  PROVE  /\ req[h] \in Req
         /\ req[h].now \in Nat /\ req[h].start \in Nat /\ req[h].seen \in Nat
         /\ req[h].staff \in Staff
         /\ req[h].service \in Services
         /\ pc[h] \in Modifying => req[h].appt \in Appts
         /\ pc[h] \notin Modifying => req[h].key \in Keys
  BY DEF SessionsOK, Handlers, Req, RequestPC, Modifying

(* What an occupied row holds.                                             *)
LEMMA RowType ==
  ASSUME RowsOK, NEW a \in Appts, row[a].status # "FREE"
  PROVE  /\ row[a].start \in Nat
         /\ row[a].staff \in Staff /\ row[a].service \in Services
         /\ row[a].key \in Keys
         /\ End(a) \in Nat /\ End(a) > row[a].start
         /\ Duration[row[a].service] \in Nat
  BY BookingConstants DEF RowsOK, Row, End

(* A request that ends, or goes on with an appointment that exists, keeps  *)
(* every loaded row existing, provided no row disappears.                  *)
LEMMA LoadedFrame ==
  ASSUME SessionsOK, LoadedRowsExist, NEW h \in Requests, UNCHANGED todo,
         \A a \in Appts : row[a].status # "FREE" => row'[a].status # "FREE",
         todo \in [Sweepers -> SUBSET Appts],
         \/ \E kind, a, k : Finish(h, kind, a, k)
         \/ \E where, r : /\ Continue(h, where, r)
                          /\ where \in Modifying =>
                               r.appt \in Appts /\ row[r.appt].status # "FREE"
  PROVE  LoadedRowsExist'
<1>1. \A g \in Sweepers : \A a \in todo'[g] : row'[a].status # "FREE"
  BY DEF LoadedRowsExist
<1>2. ASSUME NEW g \in Requests, pc'[g] \in Modifying
      PROVE  row'[req'[g].appt].status # "FREE"
  <2>1. CASE g = h
    BY <1>2, <2>1 DEF SessionsOK, Finish, Continue, Handlers, Modifying
  <2>2. CASE g # h
    BY <1>2, <2>2 DEF SessionsOK, LoadedRowsExist, Finish, Continue, Handlers
  <2>3. QED
    BY <2>1, <2>2
<1>3. QED
  BY <1>1, <1>2 DEF LoadedRowsExist

(* Each action preserves the types of the variables.                       *)
LEMMA ShapeStep == TypeOK /\ [Next]_vars => ShapeOK'
<1> SUFFICES ASSUME TypeOK, [Next]_vars PROVE ShapeOK'
  OBVIOUS
<1>a. /\ RowsOK /\ SessionsOK /\ LoadedRowsExist
      /\ clock \in Nat /\ recovery \in [Appts -> Nat]
      /\ todo \in [Sweepers -> SUBSET Appts]
  BY DEF TypeOK, ShapeOK
<1>b. SessionsOK' /\ UNCHANGED <<row, clock, todo, recovery>> => ShapeOK'
  BY <1>a DEF ShapeOK, RowsOK
<1>c. ASSUME NEW h \in Requests, pc[h] # "idle"
      PROVE  /\ req[h] \in Req
             /\ req[h].staff \in Staff
             /\ req[h].service \in Services
             /\ pc[h] \in Modifying => req[h].appt \in Appts
             /\ pc[h] \notin Modifying => req[h].key \in Keys
  BY <1>a, <1>c, HeldType
<1>1. ASSUME NEW h \in Requests, StartBooking(h) PROVE ShapeOK'
  <2>1. CASE \E k \in Keys : \E a \in WithKey(k) : Finish(h, "existing", a, k)
    BY <1>1, <1>a, <1>b, <2>1, FinishType DEF StartBooking, WithKey
  <2>2. CASE Finish(h, "rejected", None, None)
    BY <1>1, <1>a, <1>b, <2>2, FinishType DEF StartBooking
  <2>3. ASSUME NEW s \in Staff, NEW v \in Services, NEW b \in Time, NEW k \in Keys,
               Continue(h, "checking", Wanted(s, v, b, k))
        PROVE ShapeOK'
    <3>1. Wanted(s, v, b, k) \in Req
      BY <1>a DEF Wanted, Req, Time
    <3>2. SessionsOK'
      BY <1>a, <2>3, <3>1, ContinueType DEF RequestPC, Modifying, Wanted
    <3>3. QED
      BY <1>1, <1>b, <3>2 DEF StartBooking
  <2>4. QED
    BY <1>1, <2>1, <2>2, <2>3 DEF StartBooking
<1>2. ASSUME NEW h \in Requests, CheckSlot(h) PROVE ShapeOK'
  BY <1>2, <1>a, <1>b, <1>c, FinishType, ContinueType
  DEF CheckSlot, RequestPC, Modifying
<1>3. ASSUME NEW h \in Requests, ResolveConflict(h) PROVE ShapeOK'
  BY <1>3, <1>a, <1>b, <1>c, FinishType
  DEF ResolveConflict, WithKey, Modifying
<1>4. ASSUME NEW h \in Requests, CommitBooking(h) PROVE ShapeOK'
  <2>1. /\ req[h] \in Req /\ req[h].staff \in Staff /\ req[h].service \in Services
        /\ req[h].key \in Keys
    BY <1>4, <1>c DEF CommitBooking, Modifying
  <2>2. ASSUME NEW a \in Appts, Finish(h, "booked", a, req[h].key),
               row' = [row EXCEPT ![a] =
                         [status |-> "BOOKED", staff |-> req[h].staff,
                          service |-> req[h].service, start |-> req[h].start,
                          key |-> req[h].key]]
        PROVE ShapeOK'
    <3>1. RowsOK'
      BY <1>a, <2>1, <2>2 DEF RowsOK, Req, Row, Status
    <3>2. SessionsOK'
      BY <1>a, <2>1, <2>2, FinishType
    <3>3. QED
      BY <1>4, <1>a, <3>1, <3>2 DEF ShapeOK, CommitBooking
  <2>3. CASE UNCHANGED row
    <3>1. SessionsOK'
      BY <1>4, <1>a, <2>1, <2>3, FinishType, ContinueType
      DEF CommitBooking, RequestPC, Modifying
    <3>2. QED
      BY <1>4, <1>b, <2>3, <3>1 DEF CommitBooking
  <2>4. QED
    BY <1>4, <2>2, <2>3 DEF CommitBooking
<1>5. ASSUME NEW h \in Requests, StartCancel(h) \/ StartReschedule(h)
      PROVE ShapeOK'
  <2>1. ASSUME NEW a \in Appts, NEW b \in Nat, row[a].status # "FREE"
        PROVE  /\ Loaded(a, b) \in Req /\ Loaded(a, b).staff \in Staff
               /\ Loaded(a, b).service \in Services /\ Loaded(a, b).appt \in Appts
    BY <2>1, <1>a, RowType DEF Loaded, Req
  <2>2. \A a \in Appts : row[a].start \in Nat
    BY <1>a DEF RowsOK, Row
  <2>3. SessionsOK'
    <3>1. CASE Finish(h, "rejected", None, None)
      BY <1>a, <3>1, FinishType
    <3>2. ASSUME NEW a \in Appts, NEW b \in Nat, row[a].status # "FREE",
                 NEW where \in {"cancelling", "rechecking"},
                 Continue(h, where, Loaded(a, b))
          PROVE SessionsOK'
      BY <1>a, <2>1, <3>2, ContinueType DEF RequestPC, Modifying
    <3>3. QED
      BY <1>5, <2>2, <3>1, <3>2 DEF StartCancel, StartReschedule, Time
  <2>4. QED
    BY <1>5, <1>b, <2>3 DEF StartCancel, StartReschedule
<1>6. ASSUME NEW h \in Requests, CommitCancel(h) PROVE ShapeOK'
  <2>1. RowsOK'
    BY <1>6, <1>a, <1>c
    DEF CommitCancel, Modifying, RowsOK, Row, Status, LoadedRowsExist
  <2>2. SessionsOK'
    BY <1>6, <1>a, FinishType DEF CommitCancel
  <2>3. QED
    BY <1>6, <1>a, <2>1, <2>2 DEF ShapeOK, CommitCancel
<1>7. ASSUME NEW h \in Requests, RecheckSlot(h) PROVE ShapeOK'
  BY <1>7, <1>a, <1>b, <1>c, FinishType, ContinueType
  DEF RecheckSlot, RequestPC, Modifying
<1>8. ASSUME NEW h \in Requests, CommitReschedule(h) PROVE ShapeOK'
  <2>1. RowsOK'
    BY <1>8, <1>a, <1>c DEF CommitReschedule, Modifying, RowsOK, Row, Status, Req
  <2>2. SessionsOK'
    BY <1>8, <1>a, FinishType DEF CommitReschedule
  <2>3. QED
    BY <1>8, <1>a, <2>1, <2>2 DEF ShapeOK, CommitReschedule
<1>9. ASSUME NEW h \in Sweepers, SweepNext(h) PROVE ShapeOK'
  <2>1. NoReq \in Req /\ [NoReq EXCEPT !.now = clock] \in Req
    BY <1>a DEF NoReq, Req
  <2>2. CASE StartSweep(h)
    BY <1>a, <2>1, <2>2, SweepType DEF StartSweep, ShapeOK, SweepPC, RowsOK
  <2>3. CASE MarkNoShow(h)
    BY <1>a, <2>3 DEF MarkNoShow, ShapeOK, RowsOK, Row, Status, SessionsOK, LoadedRowsExist
  <2>4. CASE EndSweep(h)
    BY <1>a, <1>b, <2>1, <2>4, SweepType DEF EndSweep, SweepPC
  <2>5. CASE SweepDies(h)
    BY <1>a, <2>1, <2>5, SweepType DEF SweepDies, ShapeOK, SweepPC, RowsOK
  <2>6. QED
    BY <1>9, <2>2, <2>3, <2>4, <2>5 DEF SweepNext, SweepStep
<1>10. ASSUME NEW h \in Requests, RequestDies(h) PROVE ShapeOK'
  BY <1>10, <1>a, <1>b, FinishType DEF RequestDies
<1>11. CASE Tick
  BY <1>11, <1>a DEF ShapeOK, Tick, RowsOK, SessionsOK
<1>12. CASE UNCHANGED vars
  BY <1>12, <1>a DEF ShapeOK, vars, RowsOK, SessionsOK
<1>13. QED
  BY <1>1, <1>2, <1>3, <1>4, <1>5, <1>6, <1>7, <1>8, <1>9, <1>10, <1>11, <1>12
  DEF Next, RequestNext, RequestStep

(* Each action names only rows that exist.                                 *)
LEMMA LoadedStep == TypeOK /\ [Next]_vars => LoadedRowsExist'
<1> SUFFICES ASSUME TypeOK, [Next]_vars PROVE LoadedRowsExist'
  OBVIOUS
<1>a. /\ RowsOK /\ SessionsOK /\ LoadedRowsExist
      /\ todo \in [Sweepers -> SUBSET Appts]
  BY DEF TypeOK, ShapeOK
<1>b. UNCHANGED row => \A a \in Appts : row[a].status # "FREE" => row'[a].status # "FREE"
  OBVIOUS
<1>1. ASSUME NEW h \in Requests, StartBooking(h) PROVE LoadedRowsExist'
  BY <1>1, <1>a, <1>b, LoadedFrame DEF StartBooking, Modifying
<1>2. ASSUME NEW h \in Requests, CheckSlot(h) PROVE LoadedRowsExist'
  BY <1>2, <1>a, <1>b, LoadedFrame DEF CheckSlot, Modifying
<1>3. ASSUME NEW h \in Requests, ResolveConflict(h) PROVE LoadedRowsExist'
  BY <1>3, <1>a, <1>b, LoadedFrame DEF ResolveConflict, Modifying
<1>4. ASSUME NEW h \in Requests, CommitBooking(h) PROVE LoadedRowsExist'
  <2>1. \A a \in Appts : row[a].status # "FREE" => row'[a].status # "FREE"
    BY <1>4, <1>a DEF CommitBooking, RowsOK
  <2>2. \/ \E kind, a, k : Finish(h, kind, a, k)
        \/ Continue(h, "conflict", req[h])
    BY <1>4 DEF CommitBooking
  <2>3. QED
    BY <1>4, <1>a, <2>1, <2>2, LoadedFrame DEF CommitBooking, Modifying
<1>5. ASSUME NEW h \in Requests, StartCancel(h) \/ StartReschedule(h)
      PROVE LoadedRowsExist'
  <2>1. /\ UNCHANGED <<row, todo>>
        /\ \/ \E kind, a, k : Finish(h, kind, a, k)
           \/ \E a \in Appts, b \in Time, where \in Modifying :
                 row[a].status # "FREE" /\ Continue(h, where, Loaded(a, b))
           \/ \E a \in Appts, where \in Modifying :
                 row[a].status # "FREE" /\ Continue(h, where, Loaded(a, row[a].start))
    BY <1>5 DEF StartCancel, StartReschedule, Modifying
  <2>2. \A a, b : Loaded(a, b).appt = a
    BY DEF Loaded
  <2>3. QED
    BY <1>a, <1>b, <2>1, <2>2, LoadedFrame
<1>6. ASSUME NEW h \in Requests, CommitCancel(h) PROVE LoadedRowsExist'
  <2>1. \A a \in Appts : row[a].status # "FREE" => row'[a].status # "FREE"
    BY <1>6, <1>a DEF CommitCancel, RowsOK, Row
  <2>2. QED
    BY <1>6, <1>a, <2>1, LoadedFrame DEF CommitCancel
<1>7. ASSUME NEW h \in Requests, RecheckSlot(h) PROVE LoadedRowsExist'
  <2>1. req[h].appt \in Appts /\ row[req[h].appt].status # "FREE"
    BY <1>7, <1>a DEF RecheckSlot, SessionsOK, LoadedRowsExist, Modifying
  <2>2. QED
    BY <1>7, <1>a, <1>b, <2>1, LoadedFrame DEF RecheckSlot
<1>8. ASSUME NEW h \in Requests, CommitReschedule(h) PROVE LoadedRowsExist'
  <2>1. \A a \in Appts : row[a].status # "FREE" => row'[a].status # "FREE"
    BY <1>8, <1>a DEF CommitReschedule, RowsOK, Row
  <2>2. QED
    BY <1>8, <1>a, <2>1, LoadedFrame DEF CommitReschedule
<1>9. ASSUME NEW h \in Requests, RequestDies(h) PROVE LoadedRowsExist'
  BY <1>9, <1>a, <1>b, LoadedFrame DEF RequestDies
<1>10. ASSUME NEW h \in Sweepers, SweepNext(h) PROVE LoadedRowsExist'
  <2>1. /\ \A g \in Requests : pc'[g] = pc[g] /\ req'[g] = req[g]
        /\ \A a \in Appts : row[a].status # "FREE" => row'[a].status # "FREE"
    BY <1>10, <1>a, BookingConstants
    DEF SweepNext, SweepStep, StartSweep, MarkNoShow, EndSweep, SweepDies,
        SessionsOK, RowsOK, Row, Handlers
  <2>2. \A g \in Sweepers : \A a \in todo'[g] : a \in Appts /\ row[a].status # "FREE"
    BY <1>10, <1>a
    DEF SweepNext, SweepStep, StartSweep, MarkNoShow, EndSweep, SweepDies,
        LoadedRowsExist, IsNoShow, Booked
  <2>3. QED
    BY <1>a, <2>1, <2>2 DEF LoadedRowsExist, SessionsOK
<1>11. CASE Tick
  BY <1>11, <1>a DEF Tick, LoadedRowsExist
<1>12. CASE UNCHANGED vars
  BY <1>12, <1>a DEF vars, LoadedRowsExist
<1>13. QED
  BY <1>1, <1>2, <1>3, <1>4, <1>5, <1>6, <1>7, <1>8, <1>9, <1>10, <1>11, <1>12
  DEF Next, RequestNext, RequestStep

(* Every reachable state is well typed.                                    *)
THEOREM TypeCorrect == Spec => []TypeOK
<1>1. Init => TypeOK
  BY BookingConstants
  DEF Init, TypeOK, ShapeOK, RowsOK, SessionsOK, LoadedRowsExist, NoRow, Row, Status,
      NoReq, Req, Say, Answer, Handlers, RequestPC, SweepPC, Modifying
<1>2. TypeOK /\ [Next]_vars => TypeOK'
  BY ShapeStep, LoadedStep DEF TypeOK
<1>3. QED
  BY <1>1, <1>2, PTL DEF Spec

-----------------------------------------------------------------------------
(* Timing: requests are early, sweeps are late, so that no appointment is  *)
(* ever in the hands of both.                                              *)

(* The effect on the sessions of a request that ends, or goes on.          *)
LEMMA FinishEffect ==
  ASSUME SessionsOK, NEW h \in Requests, NEW kind, NEW a, NEW k,
         Finish(h, kind, a, k)
  PROVE  /\ pc'[h] = "idle"
         /\ \A g \in Handlers \ {h} : pc'[g] = pc[g] /\ req'[g] = req[g]
  BY DEF SessionsOK, Finish, Handlers

LEMMA ContinueEffect ==
  ASSUME SessionsOK, NEW h \in Requests, NEW where, NEW r, Continue(h, where, r)
  PROVE  /\ pc'[h] = where /\ req'[h] = r
         /\ \A g \in Handlers \ {h} : pc'[g] = pc[g] /\ req'[g] = req[g]
  BY DEF SessionsOK, Continue, Handlers

(* What a sweep's step does to the requests: nothing.                      *)
LEMMA SweepEffect ==
  ASSUME SessionsOK, NEW h \in Sweepers, SweepNext(h)
  PROVE  /\ \A g \in Requests : pc'[g] = pc[g] /\ req'[g] = req[g]
         /\ UNCHANGED <<clock, answer>>
  BY BookingConstants
  DEF SessionsOK, SweepNext, SweepStep, StartSweep, MarkNoShow, EndSweep, SweepDies,
      Handlers

(* No step makes a request outstay its time.                               *)
LEMMA InTimeStep ==
  ASSUME TypeOK, RequestsInTime, [Next]_vars
  PROVE  RequestsInTime'
<1>a. /\ SessionsOK /\ clock \in Nat /\ MaxRequestTicks \in Nat
      /\ \A h \in Requests : pc[h] # "idle" => req[h].now \in Nat
  BY HeldType, BookingConstants DEF TypeOK, ShapeOK
<1>1. ASSUME NEW h \in Requests, RequestNext(h), UNCHANGED clock
      PROVE  RequestsInTime'
  <2>1. CASE \E kind, a, k : Finish(h, kind, a, k)
    BY <1>1, <1>a, <2>1, FinishEffect DEF RequestsInTime, Handlers
  <2>2. ASSUME NEW where, NEW r, Continue(h, where, r),
               r.now = clock \/ (pc[h] # "idle" /\ r = req[h])
        PROVE  RequestsInTime'
    BY <1>1, <1>a, <2>2, ContinueEffect DEF RequestsInTime, Handlers
  <2>3. \/ \E kind, a, k : Finish(h, kind, a, k)
        \/ \E where : pc[h] # "idle" /\ Continue(h, where, req[h])
        \/ \E where, s, v, b, k : Continue(h, where, Wanted(s, v, b, k))
        \/ \E where, a, b : Continue(h, where, Loaded(a, b))
    BY <1>1
    DEF RequestNext, RequestStep, StartBooking, CheckSlot, CommitBooking,
        ResolveConflict, StartCancel, CommitCancel, StartReschedule, RecheckSlot,
        CommitReschedule, RequestDies
  <2>4. /\ \A s, v, b, k : Wanted(s, v, b, k).now = clock
        /\ \A a, b : Loaded(a, b).now = clock
    BY DEF Wanted, Loaded
  <2>5. QED
    BY <2>1, <2>2, <2>3, <2>4
<1>2. ASSUME NEW h \in Requests, RequestNext(h) PROVE UNCHANGED clock
  BY <1>2
  DEF RequestNext, RequestStep, StartBooking, CheckSlot, CommitBooking,
      ResolveConflict, StartCancel, CommitCancel, StartReschedule, RecheckSlot,
      CommitReschedule, RequestDies
<1>3. ASSUME NEW h \in Sweepers, SweepNext(h) PROVE RequestsInTime'
  BY <1>3, <1>a, SweepEffect DEF RequestsInTime
<1>4. CASE Tick
  BY <1>4, <1>a DEF Tick, RequestsInTime
<1>5. CASE UNCHANGED vars
  BY <1>5 DEF vars, RequestsInTime
<1>6. QED
  BY <1>1, <1>2, <1>3, <1>4, <1>5 DEF Next

(* An appointment a request may still modify is not one a sweep has loaded *)
(* as overdue.                                                             *)
LEMMA EarlyIsNotLate ==
  ASSUME TypeOK, Timing, NEW h \in Requests, pc[h] \in Modifying,
         NEW g \in Sweepers
  PROVE  req[h].appt \notin todo[g] \/ pc[g] # "sweeping"
<1> SUFFICES ASSUME req[h].appt \in todo[g], pc[g] = "sweeping" PROVE FALSE
  OBVIOUS
<1> DEFINE a == req[h].appt
<1>1. /\ req[h].now \in Nat /\ req[g].now \in Nat /\ clock \in Nat
      /\ MaxRequestTicks \in Nat /\ Grace \in Nat
  BY HeldType, BookingConstants
  DEF TypeOK, ShapeOK, SessionsOK, Handlers, Req, Modifying
<1>2. a \in Appts /\ End(a) \in Nat
  BY HeldType, RowType DEF TypeOK, ShapeOK, LoadedRowsExist, Modifying
<1>3. clock =< req[h].now + MaxRequestTicks
  BY DEF Timing, RequestsInTime, Modifying
<1>4. req[h].now + MaxRequestTicks =< End(a) + Grace
  BY DEF Timing, ModifiersAreEarly, Early
<1>5. req[g].now > End(a) + Grace /\ req[g].now =< clock
  BY DEF Timing, SweepsAreLate
<1> HIDE DEF a
<1>6. QED
  BY <1>1, <1>2, <1>3, <1>4, <1>5

(* A row that a step leaves in its slot, with a status a request may find, *)
(* leaves the request early.                                               *)
LEMMA EarlyFrame ==
  ASSUME TypeOK, Timing, NEW h \in Requests, pc[h] \in Modifying,
         pc'[h] = pc[h], req'[h] = req[h],
         row'[req[h].appt].status \in {"BOOKED", "CANCELLED"},
         row'[req[h].appt].staff = row[req[h].appt].staff,
         row'[req[h].appt].service = row[req[h].appt].service,
         \/ row'[req[h].appt].start = row[req[h].appt].start
         \/ req[h].now + MaxRequestTicks =<
              row'[req[h].appt].start + Duration[row[req[h].appt].service] + Grace
  PROVE  Early(h)'
  BY DEF Timing, ModifiersAreEarly, Early, End

(* No step makes a request late.                                           *)
LEMMA EarlyStep ==
  ASSUME TypeOK, Timing, [Next]_vars
  PROVE  ModifiersAreEarly'
<1>a. /\ RowsOK /\ SessionsOK /\ LoadedRowsExist /\ clock \in Nat
      /\ todo \in [Sweepers -> SUBSET Appts]
      /\ MaxRequestTicks \in Nat /\ Grace \in Nat /\ Notice \in Nat
      /\ BookingNotice \in Nat
  BY BookingConstants DEF TypeOK, ShapeOK
<1>b. ASSUME NEW h \in Requests, pc[h] \in Modifying
      PROVE  /\ req[h].appt \in Appts
             /\ row[req[h].appt].status \in {"BOOKED", "CANCELLED"}
             /\ req[h].now \in Nat
  BY <1>a, <1>b, HeldType DEF Timing, ModifiersAreEarly, Early, Modifying
(* All sessions but h stay, and so do the rows.                            *)
<1>c. ASSUME NEW h \in Requests, UNCHANGED row,
             \A g \in Handlers \ {h} : pc'[g] = pc[g] /\ req'[g] = req[g],
             pc'[h] \in Modifying =>
               Early(h)'
      PROVE  ModifiersAreEarly'
  BY <1>c DEF Timing, ModifiersAreEarly, Early, Handlers, End
<1>1. ASSUME NEW h \in Requests, \E kind, a, k : Finish(h, kind, a, k), UNCHANGED row
      PROVE  ModifiersAreEarly'
  BY <1>1, <1>a, <1>c, FinishEffect DEF Modifying
<1>2. ASSUME NEW h \in Requests, NEW where \in {"checking", "inserting", "conflict"},
             NEW r, Continue(h, where, r), UNCHANGED row
      PROVE  ModifiersAreEarly'
  BY <1>2, <1>a, <1>c, ContinueEffect DEF Modifying
<1>3. ASSUME NEW h \in Requests, NEW a \in Appts, NEW b,
             NEW where \in {"cancelling", "rechecking"},
             CanModify(a, clock), Continue(h, where, Loaded(a, b)), UNCHANGED row
      PROVE  ModifiersAreEarly'
  <2>1. /\ Loaded(a, b).appt = a /\ Loaded(a, b).now = clock
        /\ Loaded(a, b).staff = row[a].staff
        /\ Loaded(a, b).service = row[a].service
    BY DEF Loaded
  <2>2. row[a].status = "BOOKED" /\ clock + Notice =< row[a].start
    BY <1>3 DEF CanModify, Booked
  <2>3. /\ row[a].start \in Nat /\ row[a].service \in Services
        /\ Duration[row[a].service] \in Nat
    BY <1>a, <2>2, RowType
  <2>4. clock + MaxRequestTicks =< End(a) + Grace
    BY <1>a, <2>2, <2>3, RequestsAreShort DEF End
  <2>5. /\ pc'[h] = where /\ req'[h] = Loaded(a, b)
        /\ \A g \in Handlers \ {h} : pc'[g] = pc[g] /\ req'[g] = req[g]
    BY <1>3, <1>a, ContinueEffect
  <2>6. QED
    BY <1>3, <1>c, <2>1, <2>2, <2>4, <2>5 DEF Early, End
<1>4. ASSUME NEW h \in Requests, pc[h] = "rechecking",
             IsSlotAvailable(req[h].staff, req[h].service, req[h].start,
                             req[h].now, req[h].appt),
             Continue(h, "moving", req[h]), UNCHANGED row
      PROVE  ModifiersAreEarly'
  <2>1. req[h].now + BookingNotice =< req[h].start
    BY <1>4 DEF IsSlotAvailable
  <2>2. /\ pc'[h] = "moving" /\ req'[h] = req[h]
        /\ \A g \in Handlers \ {h} : pc'[g] = pc[g] /\ req'[g] = req[g]
    BY <1>4, <1>a, ContinueEffect
  <2>3. QED
    BY <1>4, <1>c, <2>1, <2>2 DEF Timing, ModifiersAreEarly, Early, End, Modifying
<1>5. ASSUME NEW h \in Requests, CommitBooking(h) PROVE ModifiersAreEarly'
  <2>1. CASE UNCHANGED row
    BY <1>5, <1>1, <1>2, <2>1 DEF CommitBooking
  <2>2. ASSUME NEW a \in Appts, NEW x, row[a].status = "FREE",
               row' = [row EXCEPT ![a] = x],
               Finish(h, "booked", a, req[h].key)
        PROVE  ModifiersAreEarly'
    <3> SUFFICES ASSUME NEW g \in Requests, pc'[g] \in Modifying
                 PROVE  /\ g # h /\ pc'[g] = pc[g] /\ req'[g] = req[g]
                        /\ row'[req[g].appt] = row[req[g].appt]
                        /\ pc[g] \in Modifying
      BY <1>b, EarlyFrame DEF ModifiersAreEarly
    <3>1. g # h /\ pc'[g] = pc[g] /\ req'[g] = req[g]
      BY <1>a, <2>2, FinishEffect DEF Modifying, Handlers
    <3>2. QED
      BY <1>a, <1>b, <2>2, <3>1 DEF RowsOK
  <2>3. QED
    BY <1>5, <2>1, <2>2 DEF CommitBooking
<1>6. ASSUME NEW h \in Requests, CommitCancel(h) PROVE ModifiersAreEarly'
  <2> SUFFICES ASSUME NEW g \in Requests, pc'[g] \in Modifying
               PROVE  /\ pc'[g] = pc[g] /\ req'[g] = req[g] /\ pc[g] \in Modifying
                      /\ row'[req[g].appt].status \in {"BOOKED", "CANCELLED"}
                      /\ row'[req[g].appt].staff = row[req[g].appt].staff
                      /\ row'[req[g].appt].service = row[req[g].appt].service
                      /\ row'[req[g].appt].start = row[req[g].appt].start
    BY <1>b, EarlyFrame DEF ModifiersAreEarly
  <2>1. g # h /\ pc'[g] = pc[g] /\ req'[g] = req[g]
    BY <1>6, <1>a, FinishEffect DEF CommitCancel, Modifying, Handlers
  <2>2. QED
    BY <1>6, <1>a, <1>b, <2>1 DEF CommitCancel, RowsOK, Row
<1>7. ASSUME NEW h \in Requests, CommitReschedule(h) PROVE ModifiersAreEarly'
  <2> DEFINE m == req[h].appt
  <2>1. /\ pc[h] \in Modifying /\ m \in Appts /\ req[h].start \in Nat
        /\ req[h].now \in Nat
        /\ row[m].status # "FREE" /\ Duration[row[m].service] \in Nat
        /\ row[m].service \in Services
    BY <1>7, <1>a, HeldType, RowType DEF CommitReschedule, Modifying, LoadedRowsExist
  <2>2. req[h].now + BookingNotice =< req[h].start
    BY <1>7, <2>1 DEF CommitReschedule, Timing, ModifiersAreEarly, Early
  <2>3. clock =< req[h].now + MaxRequestTicks
    BY <2>1 DEF Timing, RequestsInTime, Modifying
  <2>4. \/ UNCHANGED row
        \/ row' = [row EXCEPT ![m].start = req[h].start]
    BY <1>7 DEF CommitReschedule
  <2> HIDE DEF m
  <2> SUFFICES ASSUME NEW g \in Requests, pc'[g] \in Modifying
               PROVE  /\ pc'[g] = pc[g] /\ req'[g] = req[g] /\ pc[g] \in Modifying
                      /\ row'[req[g].appt].status \in {"BOOKED", "CANCELLED"}
                      /\ row'[req[g].appt].staff = row[req[g].appt].staff
                      /\ row'[req[g].appt].service = row[req[g].appt].service
                      /\ \/ row'[req[g].appt].start = row[req[g].appt].start
                         \/ req[g].now + MaxRequestTicks =<
                              row'[req[g].appt].start
                                + Duration[row[req[g].appt].service] + Grace
    BY <1>b, EarlyFrame DEF ModifiersAreEarly
  <2>5. g # h /\ pc'[g] = pc[g] /\ req'[g] = req[g]
    BY <1>7, <1>a, FinishEffect DEF CommitReschedule, Modifying, Handlers
  <2>6. /\ row'[req[g].appt].status = row[req[g].appt].status
        /\ row'[req[g].appt].staff = row[req[g].appt].staff
        /\ row'[req[g].appt].service = row[req[g].appt].service
        /\ \/ row'[req[g].appt].start = row[req[g].appt].start
           \/ req[g].appt = m /\ row'[m].start = req[h].start
    BY <1>a, <1>b, <2>1, <2>4, <2>5 DEF RowsOK, Row
  <2>7. req[g].now + MaxRequestTicks =< req[h].start + Duration[row[m].service] + Grace
    <3>1. req[g].now =< clock /\ req[g].now \in Nat
      BY <1>b, <2>5 DEF Timing, RequestsInTime, Modifying
    <3>2. 2 * MaxRequestTicks =< BookingNotice + Duration[row[m].service] + Grace
      BY <2>1, RequestsAreShort
    <3>3. QED
      BY <1>a, <2>1, <2>2, <2>3, <3>1, <3>2
  <2>8. QED
    BY <1>b, <2>5, <2>6, <2>7
<1>8. ASSUME NEW h \in Sweepers, SweepNext(h) PROVE ModifiersAreEarly'
  <2> SUFFICES ASSUME NEW g \in Requests, pc[g] \in Modifying
               PROVE  row'[req[g].appt] = row[req[g].appt]
    BY <1>8, <1>a, <1>b, SweepEffect, EarlyFrame DEF ModifiersAreEarly
  <2>1. ASSUME NEW a \in todo[h], MarkNoShow(h)
        PROVE  req[g].appt # a
    BY <1>a, <2>1, EarlyIsNotLate DEF MarkNoShow
  <2>2. QED
    BY <1>8, <1>a, <1>b, <2>1
    DEF SweepNext, SweepStep, StartSweep, MarkNoShow, EndSweep, SweepDies, RowsOK
<1>9. CASE Tick \/ UNCHANGED vars
  BY <1>9 DEF Tick, vars, Timing, ModifiersAreEarly, Early, End
<1>10. QED
  <2>1. ASSUME NEW h \in Requests, RequestNext(h) PROVE ModifiersAreEarly'
    <3>1. CASE UNCHANGED row /\ \E kind, a, k : Finish(h, kind, a, k)
      BY <1>1, <3>1
    <3>2. CASE StartBooking(h) \/ CheckSlot(h) \/ ResolveConflict(h) \/ RequestDies(h)
      BY <1>1, <1>2, <3>2 DEF StartBooking, CheckSlot, ResolveConflict, RequestDies
    <3>3. CASE StartCancel(h) \/ StartReschedule(h)
      BY <1>1, <1>3, <3>3 DEF StartCancel, StartReschedule
    <3>4. CASE RecheckSlot(h)
      BY <1>1, <1>4, <3>4 DEF RecheckSlot
    <3>5. QED
      BY <2>1, <1>5, <1>6, <1>7, <3>2, <3>3, <3>4 DEF RequestNext, RequestStep
  <2>2. QED
    BY <2>1, <1>8, <1>9 DEF Next

(* What a request's step does to a row a sweep has loaded: nothing.        *)
LEMMA RequestSpares ==
  ASSUME TypeOK, Timing, NEW h \in Requests, RequestNext(h),
         NEW g \in Sweepers, pc[g] = "sweeping", NEW a \in todo[g]
  PROVE  row'[a] = row[a]
<1>a. /\ a \in Appts /\ row[a].status # "FREE" /\ RowsOK
  BY DEF TypeOK, ShapeOK, LoadedRowsExist
<1>1. CASE UNCHANGED row
  BY <1>1
<1>2. CASE CommitBooking(h)
  BY <1>2, <1>a DEF CommitBooking, RowsOK
<1>3. CASE CommitCancel(h) \/ CommitReschedule(h)
  <2>1. req[h].appt # a
    BY <1>3, EarlyIsNotLate DEF CommitCancel, CommitReschedule, Modifying
  <2>2. QED
    BY <1>3, <1>a, <2>1 DEF CommitCancel, CommitReschedule, RowsOK
<1>4. QED
  BY <1>1, <1>2, <1>3
  DEF RequestNext, RequestStep, StartBooking, CheckSlot, ResolveConflict,
      StartCancel, StartReschedule, RecheckSlot, RequestDies

(* A request's step leaves the sweeps alone.                               *)
LEMMA RequestEffect ==
  ASSUME SessionsOK, NEW h \in Requests, RequestNext(h)
  PROVE  /\ \A g \in Sweepers : pc'[g] = pc[g] /\ req'[g] = req[g]
         /\ UNCHANGED <<clock, todo, recovery>>
<1>1. /\ UNCHANGED <<clock, todo, recovery>>
      /\ \/ \E kind, a, k : Finish(h, kind, a, k)
         \/ \E where, r : Continue(h, where, r)
  BY DEF RequestNext, RequestStep, StartBooking, CheckSlot, CommitBooking,
      ResolveConflict, StartCancel, CommitCancel, StartReschedule, RecheckSlot,
      CommitReschedule, RequestDies
<1>2. QED
  BY <1>1, FinishEffect, ContinueEffect, BookingConstants DEF Handlers

(* No step makes a sweep early.                                            *)
LEMMA LateStep ==
  ASSUME TypeOK, Timing, [Next]_vars
  PROVE  SweepsAreLate'
<1>a. /\ RowsOK /\ SessionsOK /\ LoadedRowsExist /\ clock \in Nat
      /\ todo \in [Sweepers -> SUBSET Appts]
      /\ \A g \in Sweepers : req[g].now \in Nat
  BY DEF TypeOK, ShapeOK, SessionsOK, Handlers, Req
<1>1. ASSUME NEW h \in Requests, RequestNext(h) PROVE SweepsAreLate'
  BY <1>1, <1>a, RequestSpares, RequestEffect
  DEF Timing, SweepsAreLate, End
<1>2. ASSUME NEW h \in Sweepers, SweepNext(h) PROVE SweepsAreLate'
  <2>1. CASE StartSweep(h)
    <3>1. /\ pc'[h] = "sweeping" /\ req'[h].now = clock /\ UNCHANGED <<row, clock>>
          /\ \A a \in todo'[h] : Booked(a) /\ clock > End(a) + Grace
          /\ \A g \in Sweepers \ {h} :
               pc'[g] = pc[g] /\ req'[g] = req[g] /\ todo'[g] = todo[g]
      BY <1>a, <2>1 DEF StartSweep, IsNoShow, SessionsOK, Handlers, NoReq
    <3>2. QED
      BY <1>a, <3>1 DEF Timing, SweepsAreLate, Booked, End
  <2>2. CASE MarkNoShow(h)
    <3>1. /\ UNCHANGED <<pc, req, clock>>
          /\ \A g \in Sweepers : todo'[g] \subseteq todo[g]
          /\ \A a \in Appts : /\ row'[a].status \in {row[a].status, "NO_SHOW"}
                              /\ row'[a].start = row[a].start
                              /\ row'[a].service = row[a].service
      BY <1>a, <2>2 DEF MarkNoShow, RowsOK, Row
    <3>2. QED
      BY <1>a, <3>1 DEF Timing, SweepsAreLate, End
  <2>3. CASE EndSweep(h) \/ SweepDies(h)
    <3>1. /\ pc'[h] = "idle" /\ UNCHANGED <<row, clock>>
          /\ \A g \in Sweepers \ {h} :
               pc'[g] = pc[g] /\ req'[g] = req[g] /\ todo'[g] = todo[g]
      BY <1>a, <2>3 DEF EndSweep, SweepDies, SessionsOK, Handlers
    <3>2. QED
      BY <1>a, <3>1 DEF Timing, SweepsAreLate, End
  <2>4. QED
    BY <1>2, <2>1, <2>2, <2>3 DEF SweepNext, SweepStep
<1>3. CASE Tick \/ UNCHANGED vars
  BY <1>3, <1>a DEF Tick, vars, Timing, SweepsAreLate, End
<1>4. QED
  BY <1>1, <1>2, <1>3 DEF Next

(* Every reachable state is well typed and well timed.                     *)
THEOREM TimingCorrect == Spec => [](TypeOK /\ Timing)
<1>1. Init => Timing
  BY BookingConstants
  DEF Init, Timing, RequestsInTime, ModifiersAreEarly, SweepsAreLate, Handlers,
      Modifying
<1>2. TypeOK /\ Timing /\ [Next]_vars => Timing'
  BY InTimeStep, EarlyStep, LateStep DEF Timing
<1>3. QED
  BY <1>1, <1>2, TypeCorrect, PTL DEF Spec

-----------------------------------------------------------------------------
(* Status and no-shows.                                                    *)

(* An appointment that has left BOOKED keeps its status for ever.          *)
LEMMA StatusStep ==
  ASSUME TypeOK, Timing, [Next]_vars, NEW a \in Appts,
         row[a].status \notin {"FREE", "BOOKED"}
  PROVE  row'[a].status = row[a].status
<1>a. RowsOK /\ SessionsOK /\ todo \in [Sweepers -> SUBSET Appts]
  BY DEF TypeOK, ShapeOK
<1>1. CASE UNCHANGED row
  BY <1>1
<1>2. ASSUME NEW h \in Requests, CommitBooking(h) PROVE row'[a].status = row[a].status
  BY <1>2, <1>a DEF CommitBooking, RowsOK
<1>3. ASSUME NEW h \in Requests, CommitCancel(h) PROVE row'[a].status = row[a].status
  <2>1. row[req[h].appt].status \in {"BOOKED", "CANCELLED"}
    BY <1>3 DEF CommitCancel, Timing, ModifiersAreEarly, Early, Modifying
  <2>2. QED
    BY <1>3, <1>a, <2>1 DEF CommitCancel, RowsOK, Row
<1>4. ASSUME NEW h \in Requests, CommitReschedule(h)
      PROVE  row'[a].status = row[a].status
  BY <1>4, <1>a DEF CommitReschedule, RowsOK, Row
<1>5. ASSUME NEW h \in Sweepers, MarkNoShow(h) PROVE row'[a].status = row[a].status
  <2>1. \A b \in todo[h] : row[b].status \in {"BOOKED", "NO_SHOW"}
    BY <1>5 DEF MarkNoShow, Timing, SweepsAreLate
  <2>2. QED
    BY <1>5, <1>a, <2>1 DEF MarkNoShow, RowsOK, Row
<1>6. QED
  BY <1>1, <1>2, <1>3, <1>4, <1>5
  DEF Next, RequestNext, RequestStep, StartBooking, CheckSlot, ResolveConflict,
      StartCancel, StartReschedule, RecheckSlot, RequestDies, SweepNext, SweepStep,
      StartSweep, EndSweep, SweepDies, Tick, vars

(* Neither a canceller with a stale row nor a sweep overwrites a status    *)
(* that is final (appointments.py:65, jobs.py:124).                        *)
THEOREM StatusFinality == Spec => StatusIsFinal
<1>1. TypeOK /\ Timing /\ [Next]_vars =>
        [\A a \in Appts : row[a].status \notin {"FREE", "BOOKED"} =>
           row'[a].status = row[a].status]_vars
  BY StatusStep
<1>2. QED
  BY <1>1, TimingCorrect, PTL DEF Spec, StatusIsFinal

(* A no-show was missed, wherever requests moved it while the sweep ran    *)
(* (noshow.py:14-24, jobs.py:119-134).                                     *)
THEOREM NoShowCorrect == Spec => []NoShowWasMissed
<1>1. Init => NoShowWasMissed
  BY DEF Init, NoShowWasMissed, NoRow
<1>2. ASSUME TypeOK, Timing, NoShowWasMissed, [Next]_vars PROVE NoShowWasMissed'
  <2>a. /\ RowsOK /\ SessionsOK /\ LoadedRowsExist
        /\ todo \in [Sweepers -> SUBSET Appts] /\ clock \in Nat /\ Grace \in Nat
        /\ \A g \in Sweepers : req[g].now \in Nat
    BY <1>2, BookingConstants DEF TypeOK, ShapeOK, SessionsOK, Handlers, Req
  <2>1. CASE UNCHANGED <<row, clock>>
    BY <1>2, <2>1 DEF NoShowWasMissed, End
  <2>2. ASSUME NEW h \in Requests, CommitBooking(h) PROVE NoShowWasMissed'
    BY <1>2, <2>2, <2>a DEF CommitBooking, RowsOK, NoShowWasMissed, End
  <2>3. ASSUME NEW h \in Requests, CommitCancel(h) PROVE NoShowWasMissed'
    BY <1>2, <2>3, <2>a DEF CommitCancel, RowsOK, Row, NoShowWasMissed, End
  <2>4. ASSUME NEW h \in Requests, CommitReschedule(h) PROVE NoShowWasMissed'
    <3>1. row[req[h].appt].status # "NO_SHOW"
      BY <1>2, <2>4 DEF CommitReschedule, Timing, ModifiersAreEarly, Early, Modifying
    <3>2. QED
      BY <1>2, <2>4, <2>a, <3>1 DEF CommitReschedule, RowsOK, Row, NoShowWasMissed, End
  <2>5. ASSUME NEW h \in Sweepers, MarkNoShow(h) PROVE NoShowWasMissed'
    <3>1. \A a \in todo[h] : clock > End(a) + Grace
      <4> SUFFICES ASSUME NEW a \in todo[h] PROVE clock > End(a) + Grace
        OBVIOUS
      <4>1. req[h].now =< clock /\ req[h].now > End(a) + Grace
        BY <1>2, <2>5 DEF MarkNoShow, Timing, SweepsAreLate
      <4>2. End(a) \in Nat
        BY <2>a, RowType DEF LoadedRowsExist
      <4>3. QED
        BY <2>a, <4>1, <4>2
    <3>2. QED
      BY <1>2, <2>5, <2>a, <3>1 DEF MarkNoShow, RowsOK, Row, NoShowWasMissed, End
  <2>6. CASE Tick
    <3> SUFFICES ASSUME NEW a \in Appts, row[a].status = "NO_SHOW"
                 PROVE  clock + 1 > End(a) + Grace
      BY <2>6 DEF Tick, NoShowWasMissed, End
    <3>1. clock > End(a) + Grace /\ End(a) \in Nat
      BY <1>2, <2>a, RowType DEF NoShowWasMissed
    <3>2. QED
      BY <2>a, <3>1
  <2>7. QED
    BY <1>2, <2>1, <2>2, <2>3, <2>4, <2>5, <2>6
    DEF Next, RequestNext, RequestStep, StartBooking, CheckSlot, ResolveConflict,
        StartCancel, StartReschedule, RecheckSlot, RequestDies, SweepNext, SweepStep,
        StartSweep, EndSweep, SweepDies, vars
<1>3. QED
  BY <1>1, <1>2, TimingCorrect, PTL DEF Spec

-----------------------------------------------------------------------------
(* The two constraints and what they are worth to the requests.            *)

(* A step that changes the table is one of these.                          *)
LEMMA RowSteps ==
  ASSUME [Next]_vars
  PROVE  \/ UNCHANGED row
         \/ \E h \in Requests : CommitBooking(h) \/ CommitCancel(h) \/ CommitReschedule(h)
         \/ \E h \in Sweepers : MarkNoShow(h)
  BY DEF Next, RequestNext, RequestStep, StartBooking, CheckSlot, ResolveConflict,
      StartCancel, StartReschedule, RecheckSlot, RequestDies, SweepNext, SweepStep,
      StartSweep, EndSweep, SweepDies, Tick, vars

(* What a request that is about to move an appointment writes.             *)
LEMMA MoveEffect ==
  ASSUME TypeOK, Timing, NEW h \in Requests, CommitReschedule(h)
  PROVE  LET m == req[h].appt IN
         /\ m \in Appts /\ row[m].status \in {"BOOKED", "CANCELLED"}
         /\ row[m].staff \in Staff /\ row[m].service \in Services
         /\ req[h].start \in Nat
         /\ \/ UNCHANGED row
            \/ /\ row' = [row EXCEPT ![m].start = req[h].start]
               /\ Booked(m) => ExclusionHolds(m, row[m].staff, req[h].start,
                                     req[h].start + Duration[row[m].service])
<1>1. pc[h] = "moving" /\ RowsOK /\ SessionsOK /\ LoadedRowsExist /\ Early(h)
  BY DEF CommitReschedule, TypeOK, ShapeOK, Timing, ModifiersAreEarly, Modifying
<1>2. /\ req[h].appt \in Appts /\ req[h].start \in Nat
      /\ row[req[h].appt].staff \in Staff /\ row[req[h].appt].service \in Services
  BY <1>1, HeldType, RowType DEF LoadedRowsExist, Modifying
<1>3. QED
  BY <1>1, <1>2 DEF CommitReschedule, MoveFits, Early

(* No staff member is double-booked (models.py:275-284): the constraint    *)
(* judges every row that enters or moves while BOOKED, and nothing brings  *)
(* a row back to BOOKED.                                                   *)
THEOREM NoDoubleBookingCorrect == Spec => []NoDoubleBooking
<1>1. Init => NoDoubleBooking
  BY DEF Init, NoDoubleBooking, Booked, NoRow
<1>2. ASSUME TypeOK, Timing, NoDoubleBooking, [Next]_vars PROVE NoDoubleBooking'
  <2>a. RowsOK /\ SessionsOK /\ todo \in [Sweepers -> SUBSET Appts]
    BY <1>2 DEF TypeOK, ShapeOK
  <2>1. CASE UNCHANGED row
    BY <1>2, <2>1 DEF NoDoubleBooking, Booked, End
  (* One row enters or moves where the constraint lets it.                 *)
  <2>2. ASSUME NEW a \in Appts,
               \A x \in Appts \ {a} : row'[x] = row[x],
               row'[a].start \in Nat, row'[a].service \in Services,
               row'[a].status = "BOOKED" =>
                 ExclusionHolds(a, row'[a].staff, row'[a].start,
                                row'[a].start + Duration[row'[a].service])
        PROVE  NoDoubleBooking'
    BY <1>2, <2>2 DEF NoDoubleBooking, Booked, End, Overlaps, ExclusionHolds
  (* Or leaves BOOKED, or is not BOOKED at all.                            *)
  <2>3. ASSUME NEW a \in Appts,
               \A x \in Appts \ {a} : row'[x] = row[x],
               row'[a].status # "BOOKED"
        PROVE  NoDoubleBooking'
    BY <1>2, <2>3 DEF NoDoubleBooking, Booked, End
  <2>4. ASSUME NEW h \in Requests, CommitBooking(h) PROVE NoDoubleBooking'
    <3>1. /\ None \notin Appts
          /\ req[h].start \in Nat /\ req[h].service \in Services
      BY <2>4, <2>a, HeldType, BookingConstants DEF CommitBooking
    <3>2. ASSUME NEW a \in Appts, InsertFits(req[h]),
                 row' = [row EXCEPT ![a] =
                           [status |-> "BOOKED", staff |-> req[h].staff,
                            service |-> req[h].service, start |-> req[h].start,
                            key |-> req[h].key]]
          PROVE  NoDoubleBooking'
      BY <2>a, <2>2, <3>1, <3>2 DEF RowsOK, InsertFits, ExclusionHolds
    <3>3. QED
      BY <2>4, <2>1, <3>2 DEF CommitBooking
  <2>5. ASSUME NEW h \in Requests, CommitCancel(h) PROVE NoDoubleBooking'
    <3>1. req[h].appt \in Appts
      BY <2>5, <2>a, HeldType DEF CommitCancel, Modifying
    <3>2. QED
      BY <2>5, <2>a, <2>3, <3>1 DEF CommitCancel, RowsOK, Row
  <2>6. ASSUME NEW h \in Requests, CommitReschedule(h) PROVE NoDoubleBooking'
    <3> DEFINE m == req[h].appt
    <3>1. /\ m \in Appts /\ row[m].service \in Services /\ req[h].start \in Nat
          /\ \/ UNCHANGED row
             \/ /\ row' = [row EXCEPT ![m].start = req[h].start]
                /\ Booked(m) => ExclusionHolds(m, row[m].staff, req[h].start,
                                      req[h].start + Duration[row[m].service])
      BY <1>2, <2>6, MoveEffect
    <3> HIDE DEF m
    <3>2. CASE row' = [row EXCEPT ![m].start = req[h].start]
      <4>1. /\ \A x \in Appts \ {m} : row'[x] = row[x]
            /\ row'[m].start = req[h].start /\ row'[m].status = row[m].status
            /\ row'[m].staff = row[m].staff /\ row'[m].service = row[m].service
        BY <2>a, <3>1, <3>2 DEF RowsOK, Row
      <4>2. QED
        BY <2>1, <2>2, <3>1, <4>1 DEF Booked
    <3>3. QED
      BY <2>1, <3>1, <3>2
  <2>7. ASSUME NEW h \in Sweepers, MarkNoShow(h) PROVE NoDoubleBooking'
    BY <2>a, <2>7, <2>3 DEF MarkNoShow, RowsOK, Row
  <2>8. QED
    BY <1>2, <2>1, <2>4, <2>5, <2>6, <2>7, RowSteps
<1>3. QED
  BY <1>1, <1>2, TimingCorrect, PTL DEF Spec

(* A key names one appointment, and every request answered under it was    *)
(* given that one (booking.py:77-81, 111-133).                             *)
THEOREM IdempotencyCorrect == Spec => []OneAppointmentPerKey
<1>1. Init => OneAppointmentPerKey
  BY DEF Init, OneAppointmentPerKey, WithKey, NoRow, Say
<1>2. ASSUME TypeOK, Timing, OneAppointmentPerKey, [Next]_vars
      PROVE  OneAppointmentPerKey'
  <2>a. RowsOK /\ SessionsOK /\ todo \in [Sweepers -> SUBSET Appts]
    BY <1>2 DEF TypeOK, ShapeOK
  (* The keys of the occupied rows never change, and a new row brings a    *)
  (* key that nobody has.                                                  *)
  <2>1. \/ \A k : WithKey(k)' = WithKey(k)
        \/ \E h \in Requests, a \in Appts :
             /\ pc[h] = "inserting" /\ Finish(h, "booked", a, req[h].key)
             /\ WithKey(req[h].key) = {}
             /\ \A k : WithKey(k)' = IF k = req[h].key THEN {a} ELSE WithKey(k)
    <3>1. CASE UNCHANGED row
      BY <3>1 DEF WithKey
    <3>2. ASSUME NEW h \in Requests, CommitBooking(h), ~ UNCHANGED row
          PROVE  \E a \in Appts :
                   /\ pc[h] = "inserting" /\ Finish(h, "booked", a, req[h].key)
                   /\ WithKey(req[h].key) = {}
                   /\ \A k : WithKey(k)' = IF k = req[h].key THEN {a} ELSE WithKey(k)
      BY <3>2, <2>a DEF CommitBooking, WithKey, RowsOK
    <3>3. ASSUME NEW h \in Requests, CommitCancel(h) \/ CommitReschedule(h)
          PROVE  \A k : WithKey(k)' = WithKey(k)
      <4>1. req[h].appt \in Appts /\ row[req[h].appt].status # "FREE"
        BY <1>2, <2>a, <3>3, HeldType
        DEF TypeOK, LoadedRowsExist, CommitCancel, CommitReschedule, Modifying
      <4>2. QED
        BY <2>a, <3>3, <4>1 DEF CommitCancel, CommitReschedule, WithKey, RowsOK, Row
    <3>4. ASSUME NEW h \in Sweepers, MarkNoShow(h) PROVE \A k : WithKey(k)' = WithKey(k)
      BY <1>2, <2>a, <3>4 DEF MarkNoShow, WithKey, RowsOK, Row, TypeOK, LoadedRowsExist
    <3>5. QED
      BY <1>2, <3>1, <3>2, <3>3, <3>4, RowSteps
  <2>2. \A k : WithKey(k) \subseteq WithKey(k)'
    BY <2>1
  (* Only the three ways to answer with an appointment add such an answer. *)
  <2>3. \A g \in Requests :
          \/ answer'[g] = answer[g]
          \/ answer'[g].kind \notin {"booked", "existing"}
          \/ answer'[g].appt \in WithKey(answer[g].key)'
    <3>1. CASE UNCHANGED answer
      BY <3>1
    <3>2. ASSUME NEW h \in Requests, RequestNext(h), NEW g \in Requests
          PROVE  \/ answer'[g] = answer[g]
                 \/ answer'[g].kind \notin {"booked", "existing"}
                 \/ answer'[g].appt \in WithKey(answer[g].key)'
      <4>1. \/ \E kind \in {"none", "unavailable", "rejected", "cancelled",
                            "rescheduled", "error"} : Finish(h, kind, None, None)
            \/ \E where, r : Continue(h, where, r)
            \/ \E k, a : a \in WithKey(k) /\ Finish(h, "existing", a, k)
            \/ CommitBooking(h)
        BY <3>2
        DEF RequestNext, RequestStep, StartBooking, CheckSlot, ResolveConflict,
            StartCancel, CommitCancel, StartReschedule, RecheckSlot,
            CommitReschedule, RequestDies
      <4>2. CASE \E kind \in {"none", "unavailable", "rejected", "cancelled",
                            "rescheduled", "error"} : Finish(h, kind, None, None)
        BY <2>a, <4>2 DEF Finish, Say, SessionsOK
      <4>3. CASE \E where, r : Continue(h, where, r)
        BY <2>a, <4>3 DEF Continue, Say, SessionsOK
      <4>4. CASE \E k, a : a \in WithKey(k) /\ Finish(h, "existing", a, k)
        <5>1. PICK k, a : a \in WithKey(k) /\ Finish(h, "existing", a, k)
          BY <4>4
        <5>2. answer'[h] = Say("existing", a, k)
          BY <2>a, <5>1 DEF Finish, SessionsOK
        <5>3. a \in WithKey(k)'
          BY <2>2, <5>1
        <5>4. g # h => answer'[g] = answer[g]
          BY <2>a, <5>1 DEF Finish, SessionsOK
        <5>5. answer'[h].appt \in WithKey(answer[h].key)'
          BY <5>2, <5>3 DEF Say
        <5>6. QED
          BY <5>4, <5>5
      <4>5. ASSUME NEW a \in Appts, CommitBooking(h), Finish(h, "booked", a, req[h].key),
                   row' = [row EXCEPT ![a] =
                             [status |-> "BOOKED", staff |-> req[h].staff,
                              service |-> req[h].service, start |-> req[h].start,
                              key |-> req[h].key]]
            PROVE  \/ answer'[g] = answer[g]
                   \/ answer'[g].appt \in WithKey(answer[g].key)'
        <5>1. a \in {x \in Appts : row'[x].status # "FREE" /\ row'[x].key = req[h].key}
          BY <2>a, <4>5 DEF RowsOK
        <5>2. answer'[h] = Say("booked", a, req[h].key)
          BY <2>a, <4>5 DEF Finish, SessionsOK
        <5>3. g # h => answer'[g] = answer[g]
          BY <2>a, <4>5 DEF Finish, SessionsOK
        <5>4. answer'[h].appt \in WithKey(answer[h].key)'
          BY <5>1, <5>2 DEF Say, WithKey
        <5>5. QED
          BY <5>3, <5>4
      <4>6. QED
        BY <4>1, <4>2, <4>3, <4>4, <4>5 DEF CommitBooking
    <3>3. QED
      BY <1>2, <3>1, <3>2
      DEF Next, SweepNext, SweepStep, StartSweep, MarkNoShow, EndSweep, SweepDies,
          Tick, vars
  <2>4. ASSUME NEW k \in Keys, NEW a1 \in WithKey(k)', NEW a2 \in WithKey(k)'
        PROVE  a1 = a2
    <3>1. CASE WithKey(k)' = WithKey(k)
      BY <1>2, <2>4, <3>1 DEF OneAppointmentPerKey
    <3>2. CASE \E a : WithKey(k)' = {a}
      BY <2>4, <3>2
    <3>3. QED
      BY <2>1, <3>1, <3>2
  <2>5. ASSUME NEW g \in Requests, answer'[g].kind \in {"booked", "existing"}
        PROVE  answer'[g].appt \in WithKey(answer[g].key)'
    <3>1. CASE answer'[g] = answer[g]
      BY <1>2, <2>2, <2>5, <3>1 DEF OneAppointmentPerKey
    <3>2. QED
      BY <2>3, <2>5, <3>1
  <2>6. QED
    BY <2>4, <2>5 DEF OneAppointmentPerKey
<1>3. QED
  BY <1>1, <1>2, TimingCorrect, PTL DEF Spec

-----------------------------------------------------------------------------
(* The sessions implement the atomic book.                                 *)

Held(a) == IF Booked(a) THEN [staff |-> row[a].staff, from |-> row[a].start,
                              until |-> End(a)]
           ELSE None

(* A step that changes at most row a changes nothing else in the book.     *)
LEMMA BookFrame ==
  ASSUME NEW a \in Appts, \A x \in Appts \ {a} : row'[x] = row[x]
  PROVE  /\ [x \in Appts |-> row[x].status]' =
              [[x \in Appts |-> row[x].status] EXCEPT ![a] = row'[a].status]
         /\ [x \in Appts |-> row[x].key]' =
              [[x \in Appts |-> row[x].key] EXCEPT ![a] = row'[a].key]
         /\ [x \in Appts |-> Held(x)]' =
              [[x \in Appts |-> Held(x)] EXCEPT ![a] = Held(a)']
<1>1. \A x \in Appts \ {a} : Held(x)' = Held(x)
  BY DEF Held, Booked, End
<1>2. QED
  BY <1>1

(* A row that is BOOKED after the step holds a proper slot.                *)
LEMMA HeldSlot ==
  ASSUME RowsOK, NEW a \in Appts, Booked(a)
  PROVE  /\ Held(a).staff = row[a].staff
         /\ Held(a).from = row[a].start
         /\ Held(a).until = End(a)
         /\ Held(a) \in Promise!Slot
<1>1. row[a].staff \in Staff /\ row[a].start \in Nat /\ End(a) \in Nat
  BY BookingConstants DEF RowsOK, Row, Booked, End
<1>2. QED
  BY <1>1 DEF Held, Promise!Slot

LEMMA HeldSlotNext ==
  ASSUME RowsOK', NEW a \in Appts, Booked(a)'
  PROVE  /\ Held(a).staff' = row'[a].staff
         /\ Held(a).from' = row'[a].start
         /\ Held(a).until' = End(a)'
         /\ Held(a)' \in Promise!Slot
<1>1. row'[a].staff \in Staff /\ row'[a].start \in Nat /\ End(a)' \in Nat
  BY BookingConstants DEF RowsOK, Row, Booked, End
<1>2. QED
  BY <1>1 DEF Held, Promise!Slot

(* A row that enters or moves where the constraint lets it is put in a     *)
(* free slot of the book.                                                  *)
LEMMA PutStep ==
  ASSUME RowsOK, RowsOK', NEW a \in Appts, Booked(a)',
         \A x \in Appts \ {a} : row'[x] = row[x],
         ExclusionHolds(a, row'[a].staff, row'[a].start, End(a)')
  PROVE  Promise!Put(a)
<1> DEFINE S == [x \in Appts |-> Held(x)]
<1>1. S'[a] = Held(a)'
  OBVIOUS
<1>2. S' = [S EXCEPT ![a] = S'[a]]
  BY BookFrame, <1>1
<1>3. S'[a] \in Promise!Slot
  BY HeldSlotNext, <1>1
<1>4. ASSUME NEW b \in Appts \ {a}, Booked(b) PROVE ~ Promise!Clash(S'[a], S[b])
  <2>1. row[b].staff = row'[a].staff =>
           ~ Overlaps(row[b].start, End(b), row'[a].start, End(a)')
    BY <1>4 DEF ExclusionHolds
  <2>2. S[b] = Held(b)
    BY <1>4
  <2>3. QED
    BY <1>1, <1>4, <2>1, <2>2, HeldSlot, HeldSlotNext DEF Overlaps, Promise!Clash
<1>5. Promise!FreeSlot(a, S'[a])
  BY <1>4 DEF Promise!FreeSlot, Booked, Held
<1>6. QED
  BY <1>2, <1>3, <1>5 DEF Promise!Put, Held

(* Every step of a session is one step of the book or none.                *)
LEMMA BookStep ==
  ASSUME TypeOK, TypeOK', Timing, [Next]_vars
  PROVE  [Promise!Next]_(Promise!bookVars)
<1>a. /\ RowsOK /\ RowsOK' /\ SessionsOK /\ LoadedRowsExist
      /\ todo \in [Sweepers -> SUBSET Appts] /\ None \notin Keys
  BY BookingConstants DEF TypeOK, ShapeOK
<1>1. CASE UNCHANGED <<row, clock>>
  <2>1. \A a \in Appts : Held(a)' = Held(a)
    BY <1>1 DEF Held, Booked, End
  <2>2. QED
    BY <1>1, <2>1 DEF Promise!bookVars, Held
(* What all the writes to one row have in common.                          *)
<1>2. ASSUME NEW a \in Appts, UNCHANGED clock,
             \A x \in Appts \ {a} : row'[x] = row[x],
             Promise!Reserve(a) \/ Promise!Move(a) \/ Promise!Release(a) \/ Promise!Miss(a)
      PROVE  Promise!Next
  BY <1>2 DEF Promise!Next
<1>3. ASSUME NEW h \in Requests, CommitBooking(h), row' # row
      PROVE  Promise!Next
  <2> DEFINE k == req[h].key
  <2>1. PICK a \in Appts :
          /\ InsertFits(req[h]) /\ WithKey(k) = {} /\ row[a].status = "FREE"
          /\ row' = [row EXCEPT ![a] =
                       [status |-> "BOOKED", staff |-> req[h].staff,
                        service |-> req[h].service, start |-> req[h].start,
                        key |-> k]]
    BY <1>3 DEF CommitBooking
  <2>2. k \in Keys
    BY <1>3, <1>a, HeldType DEF CommitBooking, Modifying
  <2>3. /\ \A x \in Appts \ {a} : row'[x] = row[x]
        /\ row'[a].status = "BOOKED" /\ row'[a].key = k
        /\ row'[a].staff = req[h].staff /\ row'[a].start = req[h].start
        /\ row'[a].service = req[h].service
    BY <1>a, <2>1 DEF RowsOK
  <2>4. ExclusionHolds(a, row'[a].staff, row'[a].start, End(a)')
    BY <2>1, <2>3, BookingConstants DEF InsertFits, ExclusionHolds, End
  <2>5. Promise!Put(a)
    BY <1>a, <2>3, <2>4, PutStep DEF Booked
  <2>6. \A b \in Appts : row[b].key # k
    BY <1>a, <2>1, <2>2 DEF WithKey, RowsOK
  <2> HIDE DEF k
  <2>7. Promise!Reserve(a)
    BY <1>3, <2>1, <2>2, <2>3, <2>5, <2>6, BookFrame
    DEF Promise!Reserve, CommitBooking
  <2>8. QED
    BY <1>2, <1>3, <2>3, <2>7 DEF CommitBooking
<1>4. ASSUME NEW h \in Requests, CommitCancel(h), row' # row
      PROVE  Promise!Next
  <2>1. PICK a \in Appts : /\ row[a].status \in {"BOOKED", "CANCELLED"}
                           /\ row' = [row EXCEPT ![a].status = "CANCELLED"]
    BY <1>4, <1>a, HeldType DEF CommitCancel, Modifying, Timing, ModifiersAreEarly, Early
  <2>2. row[a].status = "BOOKED"
    BY <1>4, <1>a, <2>1 DEF RowsOK, Row
  <2>3. /\ \A x \in Appts \ {a} : row'[x] = row[x]
        /\ row'[a].status = "CANCELLED" /\ row'[a].key = row[a].key
    BY <1>a, <2>1 DEF RowsOK, Row
  <2>4. Held(a)' = None
    BY <2>3 DEF Held, Booked
  <2>5. UNCHANGED [x \in Appts |-> row[x].key]
    BY <2>1, <2>3
  <2>6. Promise!Release(a)
    BY <1>4, <2>1, <2>2, <2>3, <2>4, <2>5, BookFrame
    DEF Promise!Release, CommitCancel, Held
  <2>7. QED
    BY <1>2, <1>4, <2>1, <2>3, <2>6 DEF CommitCancel
<1>5. ASSUME NEW h \in Requests, CommitReschedule(h), row' # row
      PROVE  Promise!Next \/ UNCHANGED Promise!bookVars
  <2>1. PICK a \in Appts, b \in Nat :
          /\ row[a].service \in Services
          /\ row' = [row EXCEPT ![a].start = b]
          /\ Booked(a) => ExclusionHolds(a, row[a].staff, b, b + Duration[row[a].service])
    BY <1>5, MoveEffect
  <2>2. /\ \A x \in Appts \ {a} : row'[x] = row[x]
        /\ row'[a].start = b /\ row'[a].status = row[a].status
        /\ row'[a].staff = row[a].staff /\ row'[a].service = row[a].service
        /\ row'[a].key = row[a].key
    BY <1>a, <2>1 DEF RowsOK, Row
  <2>3. UNCHANGED <<[x \in Appts |-> row[x].status], [x \in Appts |-> row[x].key]>>
    BY <2>1, <2>2
  <2>4. CASE Booked(a)
    <3>1. ExclusionHolds(a, row'[a].staff, row'[a].start, End(a)')
      BY <2>1, <2>2, <2>4 DEF End
    <3>2. Promise!Put(a)
      BY <1>a, <2>1, <2>2, <2>4, <3>1, PutStep DEF Booked
    <3>3. Held(a).staff = row[a].staff /\ Held(a)'.staff = row'[a].staff
      BY <1>a, <2>1, <2>2, <2>4, HeldSlot, HeldSlotNext DEF Booked
    <3>4. Promise!Move(a)
      BY <1>5, <2>1, <2>2, <2>3, <2>4, <3>2, <3>3
      DEF Promise!Move, CommitReschedule, Booked, Held
    <3>5. QED
      BY <1>2, <1>5, <2>1, <2>2, <3>4 DEF CommitReschedule
  <2>5. CASE ~ Booked(a)
    <3>1. \A x \in Appts : Held(x)' = Held(x)
      BY <2>2, <2>5 DEF Held, Booked, End
    <3>2. QED
      BY <1>5, <2>3, <3>1 DEF Promise!bookVars, Held, CommitReschedule
  <2>6. QED
    BY <2>4, <2>5
<1>6. ASSUME NEW h \in Sweepers, MarkNoShow(h), row' # row
      PROVE  Promise!Next
  <2>1. PICK a \in todo[h] : row' = [row EXCEPT ![a].status = "NO_SHOW"]
    BY <1>6 DEF MarkNoShow
  <2>2. /\ a \in Appts /\ row[a].status \in {"BOOKED", "NO_SHOW"}
        /\ req[h].now =< clock /\ req[h].now > End(a) + Grace
    BY <1>6, <1>a, <2>1 DEF MarkNoShow, Timing, SweepsAreLate
  <2>3. row[a].status = "BOOKED"
    BY <1>6, <1>a, <2>1, <2>2 DEF RowsOK, Row
  <2>4. /\ \A x \in Appts \ {a} : row'[x] = row[x]
        /\ row'[a].status = "NO_SHOW" /\ row'[a].key = row[a].key
    BY <1>a, <2>1, <2>2 DEF RowsOK, Row
  <2>5. Held(a)' = None
    BY <2>4 DEF Held, Booked
  <2>6. UNCHANGED [x \in Appts |-> row[x].key]
    BY <2>2, <2>4
  <2>7. clock > Held(a).until + Grace
    <3>1. /\ Held(a).until = End(a) /\ End(a) \in Nat
          /\ req[h].now \in Nat /\ clock \in Nat /\ Grace \in Nat
      BY <1>a, <2>2, <2>3, RowType, HeldSlot, BookingConstants
      DEF Booked, TypeOK, ShapeOK, SessionsOK, Handlers, Req
    <3>2. QED
      BY <2>2, <3>1
  <2>8. Promise!Miss(a)
    BY <1>6, <2>2, <2>3, <2>4, <2>5, <2>6, <2>7, BookFrame
    DEF Promise!Miss, MarkNoShow, Held
  <2>9. QED
    BY <1>2, <1>6, <2>2, <2>4, <2>8 DEF MarkNoShow
<1>7. CASE Tick
  <2>1. \A a \in Appts : Held(a)' = Held(a)
    BY <1>7 DEF Tick, Held, Booked, End
  <2>2. QED
    BY <1>7, <2>1 DEF Tick, Promise!Next, Promise!Pass, Held
<1>8. Tick \/ UNCHANGED clock
  BY DEF Next, RequestNext, RequestStep, StartBooking, CheckSlot, ResolveConflict,
      CommitBooking, CommitCancel, CommitReschedule, MarkNoShow,
      StartCancel, StartReschedule, RecheckSlot, RequestDies, SweepNext, SweepStep,
      StartSweep, EndSweep, SweepDies, vars
<1>9. QED
  BY <1>1, <1>3, <1>4, <1>5, <1>6, <1>7, <1>8, RowSteps

(* The sessions implement the atomic book of module AppointmentBook, for   *)
(* every number of appointments, requests and sweeps.                      *)
THEOREM BookImplemented == Spec => ImplementsBook
<1>1. Init => Promise!Init
  BY DEF Init, Promise!Init, NoRow, Booked
<1>2. TypeOK /\ TypeOK' /\ Timing /\ [Next]_vars => [Promise!Next]_(Promise!bookVars)
  BY BookStep
<1>3. QED
  BY <1>1, <1>2, TimingCorrect, PTL DEF Spec, ImplementsBook, Promise!Spec

-----------------------------------------------------------------------------
(* Recoveries.                                                             *)

(* The sweeps that are about to mark an appointment.                       *)
Markers(a) == {h \in Sweepers : a \in todo[h]}

(* A sweep loads only what nobody has marked, and so opens at most one     *)
(* recovery for an appointment.                                            *)
RecoveriesInv ==
  /\ \A h \in Sweepers : pc[h] = "idle" => todo[h] = {}
  /\ \A a \in Appts :
       /\ recovery[a] > 0 <=> row[a].status = "NO_SHOW"
       /\ recovery[a] + Cardinality(Markers(a)) =< Cardinality(Sweepers)

LEMMA MarkersAre ==
  ASSUME IsFiniteSet(Sweepers), NEW a
  PROVE  /\ IsFiniteSet(Markers(a)) /\ Cardinality(Markers(a)) \in Nat
         /\ Cardinality(Sweepers) \in Nat
         /\ Cardinality(Markers(a)) =< Cardinality(Sweepers)
<1>1. Markers(a) \in SUBSET Sweepers
  BY DEF Markers
<1> QED
  BY <1>1, FS_Subset, FS_CardinalityType

LEMMA MarkersAreNext ==
  ASSUME IsFiniteSet(Sweepers), NEW a
  PROVE  /\ Cardinality(Markers(a)') \in Nat
         /\ Cardinality(Markers(a)') =< Cardinality(Sweepers)
<1>1. Markers(a)' \in SUBSET Sweepers
  BY DEF Markers
<1> QED
  BY <1>1, FS_Subset, FS_CardinalityType

(* A request's step marks nobody, and takes no mark back.                  *)
LEMMA RequestsMarkNobody ==
  ASSUME TypeOK, Timing, NEW h \in Requests, RequestNext(h), NEW a \in Appts
  PROVE  row'[a].status = "NO_SHOW" <=> row[a].status = "NO_SHOW"
<1>a. RowsOK /\ SessionsOK
  BY DEF TypeOK, ShapeOK
<1>1. row[a].status = "NO_SHOW" => row'[a].status = "NO_SHOW"
  BY StatusStep DEF Next
<1>2. CASE CommitBooking(h)
  BY <1>1, <1>2, <1>a DEF CommitBooking, RowsOK
<1>3. CASE CommitCancel(h)
  BY <1>1, <1>3, <1>a DEF CommitCancel, RowsOK, Row
<1>4. CASE CommitReschedule(h)
  BY <1>1, <1>4, <1>a DEF CommitReschedule, RowsOK, Row
<1>5. CASE UNCHANGED row
  BY <1>5
<1> QED
  BY <1>2, <1>3, <1>4, <1>5
  DEF RequestNext, RequestStep, StartBooking, CheckSlot, ResolveConflict,
      StartCancel, StartReschedule, RecheckSlot, RequestDies

LEMMA RecoveriesStep ==
  ASSUME IsFiniteSet(Sweepers), TypeOK, Timing, RecoveriesInv, [Next]_vars
  PROVE  RecoveriesInv'
<1>a. /\ RowsOK /\ SessionsOK /\ recovery \in [Appts -> Nat]
      /\ todo \in [Sweepers -> SUBSET Appts] /\ pc \in [Handlers -> RequestPC \cup SweepPC]
      /\ Sweepers \subseteq Handlers
  BY DEF TypeOK, ShapeOK, SessionsOK, Handlers
<1>1. ASSUME NEW h \in Requests, RequestNext(h) PROVE RecoveriesInv'
  <2>1. /\ UNCHANGED <<todo, recovery>>
        /\ \A g \in Sweepers : pc'[g] = pc[g]
    BY <1>1, <1>a, RequestEffect
  <2>2. \A a \in Appts : row'[a].status = "NO_SHOW" <=> row[a].status = "NO_SHOW"
    BY <1>1, RequestsMarkNobody
  <2> QED
    BY <2>1, <2>2 DEF RecoveriesInv, Markers
<1>2. ASSUME NEW h \in Sweepers, StartSweep(h) PROVE RecoveriesInv'
  <2>1. /\ UNCHANGED <<row, recovery>> /\ todo[h] = {}
        /\ \A g \in Sweepers : pc'[g] = "idle" => todo'[g] = {}
    BY <1>2, <1>a DEF StartSweep, RecoveriesInv
  <2>2. ASSUME NEW a \in Appts
        PROVE  recovery[a] + Cardinality(Markers(a)') =< Cardinality(Sweepers)
    <3>1. CASE IsNoShow(a, clock)
      <4>1. recovery[a] = 0
        BY <3>1, <1>a DEF IsNoShow, Booked, RecoveriesInv
      <4> QED
        BY <4>1, MarkersAreNext, MarkersAre
    <3>2. CASE ~ IsNoShow(a, clock)
      <4>1. Markers(a)' = Markers(a)
        BY <1>2, <1>a, <2>1, <3>2 DEF StartSweep, Markers
      <4> QED
        BY <4>1 DEF RecoveriesInv
    <3> QED
      BY <3>1, <3>2
  <2> QED
    BY <2>1, <2>2 DEF RecoveriesInv
<1>3. ASSUME NEW h \in Sweepers, MarkNoShow(h) PROVE RecoveriesInv'
  <2>1. PICK m \in todo[h] : /\ row' = [row EXCEPT ![m].status = "NO_SHOW"]
                             /\ recovery' = [recovery EXCEPT ![m] = @ + 1]
                             /\ todo' = [todo EXCEPT ![h] = @ \ {m}]
    BY <1>3 DEF MarkNoShow
  <2>2. m \in Appts /\ UNCHANGED pc /\ pc[h] = "sweeping"
    BY <1>3, <1>a, <2>1 DEF MarkNoShow
  <2>3. \A g \in Sweepers : pc'[g] = "idle" => todo'[g] = {}
    BY <1>a, <2>1, <2>2 DEF RecoveriesInv
  <2>4. ASSUME NEW a \in Appts, a # m
        PROVE  /\ row'[a] = row[a] /\ recovery'[a] = recovery[a] /\ Markers(a)' = Markers(a)
    BY <1>a, <2>1, <2>2, <2>4 DEF RowsOK, Markers
  <2>5. row'[m].status = "NO_SHOW" /\ recovery'[m] = recovery[m] + 1 /\ recovery[m] \in Nat
    BY <1>a, <2>1, <2>2 DEF RowsOK, Row
  <2>6. Markers(m)' = Markers(m) \ {h} /\ h \in Markers(m)
    BY <1>3, <1>a, <2>1 DEF Markers
  <2>7. Cardinality(Markers(m)') = Cardinality(Markers(m)) - 1 /\ Cardinality(Markers(m)) \in Nat
    BY <2>6, MarkersAre, FS_RemoveElement
  <2>8. recovery'[m] + Cardinality(Markers(m)') =< Cardinality(Sweepers)
    BY <2>2, <2>5, <2>7, MarkersAre DEF RecoveriesInv
  <2>9. ASSUME NEW a \in Appts
        PROVE  /\ recovery'[a] > 0 <=> row'[a].status = "NO_SHOW"
               /\ recovery'[a] + Cardinality(Markers(a)') =< Cardinality(Sweepers)
    BY <2>4, <2>5, <2>8 DEF RecoveriesInv
  <2> QED
    BY <2>3, <2>9 DEF RecoveriesInv
<1>4. ASSUME NEW h \in Sweepers, EndSweep(h) PROVE RecoveriesInv'
  BY <1>4, <1>a DEF EndSweep, RecoveriesInv, Markers
<1>5. ASSUME NEW h \in Sweepers, SweepDies(h) PROVE RecoveriesInv'
  <2>1. /\ UNCHANGED <<row, recovery>>
        /\ \A g \in Sweepers : pc'[g] = "idle" => todo'[g] = {}
    BY <1>5, <1>a DEF SweepDies, RecoveriesInv
  <2>2. ASSUME NEW a \in Appts
        PROVE  recovery[a] + Cardinality(Markers(a)') =< Cardinality(Sweepers)
    <3>1. Markers(a)' \in SUBSET Markers(a)
      BY <1>5, <1>a DEF SweepDies, Markers
    <3>2. Cardinality(Markers(a)') =< Cardinality(Markers(a))
      BY <3>1, MarkersAre, FS_Subset
    <3> QED
      BY <1>a, <3>2, MarkersAre, MarkersAreNext DEF RecoveriesInv
  <2> QED
    BY <2>1, <2>2 DEF RecoveriesInv
<1>6. CASE Tick \/ UNCHANGED vars
  BY <1>6 DEF Tick, vars, RecoveriesInv, Markers
<1> QED
  BY <1>1, <1>2, <1>3, <1>4, <1>5, <1>6 DEF Next, SweepNext, SweepStep

(* Whatever dies or overlaps, a no-show has a recovery, nothing else has,  *)
(* and it has no more of them than there are sweeps (jobs.py:119-134).     *)
THEOREM RecoveriesBounded ==
  ASSUME IsFiniteSet(Sweepers)
  PROVE  Spec => [](\A a \in Appts : /\ recovery[a] > 0 <=> row[a].status = "NO_SHOW"
                                     /\ recovery[a] =< Cardinality(Sweepers))
<1>1. Init => RecoveriesInv
  <2> SUFFICES ASSUME Init PROVE RecoveriesInv
    OBVIOUS
  <2>1. \A h \in Sweepers : todo[h] = {}
    BY DEF Init
  <2>2. \A a \in Appts : recovery[a] = 0 /\ row[a].status = "FREE"
    BY DEF Init, NoRow
  <2> QED
    BY <2>1, <2>2, MarkersAre DEF RecoveriesInv
<1>2. TypeOK /\ Timing /\ RecoveriesInv /\ [Next]_vars => RecoveriesInv'
  BY RecoveriesStep
<1>3. TypeOK /\ RecoveriesInv =>
        \A a \in Appts : /\ recovery[a] > 0 <=> row[a].status = "NO_SHOW"
                         /\ recovery[a] =< Cardinality(Sweepers)
  BY MarkersAre DEF TypeOK, ShapeOK, RecoveriesInv
<1> QED
  BY <1>1, <1>2, <1>3, TimingCorrect, PTL DEF Spec

(* With one sweep at a time, recoveries and no-shows correspond one to one *)
(* (tests/workflow/test_jobs.py).                                          *)
THEOREM RecoveriesCorrect ==
  ASSUME IsFiniteSet(Sweepers), Cardinality(Sweepers) =< 1
  PROVE  Spec => []RecoveriesMatchNoShows
<1> DEFINE Bounded == \A a \in Appts : /\ recovery[a] > 0 <=> row[a].status = "NO_SHOW"
                                       /\ recovery[a] =< Cardinality(Sweepers)
<1>1. TypeOK /\ Bounded => RecoveriesMatchNoShows
  BY FS_CardinalityType DEF TypeOK, ShapeOK, RecoveriesMatchNoShows
<1>2. Spec => []Bounded
  BY RecoveriesBounded
<1> HIDE DEF Bounded
<1> QED
  BY <1>1, <1>2, TypeCorrect, PTL

=============================================================================
