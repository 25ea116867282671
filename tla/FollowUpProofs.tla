--------------------------- MODULE FollowUpProofs ---------------------------
(***************************************************************************)
(* Proofs about module FollowUp, for any appointments, sessions and        *)
(* workers, every lead and provider, and a calendar that may be ambiguous. *)
(***************************************************************************)
EXTENDS FollowUp, FiniteSetTheorems, TLAPS

-----------------------------------------------------------------------------
(* What is known of the requests, and of the rows they are about.          *)

(* In the second transaction a session holds the row as it has read it.    *)
Holds(h) == req[h].pc \in {"calendar", "answered", "reminder", "commit"}

Shape(h) ==
  LET r == req[h] IN
    /\ r.kind # "none" => r.appt \in Appts
    /\ (r.pc = "idle") = (r.kind = "none")
    /\ r.pc = "idle" => r.appt = None
    /\ r.pc = "loaded" => r.kind \in {"move", "cancel"}
    /\ r.pc = "refresh" => r.kind \in {"confirm", "move", "cancel"}
    /\ r.pc = "reminder" => r.kind = "move"
    /\ r.pc = "commit" => r.kind \in {"confirm", "move"}

(* A move has changed the start of what it read as BOOKED, a cancellation  *)
(* its status, and the second transaction neither.                         *)
Keeps(h) ==
  LET r == req[h] IN
    /\ r.kind # "none" => row[r.appt].status # "FREE"
    /\ r.kind = "cancel" /\ r.pc # "loaded" => row[r.appt].status = "CANCELLED"
    /\ r.pc = "loaded" =>
         /\ r.loaded.status = "BOOKED"
         /\ r.row.event = r.loaded.event /\ r.row.sync = r.loaded.sync
         /\ r.kind = "move" => r.row.status = "BOOKED" /\ r.row.start \in Starts
         /\ r.kind = "cancel" => r.row.status = "CANCELLED" /\ r.row.start = r.loaded.start
    /\ Holds(h) => /\ r.row.status = r.loaded.status /\ r.row.start = r.loaded.start
                   /\ r.row.start \in Starts
    /\ r.pc = "calendar" => r.row = r.loaded

(* Nothing is known of an appointment that was not booked yet.             *)
Blank(a) ==
  IF row[a].status = "FREE" THEN row[a] = NoRow ELSE row[a].start \in Starts

(* Two requests that are in flight together are remembered.                *)
Met(g, h) ==
  g # h /\ req[g].kind # "none" /\ req[g].appt = req[h].appt =>
    {req[g].kind, req[h].kind} \in crossed[req[h].appt]

RequestsInv ==
  /\ \A h \in Sessions : Shape(h) /\ Keeps(h)
  /\ \A a \in Appts : Blank(a)
  /\ \A g, h \in Sessions : Met(g, h)

-----------------------------------------------------------------------------
(* Writing a row back.                                                     *)

LEMMA FlushFields ==
  ASSUME NEW s \in Row, NEW l \in Row, NEW n \in Row
  PROVE  Flush(s, l, n) = [status |-> IF n.status # l.status THEN n.status ELSE s.status,
                           start |-> IF n.start # l.start THEN n.start ELSE s.start,
                           event |-> IF n.event # l.event THEN n.event ELSE s.event,
                           sync |-> IF n.sync # l.sync THEN n.sync ELSE s.sync]
<1>1. DOMAIN s = {"status", "start", "event", "sync"}
  BY DEF Row
<1> QED
  BY <1>1 DEF Flush, Row

LEMMA SyncTypes ==
  ASSUME NEW r \in Row, NEW o \in Outcome, NEW e \in Events
  PROVE  /\ SyncCalendar(r, o, e) \in Row /\ SyncCalendarUpdate(r, o) \in Row
         /\ SyncCalendar(r, o, e).status = r.status
         /\ SyncCalendar(r, o, e).start = r.start
         /\ SyncCalendarUpdate(r, o).status = r.status
         /\ SyncCalendarUpdate(r, o).start = r.start
         /\ SyncCalendarUpdate(r, o).event = r.event
  BY DEF SyncCalendar, SyncCalendarUpdate, Row, Outcome, Outcomes

LEMMA BlankTypes ==
  NoRow \in Row /\ NoEvent \in Event /\ NoJob \in Job /\ NoNotice \in Notice
  /\ NoRequest \in Request /\ NoTick \in Tick
  BY DEF NoRow, Row, NoEvent, Event, NoJob, Job, NoNotice, Notice, NoRequest,
         Request, Kind, NoTick, Tick

(* The first transaction writes the start or the status, the second the    *)
(* event and the sync status.                                              *)
LEMMA WrittenRow ==
  ASSUME TypeOK, RequestsInv, NEW h \in Sessions, req[h].kind # "none",
         req[h].pc # "refresh", Written(h)
  PROVE  LET r == req[h]
             old == row[r.appt]
             new == row'[r.appt] IN
           /\ row' \in [Appts -> Row]
           /\ \A b \in Appts : b # r.appt => row'[b] = row[b]
           /\ Holds(h) =>
                /\ new.status = old.status /\ new.start = old.start
                /\ new.event = IF r.row.event # r.loaded.event THEN r.row.event ELSE old.event
                /\ new.sync = IF r.row.sync # r.loaded.sync THEN r.row.sync ELSE old.sync
           /\ r.pc = "loaded" => new.event = old.event /\ new.sync = old.sync
           /\ r.pc = "loaded" /\ r.kind = "move" =>
                /\ new.status = old.status
                /\ new.start = IF r.row.start # r.loaded.start THEN r.row.start ELSE old.start
           /\ r.pc = "loaded" /\ r.kind = "cancel" =>
                new.status = "CANCELLED" /\ new.start = old.start
<1> DEFINE r == req[h]
<1>1. r \in Request /\ r.row \in Row /\ r.loaded \in Row /\ r.appt \in Appts /\ r.pc # "idle"
  BY DEF TypeOK, Request, RequestsInv, Shape
<1>2. row[r.appt] \in Row
  BY <1>1 DEF TypeOK
<1> DEFINE f == Flush(row[r.appt], r.loaded, r.row)
<1>3. f = [status |-> IF r.row.status # r.loaded.status THEN r.row.status ELSE row[r.appt].status,
           start |-> IF r.row.start # r.loaded.start THEN r.row.start ELSE row[r.appt].start,
           event |-> IF r.row.event # r.loaded.event THEN r.row.event ELSE row[r.appt].event,
           sync |-> IF r.row.sync # r.loaded.sync THEN r.row.sync ELSE row[r.appt].sync]
  BY <1>1, <1>2, FlushFields
<1>4. f \in Row
  BY <1>1, <1>2, <1>3 DEF Row
<1>5. row' = [row EXCEPT ![r.appt] = f]
  BY DEF Written
<1>6. row'[r.appt] = f /\ row' \in [Appts -> Row] /\ \A b \in Appts : b # r.appt => row'[b] = row[b]
  BY <1>1, <1>4, <1>5 DEF TypeOK
<1>7. Keeps(h)
  BY DEF RequestsInv
<1> HIDE DEF f
<1> QED
  BY <1>3, <1>6, <1>7 DEF Keeps, Holds

-----------------------------------------------------------------------------
(* What each step does to the requests.                                    *)

(* Whatever a session does, the others stay where they are.                *)
SessionStep(h) ==
  \/ Book(h) \/ LoadMove(h) \/ LoadCancel(h) \/ LoadRetry(h)
  \/ CommitChange(h) \/ SlotTaken(h) \/ Refresh(h)
  \/ CallCreate(h) \/ CallUpdate(h) \/ CallCancel(h)
  \/ Notify(h) \/ FindReminder(h) \/ Finish(h) \/ FinishRetry(h)
  \/ RequestDies(h)

WorkerStep(w) ==
  ClaimJobs(w) \/ ReadAppointment(w) \/ SendReminder(w) \/ CommitReminders(w) \/ WorkerDies(w)

(* Steps that leave all of the requests alone.                             *)
Others == (\E w \in Workers : WorkerStep(w)) \/ TimePasses \/ UNCHANGED vars

LEMMA Steps ==
  ASSUME [Next]_vars
  PROVE  (\E h \in Sessions : SessionStep(h)) \/ Others
  BY DEF Next, SessionStep, Others, WorkerStep

LEMMA OthersFrame ==
  ASSUME Others
  PROVE  UNCHANGED <<row, event, told, req, cut, crossed, begun>>
  BY DEF Others, WorkerStep, ClaimJobs, ReadAppointment, SendReminder, CommitReminders,
         WorkerDies, TimePasses, vars, request

(* A request begins: it holds nothing but a row as it is, and remembers    *)
(* whom it meets.                                                          *)
Begun(h) ==
  LET n == req'[h] IN
    /\ req[h] = NoRequest /\ n \in Request
    /\ req' = [req EXCEPT ![h] = n]
    /\ n.appt \in Appts /\ n.kind \in Kind
    /\ crossed' = [crossed EXCEPT ![n.appt] = @ \cup
                     {{n.kind, req[g].kind} : g \in {x \in Sessions : req[x].appt = n.appt}}]
    /\ UNCHANGED <<clock, event, job, told, cut, tick, mail, lost, failures>>

(* What Begin has to be given.                                             *)
LEMMA BeginBegins ==
  ASSUME TypeOK, NEW h \in Sessions, NEW n \in Request, n.appt \in Appts, n.kind \in Kind,
         Begin(h, n)
  PROVE  Begun(h) /\ req'[h] = n
<1>1. req'[h] = n
  BY DEF Begin, TypeOK
<1> QED
  BY <1>1, Zenon DEF Begin, Begun, reminding

LEMMA BookDoes ==
  ASSUME TypeOK, NEW h \in Sessions, Book(h)
  PROVE  LET n == req'[h] IN
           /\ Begun(h)
           /\ n.kind = "confirm" /\ n.pc = "refresh" /\ row[n.appt].status = "FREE"
           /\ row' \in [Appts -> Row]
           /\ row'[n.appt].status = "BOOKED" /\ row'[n.appt].start \in Starts
           /\ row'[n.appt].event = row[n.appt].event /\ row'[n.appt].sync = row[n.appt].sync
           /\ \A b \in Appts : b # n.appt => row'[b] = row[b]
<1>1. PICK a \in Appts, s \in Starts :
        /\ row[a].status = "FREE"
        /\ row' = [row EXCEPT ![a].status = "BOOKED", ![a].start = s]
        /\ Begin(h, [NoRequest EXCEPT !.kind = "confirm", !.appt = a, !.pc = "refresh"])
  BY DEF Book
<1> DEFINE n == [NoRequest EXCEPT !.kind = "confirm", !.appt = a, !.pc = "refresh"]
<1>2. n \in Request /\ n.kind = "confirm" /\ n.appt = a /\ n.pc = "refresh"
  BY BlankTypes DEF NoRequest, Request, Kind
<1>3. Begun(h) /\ req'[h] = n
  <2> HIDE DEF n
  <2>1. Begin(h, n)
    BY <1>1 DEF n
  <2> QED
    BY <1>2, <2>1, BeginBegins DEF Kind
<1>5. [row[a] EXCEPT !.status = "BOOKED", !.start = s] \in Row
  BY DEF TypeOK, Row
<1>6. row' \in [Appts -> Row] /\ row'[a] = [row[a] EXCEPT !.status = "BOOKED", !.start = s]
      /\ \A b \in Appts : b # a => row'[b] = row[b]
  BY <1>1, <1>5 DEF TypeOK
<1>7. row[a] \in Row
  BY DEF TypeOK
<1> QED
  BY <1>1, <1>2, <1>3, <1>6, <1>7 DEF Row

LEMMA LoadDoes ==
  ASSUME TypeOK, NEW h \in Sessions, NEW kind \in {"move", "cancel", "retry"},
         NEW a \in Appts, NEW new \in Row, Load(h, kind, a, new)
  PROVE  LET n == req'[h] IN
           /\ Begun(h) /\ row' = row
           /\ n.kind = kind /\ n.appt = a /\ n.loaded = row[a] /\ n.row = new
           /\ n.pc = IF kind = "retry" THEN "calendar" ELSE "loaded"
<1> DEFINE n == [kind |-> kind, appt |-> a, loaded |-> row[a], row |-> new, job |-> None,
                 pc |-> IF kind = "retry" THEN "calendar" ELSE "loaded"]
<1>1. Begin(h, n) /\ row' = row
  BY DEF Load
<1>2. n \in Request
  BY DEF TypeOK, Request, Kind
<1>3. Begun(h) /\ req'[h] = n
  BY <1>1, <1>2, BeginBegins DEF Kind
<1> QED
  BY <1>1, <1>3

LEMMA LoadMoveDoes ==
  ASSUME TypeOK, NEW h \in Sessions, LoadMove(h)
  PROVE  LET n == req'[h]
             r == row[n.appt] IN
           /\ Begun(h) /\ row' = row
           /\ n.kind = "move" /\ n.pc = "loaded" /\ n.loaded = r /\ r.status = "BOOKED"
           /\ n.row.status = "BOOKED" /\ n.row.start \in Starts
           /\ n.row.event = r.event /\ n.row.sync = r.sync
<1>1. PICK a \in Appts, s \in Starts :
        CanModify(row[a]) /\ Load(h, "move", a, [row[a] EXCEPT !.start = s])
  BY DEF LoadMove
<1> DEFINE m == [row[a] EXCEPT !.start = s]
<1>2. row[a] \in Row /\ m \in Row
  BY DEF TypeOK, Row
<1>3. row[a].status = "BOOKED"
  BY <1>1 DEF CanModify
<1>4. m.start = s /\ m.status = row[a].status /\ m.event = row[a].event /\ m.sync = row[a].sync
  BY <1>2 DEF Row
<1>5. Load(h, "move", a, m)
  BY <1>1
<1> HIDE DEF m
<1>6. /\ Begun(h) /\ row' = row
      /\ req'[h].kind = "move" /\ req'[h].appt = a /\ req'[h].loaded = row[a]
      /\ req'[h].row = m /\ req'[h].pc = "loaded"
  BY <1>2, <1>5, LoadDoes
<1> QED
  BY <1>1, <1>2, <1>3, <1>4, <1>6

LEMMA LoadCancelDoes ==
  ASSUME TypeOK, NEW h \in Sessions, LoadCancel(h)
  PROVE  LET n == req'[h]
             r == row[n.appt] IN
           /\ Begun(h) /\ row' = row
           /\ n.kind = "cancel" /\ n.pc = "loaded" /\ n.loaded = r /\ r.status = "BOOKED"
           /\ n.row.status = "CANCELLED" /\ n.row.start = r.start
           /\ n.row.event = r.event /\ n.row.sync = r.sync
<1>1. PICK a \in Appts :
        CanModify(row[a]) /\ Load(h, "cancel", a, [row[a] EXCEPT !.status = "CANCELLED"])
  BY DEF LoadCancel
<1> DEFINE m == [row[a] EXCEPT !.status = "CANCELLED"]
<1>2. row[a] \in Row /\ m \in Row
  BY DEF TypeOK, Row
<1>3. row[a].status = "BOOKED"
  BY <1>1 DEF CanModify
<1>4. m.start = row[a].start /\ m.status = "CANCELLED" /\ m.event = row[a].event
      /\ m.sync = row[a].sync
  BY <1>2 DEF Row
<1>5. Load(h, "cancel", a, m)
  BY <1>1
<1> HIDE DEF m
<1>6. /\ Begun(h) /\ row' = row
      /\ req'[h].kind = "cancel" /\ req'[h].appt = a /\ req'[h].loaded = row[a]
      /\ req'[h].row = m /\ req'[h].pc = "loaded"
  BY <1>2, <1>5, LoadDoes
<1> QED
  BY <1>1, <1>2, <1>3, <1>4, <1>6

LEMMA LoadRetryDoes ==
  ASSUME TypeOK, NEW h \in Sessions, LoadRetry(h)
  PROVE  LET n == req'[h]
             r == row[n.appt] IN
           /\ Begun(h) /\ row' = row
           /\ n.kind = "retry" /\ n.pc = "calendar" /\ n.loaded = r /\ n.row = r
           /\ r.status # "FREE" /\ r.sync # "SYNCED"
<1>1. PICK a \in Appts :
        row[a].status # "FREE" /\ row[a].sync # "SYNCED" /\ Load(h, "retry", a, row[a])
  BY DEF LoadRetry
<1>2. row[a] \in Row
  BY DEF TypeOK
<1> QED
  BY <1>1, <1>2, LoadDoes

(* A request that is in flight goes on, or ends.                           *)
GoesOn(h) ==
  LET r == req[h]
      n == req'[h] IN
    /\ r.kind # "none" /\ n \in Request
    /\ req' = [req EXCEPT ![h] = n]
    /\ n = NoRequest \/ (n.kind = r.kind /\ n.appt = r.appt /\ n.pc # "idle")
    /\ UNCHANGED <<clock, crossed, tick, mail, lost>>

LEMMA NoRequestFields ==
  NoRequest.kind = "none" /\ NoRequest.appt = None /\ NoRequest.pc = "idle"
  BY DEF NoRequest

LEMMA InFlight ==
  ASSUME TypeOK, RequestsInv, NEW h \in Sessions, req[h].pc # "idle"
  PROVE  /\ req[h] \in Request /\ req[h].kind # "none" /\ req[h].kind \in Kind
         /\ req[h].appt \in Appts /\ row[req[h].appt] \in Row
         /\ req[h].row \in Row /\ req[h].loaded \in Row
         /\ Shape(h) /\ Keeps(h)
<1>1. Shape(h) /\ Keeps(h) /\ req[h] \in Request
  BY DEF RequestsInv, TypeOK
<1> QED
  BY <1>1 DEF Shape, TypeOK, Request

LEMMA ThenGoesOn ==
  ASSUME TypeOK, NEW h \in Sessions, NEW r \in Request,
         NEW where \in {"refresh", "calendar", "answered", "reminder", "commit"},
         Then(h, where, r)
  PROVE  /\ req'[h] \in Request /\ req' = [req EXCEPT ![h] = req'[h]]
         /\ req'[h].pc = where /\ req'[h].kind = r.kind /\ req'[h].appt = r.appt
         /\ req'[h].loaded = r.loaded /\ req'[h].row = r.row /\ req'[h].job = r.job
<1> DEFINE n == [r EXCEPT !.pc = where]
<1>1. req' = [req EXCEPT ![h] = n]
  BY DEF Then
<1>2. n \in Request /\ n.pc = where /\ n.kind = r.kind /\ n.appt = r.appt
      /\ n.loaded = r.loaded /\ n.row = r.row /\ n.job = r.job
  BY DEF Request
<1> HIDE DEF n
<1>3. req'[h] = n
  BY <1>1 DEF TypeOK
<1> QED
  BY <1>1, <1>2, <1>3

LEMMA EndsGoesOn ==
  ASSUME TypeOK, NEW h \in Sessions, Ends(h)
  PROVE  /\ req'[h] = NoRequest /\ req'[h] \in Request
         /\ req' = [req EXCEPT ![h] = req'[h]]
<1>1. req' = [req EXCEPT ![h] = NoRequest] /\ req'[h] = NoRequest
  BY DEF Ends, TypeOK
<1> QED
  BY <1>1, BlankTypes

LEMMA CommitChangeDoes ==
  ASSUME TypeOK, RequestsInv, NEW h \in Sessions, CommitChange(h)
  PROVE  /\ GoesOn(h) /\ req[h].pc = "loaded" /\ Written(h)
         /\ req'[h].pc = "refresh" /\ req'[h].kind = req[h].kind
         /\ req'[h].appt = req[h].appt
         /\ UNCHANGED <<event, job, told, cut>>
<1> DEFINE n == [NoRequest EXCEPT !.kind = req[h].kind, !.appt = req[h].appt, !.pc = "refresh"]
<1>1. req[h].pc = "loaded" /\ Written(h) /\ req' = [req EXCEPT ![h] = n]
      /\ UNCHANGED <<clock, event, job, told, cut, crossed, tick, mail, lost>>
  BY DEF CommitChange, reminding
<1>2. req[h].kind \in Kind /\ req[h].appt \in Appts /\ req[h].kind # "none"
  BY <1>1, InFlight
<1>3. n \in Request /\ n.kind = req[h].kind /\ n.appt = req[h].appt /\ n.pc = "refresh"
  BY <1>2, BlankTypes DEF NoRequest, Request, Kind
<1> HIDE DEF n
<1>4. req'[h] = n
  BY <1>1 DEF TypeOK
<1> QED
  BY <1>1, <1>2, <1>3, <1>4 DEF GoesOn

LEMMA SlotTakenDoes ==
  ASSUME TypeOK, RequestsInv, NEW h \in Sessions, SlotTaken(h)
  PROVE  /\ GoesOn(h) /\ req[h].pc = "loaded" /\ req'[h] = NoRequest
         /\ UNCHANGED <<row, event, job, told, cut>>
<1>1. req[h].kind # "none" /\ req[h].pc = "loaded" /\ Ends(h)
      /\ UNCHANGED <<clock, row, event, job, told, cut, crossed, tick, mail, lost>>
  BY DEF SlotTaken, reminding
<1> QED
  BY <1>1, EndsGoesOn DEF GoesOn

LEMMA RefreshDoes ==
  ASSUME TypeOK, RequestsInv, NEW h \in Sessions, Refresh(h)
  PROVE  /\ GoesOn(h) /\ req[h].pc = "refresh" /\ req'[h].pc = "calendar"
         /\ req'[h].kind = req[h].kind /\ req'[h].appt = req[h].appt
         /\ req'[h].loaded = row[req[h].appt] /\ req'[h].row = row[req[h].appt]
         /\ UNCHANGED <<row, event, job, told, cut>>
<1> DEFINE r == req[h]
           m == [r EXCEPT !.loaded = row[r.appt], !.row = row[r.appt]]
<1>1. r.pc = "refresh" /\ Then(h, "calendar", m)
      /\ UNCHANGED <<clock, row, event, job, told, cut, crossed, tick, mail, lost>>
  BY DEF Refresh, reminding
<1>2. r \in Request /\ row[r.appt] \in Row /\ r.kind # "none"
  BY <1>1, InFlight
<1>3. m \in Request /\ m.kind = r.kind /\ m.appt = r.appt
      /\ m.loaded = row[r.appt] /\ m.row = row[r.appt]
  BY <1>2 DEF Request
<1> HIDE DEF m
<1> QED
  BY <1>1, <1>2, <1>3, ThenGoesOn DEF GoesOn

LEMMA AnsweredDoes ==
  ASSUME TypeOK, RequestsInv, NEW h \in Sessions, NEW new \in Row,
         req[h].pc = "calendar", Answered(h, new)
  PROVE  /\ GoesOn(h) /\ req'[h].pc = "answered"
         /\ req'[h].kind = req[h].kind /\ req'[h].appt = req[h].appt
         /\ req'[h].loaded = req[h].loaded /\ req'[h].row = new
         /\ UNCHANGED <<row, job, told, cut>>
<1> DEFINE r == req[h]
           m == [r EXCEPT !.row = new]
<1>1. Then(h, "answered", m)
      /\ UNCHANGED <<clock, row, job, told, cut, crossed, tick, mail, lost>>
  BY DEF Answered, reminding
<1>2. r \in Request /\ r.kind # "none"
  BY InFlight
<1>3. m \in Request /\ m.kind = r.kind /\ m.appt = r.appt /\ m.loaded = r.loaded
      /\ m.row = new
  BY <1>2 DEF Request
<1> HIDE DEF m
<1> QED
  BY <1>1, <1>2, <1>3, ThenGoesOn DEF GoesOn

LEMMA CallCreateDoes ==
  ASSUME TypeOK, RequestsInv, NEW h \in Sessions, CallCreate(h)
  PROVE  LET r == req[h]
             n == req'[h] IN
           /\ GoesOn(h) /\ r.pc = "calendar" /\ n.pc = "answered"
           /\ r.kind # "cancel" /\ (r.kind = "move" => r.row.event = None)
           /\ n.kind = r.kind /\ n.appt = r.appt /\ n.loaded = r.loaded
           /\ n.row.status = r.row.status /\ n.row.start = r.row.start
           /\ event' \in [Events -> Event]
           /\ \E e \in Events :
                /\ event[e] = NoEvent
                /\ \A f \in Events : f # e => event'[f] = event[f]
                /\ \/ /\ event'[e] = [appt |-> r.appt, at |-> r.row.start, live |-> TRUE]
                      /\ n.row.event = e /\ n.row.sync = "SYNCED"
                   \/ /\ event'[e] \in {NoEvent, [appt |-> r.appt, at |-> r.row.start,
                                                 live |-> TRUE]}
                      /\ n.row.event = r.row.event /\ n.row.sync = "FAILED"
           /\ UNCHANGED <<row, job, told, cut>>
<1> DEFINE r == req[h]
<1>1. PICK o \in Outcome, e \in Events :
        CreateEvent(r.appt, r.row, o, e) /\ Answered(h, SyncCalendar(r.row, o, e))
  BY DEF CallCreate
<1>2. r.pc = "calendar" /\ r.kind # "cancel" /\ (r.kind = "move" => r.row.event = None)
  BY DEF CallCreate
<1>3. r.row \in Row /\ r.appt \in Appts /\ o \in Outcomes /\ (o.ok => o.done)
  BY <1>2, InFlight DEF Outcome, Outcomes
<1> DEFINE new == SyncCalendar(r.row, o, e)
           made == [appt |-> r.appt, at |-> r.row.start, live |-> TRUE]
<1>4. new \in Row /\ new.status = r.row.status /\ new.start = r.row.start
  BY <1>3, SyncTypes
<1>5. IF o.ok THEN new.event = e /\ new.sync = "SYNCED"
              ELSE new.event = r.row.event /\ new.sync = "FAILED"
  BY <1>3 DEF SyncCalendar, Row
<1> HIDE DEF new
<1>6. /\ GoesOn(h) /\ req'[h].pc = "answered" /\ req'[h].kind = r.kind
      /\ req'[h].appt = r.appt /\ req'[h].loaded = r.loaded /\ req'[h].row = new
      /\ UNCHANGED <<row, job, told, cut>>
  BY <1>1, <1>2, <1>4, AnsweredDoes DEF new
<1>7. made \in Event
  BY <1>3 DEF Event, Row
<1> HIDE DEF made
<1>8. event[e] = NoEvent /\ event' = IF o.done THEN [event EXCEPT ![e] = made] ELSE event
  BY <1>1 DEF CreateEvent, made
<1>9. /\ event' \in [Events -> Event]
      /\ \A f \in Events : f # e => event'[f] = event[f]
      /\ event'[e] = IF o.done THEN made ELSE NoEvent
  BY <1>7, <1>8 DEF TypeOK
<1>10. \/ event'[e] = made /\ new.event = e /\ new.sync = "SYNCED"
       \/ event'[e] \in {NoEvent, made} /\ new.event = r.row.event /\ new.sync = "FAILED"
  BY <1>3, <1>5, <1>9
<1> QED
  BY <1>2, <1>4, <1>6, <1>8, <1>9, <1>10 DEF made

LEMMA CallUpdateDoes ==
  ASSUME TypeOK, RequestsInv, NEW h \in Sessions, CallUpdate(h)
  PROVE  LET r == req[h]
             n == req'[h]
             e == r.row.event IN
           /\ GoesOn(h) /\ r.pc = "calendar" /\ n.pc = "answered"
           /\ r.kind = "move" /\ e \in Events
           /\ n.kind = r.kind /\ n.appt = r.appt /\ n.loaded = r.loaded
           /\ n.row.status = r.row.status /\ n.row.start = r.row.start /\ n.row.event = e
           /\ event' \in [Events -> Event]
           /\ \A f \in Events : f # e => event'[f] = event[f]
           /\ event'[e].appt = event[e].appt /\ event'[e].live = event[e].live
           /\ \/ event'[e].at = r.row.start /\ n.row.sync = "SYNCED"
              \/ n.row.sync = "FAILED"
           /\ UNCHANGED <<row, job, told, cut>>
<1> DEFINE r == req[h]
           e == r.row.event
<1>1. PICK o \in Outcome :
        /\ event' = IF o.done THEN [event EXCEPT ![e].at = r.row.start] ELSE event
        /\ Answered(h, SyncCalendarUpdate(r.row, o))
  BY DEF CallUpdate
<1>2. r.pc = "calendar" /\ r.kind = "move" /\ e # None
  BY DEF CallUpdate
<1>3. r.row \in Row /\ r.appt \in Appts /\ o \in Outcomes /\ (o.ok => o.done)
  BY <1>2, InFlight DEF Outcome, Outcomes
<1>4. e \in Events /\ r.row.start \in Starts \cup {None}
  BY <1>2, <1>3 DEF Row
<1> DEFINE new == SyncCalendarUpdate(r.row, o)
<1>5. new \in Row /\ new.status = r.row.status /\ new.start = r.row.start
      /\ new.event = e /\ new.sync = IF o.ok THEN "SYNCED" ELSE "FAILED"
  BY <1>3 DEF SyncCalendarUpdate, Row
<1> HIDE DEF new
<1>6. /\ GoesOn(h) /\ req'[h].pc = "answered" /\ req'[h].kind = r.kind
      /\ req'[h].appt = r.appt /\ req'[h].loaded = r.loaded /\ req'[h].row = new
      /\ UNCHANGED <<row, job, told, cut>>
  BY <1>1, <1>2, <1>5, AnsweredDoes DEF new
<1> DEFINE moved == [event[e] EXCEPT !.at = r.row.start]
<1>7. moved \in Event /\ moved.appt = event[e].appt /\ moved.live = event[e].live
      /\ moved.at = r.row.start
  BY <1>4 DEF TypeOK, Event
<1>8. event' = IF o.done THEN [event EXCEPT ![e] = moved] ELSE event
  BY <1>1
<1> HIDE DEF moved
<1>9. /\ event' \in [Events -> Event]
      /\ \A f \in Events : f # e => event'[f] = event[f]
      /\ event'[e] = IF o.done THEN moved ELSE event[e]
  BY <1>4, <1>7, <1>8 DEF TypeOK
<1> QED
  BY <1>2, <1>3, <1>4, <1>5, <1>6, <1>7, <1>9

LEMMA CallCancelDoes ==
  ASSUME TypeOK, RequestsInv, NEW h \in Sessions, CallCancel(h)
  PROVE  LET r == req[h]
             n == req'[h]
             e == r.row.event IN
           /\ GoesOn(h) /\ r.pc = "calendar" /\ n.pc = "answered"
           /\ r.kind = "cancel"
           /\ n.kind = r.kind /\ n.appt = r.appt /\ n.loaded = r.loaded /\ n.row = r.row
           /\ event' \in [Events -> Event]
           /\ \/ event' = event
              \/ /\ e \in Events
                 /\ \A f \in Events : f # e => event'[f] = event[f]
                 /\ event'[e].appt = event[e].appt
           /\ UNCHANGED <<row, job, told, cut>>
<1> DEFINE r == req[h]
           e == r.row.event
<1>1. r.pc = "calendar" /\ r.kind = "cancel" /\ Answered(h, r.row)
  BY DEF CallCancel
<1>2. r.row \in Row
  BY <1>1, InFlight
<1>3. /\ GoesOn(h) /\ req'[h].pc = "answered" /\ req'[h].kind = r.kind
      /\ req'[h].appt = r.appt /\ req'[h].loaded = r.loaded /\ req'[h].row = r.row
      /\ UNCHANGED <<row, job, told, cut>>
  BY <1>1, <1>2, AnsweredDoes
<1> DEFINE dead == [event[e] EXCEPT !.live = FALSE]
<1>4. event' = event \/ (e \in Events /\ event' = [event EXCEPT ![e] = dead])
  BY <1>2 DEF CallCancel, Row
<1>5. ASSUME NEW x \in Event PROVE [x EXCEPT !.live = FALSE] \in Event /\ [x EXCEPT !.live = FALSE].appt = x.appt
  BY DEF Event
<1>6. e \in Events => dead \in Event /\ dead.appt = event[e].appt
  BY <1>5 DEF TypeOK
<1> HIDE DEF dead
<1>7. event' \in [Events -> Event]
  BY <1>4, <1>6 DEF TypeOK
<1>8. \/ event' = event
      \/ /\ e \in Events
         /\ \A f \in Events : f # e => event'[f] = event[f]
         /\ event'[e].appt = event[e].appt
  BY <1>4, <1>6 DEF TypeOK
<1> QED
  BY <1>1, <1>3, <1>7, <1>8

LEMMA CutShortDoes ==
  ASSUME TypeOK, RequestsInv, NEW h \in Sessions, req[h].pc # "idle", CutShort(h)
  PROVE  LET r == req[h] IN
           /\ req'[h] = NoRequest /\ req'[h] \in Request
           /\ req' = [req EXCEPT ![h] = req'[h]]
           /\ \A b \in Appts : b # r.appt => cut'[b] = cut[b]
           /\ cut'[r.appt] = IF r.pc = "loaded" THEN cut[r.appt]
                             ELSE cut[r.appt] \cup {r.kind}
           /\ cut' \in [Appts -> SUBSET Kind]
<1>1. req[h].kind \in Kind /\ req[h].appt \in Appts
  BY InFlight
<1>2. Ends(h)
  BY DEF CutShort
<1> QED
  BY <1>1, <1>2, EndsGoesOn DEF CutShort, TypeOK

LEMMA NotifyDoes ==
  ASSUME TypeOK, RequestsInv, NEW h \in Sessions, Notify(h)
  PROVE  LET r == req[h]
             n == req'[h] IN
           /\ GoesOn(h) /\ r.pc = "answered" /\ r.kind \in {"confirm", "move", "cancel"}
           /\ told' \in [Appts -> Notice] /\ cut' \in [Appts -> SUBSET Kind]
           /\ \A b \in Appts : b # r.appt => told'[b] = told[b] /\ cut'[b] = cut[b]
           /\ \/ n = NoRequest /\ cut'[r.appt] = cut[r.appt] \cup {r.kind}
              \/ /\ cut' = cut
                 /\ \/ told'[r.appt] = Content(r.kind, r.row)
                    \/ told'[r.appt].failed
                 /\ \/ r.kind = "cancel" /\ n = NoRequest
                    \/ /\ n.pc = IF r.kind = "confirm" THEN "commit" ELSE "reminder"
                       /\ r.kind # "cancel" /\ n.kind = r.kind /\ n.appt = r.appt
                       /\ n.loaded = r.loaded /\ n.row = r.row
           /\ UNCHANGED <<row, event, job>>
<1> DEFINE r == req[h]
<1>1. PICK s \in Send :
        /\ \/ s = "SENT" /\ told' = [told EXCEPT ![r.appt] = Content(r.kind, r.row)]
           \/ s = "FAILED" /\ told' = [told EXCEPT ![r.appt].failed = TRUE]
           \/ s = "raises" /\ told' = told
        /\ IF s = "raises" THEN CutShort(h) ELSE Told(h) /\ cut' = cut
  BY DEF Notify
<1>2. r.pc = "answered" /\ r.kind # "retry"
      /\ UNCHANGED <<clock, row, event, job, crossed, tick, mail, lost>>
  BY DEF Notify, reminding
<1>3. r \in Request /\ r.kind \in {"confirm", "move", "cancel"} /\ r.appt \in Appts
      /\ r.row \in Row
  BY <1>2, InFlight DEF Kind
<1>4. Content(r.kind, r.row) \in Notice
  BY <1>3 DEF Content, Notice, Row
<1>5. [told[r.appt] EXCEPT !.failed = TRUE] \in Notice
      /\ [told[r.appt] EXCEPT !.failed = TRUE].failed
  <2>1. ASSUME NEW x \in Notice
        PROVE  [x EXCEPT !.failed = TRUE] \in Notice /\ [x EXCEPT !.failed = TRUE].failed
    BY Zenon DEF Notice
  <2>2. told[r.appt] \in Notice
    BY <1>3 DEF TypeOK
  <2> QED
    BY <2>1, <2>2
<1>6. /\ told' \in [Appts -> Notice]
      /\ \A b \in Appts : b # r.appt => told'[b] = told[b]
      /\ s = "SENT" => told'[r.appt] = Content(r.kind, r.row)
      /\ s = "FAILED" => told'[r.appt].failed
  <2>1. CASE s = "SENT"
    BY <1>1, <1>3, <1>4, <2>1 DEF TypeOK
  <2>2. CASE s = "FAILED"
    <3>1. told' = [told EXCEPT ![r.appt] = [told[r.appt] EXCEPT !.failed = TRUE]]
      BY <1>1, <2>2
    <3> QED
      BY <1>3, <1>5, <2>2, <3>1 DEF TypeOK
  <2>3. CASE s = "raises"
    BY <1>1, <2>3 DEF TypeOK
  <2> QED
    BY <1>1, <2>1, <2>2, <2>3
<1>7. CASE s = "raises"
  BY <1>1, <1>2, <1>3, <1>6, <1>7, CutShortDoes DEF GoesOn
<1>8. CASE s # "raises"
  <2>1. cut' = cut /\ Told(h) /\ cut' \in [Appts -> SUBSET Kind]
    BY <1>1, <1>8 DEF TypeOK
  <2>2. CASE r.kind = "cancel"
    <3>1. Ends(h)
      BY <2>1, <2>2 DEF Told
    <3> QED
      BY <1>1, <1>2, <1>3, <1>6, <1>8, <2>1, <2>2, <3>1, EndsGoesOn DEF GoesOn
  <2>3. CASE r.kind # "cancel"
    <3> DEFINE where == IF r.kind = "confirm" THEN "commit" ELSE "reminder"
    <3>1. Then(h, where, r)
      BY <1>3, <2>1, <2>3 DEF Told
    <3>2. where \in {"refresh", "calendar", "answered", "reminder", "commit"}
      OBVIOUS
    <3> HIDE DEF where
    <3>3. /\ req'[h] \in Request /\ req' = [req EXCEPT ![h] = req'[h]]
          /\ req'[h].pc = where /\ req'[h].kind = r.kind /\ req'[h].appt = r.appt
          /\ req'[h].loaded = r.loaded /\ req'[h].row = r.row
      BY <1>3, <3>1, <3>2, ThenGoesOn
    <3>4. GoesOn(h)
      BY <1>2, <1>3, <3>2, <3>3 DEF GoesOn
    <3> QED
      BY <1>1, <1>2, <1>3, <1>6, <1>8, <2>1, <2>3, <3>3, <3>4 DEF where
  <2> QED
    BY <2>2, <2>3
<1> QED
  BY <1>7, <1>8

LEMMA FindReminderDoes ==
  ASSUME TypeOK, RequestsInv, NEW h \in Sessions, FindReminder(h)
  PROVE  LET r == req[h]
             n == req'[h] IN
           /\ GoesOn(h) /\ r.pc = "reminder" /\ r.kind = "move" /\ n.pc = "commit"
           /\ n.kind = r.kind /\ n.appt = r.appt /\ n.loaded = r.loaded /\ n.row = r.row
           /\ n.job = IF job[r.appt].status = "PENDING" THEN job[r.appt].at ELSE None
           /\ UNCHANGED <<row, event, job, told, cut>>
<1> DEFINE r == req[h]
           found == IF PendingJob(r.appt) THEN job[r.appt].at ELSE None
           m == [r EXCEPT !.job = found]
<1>1. r.pc = "reminder" /\ Then(h, "commit", m)
      /\ UNCHANGED <<clock, row, event, job, told, cut, crossed, tick, mail, lost>>
  BY DEF FindReminder, reminding
<1>2. r \in Request /\ r.kind = "move" /\ r.appt \in Appts
  BY <1>1, InFlight DEF Shape
<1>3. job[r.appt].at \in Int
  BY <1>2 DEF TypeOK, Job
<1>4. found \in Int \cup {None}
  BY <1>3
<1> HIDE DEF found
<1>5. m \in Request /\ m.kind = r.kind /\ m.appt = r.appt /\ m.loaded = r.loaded
      /\ m.row = r.row /\ m.job = found
  BY <1>2, <1>4 DEF Request
<1> HIDE DEF m
<1> QED
  BY <1>1, <1>2, <1>5, ThenGoesOn DEF GoesOn, found, PendingJob

LEMMA FinishDoes ==
  ASSUME TypeOK, RequestsInv, NEW h \in Sessions, Finish(h)
  PROVE  LET r == req[h]
             a == r.appt IN
           /\ GoesOn(h) /\ r.pc = "commit" /\ Written(h) /\ req'[h] = NoRequest
           /\ r.row.start - Lead \in Int
           /\ job' \in [Appts -> Job]
           /\ \A b \in Appts : b # a => job'[b] = job[b]
           /\ \/ /\ r.kind = "confirm" /\ job'[a].status = "PENDING"
                 /\ job'[a].at = r.row.start - Lead
              \/ /\ r.kind = "move" /\ r.job # None
                 /\ job'[a].status = job[a].status /\ job'[a].at = r.row.start - Lead
                 /\ ~ Claimed(a)
              \/ r.kind = "move" /\ r.job \in {None, r.row.start - Lead} /\ job' = job
           /\ UNCHANGED <<event, told, cut>>
<1> DEFINE r == req[h]
           a == r.appt
<1>1. r.pc = "commit" /\ Written(h) /\ Ends(h)
      /\ UNCHANGED <<clock, event, told, cut, crossed, tick, mail, lost>>
  BY DEF Finish, reminding
<1>2. r.kind # "none" /\ a \in Appts /\ Keeps(h)
  BY <1>1, InFlight
<1>3. r.row.start \in Starts
  BY <1>1, <1>2 DEF Keeps, Holds
<1>4. r.row.start - Lead \in Int
  <2>1. \A s \in Starts : s - Lead \in Int
    BY FollowUpConstants
  <2> QED
    BY <1>3, <2>1
<1> DEFINE at == r.row.start - Lead
<1> HIDE DEF at
<1>5. /\ [status |-> "PENDING", at |-> at] \in Job
      /\ [status |-> "PENDING", at |-> at].status = "PENDING"
      /\ [status |-> "PENDING", at |-> at].at = at
      /\ MovedJob(job[a], at) \in Job
      /\ MovedJob(job[a], at).status = job[a].status /\ MovedJob(job[a], at).at = at
  <2>1. at \in Int /\ job[a] \in Job
    BY <1>2, <1>4 DEF at, TypeOK
  <2> QED
    BY <2>1 DEF MovedJob, Job
<1>6. \/ r.kind = "confirm" /\ job' = [job EXCEPT ![a] = [status |-> "PENDING", at |-> at]]
      \/ /\ r.kind = "move" /\ r.job # None /\ ~ Claimed(a)
         /\ job' = [job EXCEPT ![a] = MovedJob(job[a], at)]
      \/ r.kind = "move" /\ r.job \in {None, at} /\ job' = job
  BY DEF Finish, RunAt, at
<1>7. GoesOn(h) /\ req'[h] = NoRequest
  BY <1>1, <1>2, EndsGoesOn DEF GoesOn
<1>8. /\ job' \in [Appts -> Job]
      /\ \A b \in Appts : b # a => job'[b] = job[b]
      /\ \/ r.kind = "confirm" /\ job'[a].status = "PENDING" /\ job'[a].at = at
         \/ /\ r.kind = "move" /\ r.job # None
            /\ job'[a].status = job[a].status /\ job'[a].at = at /\ ~ Claimed(a)
         \/ r.kind = "move" /\ r.job \in {None, at} /\ job' = job
  <2>1. CASE r.kind = "confirm" /\ job' = [job EXCEPT ![a] = [status |-> "PENDING", at |-> at]]
    BY <1>2, <1>5, <2>1 DEF TypeOK
  <2>2. CASE /\ r.kind = "move" /\ r.job # None /\ ~ Claimed(a)
             /\ job' = [job EXCEPT ![a] = MovedJob(job[a], at)]
    BY <1>2, <1>5, <2>2 DEF TypeOK
  <2>3. CASE r.kind = "move" /\ r.job \in {None, at} /\ job' = job
    BY <2>3 DEF TypeOK
  <2> QED
    BY <1>6, <2>1, <2>2, <2>3
<1> QED
  BY <1>1, <1>4, <1>7, <1>8 DEF at

LEMMA FinishRetryDoes ==
  ASSUME TypeOK, RequestsInv, NEW h \in Sessions, FinishRetry(h)
  PROVE  /\ GoesOn(h) /\ req[h].pc = "answered" /\ req[h].kind = "retry"
         /\ Written(h) /\ req'[h] = NoRequest
         /\ UNCHANGED <<event, job, told, cut>>
<1>1. req[h].pc = "answered" /\ req[h].kind = "retry" /\ Written(h) /\ Ends(h)
      /\ UNCHANGED <<clock, event, job, told, cut, crossed, tick, mail, lost>>
  BY DEF FinishRetry, reminding
<1> QED
  BY <1>1, EndsGoesOn DEF GoesOn

LEMMA RequestDiesDoes ==
  ASSUME TypeOK, RequestsInv, NEW h \in Sessions, RequestDies(h)
  PROVE  LET r == req[h] IN
           /\ GoesOn(h) /\ req'[h] = NoRequest /\ r.pc # "idle"
           /\ \A b \in Appts : b # r.appt => cut'[b] = cut[b]
           /\ cut'[r.appt] = IF r.pc = "loaded" THEN cut[r.appt]
                             ELSE cut[r.appt] \cup {r.kind}
           /\ cut' \in [Appts -> SUBSET Kind]
           /\ UNCHANGED <<row, event, job, told>>
<1>1. req[h].pc # "idle" /\ CutShort(h)
      /\ UNCHANGED <<clock, row, event, job, told, crossed, tick, mail, lost>>
  BY DEF RequestDies, reminding
<1> QED
  BY <1>1, CutShortDoes, InFlight DEF GoesOn


-----------------------------------------------------------------------------
(* Types, and the invariant of the requests.                               *)

LEMMA SessionFrame ==
  ASSUME TypeOK, RequestsInv, NEW h \in Sessions, SessionStep(h)
  PROVE  /\ Begun(h) \/ GoesOn(h)
         /\ req' \in [Sessions -> Request]
         /\ \A g \in Sessions : g # h => req'[g] = req[g]
         /\ UNCHANGED <<clock, tick, mail, lost>>
<1>1. Begun(h) \/ GoesOn(h)
  <2>1. CASE Book(h) \/ LoadMove(h) \/ LoadCancel(h) \/ LoadRetry(h)
    BY <2>1, BookDoes, LoadMoveDoes, LoadCancelDoes, LoadRetryDoes
  <2>2. CASE CommitChange(h) \/ SlotTaken(h) \/ Refresh(h) \/ CallCreate(h) \/ CallUpdate(h)
             \/ CallCancel(h)
    BY <2>2, CommitChangeDoes, SlotTakenDoes, RefreshDoes, CallCreateDoes, CallUpdateDoes,
       CallCancelDoes
  <2>3. CASE Notify(h) \/ FindReminder(h) \/ Finish(h) \/ FinishRetry(h) \/ RequestDies(h)
    BY <2>3, NotifyDoes, FindReminderDoes, FinishDoes, FinishRetryDoes, RequestDiesDoes
  <2> QED
    BY <2>1, <2>2, <2>3 DEF SessionStep
<1>2. req'[h] \in Request /\ req' = [req EXCEPT ![h] = req'[h]]
      /\ UNCHANGED <<clock, tick, mail, lost>>
  BY <1>1 DEF Begun, GoesOn
<1>3. req \in [Sessions -> Request]
  BY DEF TypeOK
<1> QED
  BY <1>1, <1>2, <1>3

(* A status goes from FREE to BOOKED to CANCELLED.                         *)
StatusesGrow ==
  \A b \in Appts :
    \/ row'[b].status = row[b].status
    \/ row[b].status = "FREE" /\ row'[b].status = "BOOKED"
    \/ row[b].status # "FREE" /\ row'[b].status = "CANCELLED"

LEMMA RowStep ==
  ASSUME TypeOK, RequestsInv, NEW h \in Sessions, SessionStep(h)
  PROVE  row' \in [Appts -> Row] /\ StatusesGrow /\ \A b \in Appts : Blank(b)'
<1>0. /\ \A b \in Appts : Blank(b)
      /\ row \in [Appts -> Row]
  BY DEF RequestsInv, TypeOK
<1>1. CASE Book(h)
  BY <1>0, <1>1, BookDoes DEF Blank, StatusesGrow
<1>2. CASE row' = row
  BY <1>0, <1>2 DEF Blank, StatusesGrow
<1>3. CASE CommitChange(h) \/ Finish(h) \/ FinishRetry(h)
  <2> DEFINE r == req[h]
             a == r.appt
  <2>1. Written(h) /\ (r.pc = "loaded" \/ Holds(h)) /\ r.kind # "none" /\ r.pc # "refresh"
        /\ r.pc # "idle"
    BY <1>3, CommitChangeDoes, FinishDoes, FinishRetryDoes DEF GoesOn, Holds
  <2>2. a \in Appts /\ Keeps(h) /\ Shape(h)
    BY <2>1, InFlight
  <2>3. /\ row' \in [Appts -> Row]
        /\ \A b \in Appts : b # a => row'[b] = row[b]
        /\ Holds(h) => row'[a].status = row[a].status /\ row'[a].start = row[a].start
        /\ r.pc = "loaded" /\ r.kind = "move" =>
             /\ row'[a].status = row[a].status
             /\ row'[a].start = IF r.row.start # r.loaded.start THEN r.row.start
                                ELSE row[a].start
        /\ r.pc = "loaded" /\ r.kind = "cancel" =>
             row'[a].status = "CANCELLED" /\ row'[a].start = row[a].start
    BY <2>1, WrittenRow
  <2>4. row[a].status # "FREE" /\ row[a].start \in Starts
        /\ (r.pc = "loaded" => r.kind \in {"move", "cancel"})
        /\ (r.pc = "loaded" /\ r.kind = "move" => r.row.start \in Starts)
    BY <1>0, <2>1, <2>2 DEF Keeps, Blank, Shape
  <2>5. row'[a].start \in Starts /\ row'[a].status # "FREE"
    BY <2>1, <2>3, <2>4
  <2> QED
    BY <1>0, <2>1, <2>2, <2>3, <2>4, <2>5 DEF Blank, StatusesGrow
<1> QED
  BY <1>1, <1>2, <1>3, LoadMoveDoes, LoadCancelDoes, LoadRetryDoes, SlotTakenDoes, RefreshDoes, CallCreateDoes,
     CallUpdateDoes, CallCancelDoes, NotifyDoes, FindReminderDoes, RequestDiesDoes
     DEF SessionStep

(* What the session itself knows is right.                                 *)
LEMMA ShapeStep ==
  ASSUME TypeOK, RequestsInv, NEW h \in Sessions, SessionStep(h)
  PROVE  Shape(h)' /\ Keeps(h)'
<1> DEFINE r == req[h]
           n == req'[h]
<1>0. ASSUME n = NoRequest PROVE Shape(h)' /\ Keeps(h)'
  BY <1>0, NoRequestFields DEF Shape, Keeps, Holds
<1>1. CASE Book(h)
  <2>1. n.kind = "confirm" /\ n.pc = "refresh" /\ n.appt \in Appts
        /\ row'[n.appt].status = "BOOKED"
    BY <1>1, BookDoes DEF Begun
  <2> QED
    BY <2>1 DEF Shape, Keeps, Holds
<1>2. CASE LoadMove(h) \/ LoadCancel(h) \/ LoadRetry(h)
  <2>1. /\ n.appt \in Appts /\ row' = row
        /\ n.loaded = row[n.appt] /\ n.row.event = row[n.appt].event
        /\ n.row.sync = row[n.appt].sync
        /\ \/ /\ n.kind = "move" /\ n.pc = "loaded" /\ row[n.appt].status = "BOOKED"
              /\ n.row.status = "BOOKED" /\ n.row.start \in Starts
           \/ /\ n.kind = "cancel" /\ n.pc = "loaded" /\ row[n.appt].status = "BOOKED"
              /\ n.row.status = "CANCELLED" /\ n.row.start = row[n.appt].start
           \/ /\ n.kind = "retry" /\ n.pc = "calendar"
              /\ row[n.appt].status # "FREE" /\ n.row = row[n.appt]
    BY <1>2, LoadMoveDoes, LoadCancelDoes, LoadRetryDoes DEF Begun
  <2>2. row[n.appt].status # "FREE" => row[n.appt].start \in Starts
    BY <2>1 DEF RequestsInv, Blank
  <2> QED
    BY <2>1, <2>2 DEF Shape, Keeps, Holds
<1>3. CASE CommitChange(h)
  <2>1. /\ r.pc = "loaded" /\ Written(h) /\ n.pc = "refresh" /\ n.kind = r.kind
        /\ n.appt = r.appt /\ r.kind # "none"
    BY <1>3, CommitChangeDoes DEF GoesOn
  <2>2. Shape(h) /\ Keeps(h) /\ r.appt \in Appts
    BY <2>1, InFlight
  <2>3. row[r.appt].status # "FREE" /\ row'[r.appt].status # "FREE"
    BY <2>1, <2>2, WrittenRow DEF Keeps, Shape
  <2>4. r.kind = "cancel" => row'[r.appt].status = "CANCELLED"
    BY <2>1, WrittenRow
  <2> QED
    BY <2>1, <2>2, <2>3, <2>4 DEF Shape, Keeps, Holds
<1>4. CASE Refresh(h)
  <2>1. /\ r.pc = "refresh" /\ n.pc = "calendar" /\ n.kind = r.kind /\ n.appt = r.appt
        /\ n.loaded = row[r.appt] /\ n.row = row[r.appt] /\ row' = row
    BY <1>4, RefreshDoes
  <2>2. Shape(h) /\ Keeps(h) /\ r.appt \in Appts /\ Blank(r.appt)
    BY <2>1, InFlight DEF RequestsInv
  <2> QED
    BY <2>1, <2>2 DEF Shape, Keeps, Holds, Blank
<1>5. CASE CallCreate(h) \/ CallUpdate(h) \/ CallCancel(h)
  <2>1. /\ r.pc = "calendar" /\ n.pc = "answered" /\ n.kind = r.kind /\ n.appt = r.appt
        /\ n.loaded = r.loaded /\ n.row.status = r.row.status /\ n.row.start = r.row.start
        /\ row' = row
    BY <1>5, CallCreateDoes, CallUpdateDoes, CallCancelDoes
  <2>2. Shape(h) /\ Keeps(h) /\ r.appt \in Appts
    BY <2>1, InFlight
  <2> QED
    BY <2>1, <2>2 DEF Shape, Keeps, Holds
<1>6. CASE Notify(h) \/ FindReminder(h)
  <2>1. \/ n = NoRequest
        \/ /\ r.pc \in {"answered", "reminder"} /\ n.kind = r.kind /\ n.appt = r.appt
           /\ n.loaded = r.loaded /\ n.row = r.row /\ row' = row
           /\ \/ n.pc = "reminder" /\ n.kind = "move"
              \/ n.pc = "commit" /\ n.kind \in {"confirm", "move"}
    BY <1>6, NotifyDoes, FindReminderDoes
  <2>2. r.pc \in {"answered", "reminder"} => Shape(h) /\ Keeps(h) /\ r.appt \in Appts
    BY InFlight
  <2> QED
    BY <1>0, <2>1, <2>2 DEF Shape, Keeps, Holds
<1>7. CASE SlotTaken(h) \/ Finish(h) \/ FinishRetry(h) \/ RequestDies(h)
  BY <1>0, <1>7, SlotTakenDoes, FinishDoes, FinishRetryDoes, RequestDiesDoes
<1> QED
  BY <1>1, <1>2, <1>3, <1>4, <1>5, <1>6, <1>7 DEF SessionStep

LEMMA MetStep ==
  ASSUME TypeOK, RequestsInv, NEW h \in Sessions, SessionStep(h)
  PROVE  /\ \A f, g \in Sessions : Met(f, g)'
         /\ \A a \in Appts : crossed[a] \subseteq crossed'[a]
         /\ crossed' \in [Appts -> SUBSET SUBSET Kind]
<1>0. /\ \A f, g \in Sessions : Met(f, g)
      /\ \A g \in Sessions : Shape(g) /\ req[g] \in Request
      /\ crossed \in [Appts -> SUBSET SUBSET Kind]
  BY DEF RequestsInv, TypeOK
<1>1. \A g \in Sessions : g # h => req'[g] = req[g]
  BY SessionFrame
<1>2. CASE GoesOn(h)
  <2>1. crossed' = crossed
        /\ (req'[h] = NoRequest \/ (req'[h].kind = req[h].kind /\ req'[h].appt = req[h].appt))
    BY <1>2 DEF GoesOn
  <2>2. ASSUME NEW f \in Sessions, NEW g \in Sessions PROVE Met(f, g)'
    <3>1. \A x \in Sessions :
            \/ req'[x].kind = "none" /\ req'[x].appt = None
            \/ req'[x].kind = req[x].kind /\ req'[x].appt = req[x].appt
      BY <1>1, <2>1, NoRequestFields
    <3>2. req[f].kind # "none" => req[f].appt # None
      BY <1>0, FollowUpConstants DEF Shape
    <3>3. Met(f, g)
      BY <1>0
    <3> QED
      BY <2>1, <3>1, <3>2, <3>3 DEF Met
  <2> QED
    BY <1>0, <2>1, <2>2
<1>3. CASE Begun(h)
  <2> DEFINE n == req'[h]
             new == {{n.kind, req[g].kind} : g \in {x \in Sessions : req[x].appt = n.appt}}
  <2>1. n.appt \in Appts /\ n.kind \in Kind
        /\ crossed' = [crossed EXCEPT ![n.appt] = @ \cup new]
    BY <1>3 DEF Begun
  <2>2. new \subseteq SUBSET Kind
    <3>1. ASSUME NEW g \in Sessions, req[g].appt = n.appt PROVE req[g].kind \in Kind
      <4>1. req[g].pc # "idle"
        BY <1>0, <2>1, <3>1, FollowUpConstants DEF Shape
      <4> QED
        BY <4>1, InFlight
    <3> QED
      BY <2>1, <3>1
  <2>3. /\ \A a \in Appts : crossed[a] \subseteq crossed'[a]
        /\ crossed' \in [Appts -> SUBSET SUBSET Kind]
        /\ crossed'[n.appt] = crossed[n.appt] \cup new
    BY <1>0, <2>1, <2>2
  <2>4. ASSUME NEW g \in Sessions, g # h, req[g].appt = n.appt
        PROVE  {n.kind, req[g].kind} \in crossed'[n.appt]
    BY <2>3, <2>4
  <2>5. ASSUME NEW f \in Sessions, NEW g \in Sessions PROVE Met(f, g)'
    <3>1. CASE f # h /\ g # h
      <4>1. req[f].kind # "none" => req[f].appt \in Appts
        BY <1>0 DEF Shape
      <4>2. Met(f, g) /\ req'[f] = req[f] /\ req'[g] = req[g]
        BY <1>0, <1>1, <3>1
      <4>3. \A a \in Appts : crossed[a] \subseteq crossed'[a]
        BY <2>3
      <4> HIDE DEF new
      <4> QED
        BY <4>1, <4>2, <4>3 DEF Met
    <3>2. CASE f = h /\ g # h
      BY <1>1, <2>4, <3>2 DEF Met
    <3>3. CASE f # h /\ g = h
      <4>1. {n.kind, req[f].kind} = {req[f].kind, n.kind}
        OBVIOUS
      <4> QED
        BY <1>1, <2>4, <3>3, <4>1 DEF Met
    <3>4. CASE f = g
      BY <3>4 DEF Met
    <3> QED
      BY <3>1, <3>2, <3>3, <3>4
  <2> QED
    BY <2>3, <2>5
<1> QED
  BY <1>2, <1>3, SessionFrame

LEMMA RequestsStep == TypeOK /\ RequestsInv /\ [Next]_vars => RequestsInv'
<1> SUFFICES ASSUME TypeOK, RequestsInv, [Next]_vars PROVE RequestsInv'
  OBVIOUS
<1>1. ASSUME NEW h \in Sessions, SessionStep(h) PROVE RequestsInv'
  <2>1. Shape(h)' /\ Keeps(h)'
    BY <1>1, ShapeStep
  <2>2. ASSUME NEW g \in Sessions, g # h PROVE Shape(g)' /\ Keeps(g)'
    <3>1. req'[g] = req[g] /\ StatusesGrow
      BY <1>1, <2>2, SessionFrame, RowStep
    <3>2. Shape(g) /\ Keeps(g)
      BY DEF RequestsInv
    <3> QED
      BY <3>1, <3>2 DEF Shape, Keeps, Holds, StatusesGrow
  <2> QED
    BY <1>1, <2>1, <2>2, RowStep, MetStep DEF RequestsInv
<1>2. CASE Others
  <2>1. row' = row /\ req' = req /\ crossed' = crossed
    BY <1>2, OthersFrame
  <2>2. \A h \in Sessions : Shape(h)' /\ Keeps(h)'
    BY <2>1 DEF RequestsInv, Shape, Keeps, Holds
  <2>3. \A a \in Appts : Blank(a)'
    BY <2>1 DEF RequestsInv, Blank
  <2>4. \A g, h \in Sessions : Met(g, h)'
    BY <2>1 DEF RequestsInv, Met
  <2> QED
    BY <2>2, <2>3, <2>4 DEF RequestsInv
<1> QED
  BY <1>1, <1>2, Steps


(* The two counters keep to their bounds.                                  *)
LEMMA CountersStep ==
  ASSUME TypeOK, NEW h \in Sessions, SessionStep(h)
  PROVE  begun' \in 0 .. MaxRequests /\ failures' \in 0 .. MaxFailures
<1>0. begun \in 0 .. MaxRequests /\ failures \in 0 .. MaxFailures
      /\ MaxRequests \in Nat /\ MaxFailures \in Nat
  BY FollowUpConstants DEF TypeOK
<1>1. ASSUME NEW well, Goes(well) PROVE failures' \in 0 .. MaxFailures
  BY <1>0, <1>1 DEF Goes, Fails
<1>2. ASSUME NEW n, Begin(h, n) PROVE begun' \in 0 .. MaxRequests /\ failures' = failures
  BY <1>0, <1>2 DEF Begin
<1>3. CASE Book(h) \/ LoadMove(h) \/ LoadCancel(h) \/ LoadRetry(h)
  BY <1>0, <1>2, <1>3 DEF Book, LoadMove, LoadCancel, LoadRetry, Load
<1>4. CASE CommitChange(h) \/ SlotTaken(h) \/ Refresh(h) \/ FindReminder(h) \/ Finish(h)
           \/ FinishRetry(h)
  BY <1>0, <1>4 DEF CommitChange, SlotTaken, Refresh, FindReminder, Finish, FinishRetry
<1>5. CASE CallCreate(h) \/ CallUpdate(h) \/ CallCancel(h)
  BY <1>0, <1>1, <1>5 DEF CallCreate, CallUpdate, CallCancel, Answered
<1>6. CASE Notify(h)
  BY <1>0, <1>1, <1>6 DEF Notify
<1>7. CASE RequestDies(h)
  BY <1>0, <1>7 DEF RequestDies, Fails
<1> QED
  BY <1>3, <1>4, <1>5, <1>6, <1>7 DEF SessionStep

LEMMA SessionTypes ==
  ASSUME TypeOK, RequestsInv, NEW h \in Sessions, SessionStep(h)
  PROVE  TypeOK'
<1>1. /\ event' \in [Events -> Event] /\ job' \in [Appts -> Job]
      /\ told' \in [Appts -> Notice] /\ cut' \in [Appts -> SUBSET Kind]
  <2>0. /\ event \in [Events -> Event] /\ job \in [Appts -> Job]
        /\ told \in [Appts -> Notice] /\ cut \in [Appts -> SUBSET Kind]
    BY DEF TypeOK
  <2>1. CASE Book(h) \/ LoadMove(h) \/ LoadCancel(h) \/ LoadRetry(h)
    BY <2>0, <2>1, BookDoes, LoadMoveDoes, LoadCancelDoes, LoadRetryDoes DEF Begun
  <2>2. CASE CommitChange(h) \/ SlotTaken(h) \/ Refresh(h) \/ FindReminder(h)
    BY <2>0, <2>2, CommitChangeDoes, SlotTakenDoes, RefreshDoes, FindReminderDoes
  <2>3. CASE CallCreate(h) \/ CallUpdate(h) \/ CallCancel(h)
    BY <2>0, <2>3, CallCreateDoes, CallUpdateDoes, CallCancelDoes
  <2>4. CASE Notify(h)
    BY <2>0, <2>4, NotifyDoes
  <2>5. CASE Finish(h) \/ FinishRetry(h)
    BY <2>0, <2>5, FinishDoes, FinishRetryDoes
  <2>6. CASE RequestDies(h)
    BY <2>0, <2>6, RequestDiesDoes
  <2> QED
    BY <2>1, <2>2, <2>3, <2>4, <2>5, <2>6 DEF SessionStep
<1>2. row' \in [Appts -> Row] /\ req' \in [Sessions -> Request]
      /\ crossed' \in [Appts -> SUBSET SUBSET Kind]
      /\ UNCHANGED <<clock, tick, mail, lost>>
  BY SessionFrame, RowStep, MetStep
<1> QED
  BY <1>1, <1>2, CountersStep DEF TypeOK


-----------------------------------------------------------------------------
(* What each step does to the ticks.                                       *)

LEMMA TickParts ==
  ASSUME TypeOK, NEW w \in Workers
  PROVE  /\ tick[w] \in Tick /\ tick[w].claimed \subseteq Appts /\ tick[w].todo \subseteq Appts
         /\ tick[w].failed \subseteq Appts /\ tick[w].sent \subseteq Appts
         /\ tick[w].appt \in Appts \cup {None} /\ tick[w].start \in Starts \cup {None}
  BY DEF TypeOK, Tick

LEMMA NoTickHolds ==
  NoTick.claimed = {} /\ NoTick.todo = {} /\ NoTick.failed = {} /\ NoTick.sent = {}
  /\ NoTick.appt = None
BY DEF NoTick

LEMMA ClaimJobsDoes ==
  ASSUME TypeOK, NEW w \in Workers, ClaimJobs(w)
  PROVE  LET n == tick'[w] IN
           /\ tick' \in [Workers -> Tick]
           /\ \A v \in Workers : v # w => tick'[v] = tick[v]
           /\ tick[w] = NoTick
           /\ n.claimed = Claimable(w) /\ n.todo = Claimable(w) /\ n.failed = {}
           /\ n.sent = {} /\ n.appt = None
           /\ UNCHANGED <<clock, job, mail, lost, failures>>
<1> DEFINE n == [NoTick EXCEPT !.claimed = Claimable(w), !.todo = Claimable(w)]
<1>1. tick[w] = NoTick /\ tick' = [tick EXCEPT ![w] = n]
      /\ UNCHANGED <<clock, job, mail, lost, failures>>
  BY DEF ClaimJobs
<1>2. n \in Tick /\ n.claimed = Claimable(w) /\ n.todo = Claimable(w) /\ n.failed = {}
      /\ n.sent = {} /\ n.appt = None
  BY BlankTypes DEF NoTick, Tick, Claimable, Due
<1> HIDE DEF n
<1> QED
  BY <1>1, <1>2 DEF TypeOK

LEMMA ReadAppointmentDoes ==
  ASSUME TypeOK, NEW w \in Workers, ReadAppointment(w)
  PROVE  LET t == tick[w]
             n == tick'[w] IN
           /\ tick' \in [Workers -> Tick]
           /\ \A v \in Workers : v # w => tick'[v] = tick[v]
           /\ t.appt = None
           /\ n.claimed = t.claimed /\ n.failed = t.failed /\ n.sent = t.sent
           /\ \E a \in t.todo :
                /\ n.todo = t.todo \ {a}
                /\ \/ n.appt = a /\ row[a].status = "BOOKED" /\ n.start = row[a].start
                   \/ n.appt = None
           /\ UNCHANGED <<clock, job, mail, lost, failures>>
<1> DEFINE t == tick[w]
<1>1. PICK a \in t.todo :
        tick' = [tick EXCEPT ![w].todo = @ \ {a},
                             ![w].appt = IF row[a].status = "BOOKED" THEN a ELSE None,
                             ![w].start = IF row[a].status = "BOOKED" THEN row[a].start
                                          ELSE None]
  BY DEF ReadAppointment
<1>2. t \in Tick /\ a \in Appts /\ row[a] \in Row
  BY TickParts DEF TypeOK
<1> DEFINE x == IF row[a].status = "BOOKED" THEN a ELSE None
           s == IF row[a].status = "BOOKED" THEN row[a].start ELSE None
           n == [t EXCEPT !.todo = @ \ {a}, !.appt = x, !.start = s]
<1>3. x \in Appts \cup {None} /\ s \in Starts \cup {None}
  BY <1>2 DEF Row
<1>4. tick' = [tick EXCEPT ![w] = n]
  BY <1>1
<1>5. \/ x = a /\ row[a].status = "BOOKED" /\ s = row[a].start
      \/ x = None
  OBVIOUS
<1> HIDE DEF x, s
<1>6. n \in Tick /\ n.claimed = t.claimed /\ n.failed = t.failed /\ n.sent = t.sent
      /\ n.todo = t.todo \ {a} /\ n.appt = x /\ n.start = s
  BY <1>2, <1>3 DEF Tick
<1> HIDE DEF n
<1>7. tick' \in [Workers -> Tick] /\ tick'[w] = n
      /\ \A v \in Workers : v # w => tick'[v] = tick[v]
  BY <1>4, <1>6 DEF TypeOK
<1> QED
  BY <1>5, <1>6, <1>7 DEF ReadAppointment

LEMMA SendReminderDoes ==
  ASSUME TypeOK, NEW w \in Workers, SendReminder(w)
  PROVE  LET t == tick[w]
             n == tick'[w]
             a == t.appt IN
           /\ tick' \in [Workers -> Tick] /\ mail' \in [Appts -> Nat]
           /\ \A v \in Workers : v # w => tick'[v] = tick[v]
           /\ a \in Appts /\ n.appt = None /\ n.claimed = t.claimed /\ n.todo = t.todo
           /\ n.failed \subseteq t.failed \cup {a}
           /\ \A b \in Appts : b # a => mail'[b] = mail[b]
           /\ \/ n.sent = t.sent \cup {a} /\ mail'[a] = mail[a] + 1
              \/ n.sent = t.sent /\ mail'[a] = mail[a]
           /\ failures' \in 0 .. MaxFailures
           /\ UNCHANGED <<clock, job, lost>>
<1> DEFINE t == tick[w]
           a == t.appt
<1>1. PICK s \in Send :
        /\ Goes(s = "SENT")
        /\ tick' = [tick EXCEPT ![w].appt = None, ![w].start = None,
                      ![w].failed = IF s = "raises" THEN @ \cup {a} ELSE @,
                      ![w].sent = IF s = "SENT" THEN @ \cup {a} ELSE @]
        /\ mail' = [mail EXCEPT ![a] = IF s = "SENT" THEN @ + 1 ELSE @]
  BY DEF SendReminder
<1>2. t \in Tick /\ a \in Appts /\ t.failed \subseteq Appts /\ t.sent \subseteq Appts
  BY TickParts DEF SendReminder
<1> DEFINE f == IF s = "raises" THEN t.failed \cup {a} ELSE t.failed
           z == IF s = "SENT" THEN t.sent \cup {a} ELSE t.sent
           n == [t EXCEPT !.appt = None, !.start = None, !.failed = f, !.sent = z]
<1>3. f \in SUBSET Appts /\ z \in SUBSET Appts /\ f \subseteq t.failed \cup {a}
      /\ (s = "SENT" => z = t.sent \cup {a}) /\ (s # "SENT" => z = t.sent)
  BY <1>2
<1>4. tick' = [tick EXCEPT ![w] = n]
  BY <1>1
<1> HIDE DEF f, z
<1>5. n \in Tick /\ n.claimed = t.claimed /\ n.todo = t.todo /\ n.appt = None
      /\ n.failed = f /\ n.sent = z
  BY <1>2, <1>3 DEF Tick
<1> HIDE DEF n
<1>6. tick' \in [Workers -> Tick] /\ tick'[w] = n
      /\ \A v \in Workers : v # w => tick'[v] = tick[v]
  BY <1>4, <1>5 DEF TypeOK
<1>7. /\ mail' \in [Appts -> Nat]
      /\ \A b \in Appts : b # a => mail'[b] = mail[b]
      /\ mail'[a] = IF s = "SENT" THEN mail[a] + 1 ELSE mail[a]
  BY <1>1, <1>2 DEF TypeOK
<1>8. failures' \in 0 .. MaxFailures
  BY <1>1, FollowUpConstants DEF Goes, Fails, TypeOK
<1> QED
  BY <1>2, <1>3, <1>5, <1>6, <1>7, <1>8 DEF SendReminder

LEMMA WorkerDiesDoes ==
  ASSUME TypeOK, NEW w \in Workers, WorkerDies(w)
  PROVE  /\ tick' \in [Workers -> Tick] /\ tick'[w] = NoTick
         /\ \A v \in Workers : v # w => tick'[v] = tick[v]
         /\ lost' \in [Appts -> Nat]
         /\ \A a \in Appts : lost'[a] = IF a \in tick[w].sent THEN lost[a] + 1 ELSE lost[a]
         /\ failures' \in 0 .. MaxFailures
         /\ UNCHANGED <<clock, job, mail>>
<1>1. tick' = [tick EXCEPT ![w] = NoTick]
      /\ lost' = [a \in Appts |-> IF a \in tick[w].sent THEN lost[a] + 1 ELSE lost[a]]
      /\ UNCHANGED <<clock, job, mail>>
  BY DEF WorkerDies
<1>2. failures' \in 0 .. MaxFailures
  BY FollowUpConstants DEF WorkerDies, Fails, TypeOK
<1> QED
  BY <1>1, <1>2, BlankTypes DEF TypeOK

LEMMA CommitRemindersDoes ==
  ASSUME TypeOK, NEW w \in Workers, CommitReminders(w)
  PROVE  /\ tick' \in [Workers -> Tick] /\ tick'[w] = NoTick
         /\ \A v \in Workers : v # w => tick'[v] = tick[v]
         /\ job' \in [Appts -> Job]
         /\ \A a \in Appts :
              \/ a \in tick[w].claimed \cup tick[w].failed
                 /\ job'[a].status \in {"DONE", "FAILED_RETRYABLE"}
              \/ a \notin tick[w].claimed \cup tick[w].failed /\ job'[a] = job[a]
         /\ tick[w].todo = {} /\ tick[w].appt = None
         /\ UNCHANGED <<clock, mail, lost, failures>>
<1> DEFINE t == tick[w]
           j(a) == IF a \in t.failed THEN [job[a] EXCEPT !.status = "FAILED_RETRYABLE"]
                   ELSE IF a \in t.claimed THEN [job[a] EXCEPT !.status = "DONE"]
                   ELSE job[a]
<1>1. /\ tick' = [tick EXCEPT ![w] = NoTick] /\ t.todo = {} /\ t.appt = None
      /\ job' = [a \in Appts |-> j(a)]
      /\ UNCHANGED <<clock, mail, lost, failures>>
  BY DEF CommitReminders
<1>2. ASSUME NEW a \in Appts
      PROVE  /\ j(a) \in Job
             /\ \/ a \in t.claimed \cup t.failed
                   /\ j(a).status \in {"DONE", "FAILED_RETRYABLE"}
                \/ a \notin t.claimed \cup t.failed /\ j(a) = job[a]
  <2>1. job[a] \in Job
    BY DEF TypeOK
  <2> QED
    BY <2>1 DEF Job
<1> HIDE DEF j
<1>3. job' \in [Appts -> Job] /\ \A a \in Appts : job'[a] = j(a)
  BY <1>1, <1>2
<1> QED
  BY <1>1, <1>2, <1>3, BlankTypes DEF TypeOK

LEMMA OthersTypes ==
  ASSUME TypeOK, Others
  PROVE  TypeOK'
<1>1. UNCHANGED <<row, event, told, req, cut, crossed, begun>>
  BY OthersFrame
<1>2. CASE \E w \in Workers : WorkerStep(w)
  <2>1. PICK w \in Workers : WorkerStep(w)
    BY <1>2
  <2>2. /\ tick' \in [Workers -> Tick] /\ job' \in [Appts -> Job] /\ mail' \in [Appts -> Nat]
        /\ lost' \in [Appts -> Nat] /\ failures' \in 0 .. MaxFailures /\ clock' = clock
    <3>0. job \in [Appts -> Job] /\ mail \in [Appts -> Nat] /\ lost \in [Appts -> Nat]
          /\ failures \in 0 .. MaxFailures
      BY DEF TypeOK
    <3>1. CASE ClaimJobs(w)
      BY <3>0, <3>1, ClaimJobsDoes
    <3>2. CASE ReadAppointment(w)
      BY <3>0, <3>2, ReadAppointmentDoes
    <3>3. CASE SendReminder(w)
      BY <3>0, <3>3, SendReminderDoes
    <3>4. CASE CommitReminders(w)
      BY <3>0, <3>4, CommitRemindersDoes
    <3>5. CASE WorkerDies(w)
      BY <3>0, <3>5, WorkerDiesDoes
    <3> QED
      BY <2>1, <3>1, <3>2, <3>3, <3>4, <3>5 DEF WorkerStep
  <2> QED
    BY <1>1, <2>2 DEF TypeOK
<1>3. CASE TimePasses
  BY <1>1, <1>3, FollowUpConstants DEF TimePasses, TypeOK, reminding
<1>4. CASE UNCHANGED vars
  BY <1>1, <1>4 DEF vars, TypeOK, reminding
<1> QED
  BY <1>2, <1>3, <1>4 DEF Others

LEMMA TypeStep == TypeOK /\ RequestsInv /\ [Next]_vars => TypeOK'
  BY Steps, SessionTypes, OthersTypes


-----------------------------------------------------------------------------
(* The calendar's events.                                                  *)

(* An event belongs to the appointment that names it, and is there until   *)
(* the appointment is cancelled.                                           *)
Owns(a, e) == e # None => event[e].appt = a

RowOwns(a) == Owns(a, row[a].event)

RequestOwns(h) ==
  Holds(h) => Owns(req[h].appt, req[h].row.event) /\ Owns(req[h].appt, req[h].loaded.event)

Lives(e) ==
  event[e].appt \in Appts /\ row[event[e].appt].status # "CANCELLED" => event[e].live

EventsInv ==
  /\ \A a \in Appts : RowOwns(a)
  /\ \A h \in Sessions : RequestOwns(h)
  /\ \A e \in Events : Lives(e)

(* What a session may do to an event.                                      *)
Made(h, e) ==
  /\ event[e] = NoEvent /\ req[h].kind # "cancel"
  /\ event'[e] = [appt |-> req[h].appt, at |-> req[h].row.start, live |-> TRUE]

Moved(h, e) ==
  /\ req[h].kind = "move" /\ e = req[h].row.event
  /\ event'[e].appt = event[e].appt /\ event'[e].live = event[e].live

Killed(h, e) ==
  req[h].kind = "cancel" /\ e = req[h].row.event /\ event'[e].appt = event[e].appt

LEMMA EventStep ==
  ASSUME TypeOK, RequestsInv, NEW h \in Sessions, SessionStep(h), NEW e \in Events
  PROVE  \/ event'[e] = event[e]
         \/ req[h].pc = "calendar" /\ (Made(h, e) \/ Moved(h, e) \/ Killed(h, e))
<1>1. CASE CallCreate(h)
  <2> DEFINE made == [appt |-> req[h].appt, at |-> req[h].row.start, live |-> TRUE]
  <2>1. req[h].pc = "calendar" /\ req[h].kind # "cancel"
    BY <1>1, CallCreateDoes
  <2>2. PICK f \in Events : /\ event[f] = NoEvent /\ event'[f] \in {NoEvent, made}
                            /\ \A g \in Events : g # f => event'[g] = event[g]
    BY <1>1, CallCreateDoes
  <2> HIDE DEF made
  <2>3. event'[e] = event[e] \/ (event[e] = NoEvent /\ event'[e] = made)
    BY <2>2
  <2> QED
    BY <2>1, <2>3 DEF Made, made
<1>2. CASE CallUpdate(h)
  BY <1>2, CallUpdateDoes DEF Moved
<1>3. CASE CallCancel(h)
  BY <1>3, CallCancelDoes DEF Killed
<1> QED
  BY <1>1, <1>2, <1>3, BookDoes, LoadMoveDoes, LoadCancelDoes, LoadRetryDoes, CommitChangeDoes, SlotTakenDoes, RefreshDoes,
     NotifyDoes, FindReminderDoes, FinishDoes, FinishRetryDoes, RequestDiesDoes
     DEF SessionStep, Begun

(* An event that is there keeps its appointment.                           *)
LEMMA OwnsStep ==
  ASSUME TypeOK, RequestsInv, NEW h \in Sessions, SessionStep(h),
         NEW a \in Appts, NEW e \in Events \cup {None}, Owns(a, e)
  PROVE  Owns(a, e)'
<1>1. NoEvent.appt # a
  BY FollowUpConstants DEF NoEvent
<1>2. CASE e = None
  BY <1>2 DEF Owns
<1>3. CASE e # None
  <2>1. e \in Events /\ event[e].appt = a /\ event[e] # NoEvent
    BY <1>1, <1>3 DEF Owns
  <2>2. event'[e].appt = event[e].appt
    BY <2>1, EventStep DEF Made, Moved, Killed
  <2> QED
    BY <2>1, <2>2 DEF Owns
<1> QED
  BY <1>2, <1>3

(* A new event belongs to the appointment it was made for.                 *)
LEMMA RequestOwnsStep ==
  ASSUME TypeOK, RequestsInv, EventsInv, NEW h \in Sessions, SessionStep(h)
  PROVE  RequestOwns(h)'
<1> DEFINE r == req[h]
           n == req'[h]
<1>1. CASE ~ Holds(h)'
  BY <1>1 DEF RequestOwns
<1>2. CASE LoadRetry(h) \/ Refresh(h)
  <2>1. /\ n.appt \in Appts /\ event' = event
        /\ n.pc = "calendar" => n.loaded.event = row[n.appt].event
                                /\ n.row.event = row[n.appt].event
    BY <1>2, LoadMoveDoes, LoadCancelDoes, LoadRetryDoes, RefreshDoes, InFlight DEF Begun
  <2>2. n.pc = "calendar"
    BY <1>2, LoadMoveDoes, LoadCancelDoes, LoadRetryDoes, RefreshDoes DEF LoadRetry, Load, Begin, TypeOK
  <2> QED
    BY <2>1, <2>2 DEF RequestOwns, EventsInv, RowOwns, Owns
<1>3. CASE CallCreate(h) \/ CallUpdate(h) \/ CallCancel(h)
  <2>1. /\ r.pc = "calendar" /\ n.appt = r.appt /\ n.loaded = r.loaded
        /\ \/ n.row.event = r.row.event
           \/ n.row.event \in Events /\ event'[n.row.event].appt = r.appt
    <3>1. CASE CallCreate(h)
      <4>1. /\ r.pc = "calendar" /\ n.appt = r.appt /\ n.loaded = r.loaded
            /\ \E e \in Events :
                 \/ event'[e] = [appt |-> r.appt, at |-> r.row.start, live |-> TRUE]
                    /\ n.row.event = e
                 \/ n.row.event = r.row.event
        BY <3>1, CallCreateDoes
      <4>2. [appt |-> r.appt, at |-> r.row.start, live |-> TRUE].appt = r.appt
        OBVIOUS
      <4> QED
        BY <4>1, <4>2
    <3>2. CASE CallUpdate(h) \/ CallCancel(h)
      BY <3>2, CallUpdateDoes, CallCancelDoes
    <3> QED
      BY <1>3, <3>1, <3>2
  <2>2. r.appt \in Appts /\ r.row.event \in Events \cup {None}
        /\ r.loaded.event \in Events \cup {None}
    BY <2>1, InFlight DEF Row
  <2>3. Owns(r.appt, r.row.event) /\ Owns(r.appt, r.loaded.event)
    BY <2>1 DEF EventsInv, RequestOwns, Holds
  <2>4. \A e \in Events \cup {None} :
          Owns(r.appt, e) => (e # None => event'[e].appt = r.appt)
    BY <2>2, OwnsStep DEF Owns
  <2>5. /\ r.row.event # None => event'[r.row.event].appt = r.appt
        /\ r.loaded.event # None => event'[r.loaded.event].appt = r.appt
    BY <2>2, <2>3, <2>4
  <2> QED
    BY <2>1, <2>2, <2>5 DEF RequestOwns, Owns
<1>4. CASE Notify(h) \/ FindReminder(h)
  <2>1. \/ n = NoRequest
        \/ /\ Holds(h) /\ n.appt = r.appt /\ n.loaded = r.loaded /\ n.row = r.row
           /\ event' = event
    BY <1>4, NotifyDoes, FindReminderDoes DEF Holds
  <2>2. n = NoRequest => ~ Holds(h)'
    BY NoRequestFields DEF Holds
  <2> QED
    BY <1>1, <2>1, <2>2 DEF RequestOwns, EventsInv, Owns
<1>5. CASE \/ Book(h) \/ LoadMove(h) \/ LoadCancel(h) \/ CommitChange(h) \/ SlotTaken(h)
           \/ Finish(h) \/ FinishRetry(h) \/ RequestDies(h)
  <2>1. n.pc \in {"refresh", "loaded"} \/ n = NoRequest
    BY <1>5, BookDoes, LoadMoveDoes, LoadCancelDoes, CommitChangeDoes, SlotTakenDoes,
       FinishDoes, FinishRetryDoes, RequestDiesDoes
  <2> QED
    BY <1>1, <2>1, NoRequestFields DEF Holds
<1> QED
  BY <1>2, <1>3, <1>4, <1>5 DEF SessionStep


(* Only the second transaction's end writes the event of a row.            *)
LEMMA RowEvent ==
  ASSUME TypeOK, RequestsInv, NEW h \in Sessions, SessionStep(h), NEW a \in Appts
  PROVE  \/ row'[a].event = row[a].event
         \/ Holds(h) /\ a = req[h].appt /\ row'[a].event = req[h].row.event
<1>1. CASE CommitChange(h) \/ Finish(h) \/ FinishRetry(h)
  <2>1. Written(h) /\ (req[h].pc = "loaded" \/ Holds(h)) /\ req[h].kind # "none"
        /\ req[h].pc # "refresh"
    BY <1>1, CommitChangeDoes, FinishDoes, FinishRetryDoes DEF GoesOn, Holds
  <2>2. /\ \A b \in Appts : b # req[h].appt => row'[b] = row[b]
        /\ \/ row'[req[h].appt].event = row[req[h].appt].event
           \/ Holds(h) /\ row'[req[h].appt].event = req[h].row.event
    BY <2>1, WrittenRow
  <2> QED
    BY <2>2
<1>2. CASE Book(h)
  BY <1>2, BookDoes
<1> QED
  BY <1>1, <1>2, LoadMoveDoes, LoadCancelDoes, LoadRetryDoes, SlotTakenDoes, RefreshDoes,
     CallCreateDoes, CallUpdateDoes, CallCancelDoes, NotifyDoes, FindReminderDoes,
     RequestDiesDoes DEF SessionStep

LEMMA LivesStep ==
  ASSUME TypeOK, RequestsInv, EventsInv, NEW h \in Sessions, SessionStep(h), NEW e \in Events
  PROVE  Lives(e)'
<1> DEFINE r == req[h]
<1>0. Lives(e) /\ StatusesGrow
  BY RowStep DEF EventsInv
<1>1. CASE event'[e] = event[e] \/ Moved(h, e)
  <2>1. event'[e].appt = event[e].appt /\ event'[e].live = event[e].live
    BY <1>1 DEF Moved
  <2> QED
    BY <1>0, <2>1 DEF Lives, StatusesGrow
<1>2. CASE Made(h, e)
  BY <1>2 DEF Made, Lives
<1>3. CASE r.pc = "calendar" /\ Killed(h, e)
  <2>1. /\ r.kind = "cancel" /\ e = r.row.event /\ event'[e].appt = event[e].appt
        /\ RequestOwns(h) /\ Keeps(h) /\ r.appt \in Appts
    BY <1>3, InFlight DEF Killed, EventsInv
  <2>2. row[r.appt].status = "CANCELLED" /\ event[e].appt = r.appt
    BY <1>3, <2>1, FollowUpConstants DEF RequestOwns, Holds, Owns, Keeps, Events
  <2> QED
    BY <1>0, <2>1, <2>2 DEF Lives, StatusesGrow
<1> QED
  BY <1>1, <1>2, <1>3, EventStep

LEMMA EventsStep == TypeOK /\ RequestsInv /\ EventsInv /\ [Next]_vars => EventsInv'
<1> SUFFICES ASSUME TypeOK, RequestsInv, EventsInv, [Next]_vars PROVE EventsInv'
  OBVIOUS
<1>1. ASSUME NEW h \in Sessions, SessionStep(h) PROVE EventsInv'
  <2>0. ASSUME NEW a \in Appts, NEW e \in Events \cup {None}, Owns(a, e)
        PROVE  e # None => event'[e].appt = a
    BY <1>1, <2>0, OwnsStep DEF Owns
  <2>1. ASSUME NEW a \in Appts PROVE RowOwns(a)'
    <3>1. PICK e \in Events \cup {None} : row'[a].event = e /\ Owns(a, e)
      <4>1. CASE row'[a].event = row[a].event
        <5>1. row[a] \in Row /\ Owns(a, row[a].event)
          BY DEF TypeOK, EventsInv, RowOwns
        <5>2. row[a].event \in Events \cup {None}
          BY <5>1 DEF Row
        <5> QED
          BY <4>1, <5>1, <5>2
      <4>2. CASE Holds(h) /\ a = req[h].appt /\ row'[a].event = req[h].row.event
        <5>1. req[h].row \in Row /\ Owns(a, req[h].row.event)
          BY <4>2, InFlight DEF EventsInv, RequestOwns, Holds
        <5>2. req[h].row.event \in Events \cup {None}
          BY <5>1 DEF Row
        <5> QED
          BY <4>2, <5>1, <5>2
      <4> QED
        BY <1>1, <4>1, <4>2, RowEvent
    <3>2. e # None => event'[e].appt = a
      BY <2>0, <3>1
    <3> QED
      BY <3>1, <3>2 DEF RowOwns, Owns
  <2>2. ASSUME NEW g \in Sessions, g # h PROVE RequestOwns(g)'
    <3>1. req'[g] = req[g] /\ RequestOwns(g)
      BY <1>1, <2>2, SessionFrame DEF EventsInv
    <3>2. CASE Holds(g)
      <4> DEFINE r == req[g]
      <4>1. r.appt \in Appts /\ r.row \in Row /\ r.loaded \in Row
            /\ Owns(r.appt, r.row.event) /\ Owns(r.appt, r.loaded.event)
        BY <3>1, <3>2, InFlight DEF Holds, RequestOwns
      <4>2. r.row.event \in Events \cup {None} /\ r.loaded.event \in Events \cup {None}
        BY <4>1 DEF Row
      <4>3. /\ r.row.event # None => event'[r.row.event].appt = r.appt
            /\ r.loaded.event # None => event'[r.loaded.event].appt = r.appt
        BY <2>0, <4>1, <4>2
      <4> QED
        BY <3>1, <4>3 DEF RequestOwns, Owns
    <3>3. CASE ~ Holds(g)
      BY <3>1, <3>3 DEF RequestOwns, Holds
    <3> QED
      BY <3>2, <3>3
  <2> QED
    BY <1>1, <2>1, <2>2, RequestOwnsStep, LivesStep DEF EventsInv
<1>2. CASE Others
  <2>1. row' = row /\ req' = req /\ event' = event
    BY <1>2, OthersFrame
  <2> QED
    BY <2>1 DEF EventsInv, RowOwns, RequestOwns, Lives, Owns, Holds
<1> QED
  BY <1>1, <1>2, Steps

LEMMA LiveEvents == TypeOK /\ EventsInv => BookedEventIsLive
<1> SUFFICES ASSUME TypeOK, EventsInv, NEW a \in Appts, row[a].status = "BOOKED",
                    row[a].event # None
             PROVE  event[row[a].event].appt = a /\ event[row[a].event].live
  BY DEF BookedEventIsLive
<1>1. row[a] \in Row
  BY DEF TypeOK
<1>2. row[a].event \in Events
  BY <1>1 DEF Row
<1> QED
  BY <1>2 DEF EventsInv, RowOwns, Owns, Lives


-----------------------------------------------------------------------------
(* The start that a request holds.                                         *)

(* A request that met no move has the start that the row has.              *)
StartHeld(h) ==
  Holds(h) /\ {"move", req[h].kind} \notin crossed[req[h].appt] =>
    req[h].row.start = row[req[h].appt].start

StartsInv == \A h \in Sessions : StartHeld(h)

LEMMA Meets ==
  ASSUME TypeOK, RequestsInv, NEW g \in Sessions, NEW h \in Sessions, g # h,
         req[g].kind # "none", req[g].appt = req[h].appt
  PROVE  {req[g].kind, req[h].kind} \in crossed[req[h].appt]
  BY DEF RequestsInv, Met

(* Only the commit of a move changes a start, and only the commit of a     *)
(* cancellation a status, once there is an appointment.                    *)
LEMMA RowStart ==
  ASSUME TypeOK, RequestsInv, NEW h \in Sessions, SessionStep(h), NEW a \in Appts
  PROVE  \/ row'[a].start = row[a].start /\ row'[a].status = row[a].status
         \/ Book(h) /\ row[a].status = "FREE" /\ a = req'[h].appt
         \/ /\ CommitChange(h) /\ a = req[h].appt /\ req[h].kind = "move"
            /\ row'[a].status = row[a].status
         \/ /\ CommitChange(h) /\ a = req[h].appt /\ req[h].kind = "cancel"
            /\ row'[a].start = row[a].start
<1>1. CASE CommitChange(h) \/ Finish(h) \/ FinishRetry(h)
  <2> DEFINE r == req[h]
  <2>1. Written(h) /\ (Holds(h) \/ (r.pc = "loaded" /\ CommitChange(h))) /\ r.kind # "none"
        /\ r.pc # "refresh" /\ r.pc # "idle"
    BY <1>1, CommitChangeDoes, FinishDoes, FinishRetryDoes DEF GoesOn, Holds
  <2>2. r.pc = "loaded" => r.kind \in {"move", "cancel"}
    BY <2>1, InFlight DEF Shape
  <2>3. /\ \A b \in Appts : b # r.appt => row'[b] = row[b]
        /\ \/ /\ row'[r.appt].start = row[r.appt].start
              /\ row'[r.appt].status = row[r.appt].status
           \/ r.pc = "loaded" /\ r.kind = "move" /\ row'[r.appt].status = row[r.appt].status
           \/ r.pc = "loaded" /\ r.kind = "cancel" /\ row'[r.appt].start = row[r.appt].start
    BY <2>1, <2>2, WrittenRow
  <2>4. r.pc = "loaded" => CommitChange(h)
    BY <2>1 DEF Holds
  <2> QED
    BY <2>3, <2>4
<1>2. CASE Book(h)
  BY <1>2, BookDoes
<1> QED
  BY <1>1, <1>2, LoadMoveDoes, LoadCancelDoes, LoadRetryDoes, SlotTakenDoes, RefreshDoes,
     CallCreateDoes, CallUpdateDoes, CallCancelDoes, NotifyDoes, FindReminderDoes,
     RequestDiesDoes DEF SessionStep

LEMMA StartsStep == TypeOK /\ RequestsInv /\ StartsInv /\ [Next]_vars => StartsInv'
<1> SUFFICES ASSUME TypeOK, RequestsInv, StartsInv, [Next]_vars PROVE StartsInv'
  OBVIOUS
<1>1. ASSUME NEW h \in Sessions, SessionStep(h) PROVE StartsInv'
  <2>1. ASSUME NEW g \in Sessions, g # h PROVE StartHeld(g)'
    <3>1. req'[g] = req[g] /\ StartHeld(g)
      BY <1>1, <2>1, SessionFrame DEF StartsInv
    <3>2. CASE Holds(g)
      <4> DEFINE a == req[g].appt
      <4>1. a \in Appts /\ req[g].kind # "none" /\ row[a].status # "FREE"
            /\ crossed[a] \subseteq crossed'[a]
        BY <1>1, <3>2, InFlight, MetStep DEF Holds, Keeps
      <4>2. CASE row'[a].start = row[a].start
        BY <3>1, <4>1, <4>2 DEF StartHeld, Holds
      <4>3. CASE CommitChange(h) /\ a = req[h].appt /\ req[h].kind = "move"
        <5>1. {"move", req[g].kind} \in crossed[a]
          BY <2>1, <4>3, Meets
        <5> QED
          BY <3>1, <4>1, <5>1 DEF StartHeld, Holds
      <4> QED
        BY <1>1, <4>1, <4>2, <4>3, RowStart
    <3>3. CASE ~ Holds(g)
      BY <3>1, <3>3 DEF StartHeld, Holds
    <3> QED
      BY <3>2, <3>3
  <2>2. StartHeld(h)'
    <3> DEFINE r == req[h]
               n == req'[h]
    <3>1. CASE LoadRetry(h) \/ Refresh(h)
      <4>1. n.row = row[n.appt] /\ row' = row
        BY <3>1, LoadRetryDoes, RefreshDoes
      <4> QED
        BY <4>1 DEF StartHeld
    <3>2. CASE CallCreate(h) \/ CallUpdate(h) \/ CallCancel(h) \/ Notify(h) \/ FindReminder(h)
      <4>1. \/ n = NoRequest
            \/ /\ Holds(h) /\ n.appt = r.appt /\ n.kind = r.kind /\ n.row.start = r.row.start
               /\ row' = row /\ crossed' = crossed
        BY <3>2, CallCreateDoes, CallUpdateDoes, CallCancelDoes, NotifyDoes, FindReminderDoes
           DEF Holds, GoesOn
      <4>2. StartHeld(h)
        BY DEF StartsInv
      <4> QED
        BY <4>1, <4>2, NoRequestFields DEF StartHeld, Holds
    <3>3. CASE \/ Book(h) \/ LoadMove(h) \/ LoadCancel(h) \/ CommitChange(h) \/ SlotTaken(h)
               \/ Finish(h) \/ FinishRetry(h) \/ RequestDies(h)
      <4>1. n.pc \in {"refresh", "loaded"} \/ n = NoRequest
        BY <3>3, BookDoes, LoadMoveDoes, LoadCancelDoes, CommitChangeDoes, SlotTakenDoes,
           FinishDoes, FinishRetryDoes, RequestDiesDoes
      <4> QED
        BY <4>1, NoRequestFields DEF StartHeld, Holds
    <3> QED
      BY <1>1, <3>1, <3>2, <3>3 DEF SessionStep
  <2> QED
    BY <2>1, <2>2 DEF StartsInv
<1>2. CASE Others
  <2>1. row' = row /\ req' = req /\ crossed' = crossed
    BY <1>2, OthersFrame
  <2> QED
    BY <2>1 DEF StartsInv, StartHeld, Holds
<1> QED
  BY <1>1, <1>2, Steps

-----------------------------------------------------------------------------
(* The calendar, when no move was cut short or met another writer.         *)

Apart(a) == "move" \notin cut[a] /\ ~ Crossed(a, "move", {"confirm", "move", "retry"})

Mirrored(a, e, start) ==
  e # None /\ event[e] = [appt |-> a, at |-> start, live |-> TRUE]

RowMirrored(a) ==
  Apart(a) /\ row[a].status = "BOOKED" /\ row[a].sync = "SYNCED" /\ ~ UnderWay(a, {"move"})
    => Mirrored(a, row[a].event, row[a].start)

(* What is going to be written is mirrored, once the calendar has answered.*)
Answers(r) ==
  \/ r.row.sync = "FAILED" /\ r.row.event = r.loaded.event
  \/ r.row.sync = "SYNCED" /\ r.row.event # r.loaded.event
     /\ Mirrored(r.appt, r.row.event, r.row.start)
  \/ r.kind = "move" /\ r.row.sync = "SYNCED" /\ r.row.event = r.loaded.event
     /\ Mirrored(r.appt, r.row.event, r.row.start)

(* A move has the row to itself.                                           *)
RequestMirrors(h) ==
  LET r == req[h]
      a == r.appt IN
    Holds(h) /\ r.kind # "cancel" /\ Apart(a) /\ row[a].status = "BOOKED" =>
      /\ r.pc # "calendar" => Answers(r)
      /\ r.kind = "move" => r.loaded.event = row[a].event /\ r.loaded.sync = row[a].sync

MirrorInv == (\A a \in Appts : RowMirrored(a)) /\ (\A h \in Sessions : RequestMirrors(h))

(* What was cut short, and what has met, is never forgotten.               *)
LEMMA GhostsGrow ==
  ASSUME TypeOK, RequestsInv, NEW h \in Sessions, SessionStep(h), NEW a \in Appts
  PROVE  cut[a] \subseteq cut'[a] /\ crossed[a] \subseteq crossed'[a]
<1>1. cut[a] \subseteq cut'[a]
  <2>1. CASE Notify(h) \/ RequestDies(h)
    BY <2>1, NotifyDoes, RequestDiesDoes
  <2> QED
    BY <2>1, BookDoes, LoadMoveDoes, LoadCancelDoes, LoadRetryDoes, CommitChangeDoes,
       SlotTakenDoes, RefreshDoes, CallCreateDoes, CallUpdateDoes, CallCancelDoes,
       FindReminderDoes, FinishDoes, FinishRetryDoes DEF SessionStep, Begun
<1> QED
  BY <1>1, MetStep

LEMMA ApartBefore ==
  ASSUME TypeOK, RequestsInv, NEW h \in Sessions, SessionStep(h), NEW a \in Appts, Apart(a)'
  PROVE  Apart(a)
  BY GhostsGrow DEF Apart, Crossed

(* Who writes the calendar of such an appointment meets no move.           *)
LEMMA NoMoveMet ==
  ASSUME TypeOK, RequestsInv, NEW g \in Sessions, NEW h \in Sessions, g # h,
         req[g].kind = "move", req[g].appt = req[h].appt, Apart(req[h].appt)
  PROVE  req[h].kind \notin {"confirm", "move", "retry"}
<1>1. {"move", req[h].kind} \in crossed[req[h].appt]
  BY Meets
<1> QED
  BY <1>1 DEF Apart, Crossed


(* Only the end of a second transaction writes what is known of the        *)
(* calendar.                                                               *)
LEMMA RowSync ==
  ASSUME TypeOK, RequestsInv, NEW h \in Sessions, SessionStep(h), NEW a \in Appts
  PROVE  \/ row'[a].event = row[a].event /\ row'[a].sync = row[a].sync
         \/ (Finish(h) \/ FinishRetry(h)) /\ a = req[h].appt
<1>1. CASE Finish(h) \/ FinishRetry(h)
  <2>1. Written(h) /\ req[h].kind # "none" /\ req[h].pc # "refresh"
    BY <1>1, FinishDoes, FinishRetryDoes DEF GoesOn
  <2> QED
    BY <1>1, <2>1, WrittenRow
<1>2. CASE CommitChange(h)
  <2>1. Written(h) /\ req[h].kind # "none" /\ req[h].pc = "loaded"
    BY <1>2, CommitChangeDoes DEF GoesOn
  <2> QED
    BY <2>1, WrittenRow
<1>3. CASE Book(h)
  BY <1>3, BookDoes
<1> QED
  BY <1>1, <1>2, <1>3, LoadMoveDoes, LoadCancelDoes, LoadRetryDoes, SlotTakenDoes,
     RefreshDoes, CallCreateDoes, CallUpdateDoes, CallCancelDoes, NotifyDoes,
     FindReminderDoes, RequestDiesDoes DEF SessionStep

(* A mirrored event stays so, unless a move is just updating it.           *)
LEMMA MirrorKept ==
  ASSUME TypeOK, RequestsInv, EventsInv, NEW h \in Sessions, SessionStep(h), NEW a \in Appts,
         NEW e \in Events \cup {None}, NEW s, Mirrored(a, e, s), row'[a].status = "BOOKED"
  PROVE  \/ e # None /\ event'[e] = [appt |-> a, at |-> s, live |-> TRUE]
         \/ req[h].kind = "move" /\ req[h].appt = a /\ req[h].pc = "calendar"
<1> DEFINE r == req[h]
<1>1. e \in Events /\ event[e] = [appt |-> a, at |-> s, live |-> TRUE] /\ e # None
  BY DEF Mirrored
<1>2. event[e].appt = a /\ event[e] # NoEvent
  BY <1>1, FollowUpConstants DEF NoEvent
<1>3. CASE r.pc = "calendar" /\ (Moved(h, e) \/ Killed(h, e))
  <2>1. /\ e = r.row.event /\ RequestOwns(h) /\ Keeps(h) /\ r.appt \in Appts
        /\ r.kind \in {"move", "cancel"}
    BY <1>3, InFlight DEF Moved, Killed, EventsInv
  <2>2. r.appt = a
    BY <1>1, <1>2, <1>3, <2>1 DEF RequestOwns, Holds, Owns
  <2>3. r.kind # "cancel"
    BY <1>3, <2>1, <2>2, RowStep DEF Keeps, StatusesGrow
  <2> QED
    BY <1>3, <2>1, <2>2, <2>3
<1>4. CASE event'[e] = event[e]
  BY <1>1, <1>4
<1> QED
  BY <1>1, <1>2, <1>3, <1>4, EventStep DEF Made

(* A move that has committed is under way until it finishes.               *)
LEMMA MoveEnds ==
  ASSUME TypeOK, RequestsInv, NEW h \in Sessions, SessionStep(h), NEW a \in Appts,
         "move" \notin cut'[a], ~ UnderWay(a, {"move"})'
  PROVE  ~ UnderWay(a, {"move"}) \/ (Finish(h) /\ req[h].appt = a /\ req[h].kind = "move")
<1> SUFFICES ASSUME NEW g \in Sessions, req[g].appt = a, req[g].kind = "move",
                    req[g].pc # "loaded"
             PROVE  Finish(h) /\ g = h
  BY DEF UnderWay
<1> DEFINE r == req[h]
           n == req'[h]
<1>1. g = h
  BY SessionFrame DEF UnderWay
<1>2. ~ Begun(h)
  BY <1>1, NoRequestFields DEF Begun
<1>3. n = NoRequest \/ n.pc = "loaded"
  BY <1>1, <1>2, SessionFrame DEF GoesOn, UnderWay
<1>4. ~ (Book(h) \/ LoadMove(h) \/ LoadCancel(h) \/ LoadRetry(h))
  BY <1>2, BookDoes, LoadMoveDoes, LoadCancelDoes, LoadRetryDoes
<1>5. ~ (CommitChange(h) \/ SlotTaken(h) \/ Refresh(h) \/ CallCreate(h) \/ CallUpdate(h)
         \/ CallCancel(h) \/ FindReminder(h))
  BY <1>1, <1>3, NoRequestFields, CommitChangeDoes, SlotTakenDoes, RefreshDoes,
     CallCreateDoes, CallUpdateDoes, CallCancelDoes, FindReminderDoes
<1>6. ~ (Notify(h) \/ RequestDies(h) \/ FinishRetry(h))
  BY <1>1, <1>3, NoRequestFields, NotifyDoes, RequestDiesDoes, FinishRetryDoes
<1> QED
  BY <1>1, <1>4, <1>5, <1>6 DEF SessionStep


LEMMA RequestMirrorsOthers ==
  ASSUME TypeOK, RequestsInv, EventsInv, MirrorInv, NEW h \in Sessions, SessionStep(h),
         NEW g \in Sessions, g # h
  PROVE  RequestMirrors(g)'
<1> DEFINE r == req[g]
<1>0. req'[g] = r
  BY SessionFrame
<1> SUFFICES ASSUME NEW a, a = r.appt, Holds(g), r.kind # "cancel", Apart(a)', row'[a].status = "BOOKED"
             PROVE  /\ r.pc # "calendar" => Answers(r)'
                    /\ r.kind = "move" => r.loaded.event = row'[a].event
                                          /\ r.loaded.sync = row'[a].sync
  BY <1>0 DEF RequestMirrors, Holds, Apart, Crossed, Answers, Mirrored
<1>1. /\ r.kind \in {"confirm", "move", "retry"} /\ a \in Appts /\ r.row \in Row
      /\ Keeps(g) /\ RequestMirrors(g)
  BY InFlight DEF Holds, Kind, MirrorInv
<1>2. Apart(a) /\ row[a].status = "BOOKED"
  <2>1. Apart(a)
    BY <1>1, ApartBefore
  <2>2. row[a].status # "FREE"
    BY <1>1 DEF Keeps
  <2>3. StatusesGrow
    BY RowStep
  <2> QED
    BY <1>1, <2>1, <2>2, <2>3 DEF StatusesGrow
<1>3. ~ (req[h].kind = "move" /\ req[h].appt = a)
  BY <1>1, <1>2, NoMoveMet
<1>4. r.pc # "calendar" => Answers(r)
  BY <1>1, <1>2 DEF RequestMirrors
<1>5. r.pc # "calendar" => Answers(r)'
  <2>1. r.row.event \in Events \cup {None}
    BY <1>1 DEF Row
  <2>2. Mirrored(a, r.row.event, r.row.start) =>
          r.row.event # None
          /\ event'[r.row.event] = [appt |-> a, at |-> r.row.start, live |-> TRUE]
    BY <1>1, <1>3, <2>1, MirrorKept
  <2> QED
    BY <1>0, <1>4, <2>2 DEF Answers, Mirrored
<1>6. r.kind = "move" => r.loaded.event = row'[a].event /\ r.loaded.sync = row'[a].sync
  <2> SUFFICES ASSUME r.kind = "move"
               PROVE  r.loaded.event = row'[a].event /\ r.loaded.sync = row'[a].sync
    OBVIOUS
  <2>1. r.loaded.event = row[a].event /\ r.loaded.sync = row[a].sync
    BY <1>1, <1>2 DEF RequestMirrors
  <2>2. ~ ((Finish(h) \/ FinishRetry(h)) /\ a = req[h].appt)
    <3>1. ASSUME Finish(h) \/ FinishRetry(h), a = req[h].appt PROVE FALSE
      <4>1. req[h].kind \in {"confirm", "move", "retry"}
        BY <3>1, FinishDoes, FinishRetryDoes
      <4>2. Apart(req[h].appt) /\ req[g].appt = req[h].appt
        BY <1>2, <3>1
      <4> QED
        BY <4>1, <4>2, NoMoveMet
    <3> QED
      BY <3>1
  <2> QED
    BY <1>1, <2>1, <2>2, RowSync
<1> QED
  BY <1>5, <1>6


LEMMA RequestMirrorsOwn ==
  ASSUME TypeOK, RequestsInv, EventsInv, MirrorInv, NEW h \in Sessions, SessionStep(h)
  PROVE  RequestMirrors(h)'
<1> DEFINE r == req[h]
           n == req'[h]
<1>1. CASE LoadRetry(h) \/ Refresh(h)
  <2>1. n.pc = "calendar" /\ n.loaded = row[n.appt] /\ row' = row
    BY <1>1, LoadRetryDoes, RefreshDoes
  <2> QED
    BY <2>1 DEF RequestMirrors
<1>2. CASE CallCreate(h) \/ CallUpdate(h)
  <2>1. /\ r.pc = "calendar" /\ n.pc = "answered" /\ n.kind = r.kind /\ n.appt = r.appt
        /\ n.loaded = r.loaded /\ n.row.start = r.row.start /\ row' = row /\ r.kind # "cancel"
        /\ Holds(h)
    BY <1>2, CallCreateDoes, CallUpdateDoes DEF Holds
  <2>2. /\ r.appt \in Appts /\ r.row = r.loaded /\ r.row \in Row
        /\ Owns(r.appt, r.row.event) /\ RequestMirrors(h)
    BY <2>1, InFlight DEF Keeps, EventsInv, RequestOwns, MirrorInv
  <2> SUFFICES ASSUME NEW a, a = r.appt, Apart(a)', row'[a].status = "BOOKED"
               PROVE  /\ \/ n.row.sync = "FAILED" /\ n.row.event = n.loaded.event
                         \/ /\ n.row.sync = "SYNCED"
                            /\ n.row.event # n.loaded.event \/ n.kind = "move"
                            /\ n.row.event # None
                            /\ event'[n.row.event] =
                                 [appt |-> a, at |-> n.row.start, live |-> TRUE]
                      /\ n.kind = "move" => n.loaded.event = row'[a].event
                                            /\ n.loaded.sync = row'[a].sync
    BY <2>1 DEF RequestMirrors, Answers, Mirrored
  <2>3. Apart(a) /\ row[a].status = "BOOKED"
    BY <2>1, <2>2, ApartBefore
  <2>4. n.kind = "move" => n.loaded.event = row'[a].event /\ n.loaded.sync = row'[a].sync
    BY <2>1, <2>2, <2>3 DEF RequestMirrors
  <2>5. CASE CallCreate(h)
    <3>1. PICK e \in Events :
            /\ event[e] = NoEvent
            /\ \/ /\ event'[e] = [appt |-> r.appt, at |-> r.row.start, live |-> TRUE]
                  /\ n.row.event = e /\ n.row.sync = "SYNCED"
               \/ n.row.event = r.row.event /\ n.row.sync = "FAILED"
      BY <2>5, CallCreateDoes
    <3>2. e # None /\ e # r.row.event
      BY <2>2, <3>1, FollowUpConstants DEF Owns, NoEvent, Events
    <3> QED
      BY <2>1, <2>2, <2>4, <3>1, <3>2
  <2>6. CASE CallUpdate(h)
    <3> DEFINE e == r.row.event
    <3>1. /\ e \in Events /\ n.row.event = e /\ r.kind = "move"
          /\ event' \in [Events -> Event]
          /\ event'[e].appt = event[e].appt /\ event'[e].live = event[e].live
          /\ \/ event'[e].at = r.row.start /\ n.row.sync = "SYNCED"
             \/ n.row.sync = "FAILED"
      BY <2>6, CallUpdateDoes
    <3>2. e # None
      BY <3>1, FollowUpConstants DEF Events
    <3>3. event[e].appt = a
      BY <2>2, <3>2 DEF Owns
    <3>4. event[e].live
      BY <2>2, <2>3, <3>1, <3>3 DEF EventsInv, Lives
    <3>5. event'[e] \in Event
      BY <3>1
    <3>6. event'[e] = [appt |-> a, at |-> event'[e].at, live |-> TRUE]
      BY <3>1, <3>3, <3>4, <3>5 DEF Event
    <3> QED
      BY <2>1, <2>2, <2>4, <3>1, <3>2, <3>6
  <2> QED
    BY <1>2, <2>5, <2>6
<1>3. CASE CallCancel(h)
  BY <1>3, CallCancelDoes DEF RequestMirrors
<1>4. CASE Notify(h) \/ FindReminder(h)
  <2>1. \/ n = NoRequest
        \/ n.kind = "cancel"
        \/ /\ Holds(h) /\ r.pc # "calendar" /\ n.appt = r.appt /\ n.loaded = r.loaded
           /\ n.row = r.row /\ n.kind = r.kind /\ event' = event /\ row' = row /\ cut' = cut
           /\ crossed' = crossed
    BY <1>4, NotifyDoes, FindReminderDoes DEF Holds, GoesOn
  <2>2. RequestMirrors(h)
    BY DEF MirrorInv
  <2> QED
    BY <2>1, <2>2, NoRequestFields DEF RequestMirrors, Holds, Apart, Crossed, Answers, Mirrored
<1>5. CASE \/ Book(h) \/ LoadMove(h) \/ LoadCancel(h) \/ CommitChange(h) \/ SlotTaken(h)
           \/ Finish(h) \/ FinishRetry(h) \/ RequestDies(h)
  <2>1. n.pc \in {"refresh", "loaded"} \/ n = NoRequest
    BY <1>5, BookDoes, LoadMoveDoes, LoadCancelDoes, CommitChangeDoes, SlotTakenDoes,
       FinishDoes, FinishRetryDoes, RequestDiesDoes
  <2> QED
    BY <2>1, NoRequestFields DEF RequestMirrors, Holds
<1> QED
  BY <1>1, <1>2, <1>3, <1>4, <1>5 DEF SessionStep

LEMMA RowMirrorsStep ==
  ASSUME TypeOK, RequestsInv, EventsInv, StartsInv, MirrorInv, NEW h \in Sessions,
         SessionStep(h), NEW a \in Appts
  PROVE  RowMirrored(a)'
<1> SUFFICES ASSUME Apart(a)', row'[a].status = "BOOKED", row'[a].sync = "SYNCED",
                    ~ UnderWay(a, {"move"})'
             PROVE  row'[a].event # None
                    /\ event'[row'[a].event] = [appt |-> a, at |-> row'[a].start, live |-> TRUE]
  BY DEF RowMirrored, Mirrored
<1> DEFINE r == req[h]
<1>0. Apart(a) /\ "move" \notin cut'[a] /\ row[a] \in Row /\ RowMirrored(a)
  BY ApartBefore DEF Apart, TypeOK, MirrorInv
<1>1. CASE (Finish(h) \/ FinishRetry(h)) /\ a = r.appt
  <2>1. /\ Written(h) /\ r.kind \in {"confirm", "move", "retry"} /\ Holds(h)
        /\ r.pc \in {"answered", "commit"} /\ event' = event
    BY <1>1, FinishDoes, FinishRetryDoes DEF Holds
  <2>2. RequestMirrors(h) /\ StartHeld(h)
    BY DEF MirrorInv, StartsInv
  <2>3. /\ row'[a].status = row[a].status /\ row'[a].start = row[a].start
        /\ row'[a].event = IF r.row.event # r.loaded.event THEN r.row.event ELSE row[a].event
        /\ row'[a].sync = IF r.row.sync # r.loaded.sync THEN r.row.sync ELSE row[a].sync
    BY <1>1, <2>1, WrittenRow DEF Holds
  <2>4. {"move", r.kind} \notin crossed[a]
    BY <1>0, <2>1 DEF Apart, Crossed
  <2>5. r.row.start = row[a].start
    BY <1>1, <2>1, <2>2, <2>4 DEF StartHeld
  <2>6. Answers(r) /\ (r.kind = "move" => r.loaded.event = row[a].event
                                          /\ r.loaded.sync = row[a].sync)
    BY <1>0, <1>1, <2>1, <2>2, <2>3 DEF RequestMirrors
  <2>7. CASE r.row.sync = "FAILED" /\ r.row.event = r.loaded.event
    <3>1. row'[a].event = row[a].event /\ r.loaded.sync = "FAILED" /\ row[a].sync = "SYNCED"
      BY <2>3, <2>7
    <3>2. r.kind # "move"
      BY <2>6, <3>1
    <3>3. ~ UnderWay(a, {"move"})
      BY <1>0, <3>2, MoveEnds
    <3> QED
      BY <1>0, <2>1, <2>3, <3>1, <3>3 DEF RowMirrored, Mirrored
  <2>8. CASE Mirrored(r.appt, r.row.event, r.row.start) /\ row'[a].event = r.row.event
    BY <1>1, <2>1, <2>3, <2>5, <2>8 DEF Mirrored
  <2> QED
    BY <1>1, <2>3, <2>6, <2>7, <2>8 DEF Answers
<1>2. CASE ~ ((Finish(h) \/ FinishRetry(h)) /\ a = r.appt)
  <2>1. row'[a].event = row[a].event /\ row'[a].sync = row[a].sync
    BY <1>2, RowSync
  <2>2. ~ UnderWay(a, {"move"})
    BY <1>0, <1>2, MoveEnds
  <2>3. row[a].status # "FREE"
    BY <1>0, <2>1, RequestsStep DEF RequestsInv, Blank, NoRow
  <2>4. row'[a].start = row[a].start /\ row'[a].status = row[a].status
    <3>1. ~ (CommitChange(h) /\ a = r.appt /\ r.kind = "move")
      BY CommitChangeDoes DEF UnderWay
    <3>2. ~ (CommitChange(h) /\ a = r.appt /\ r.kind = "cancel")
      <4>1. ASSUME CommitChange(h), a = r.appt, r.kind = "cancel" PROVE FALSE
        <5>1. Written(h) /\ r.pc = "loaded"
          BY <4>1, CommitChangeDoes
        <5>2. row'[r.appt].status = "CANCELLED"
          BY <4>1, <5>1, WrittenRow
        <5> QED
          BY <4>1, <5>2
      <4> QED
        BY <4>1
    <3> QED
      BY <2>3, <3>1, <3>2, RowStart
  <2>5. Mirrored(a, row[a].event, row[a].start)
    BY <1>0, <2>1, <2>2, <2>4 DEF RowMirrored
  <2>6. ~ (r.kind = "move" /\ r.appt = a /\ r.pc = "calendar")
    BY <2>2 DEF UnderWay
  <2>7. row[a].event \in Events \cup {None}
    BY <1>0 DEF Row
  <2> QED
    BY <2>1, <2>4, <2>5, <2>6, <2>7, MirrorKept
<1> QED
  BY <1>1, <1>2

LEMMA MirrorStep ==
  TypeOK /\ RequestsInv /\ EventsInv /\ StartsInv /\ MirrorInv /\ [Next]_vars => MirrorInv'
<1> SUFFICES ASSUME TypeOK, RequestsInv, EventsInv, StartsInv, MirrorInv, [Next]_vars
             PROVE  MirrorInv'
  OBVIOUS
<1>1. ASSUME NEW h \in Sessions, SessionStep(h) PROVE MirrorInv'
  BY <1>1, RowMirrorsStep, RequestMirrorsOthers, RequestMirrorsOwn DEF MirrorInv
<1>2. CASE Others
  <2>1. UNCHANGED <<row, event, req, cut, crossed>>
    BY <1>2, OthersFrame
  <2> QED
    BY <2>1 DEF MirrorInv, RowMirrored, RequestMirrors, Apart, Crossed, Mirrored, Answers,
       UnderWay, Holds
<1> QED
  BY <1>1, <1>2, Steps

LEMMA MirroredRows == MirrorInv => SyncedIsMirrored
  BY DEF MirrorInv, RowMirrored, SyncedIsMirrored, Settled, Apart, Mirrored


-----------------------------------------------------------------------------
(* The notices.                                                            *)

(* The appointment of a booking or a move that met no cancellation is      *)
(* still booked.                                                           *)
BookedHeld(h) ==
  req[h].kind \in {"confirm", "move"} /\ {"cancel", req[h].kind} \notin crossed[req[h].appt]
    => row[req[h].appt].status = "BOOKED"

(* What the customer is told of.                                           *)
Talks == {"confirm", "move", "cancel"}

Quiet(a) ==
  cut[a] \cap Talks = {} /\ ~ Crossed(a, "move", Talks) /\ ~ Crossed(a, "cancel", {"confirm"})

(* A request has committed, and the customer does not know it yet.         *)
Untold(a) ==
  \E h \in Sessions : /\ req[h].appt = a /\ req[h].kind \in Talks
                      /\ req[h].pc \in {"refresh", "calendar", "answered"}

Notified(a) ==
  Quiet(a) /\ row[a].status # "FREE" /\ ~ Untold(a) =>
    \/ told[a].failed
    \/ /\ told[a].at = row[a].start
       /\ (told[a].kind = "cancel") = (row[a].status = "CANCELLED")

NoticeInv == (\A h \in Sessions : BookedHeld(h)) /\ (\A a \in Appts : Notified(a))

LEMMA BookedHeldStep ==
  ASSUME TypeOK, RequestsInv, NoticeInv, NEW h \in Sessions, SessionStep(h), NEW g \in Sessions
  PROVE  BookedHeld(g)'
<1>1. CASE g # h
  <2> DEFINE a == req[g].appt
  <2>1. req'[g] = req[g] /\ BookedHeld(g)
    BY <1>1, SessionFrame DEF NoticeInv
  <2>2. CASE req[g].kind = "none"
    BY <2>1, <2>2 DEF BookedHeld
  <2>3. CASE req[g].kind # "none"
    <3>1. a \in Appts /\ row[a].status # "FREE" /\ crossed[a] \subseteq crossed'[a]
      BY <2>3, GhostsGrow DEF RequestsInv, Shape, Keeps
    <3>2. CASE CommitChange(h) /\ a = req[h].appt /\ req[h].kind = "cancel"
      <4>1. {"cancel", req[g].kind} \in crossed[a]
        BY <1>1, <2>3, <3>2, Meets
      <4> QED
        BY <2>1, <3>1, <4>1 DEF BookedHeld
    <3>3. CASE row'[a].status = row[a].status
      BY <2>1, <3>1, <3>3 DEF BookedHeld
    <3> QED
      BY <3>1, <3>2, <3>3, RowStart
  <2> QED
    BY <2>2, <2>3
<1>2. CASE g = h
  <2>1. CASE Book(h) \/ LoadMove(h) \/ LoadCancel(h) \/ LoadRetry(h)
    BY <1>2, <2>1, BookDoes, LoadMoveDoes, LoadCancelDoes, LoadRetryDoes DEF BookedHeld
  <2>2. CASE GoesOn(h)
    <3>1. /\ req'[h] = NoRequest \/ (req'[h].kind = req[h].kind /\ req'[h].appt = req[h].appt)
          /\ req[h].kind # "none" /\ crossed' = crossed
      BY <2>2 DEF GoesOn
    <3>2. req[h].appt \in Appts /\ BookedHeld(h)
      BY <3>1, <2>2 DEF RequestsInv, Shape, NoticeInv, GoesOn
    <3>3. ~ Book(h)
      BY <3>1, <2>2, BookDoes, NoRequestFields DEF GoesOn, Begun
    <3>4. \/ row'[req[h].appt].status = row[req[h].appt].status
          \/ req[h].kind = "cancel"
      BY <3>2, <3>3, RowStart
    <3> QED
      BY <1>2, <3>1, <3>2, <3>4, NoRequestFields DEF BookedHeld
  <2> QED
    BY <2>1, <2>2, CommitChangeDoes, SlotTakenDoes, RefreshDoes, CallCreateDoes,
       CallUpdateDoes, CallCancelDoes, NotifyDoes, FindReminderDoes, FinishDoes,
       FinishRetryDoes, RequestDiesDoes DEF SessionStep
<1> QED
  BY <1>1, <1>2

(* Only a notice, or its failure, ends such a time.                        *)
LEMMA UntoldEnds ==
  ASSUME TypeOK, RequestsInv, NEW h \in Sessions, SessionStep(h), NEW a \in Appts,
         Quiet(a)', ~ Untold(a)'
  PROVE  ~ Untold(a) \/ (Notify(h) /\ req[h].appt = a)
<1> SUFFICES ASSUME NEW g \in Sessions, req[g].appt = a, req[g].kind \in Talks,
                    req[g].pc \in {"refresh", "calendar", "answered"}
             PROVE  Notify(h) /\ g = h
  BY DEF Untold
<1> DEFINE r == req[h]
           n == req'[h]
<1>1. g = h
  BY SessionFrame DEF Untold
<1>2. ~ Begun(h)
  BY <1>1, NoRequestFields DEF Begun, Talks
<1>3. n = NoRequest \/ n.pc \notin {"refresh", "calendar", "answered"}
  BY <1>1, <1>2, SessionFrame DEF GoesOn, Untold
<1>4. ~ (Book(h) \/ LoadMove(h) \/ LoadCancel(h) \/ LoadRetry(h))
  BY <1>2, BookDoes, LoadMoveDoes, LoadCancelDoes, LoadRetryDoes
<1>5. ~ (CommitChange(h) \/ Refresh(h) \/ CallCreate(h) \/ CallUpdate(h) \/ CallCancel(h))
  BY <1>3, NoRequestFields, CommitChangeDoes, RefreshDoes, CallCreateDoes, CallUpdateDoes,
     CallCancelDoes
<1>7. ~ (SlotTaken(h) \/ FindReminder(h) \/ Finish(h) \/ FinishRetry(h))
  BY <1>1, SlotTakenDoes, FindReminderDoes, FinishDoes, FinishRetryDoes DEF Talks
<1>6. ~ RequestDies(h)
  BY <1>1, RequestDiesDoes DEF Quiet
<1> QED
  BY <1>1, <1>4, <1>5, <1>6, <1>7 DEF SessionStep

LEMMA NotifiedStep ==
  ASSUME TypeOK, RequestsInv, StartsInv, NoticeInv, NEW h \in Sessions, SessionStep(h),
         NEW a \in Appts
  PROVE  Notified(a)'
<1> SUFFICES ASSUME Quiet(a)', row'[a].status # "FREE", ~ Untold(a)'
             PROVE  \/ told'[a].failed
                    \/ /\ told'[a].at = row'[a].start
                       /\ (told'[a].kind = "cancel") = (row'[a].status = "CANCELLED")
  BY DEF Notified
<1> DEFINE r == req[h]
<1>0. Quiet(a) /\ row[a] \in Row /\ Notified(a)
  BY GhostsGrow DEF Quiet, Crossed, TypeOK, NoticeInv
<1>1. CASE Notify(h) /\ r.appt = a
  <2>1. /\ r.pc = "answered" /\ r.kind \in Talks /\ row' = row
        /\ \/ cut'[a] = cut[a] \cup {r.kind}
           \/ told'[a] = Content(r.kind, r.row)
           \/ told'[a].failed
    BY <1>1, NotifyDoes DEF Talks
  <2>2. Holds(h) /\ StartHeld(h) /\ BookedHeld(h) /\ Keeps(h)
    BY <2>1 DEF Holds, StartsInv, NoticeInv, RequestsInv
  <2>3. {"move", r.kind} \notin crossed[a]
    BY <1>0, <2>1 DEF Quiet, Crossed
  <2>4. r.row.start = row[a].start
    BY <1>1, <2>2, <2>3 DEF StartHeld
  <2>5. r.kind # "cancel" => {"cancel", r.kind} \notin crossed[a]
    <3>1. r.kind = "move" => {"move", "cancel"} \notin crossed[a]
      BY <1>0 DEF Quiet, Crossed, Talks
    <3>2. r.kind = "confirm" => {"cancel", "confirm"} \notin crossed[a]
      BY <1>0 DEF Quiet, Crossed
    <3>3. {"cancel", "move"} = {"move", "cancel"}
      OBVIOUS
    <3> QED
      BY <2>1, <3>1, <3>2, <3>3 DEF Talks
  <2>6. (r.kind = "cancel") = (row[a].status = "CANCELLED")
    <3>1. r.kind # "cancel" => row[a].status = "BOOKED"
      BY <1>1, <2>1, <2>2, <2>5 DEF BookedHeld, Talks
    <3>2. r.kind = "cancel" => row[a].status = "CANCELLED"
      BY <1>1, <2>1, <2>2 DEF Keeps
    <3> QED
      BY <3>1, <3>2
  <2>7. cut'[a] # cut[a] \cup {r.kind}
    BY <2>1 DEF Quiet
  <2>8. Content(r.kind, r.row).at = r.row.start /\ Content(r.kind, r.row).kind = r.kind
    BY DEF Content
  <2> QED
    BY <2>1, <2>4, <2>6, <2>7, <2>8
<1>2. CASE ~ (Notify(h) /\ r.appt = a)
  <2>1. ~ Untold(a)
    BY <1>2, UntoldEnds
  <2>2. told'[a] = told[a]
    BY <1>2, BookDoes, LoadMoveDoes, LoadCancelDoes, LoadRetryDoes, CommitChangeDoes,
       SlotTakenDoes, RefreshDoes, CallCreateDoes, CallUpdateDoes, CallCancelDoes, NotifyDoes,
       FindReminderDoes, FinishDoes, FinishRetryDoes, RequestDiesDoes DEF SessionStep, Begun
  <2>3. ~ (Book(h) /\ a = req'[h].appt)
    BY BookDoes DEF Untold, Talks
  <2>4. ~ (CommitChange(h) /\ a = r.appt /\ r.kind \in {"move", "cancel"})
    BY CommitChangeDoes DEF Untold, Talks
  <2>5. row'[a].start = row[a].start /\ row'[a].status = row[a].status
    BY <2>3, <2>4, RowStart
  <2> QED
    BY <1>0, <2>1, <2>2, <2>5 DEF Notified
<1> QED
  BY <1>1, <1>2

LEMMA NoticeStep ==
  TypeOK /\ RequestsInv /\ StartsInv /\ NoticeInv /\ [Next]_vars => NoticeInv'
<1> SUFFICES ASSUME TypeOK, RequestsInv, StartsInv, NoticeInv, [Next]_vars PROVE NoticeInv'
  OBVIOUS
<1>1. ASSUME NEW h \in Sessions, SessionStep(h) PROVE NoticeInv'
  BY <1>1, BookedHeldStep, NotifiedStep DEF NoticeInv
<1>2. CASE Others
  <2>1. UNCHANGED <<row, told, req, cut, crossed>>
    BY <1>2, OthersFrame
  <2> QED
    BY <2>1 DEF NoticeInv, BookedHeld, Notified, Quiet, Crossed, Untold
<1> QED
  BY <1>1, <1>2, Steps

LEMMA TrueNotices == NoticeInv => LastNoticeIsTrue
<1> SUFFICES ASSUME NoticeInv, NEW a \in Appts, row[a].status # "FREE", Settled(a, Talks),
                    ~ told[a].failed, ~ Crossed(a, "move", Talks),
                    ~ Crossed(a, "cancel", {"confirm"})
             PROVE  /\ told[a].at = row[a].start
                    /\ (told[a].kind = "cancel") = (row[a].status = "CANCELLED")
  BY DEF LastNoticeIsTrue, Talks
<1>1. ~ Untold(a)
  BY DEF Settled, UnderWay, Untold
<1> QED
  BY <1>1 DEF NoticeInv, Notified, Quiet, Settled


-----------------------------------------------------------------------------
(* The reminder jobs.                                                      *)

(* A booking is the only one of its appointment, and has no job yet.       *)
FreshJob(h) == req[h].kind = "confirm" => job[req[h].appt].status = "NONE"

OneBooking(g, h) ==
  g # h /\ req[g].kind = "confirm" /\ req[h].kind = "confirm" => req[g].appt # req[h].appt

Booking(a) == \E h \in Sessions : req[h].kind = "confirm" /\ req[h].appt = a

JobOf(a) ==
  /\ row[a].status = "FREE" => job[a].status = "NONE"
  /\ row[a].status # "FREE" /\ "confirm" \notin cut[a] /\ ~ Booking(a) => job[a].status # "NONE"

BookingsInv ==
  /\ \A h \in Sessions : FreshJob(h)
  /\ \A g, h \in Sessions : OneBooking(g, h)
  /\ \A a \in Appts : JobOf(a)

(* What a tick has locked is due, and locked by no other; each job is in   *)
(* one place of the tick.                                                  *)
ClaimsHold ==
  \A w \in Workers :
    /\ \A a \in tick[w].claimed : job[a].status = "PENDING" /\ job[a].at =< clock
    /\ \A v \in Workers : v # w => tick[v].claimed \cap tick[w].claimed = {}
    /\ tick[w].todo \cup tick[w].failed \cup tick[w].sent \subseteq tick[w].claimed
    /\ tick[w].appt # None => tick[w].appt \in tick[w].claimed \ (tick[w].todo \cup tick[w].sent)
    /\ tick[w].todo \cap tick[w].sent = {}

(* A session writes a job at the end of a booking or a move only.          *)
LEMMA JobStep ==
  ASSUME TypeOK, RequestsInv, BookingsInv, NEW h \in Sessions, SessionStep(h), NEW a \in Appts
  PROVE  \/ job'[a] = job[a]
         \/ /\ Finish(h) /\ req[h].appt = a /\ req[h].kind = "confirm"
            /\ job[a].status = "NONE" /\ job'[a].status = "PENDING"
            /\ job'[a].at = req[h].row.start - Lead
         \/ /\ Finish(h) /\ req[h].appt = a /\ req[h].kind = "move" /\ req[h].job # None
            /\ job'[a].status = job[a].status /\ job'[a].at = req[h].row.start - Lead
            /\ ~ Claimed(a)
<1>1. CASE Finish(h)
  BY <1>1, FinishDoes DEF BookingsInv, FreshJob
<1> QED
  BY <1>1, BookDoes, LoadMoveDoes, LoadCancelDoes, LoadRetryDoes, CommitChangeDoes,
     SlotTakenDoes, RefreshDoes, CallCreateDoes, CallUpdateDoes, CallCancelDoes, NotifyDoes,
     FindReminderDoes, FinishRetryDoes, RequestDiesDoes DEF SessionStep, Begun

(* A booking ends with its job, or is cut short.                           *)
LEMMA BookingEnds ==
  ASSUME TypeOK, RequestsInv, NEW h \in Sessions, SessionStep(h), NEW a \in Appts,
         "confirm" \notin cut'[a], ~ Booking(a)'
  PROVE  ~ Booking(a) \/ (Finish(h) /\ req[h].appt = a /\ req[h].kind = "confirm")
<1> SUFFICES ASSUME NEW g \in Sessions, req[g].appt = a, req[g].kind = "confirm"
             PROVE  Finish(h) /\ g = h
  BY DEF Booking
<1> DEFINE r == req[h]
           n == req'[h]
<1>1. g = h
  BY SessionFrame DEF Booking
<1>2. ~ Begun(h)
  BY <1>1, NoRequestFields DEF Begun
<1>3. n = NoRequest
  BY <1>1, <1>2, SessionFrame DEF GoesOn, Booking
<1>4. ~ (Book(h) \/ LoadMove(h) \/ LoadCancel(h) \/ LoadRetry(h))
  BY <1>2, BookDoes, LoadMoveDoes, LoadCancelDoes, LoadRetryDoes
<1>5. ~ (CommitChange(h) \/ Refresh(h) \/ CallCreate(h) \/ CallUpdate(h) \/ CallCancel(h)
         \/ FindReminder(h))
  BY <1>3, NoRequestFields, CommitChangeDoes, RefreshDoes, CallCreateDoes, CallUpdateDoes,
     CallCancelDoes, FindReminderDoes
<1>6. r.pc # "loaded"
  BY <1>1, InFlight DEF Shape, RequestsInv
<1>7. ~ (SlotTaken(h) \/ FinishRetry(h) \/ Notify(h) \/ RequestDies(h))
  BY <1>1, <1>3, <1>6, SlotTakenDoes, FinishRetryDoes, NotifyDoes, RequestDiesDoes,
     NoRequestFields
<1> QED
  BY <1>1, <1>4, <1>5, <1>7 DEF SessionStep

LEMMA BookingsStep ==
  ASSUME TypeOK, RequestsInv, BookingsInv, NEW h \in Sessions, SessionStep(h)
  PROVE  BookingsInv'
<1> DEFINE r == req[h]
           n == req'[h]
<1>1. ASSUME NEW g \in Sessions, req'[g].kind = "confirm"
      PROVE  \/ g = h /\ Book(h)
             \/ req[g].kind = "confirm" /\ req'[g].appt = req[g].appt
  <2>1. CASE g # h
    BY <1>1, <2>1, SessionFrame
  <2>2. CASE g = h /\ GoesOn(h)
    BY <1>1, <2>2, NoRequestFields DEF GoesOn
  <2>3. CASE g = h /\ (Book(h) \/ LoadMove(h) \/ LoadCancel(h) \/ LoadRetry(h))
    BY <1>1, <2>3, LoadMoveDoes, LoadCancelDoes, LoadRetryDoes
  <2> QED
    BY <2>1, <2>2, <2>3, CommitChangeDoes, SlotTakenDoes, RefreshDoes, CallCreateDoes,
       CallUpdateDoes, CallCancelDoes, NotifyDoes, FindReminderDoes, FinishDoes,
       FinishRetryDoes, RequestDiesDoes DEF SessionStep
<1>2. ASSUME NEW g \in Sessions PROVE FreshJob(g)'
  <2> SUFFICES ASSUME NEW a, a = req'[g].appt, req'[g].kind = "confirm"
               PROVE  job'[a].status = "NONE"
    BY DEF FreshJob
  <2>1. CASE g = h /\ Book(h)
    BY <2>1, BookDoes DEF Begun, BookingsInv, JobOf
  <2>2. CASE req[g].kind = "confirm" /\ req'[g].appt = req[g].appt
    <3>1. a \in Appts /\ job[a].status = "NONE"
      BY <2>2 DEF RequestsInv, Shape, BookingsInv, FreshJob
    <3>2. ~ (Finish(h) /\ r.appt = a /\ r.kind = "confirm")
      <4>1. g = h => ~ Finish(h)
        BY FinishDoes, NoRequestFields
      <4>2. g # h => ~ (r.appt = a /\ r.kind = "confirm")
        BY <2>2 DEF BookingsInv, OneBooking
      <4> QED
        BY <4>1, <4>2
    <3> QED
      BY <3>1, <3>2, JobStep
  <2> QED
    BY <1>1, <2>1, <2>2
<1>3. ASSUME NEW g \in Sessions, NEW k \in Sessions, g # k,
             req'[g].kind = "confirm", req'[k].kind = "confirm"
      PROVE  req'[g].appt # req'[k].appt
  <2>1. ASSUME NEW x \in Sessions, x # h, req'[x].kind = "confirm", Book(h)
        PROVE  req'[x].appt # n.appt
    <3>1. req'[x] = req[x] /\ row[req[x].appt].status # "FREE"
      BY <2>1, SessionFrame DEF RequestsInv, Keeps
    <3> QED
      BY <2>1, <3>1, BookDoes
  <2>2. CASE req[g].kind = "confirm" /\ req'[g].appt = req[g].appt
             /\ req[k].kind = "confirm" /\ req'[k].appt = req[k].appt
    BY <1>3, <2>2 DEF BookingsInv, OneBooking
  <2> QED
    BY <1>1, <1>3, <2>1, <2>2
<1>4. ASSUME NEW a \in Appts PROVE JobOf(a)'
  <2>1. JobOf(a) /\ StatusesGrow
    BY RowStep DEF BookingsInv
  <2>2. ASSUME row'[a].status = "FREE" PROVE job'[a].status = "NONE"
    <3>1. row[a].status = "FREE" /\ job[a].status = "NONE"
      BY <2>1, <2>2 DEF StatusesGrow, JobOf
    <3>2. ~ (Finish(h) /\ r.appt = a)
      BY <3>1, FinishDoes DEF RequestsInv, Keeps, GoesOn
    <3> QED
      BY <3>1, <3>2, JobStep
  <2>3. ASSUME row'[a].status # "FREE", "confirm" \notin cut'[a], ~ Booking(a)'
        PROVE  job'[a].status # "NONE"
    <3>1. CASE Finish(h) /\ r.appt = a /\ r.kind = "confirm"
      BY <3>1, FinishDoes
    <3>2. CASE ~ Booking(a)
      <4>1. "confirm" \notin cut[a]
        BY <2>3, GhostsGrow
      <4>2. row[a].status # "FREE"
        <5>1. ~ (Book(h) /\ a = n.appt)
          BY <2>3, BookDoes DEF Booking
        <5>2. ~ (CommitChange(h) /\ a = r.appt /\ row[a].status = "FREE")
          BY CommitChangeDoes DEF GoesOn, RequestsInv, Keeps
        <5> QED
          BY <2>3, <5>1, <5>2, RowStart
      <4>3. job[a].status # "NONE"
        BY <2>1, <3>2, <4>1, <4>2 DEF JobOf
      <4> QED
        BY <4>3, JobStep
    <3> QED
      BY <2>3, <3>1, <3>2, BookingEnds
  <2> QED
    BY <2>2, <2>3 DEF JobOf
<1> QED
  BY <1>2, <1>3, <1>4 DEF BookingsInv, OneBooking

(* A tick writes the jobs that it has locked, and no other.                *)
LEMMA OthersJobs ==
  ASSUME TypeOK, ClaimsHold, Others, NEW a \in Appts
  PROVE  \/ job'[a] = job[a]
         \/ /\ job[a].status = "PENDING" /\ job'[a].status \in {"DONE", "FAILED_RETRYABLE"}
            /\ \E w \in Workers : CommitReminders(w) /\ a \in tick[w].claimed
<1>1. ASSUME NEW w \in Workers, CommitReminders(w), job'[a] # job[a]
      PROVE  /\ job[a].status = "PENDING" /\ job'[a].status \in {"DONE", "FAILED_RETRYABLE"}
             /\ a \in tick[w].claimed
  <2>1. a \in tick[w].claimed \cup tick[w].failed
        /\ job'[a].status \in {"DONE", "FAILED_RETRYABLE"}
    BY <1>1, CommitRemindersDoes
  <2> QED
    BY <2>1 DEF ClaimsHold
<1>2. ASSUME NEW w \in Workers,
             ClaimJobs(w) \/ ReadAppointment(w) \/ SendReminder(w) \/ WorkerDies(w)
      PROVE  job' = job
  BY <1>2, ClaimJobsDoes, ReadAppointmentDoes, SendReminderDoes, WorkerDiesDoes
<1>3. CASE TimePasses \/ UNCHANGED vars
  BY <1>3 DEF TimePasses, vars
<1> QED
  BY <1>1, <1>2, <1>3 DEF Others, WorkerStep

LEMMA BookingsInvStep ==
  TypeOK /\ RequestsInv /\ BookingsInv /\ ClaimsHold /\ [Next]_vars => BookingsInv'
<1> SUFFICES ASSUME TypeOK, RequestsInv, BookingsInv, ClaimsHold, Others PROVE BookingsInv'
  BY Steps, BookingsStep
<1>1. UNCHANGED <<row, req, cut>>
  BY OthersFrame
<1>2. \A a \in Appts : (job'[a].status = "NONE") = (job[a].status = "NONE")
  BY OthersJobs
<1>3. \A h \in Sessions : req[h].kind = "confirm" => req[h].appt \in Appts
  BY DEF RequestsInv, Shape
<1> QED
  BY <1>1, <1>2, <1>3 DEF BookingsInv, FreshJob, OneBooking, JobOf, Booking


(* Moves of this appointment met neither another one nor the booking, and  *)
(* none was cut short.                                                     *)
MovesApart(a) == "move" \notin cut[a] /\ ~ Crossed(a, "move", {"confirm", "move"})

PendingIsRight(a) ==
  MovesApart(a) /\ ~ UnderWay(a, {"move"}) /\ job[a].status = "PENDING" =>
    job[a].at = row[a].start - Lead

(* The job that a move has found is the one that is to be moved.           *)
FoundIsRight(h) ==
  LET r == req[h]
      a == r.appt IN
    r.kind = "move" /\ r.pc = "commit" /\ MovesApart(a) =>
      /\ r.job = None => job[a].status # "PENDING"
      /\ r.job # None /\ job[a].status = "PENDING" => job[a].at = r.job

PendingInv == (\A a \in Appts : PendingIsRight(a)) /\ (\A h \in Sessions : FoundIsRight(h))

LEMMA MovesApartBefore ==
  ASSUME TypeOK, RequestsInv, NEW h \in Sessions, SessionStep(h), NEW a \in Appts, MovesApart(a)'
  PROVE  MovesApart(a)
  BY GhostsGrow DEF MovesApart, Crossed

LEMMA PendingStep ==
  ASSUME TypeOK, RequestsInv, StartsInv, BookingsInv, PendingInv, NEW h \in Sessions,
         SessionStep(h), NEW a \in Appts
  PROVE  PendingIsRight(a)'
<1> SUFFICES ASSUME MovesApart(a)', ~ UnderWay(a, {"move"})', job'[a].status = "PENDING"
             PROVE  job'[a].at = row'[a].start - Lead
  BY DEF PendingIsRight
<1> DEFINE r == req[h]
<1>0. MovesApart(a) /\ "move" \notin cut'[a]
  BY MovesApartBefore DEF MovesApart
<1>1. CASE Finish(h) /\ r.appt = a
  <2>1. /\ r.pc = "commit" /\ Written(h) /\ r.kind \in {"confirm", "move"}
        /\ r.row.start - Lead \in Int
        /\ \/ job'[a].at = r.row.start - Lead
           \/ r.kind = "move" /\ r.job \in {None, r.row.start - Lead} /\ job' = job
    BY <1>1, FinishDoes
  <2>2. Holds(h) /\ StartHeld(h) /\ FoundIsRight(h)
    BY <2>1 DEF Holds, StartsInv, PendingInv
  <2>3. {"move", r.kind} \notin crossed[a]
    BY <1>0, <2>1 DEF MovesApart, Crossed
  <2>4. r.row.start = row[a].start
    BY <1>1, <2>2, <2>3 DEF StartHeld
  <2>5. row'[a].start = row[a].start
    BY <1>1, <2>1, <2>2, WrittenRow
  <2>6. job'[a].at = r.row.start - Lead
    BY <1>0, <1>1, <2>1, <2>2, FollowUpConstants DEF FoundIsRight
  <2> QED
    BY <2>4, <2>5, <2>6
<1>2. CASE ~ (Finish(h) /\ r.appt = a)
  <2>1. job'[a] = job[a] /\ ~ UnderWay(a, {"move"})
    BY <1>0, <1>2, JobStep, MoveEnds
  <2>2. row[a].status # "FREE"
    BY <2>1 DEF BookingsInv, JobOf
  <2>3. ~ (CommitChange(h) /\ a = r.appt /\ r.kind = "move")
    BY CommitChangeDoes DEF UnderWay
  <2>4. row'[a].start = row[a].start
    BY <2>2, <2>3, RowStart
  <2> QED
    BY <1>0, <2>1, <2>4 DEF PendingInv, PendingIsRight
<1> QED
  BY <1>1, <1>2

LEMMA FoundStep ==
  ASSUME TypeOK, RequestsInv, BookingsInv, PendingInv, NEW h \in Sessions, SessionStep(h),
         NEW g \in Sessions
  PROVE  FoundIsRight(g)'
<1> SUFFICES ASSUME NEW a, a = req'[g].appt, MovesApart(a)', req'[g].kind = "move",
                    req'[g].pc = "commit"
             PROVE  /\ req'[g].job = None => job'[a].status # "PENDING"
                    /\ req'[g].job # None /\ job'[a].status = "PENDING" =>
                         job'[a].at = req'[g].job
  BY DEF FoundIsRight, MovesApart, Crossed
<1>1. CASE g # h
  <2>1. req'[g] = req[g] /\ a \in Appts /\ FoundIsRight(g)
    BY <1>1, SessionFrame DEF RequestsInv, Shape, PendingInv
  <2>2. MovesApart(a)
    BY <2>1, MovesApartBefore
  <2>3. ~ (req[h].kind \in {"confirm", "move"} /\ req[h].appt = a)
    <3>1. ASSUME req[h].kind \in {"confirm", "move"}, req[h].appt = a PROVE FALSE
      <4>1. {"move", req[h].kind} \in crossed[a]
        BY <1>1, <2>1, <3>1, Meets
      <4> QED
        BY <2>2, <3>1, <4>1 DEF MovesApart, Crossed
    <3> QED
      BY <3>1
  <2>4. job'[a] = job[a]
    BY <2>1, <2>3, JobStep
  <2> QED
    BY <2>1, <2>2, <2>4 DEF FoundIsRight
<1>2. CASE g = h
  <2>1. CASE FindReminder(h)
    <3>1. /\ req[h].appt = a /\ job' = job /\ a \in Appts
          /\ req'[h].job = IF job[a].status = "PENDING" THEN job[a].at ELSE None
      BY <1>2, <2>1, FindReminderDoes DEF GoesOn, RequestsInv, Shape
    <3>2. job[a].at # None
      BY <3>1, FollowUpConstants DEF TypeOK, Job
    <3> QED
      BY <1>2, <3>1, <3>2
  <2>2. CASE Notify(h)
    BY <1>2, <2>2, NotifyDoes, NoRequestFields
  <2>3. req'[h].pc = "commit" /\ req'[h] # NoRequest
    BY <1>2, NoRequestFields
  <2>4. CASE Book(h) \/ LoadMove(h) \/ LoadCancel(h) \/ LoadRetry(h) \/ CommitChange(h)
             \/ SlotTaken(h) \/ Refresh(h)
    BY <2>3, <2>4, BookDoes, LoadMoveDoes, LoadCancelDoes, LoadRetryDoes, CommitChangeDoes,
       SlotTakenDoes, RefreshDoes
  <2>5. CASE CallCreate(h) \/ CallUpdate(h) \/ CallCancel(h) \/ Finish(h) \/ FinishRetry(h)
             \/ RequestDies(h)
    BY <2>3, <2>5, CallCreateDoes, CallUpdateDoes, CallCancelDoes, FinishDoes,
       FinishRetryDoes, RequestDiesDoes
  <2> QED
    BY <2>1, <2>2, <2>4, <2>5 DEF SessionStep
<1> QED
  BY <1>1, <1>2

LEMMA PendingInvStep ==
  TypeOK /\ RequestsInv /\ StartsInv /\ BookingsInv /\ ClaimsHold /\ PendingInv /\ [Next]_vars
    => PendingInv'
<1> SUFFICES ASSUME TypeOK, RequestsInv, ClaimsHold, PendingInv, Others PROVE PendingInv'
  BY Steps, PendingStep, FoundStep DEF PendingInv
<1>1. UNCHANGED <<row, req, cut, crossed>>
  BY OthersFrame
<1>2. \A a \in Appts : job'[a] = job[a] \/ job'[a].status # "PENDING"
  BY OthersJobs
<1>3. ASSUME NEW a \in Appts PROVE PendingIsRight(a)'
  BY <1>1, <1>2 DEF PendingInv, PendingIsRight, MovesApart, Crossed, UnderWay
<1>4. ASSUME NEW h \in Sessions PROVE FoundIsRight(h)'
  <2>1. req[h].kind = "move" => req[h].appt \in Appts
    BY DEF RequestsInv, Shape
  <2> QED
    BY <1>1, <1>2, <2>1 DEF PendingInv, FoundIsRight, MovesApart, Crossed
<1> QED
  BY <1>3, <1>4 DEF PendingInv

-----------------------------------------------------------------------------
(* The ticks.                                                              *)

(* A tick that claims nothing new disturbs no other.                       *)
LEMMA ClaimsApart ==
  ASSUME TypeOK, ClaimsHold, NEW w \in Workers, UNCHANGED clock,
         \A v \in Workers : v # w => tick'[v] = tick[v],
         tick'[w].claimed \subseteq tick[w].claimed,
         \A v \in Workers, a \in Appts : v # w /\ a \in tick[v].claimed => job'[a] = job[a],
         \A a \in tick'[w].claimed : job'[a] = job[a],
         tick'[w].todo \cup tick'[w].failed \cup tick'[w].sent \subseteq tick'[w].claimed,
         tick'[w].appt # None =>
           tick'[w].appt \in tick'[w].claimed \ (tick'[w].todo \cup tick'[w].sent),
         tick'[w].todo \cap tick'[w].sent = {}
  PROVE  ClaimsHold'
<1>1. ASSUME NEW v \in Workers, v # w PROVE ClaimsHold!(v)'
  <2>1. tick[v].claimed \subseteq Appts
    BY TickParts
  <2> QED
    BY <1>1, <2>1 DEF ClaimsHold
<1>2. ClaimsHold!(w)'
  BY DEF ClaimsHold
<1> QED
  BY <1>1, <1>2 DEF ClaimsHold

LEMMA ClaimsStep ==
  TypeOK /\ RequestsInv /\ BookingsInv /\ ClaimsHold /\ [Next]_vars => ClaimsHold'
<1> SUFFICES ASSUME TypeOK, RequestsInv, BookingsInv, ClaimsHold, [Next]_vars PROVE ClaimsHold'
  OBVIOUS
<1>0. \A w \in Workers : tick[w].claimed \subseteq Appts
  BY TickParts
<1>1. ASSUME NEW h \in Sessions, SessionStep(h) PROVE ClaimsHold'
  <2>1. UNCHANGED <<clock, tick>>
    BY <1>1, SessionFrame
  <2>2. ASSUME NEW w \in Workers, NEW a \in tick[w].claimed PROVE job'[a] = job[a]
    <3>1. a \in Appts /\ job[a].status = "PENDING" /\ Claimed(a)
      BY <1>0, <2>2 DEF ClaimsHold, Claimed
    <3> QED
      BY <1>1, <3>1, JobStep
  <2> QED
    BY <2>1, <2>2 DEF ClaimsHold
<1>2. ASSUME NEW w \in Workers, ClaimJobs(w) PROVE ClaimsHold'
  <2> DEFINE n == tick'[w]
  <2>1. /\ n.claimed = Claimable(w) /\ n.todo = Claimable(w) /\ n.failed = {} /\ n.sent = {}
        /\ n.appt = None
        /\ UNCHANGED <<clock, job>> /\ \A v \in Workers : v # w => tick'[v] = tick[v]
    BY <1>2, ClaimJobsDoes
  <2>2. \A a \in Claimable(w) : /\ job[a].status = "PENDING" /\ job[a].at =< clock
                                /\ \A v \in Workers : a \notin tick[v].claimed
    BY DEF Claimable, Due, Claimed
  <2>3. ClaimsHold!(w)'
    BY <2>1, <2>2
  <2>4. ASSUME NEW v \in Workers, v # w PROVE ClaimsHold!(v)'
    BY <2>1, <2>2, <2>4 DEF ClaimsHold
  <2> QED
    BY <2>3, <2>4 DEF ClaimsHold
<1>3. ASSUME NEW w \in Workers, ReadAppointment(w) PROVE ClaimsHold'
  <2> DEFINE t == tick[w]
             n == tick'[w]
  <2>1. PICK a \in t.todo : n.todo = t.todo \ {a} /\ n.appt \in {a, None}
    BY <1>3, ReadAppointmentDoes
  <2>2. /\ n.claimed = t.claimed /\ n.failed = t.failed /\ n.sent = t.sent
        /\ UNCHANGED <<clock, job>> /\ \A v \in Workers : v # w => tick'[v] = tick[v]
    BY <1>3, ReadAppointmentDoes
  <2>3. t.todo \cup t.failed \cup t.sent \subseteq t.claimed /\ t.todo \cap t.sent = {}
    BY DEF ClaimsHold
  <2>4. /\ n.todo \cup n.failed \cup n.sent \subseteq n.claimed /\ n.todo \cap n.sent = {}
        /\ n.appt # None => n.appt \in n.claimed \ (n.todo \cup n.sent)
    BY <2>1, <2>2, <2>3
  <2> QED
    BY <2>2, <2>4, ClaimsApart
<1>4. ASSUME NEW w \in Workers, SendReminder(w) PROVE ClaimsHold'
  <2> DEFINE t == tick[w]
             n == tick'[w]
             a == t.appt
  <2>1. /\ a \in Appts /\ n.appt = None /\ n.claimed = t.claimed /\ n.todo = t.todo
        /\ n.failed \subseteq t.failed \cup {a} /\ n.sent \subseteq t.sent \cup {a}
        /\ UNCHANGED <<clock, job>> /\ \A v \in Workers : v # w => tick'[v] = tick[v]
    BY <1>4, SendReminderDoes
  <2>2. /\ t.todo \cup t.failed \cup t.sent \subseteq t.claimed /\ t.todo \cap t.sent = {}
        /\ a \in t.claimed \ t.todo
    BY <2>1, FollowUpConstants DEF ClaimsHold
  <2>3. n.todo \cup n.failed \cup n.sent \subseteq n.claimed /\ n.todo \cap n.sent = {}
    BY <2>1, <2>2
  <2> QED
    BY <2>1, <2>3, ClaimsApart
<1>5. ASSUME NEW w \in Workers, CommitReminders(w) PROVE ClaimsHold'
  <2>1. ASSUME NEW v \in Workers, NEW a \in Appts, v # w, a \in tick[v].claimed
        PROVE  job'[a] = job[a]
    <3>1. a \notin tick[w].claimed \cup tick[w].failed
      BY <2>1 DEF ClaimsHold
    <3> QED
      BY <1>5, <3>1, CommitRemindersDoes
  <2>2. /\ tick'[w] = NoTick /\ UNCHANGED clock
        /\ \A v \in Workers : v # w => tick'[v] = tick[v]
    BY <1>5, CommitRemindersDoes
  <2> QED
    BY <2>1, <2>2, NoTickHolds, ClaimsApart
<1>6. ASSUME NEW w \in Workers, WorkerDies(w) PROVE ClaimsHold'
  <2>1. /\ tick'[w] = NoTick /\ UNCHANGED <<clock, job>>
        /\ \A v \in Workers : v # w => tick'[v] = tick[v]
    BY <1>6, WorkerDiesDoes
  <2> QED
    BY <2>1, NoTickHolds, ClaimsApart
<1>7. CASE TimePasses
  <2>1. \A a \in Appts : job[a].at =< clock => job[a].at =< clock'
    BY <1>7, FollowUpConstants DEF TimePasses, TypeOK, Job
  <2> QED
    BY <1>0, <1>7, <2>1 DEF TimePasses, ClaimsHold, reminding
<1>8. CASE UNCHANGED vars
  BY <1>8 DEF vars, reminding, ClaimsHold
<1> QED
  BY <1>1, <1>2, <1>3, <1>4, <1>5, <1>6, <1>7, <1>8, Steps DEF Others, WorkerStep


-----------------------------------------------------------------------------
(* The mail.                                                               *)

(* While a job is still to run, only a tick in flight can have sent its    *)
(* reminder.                                                               *)
MailIsCounted ==
  \A a \in Appts :
    /\ mail[a] =< 1 + lost[a]
    /\ job[a].status \in {"NONE", "PENDING"} =>
         mail[a] =< lost[a] \/ \E w \in Workers : a \in tick[w].sent

(* Steps that send nothing and lose nothing keep the count, if jobs that   *)
(* are still to run were so before.                                        *)
LEMMA MailFrame ==
  ASSUME MailIsCounted, UNCHANGED <<mail, lost>>,
         \A a \in Appts : job'[a].status \in {"NONE", "PENDING"} =>
           /\ job[a].status \in {"NONE", "PENDING"}
           /\ \A w \in Workers : a \in tick[w].sent => a \in tick'[w].sent
  PROVE  MailIsCounted'
BY DEF MailIsCounted

LEMMA MailStep ==
  TypeOK /\ RequestsInv /\ BookingsInv /\ ClaimsHold /\ MailIsCounted /\ [Next]_vars
    => MailIsCounted'
<1> SUFFICES ASSUME TypeOK, RequestsInv, BookingsInv, ClaimsHold, MailIsCounted, [Next]_vars
             PROVE  MailIsCounted'
  OBVIOUS
<1>1. ASSUME NEW h \in Sessions, SessionStep(h) PROVE MailIsCounted'
  <2>1. UNCHANGED <<tick, mail, lost>>
    BY <1>1, SessionFrame
  <2>2. \A a \in Appts : job[a].status = "NONE" \/ job'[a].status = job[a].status
    BY <1>1, JobStep
  <2> QED
    BY <2>1, <2>2, MailFrame
<1>2. ASSUME NEW w \in Workers, ClaimJobs(w) \/ ReadAppointment(w) PROVE MailIsCounted'
  <2>1. tick[w].sent \subseteq tick'[w].sent /\ UNCHANGED <<job, mail, lost>>
        /\ \A v \in Workers : v # w => tick'[v] = tick[v]
    BY <1>2, ClaimJobsDoes, ReadAppointmentDoes, NoTickHolds
  <2> QED
    BY <2>1, MailFrame
<1>3. ASSUME NEW w \in Workers, SendReminder(w) PROVE MailIsCounted'
  <2> DEFINE t == tick[w]
             n == tick'[w]
             a == t.appt
  <2>1. /\ a \in Appts /\ a # None /\ UNCHANGED <<job, lost>>
        /\ \A v \in Workers : v # w => tick'[v] = tick[v]
        /\ \A b \in Appts : b # a => mail'[b] = mail[b]
        /\ mail' \in [Appts -> Nat]
    BY <1>3, SendReminderDoes DEF SendReminder
  <2>2. CASE n.sent = t.sent /\ mail'[a] = mail[a]
    <3>1. mail' = mail
      BY <2>1, <2>2 DEF TypeOK
    <3>2. \A v \in Workers : tick'[v].sent = tick[v].sent
      BY <2>1, <2>2
    <3> QED
      BY <2>1, <3>1, <3>2, MailFrame
  <2>3. CASE n.sent = t.sent \cup {a} /\ mail'[a] = mail[a] + 1
    <3>1. a \in t.claimed /\ a \notin t.sent /\ job[a].status = "PENDING"
      BY <2>1 DEF ClaimsHold
    <3>2. \A v \in Workers : a \notin tick[v].sent
      BY <3>1 DEF ClaimsHold
    <3>3. mail[a] =< lost[a] /\ mail[a] \in Nat /\ lost[a] \in Nat
      BY <2>1, <3>1, <3>2 DEF MailIsCounted, TypeOK
    <3>4. mail'[a] =< 1 + lost'[a] /\ a \in n.sent
      BY <2>1, <2>3, <3>3
    <3>5. \A v \in Workers : tick[v].sent \subseteq tick'[v].sent
      BY <2>1, <2>3
    <3> QED
      BY <2>1, <3>4, <3>5 DEF MailIsCounted
  <2> QED
    BY <1>3, <2>2, <2>3, SendReminderDoes
<1>4. ASSUME NEW w \in Workers, CommitReminders(w) PROVE MailIsCounted'
  <2>1. ASSUME NEW a \in Appts, job'[a].status \in {"NONE", "PENDING"}
        PROVE  /\ job'[a] = job[a]
               /\ \A v \in Workers : a \in tick[v].sent => a \in tick'[v].sent
    <3>1. a \notin tick[w].claimed /\ job'[a] = job[a]
      BY <1>4, <2>1, CommitRemindersDoes
    <3>2. a \notin tick[w].sent
      BY <3>1 DEF ClaimsHold
    <3> QED
      BY <1>4, <3>1, <3>2, CommitRemindersDoes
  <2>2. UNCHANGED <<mail, lost>>
    BY <1>4, CommitRemindersDoes
  <2> QED
    BY <2>1, <2>2, MailFrame
<1>5. ASSUME NEW w \in Workers, WorkerDies(w) PROVE MailIsCounted'
  <2>1. /\ tick'[w] = NoTick /\ UNCHANGED <<job, mail>>
        /\ \A v \in Workers : v # w => tick'[v] = tick[v]
        /\ \A a \in Appts : lost'[a] = IF a \in tick[w].sent THEN lost[a] + 1 ELSE lost[a]
    BY <1>5, WorkerDiesDoes
  <2>2. ASSUME NEW a \in Appts
        PROVE  /\ mail'[a] =< 1 + lost'[a]
               /\ job'[a].status \in {"NONE", "PENDING"} =>
                    mail'[a] =< lost'[a] \/ \E v \in Workers : a \in tick'[v].sent
    <3>1. mail[a] \in Nat /\ lost[a] \in Nat /\ mail[a] =< 1 + lost[a]
      BY DEF TypeOK, MailIsCounted
    <3>2. CASE a \in tick[w].sent
      BY <2>1, <3>1, <3>2
    <3>3. CASE a \notin tick[w].sent
      <4>1. \A v \in Workers : a \in tick[v].sent => a \in tick'[v].sent
        BY <2>1, <3>3
      <4> QED
        BY <2>1, <3>1, <3>3, <4>1 DEF MailIsCounted
    <3> QED
      BY <3>2, <3>3
  <2> QED
    BY <2>2 DEF MailIsCounted
<1>6. CASE TimePasses \/ UNCHANGED vars
  BY <1>6, MailFrame DEF TimePasses, vars, reminding
<1> QED
  BY <1>1, <1>2, <1>3, <1>4, <1>5, <1>6, Steps DEF Others, WorkerStep

-----------------------------------------------------------------------------
(* Reminders in time.                                                      *)

(* A start that was read for a reminder is due, or the appointment is just *)
(* being moved, or its moves are not apart.                                *)
ReadIsTimely(w) ==
  LET t == tick[w]
      a == t.appt IN
    a # None =>
      /\ t.start \in Starts
      /\ \/ clock >= t.start - Lead
         \/ ~ MovesApart(a)
         \/ UnderWay(a, {"move"}) /\ t.start = row[a].start

ReadInv == \A w \in Workers : ReadIsTimely(w)

LEMMA ReadOfRequests ==
  ASSUME TypeOK, RequestsInv, ClaimsHold, ReadInv, PendingInv', NEW h \in Sessions,
         SessionStep(h), ClaimsHold', NEW w \in Workers
  PROVE  ReadIsTimely(w)'
<1> DEFINE t == tick[w]
<1>1. tick' = tick /\ clock' = clock
  BY SessionFrame
<1> SUFFICES ASSUME NEW a, a = t.appt, a # None, ~ (clock >= t.start - Lead), MovesApart(a)'
             PROVE  UnderWay(a, {"move"})' /\ t.start = row'[a].start
  BY <1>1 DEF ReadInv, ReadIsTimely, MovesApart, Crossed, UnderWay
<1>2. a \in Appts /\ t.start \in Starts /\ a \in t.claimed
  BY TickParts DEF ReadInv, ReadIsTimely, ClaimsHold
<1>3. MovesApart(a)
  BY <1>2, MovesApartBefore
<1>4. UnderWay(a, {"move"}) /\ t.start = row[a].start
  BY <1>3 DEF ReadInv, ReadIsTimely
<1>5. PICK g \in Sessions : req[g].appt = a /\ req[g].kind = "move" /\ req[g].pc # "loaded"
  BY <1>4 DEF UnderWay
<1>6. row'[a].start = row[a].start
  <2>1. row[a].status # "FREE"
    BY <1>5 DEF RequestsInv, Keeps
  <2>2. ~ (CommitChange(h) /\ a = req[h].appt /\ req[h].kind = "move")
    <3>1. ASSUME CommitChange(h), a = req[h].appt, req[h].kind = "move" PROVE FALSE
      <4>1. g # h
        BY <1>5, <3>1, CommitChangeDoes
      <4>2. {"move", "move"} \in crossed[a]
        BY <1>5, <3>1, <4>1, Meets
      <4> QED
        BY <1>3, <4>2 DEF MovesApart, Crossed
    <3> QED
      BY <3>1
  <2> QED
    BY <1>2, <2>1, <2>2, RowStart
<1>7. UnderWay(a, {"move"})'
  <2> SUFFICES ASSUME ~ UnderWay(a, {"move"})' PROVE FALSE
    OBVIOUS
  <2>1. job'[a].status = "PENDING" /\ job'[a].at =< clock
    BY <1>1, <1>2 DEF ClaimsHold
  <2>2. job'[a].at = t.start - Lead
    BY <1>2, <1>4, <1>6, <2>1 DEF PendingInv, PendingIsRight
  <2>3. t.start \in Nat /\ Lead \in Nat
    BY <1>2, FollowUpConstants
  <2>4. clock \in Int
    BY DEF TypeOK
  <2> QED
    BY <2>1, <2>2, <2>3, <2>4
<1> QED
  BY <1>4, <1>6, <1>7

LEMMA ReadStep ==
  /\ TypeOK /\ RequestsInv /\ ClaimsHold /\ PendingInv /\ ReadInv
  /\ ClaimsHold' /\ PendingInv' /\ [Next]_vars
  => ReadInv'
<1> SUFFICES ASSUME TypeOK, RequestsInv, ClaimsHold, PendingInv, ReadInv, Others PROVE ReadInv'
  BY Steps, ReadOfRequests DEF ReadInv
<1>0. UNCHANGED <<row, req, cut, crossed>>
  BY OthersFrame
<1>1. ASSUME NEW v \in Workers, tick'[v] = tick[v], clock' = clock PROVE ReadIsTimely(v)'
  BY <1>0, <1>1 DEF ReadInv, ReadIsTimely, MovesApart, Crossed, UnderWay
<1>2. ASSUME NEW w \in Workers,
             ClaimJobs(w) \/ SendReminder(w) \/ CommitReminders(w) \/ WorkerDies(w)
      PROVE  ReadInv'
  <2>1. /\ tick'[w].appt = None /\ clock' = clock
        /\ \A v \in Workers : v # w => tick'[v] = tick[v]
    BY <1>2, ClaimJobsDoes, SendReminderDoes, CommitRemindersDoes, WorkerDiesDoes, NoTickHolds
  <2>2. ReadIsTimely(w)'
    BY <2>1 DEF ReadIsTimely
  <2> QED
    BY <1>1, <2>1, <2>2 DEF ReadInv
<1>3. ASSUME NEW w \in Workers, ReadAppointment(w) PROVE ReadInv'
  <2> DEFINE n == tick'[w]
  <2>1. clock' = clock /\ \A v \in Workers : v # w => tick'[v] = tick[v]
    BY <1>3, ReadAppointmentDoes
  <2>2. CASE n.appt = None
    BY <1>1, <2>1, <2>2 DEF ReadInv, ReadIsTimely
  <2>3. CASE n.appt # None
    <3>1. PICK a \in tick[w].todo : /\ n.appt = a /\ row[a].status = "BOOKED"
                                    /\ n.start = row[a].start
      BY <1>3, <2>3, ReadAppointmentDoes
    <3>2. a \in Appts /\ job[a].status = "PENDING" /\ job[a].at =< clock
      BY TickParts DEF ClaimsHold
    <3>3. row[a].start \in Starts
      BY <3>1, <3>2 DEF RequestsInv, Blank
    <3>4. job[a].at = row[a].start - Lead \/ ~ MovesApart(a) \/ UnderWay(a, {"move"})
      BY <3>2 DEF PendingInv, PendingIsRight
    <3>5. row[a].start \in Nat /\ Lead \in Nat
      BY <3>3, FollowUpConstants
    <3>6. clock \in Int /\ job[a].at \in Int
      BY <3>2 DEF TypeOK, Job
    <3>7. clock >= row[a].start - Lead \/ ~ MovesApart(a) \/ UnderWay(a, {"move"})
      BY <3>2, <3>4, <3>5, <3>6
    <3>8. ReadIsTimely(w)'
      BY <1>0, <2>1, <3>1, <3>3, <3>7 DEF ReadIsTimely, MovesApart, Crossed, UnderWay
    <3> QED
      BY <1>1, <2>1, <3>8 DEF ReadInv
  <2> QED
    BY <2>2, <2>3
<1>4. CASE TimePasses
  <2>1. tick' = tick /\ clock' = clock + 1
    BY <1>4 DEF TimePasses, reminding
  <2>2. \A s \in Starts : clock >= s - Lead => clock' >= s - Lead
    BY <2>1, FollowUpConstants DEF TypeOK
  <2> QED
    BY <1>0, <2>1, <2>2 DEF ReadInv, ReadIsTimely, MovesApart, Crossed, UnderWay
<1>5. CASE UNCHANGED vars
  <2>1. tick' = tick /\ clock' = clock
    BY <1>5 DEF vars, reminding
  <2> QED
    BY <1>1, <2>1 DEF ReadInv
<1> QED
  BY <1>2, <1>3, <1>4, <1>5 DEF Others, WorkerStep


-----------------------------------------------------------------------------
(* Everything together.                                                    *)

IInv ==
  /\ TypeOK /\ RequestsInv
  /\ EventsInv /\ StartsInv /\ MirrorInv /\ NoticeInv
  /\ BookingsInv /\ PendingInv
  /\ ClaimsHold /\ MailIsCounted /\ ReadInv

LEMMA InitIInv == Init => IInv
<1> SUFFICES ASSUME Init PROVE IInv
  OBVIOUS
<1>0. /\ \A a \in Appts : row[a] = NoRow /\ job[a] = NoJob /\ cut[a] = {} /\ crossed[a] = {}
                         /\ mail[a] = 0 /\ lost[a] = 0
      /\ \A h \in Sessions : req[h] = NoRequest
      /\ \A w \in Workers : tick[w] = NoTick
      /\ \A e \in Events : event[e] = NoEvent
      /\ NoRow.status = "FREE" /\ NoRow.event = None /\ NoRow.sync = "PENDING"
      /\ NoJob.status = "NONE" /\ NoEvent.appt \notin Appts
  BY FollowUpConstants DEF Init, NoRow, NoJob, NoEvent
<1>1. TypeOK
  BY BlankTypes, FollowUpConstants DEF Init, TypeOK
<1>2. RequestsInv
  BY <1>0, NoRequestFields DEF RequestsInv, Shape, Keeps, Holds, Blank, Met
<1>3. EventsInv /\ StartsInv
  BY <1>0, NoRequestFields DEF EventsInv, RowOwns, RequestOwns, Owns, Lives, Holds, StartsInv,
     StartHeld
<1>4. MirrorInv /\ NoticeInv
  BY <1>0, NoRequestFields DEF MirrorInv, RowMirrored, RequestMirrors, Holds, NoticeInv,
     BookedHeld, Notified
<1>5. BookingsInv /\ PendingInv
  BY <1>0, NoRequestFields DEF BookingsInv, FreshJob, OneBooking, JobOf, PendingInv,
     PendingIsRight, FoundIsRight
<1>6. ClaimsHold /\ MailIsCounted /\ ReadInv
  BY <1>0, NoTickHolds DEF ClaimsHold, MailIsCounted, ReadInv, ReadIsTimely
<1> QED
  BY <1>1, <1>2, <1>3, <1>4, <1>5, <1>6 DEF IInv

LEMMA IInvStep == IInv /\ [Next]_vars => IInv'
<1> SUFFICES ASSUME IInv, [Next]_vars PROVE IInv'
  OBVIOUS
<1>1. /\ TypeOK /\ RequestsInv
      /\ EventsInv /\ StartsInv /\ MirrorInv /\ NoticeInv
      /\ BookingsInv /\ PendingInv
      /\ ClaimsHold /\ MailIsCounted /\ ReadInv
  BY DEF IInv
<1>2. TypeOK' /\ RequestsInv'
  BY <1>1, TypeStep, RequestsStep
<1>3. EventsInv' /\ StartsInv' /\ MirrorInv' /\ NoticeInv'
  BY <1>1, EventsStep, StartsStep, MirrorStep, NoticeStep
<1>4. BookingsInv' /\ PendingInv' /\ ClaimsHold' /\ MailIsCounted'
  BY <1>1, BookingsInvStep, PendingInvStep, ClaimsStep, MailStep
<1>5. ReadInv'
  BY <1>1, <1>4, ReadStep
<1> QED
  BY <1>2, <1>3, <1>4, <1>5 DEF IInv

(* The invariants of this module hold, all of them together.               *)
THEOREM Invariance == Spec => []IInv
  BY InitIInv, IInvStep, PTL DEF Spec

(* Every variable keeps its type.                                          *)
THEOREM TypeCorrect == Spec => []TypeOK
<1>1. IInv => TypeOK
  BY DEF IInv
<1> QED
  BY <1>1, Invariance, PTL

(* A row that says SYNCED is in the calendar, at its time, with any number *)
(* of retries and cancellations in flight, unless a move was cut short or  *)
(* met another writer of the calendar (orchestrator.py _sync_calendar,     *)
(* _sync_calendar_update, retry_calendar_sync).                            *)
THEOREM SyncedIsMirroredCorrect == Spec => []SyncedIsMirrored
<1>1. IInv => SyncedIsMirrored
  BY MirroredRows DEF IInv
<1> QED
  BY <1>1, Invariance, PTL

(* A booked appointment names no event that is another's, or was           *)
(* cancelled, however the requests overlap (orchestrator.py                *)
(* _sync_calendar_cancel, retry_calendar_sync).                            *)
THEOREM BookedEventIsLiveCorrect == Spec => []BookedEventIsLive
<1>1. IInv => BookedEventIsLive
  BY LiveEvents DEF IInv
<1> QED
  BY <1>1, Invariance, PTL

(* A booked appointment has its reminder, at the right time before its     *)
(* start, unless the booking or a move was cut short, or a move met        *)
(* another one or the booking (orchestrator.py _schedule_reminder,         *)
(* _reschedule_pending_reminder).                                          *)
THEOREM ReminderFollowsCorrect == Spec => []ReminderFollows
<1>1. ASSUME IInv, NEW a \in Appts, row[a].status = "BOOKED", Settled(a, {"confirm", "move"}),
             ~ Crossed(a, "move", {"confirm", "move"})
      PROVE  /\ job[a].status # "NONE"
             /\ job[a].status = "PENDING" => job[a].at = row[a].start - Lead
  <2>1. RequestsInv /\ BookingsInv /\ PendingInv
    BY <1>1 DEF IInv
  <2>2. ~ Booking(a)
    BY <1>1, <2>1 DEF Booking, Settled, UnderWay, RequestsInv, Shape
  <2>3. ~ UnderWay(a, {"move"}) /\ MovesApart(a)
    BY <1>1 DEF Settled, UnderWay, MovesApart
  <2>4. "confirm" \notin cut[a]
    BY <1>1 DEF Settled
  <2> QED
    BY <1>1, <2>1, <2>2, <2>3, <2>4 DEF BookingsInv, JobOf, PendingInv, PendingIsRight
<1>2. IInv => ReminderFollows
  BY <1>1 DEF ReminderFollows
<1> QED
  BY <1>2, Invariance, PTL

(* A reminder goes out once, and once more for every tick that was rolled  *)
(* back after it sent it (jobs.py run_due_reminders).                      *)
THEOREM RemindersCountedCorrect == Spec => []RemindersCounted
<1>1. IInv => RemindersCounted
  BY DEF IInv, MailIsCounted, RemindersCounted
<1> QED
  BY <1>1, Invariance, PTL

(* What the customer was last told is true, unless a notice could not be   *)
(* sent, a request was cut short, or two that the customer is told of met  *)
(* (orchestrator.py confirm_slot, _confirm_reschedule,                     *)
(* _handle_cancel_intent).                                                 *)
THEOREM LastNoticeCorrect == Spec => []LastNoticeIsTrue
<1>1. IInv => LastNoticeIsTrue
  BY TrueNotices DEF IInv
<1> QED
  BY <1>1, Invariance, PTL

(* A job that is done, or has failed, stays so (orchestrator.py            *)
(* _reschedule_pending_reminder, jobs.py run_due_reminders).               *)
THEOREM JobsFinality == Spec => JobsAreFinal
<1>1. ASSUME IInv, [Next]_vars, NEW a \in Appts, job[a].status \notin {"NONE", "PENDING"}
      PROVE  job'[a].status = job[a].status
  <2>1. TypeOK /\ RequestsInv /\ BookingsInv /\ ClaimsHold
    BY <1>1 DEF IInv
  <2>2. ASSUME NEW h \in Sessions, SessionStep(h) PROVE job'[a].status = job[a].status
    BY <1>1, <2>1, <2>2, JobStep
  <2>3. CASE Others
    BY <1>1, <2>1, <2>3, OthersJobs
  <2> QED
    BY <1>1, <2>2, <2>3, Steps
<1>2. IInv /\ [Next]_vars =>
        [\A a \in Appts : job[a].status \notin {"NONE", "PENDING"} =>
                            job'[a].status = job[a].status]_vars
  BY <1>1
<1> QED
  BY <1>2, Invariance, PTL DEF Spec, JobsAreFinal

(* A reminder is early only while a move of its appointment is on its way, *)
(* or when one was cut short, or met another one or the booking            *)
(* (orchestrator.py _confirm_reschedule, jobs.py run_due_reminders).       *)
THEOREM ReminderTimeliness == Spec => ReminderIsTimely
<1> DEFINE Timely(a) ==
      \/ \E w \in Workers : tick[w].appt = a /\ clock >= tick[w].start - Lead
      \/ ~ Settled(a, {"move"}) \/ Crossed(a, "move", {"confirm", "move"})
<1>1. ASSUME IInv, [Next]_vars, NEW a \in Appts, mail'[a] > mail[a]
      PROVE  Timely(a)
  <2>1. mail' # mail /\ TypeOK /\ RequestsInv /\ ReadInv
    BY <1>1 DEF IInv, TypeOK
  <2>2. Others
    BY <1>1, <2>1, Steps, SessionFrame
  <2>3. PICK w \in Workers : SendReminder(w)
    BY <2>1, <2>2, ClaimJobsDoes, ReadAppointmentDoes, CommitRemindersDoes, WorkerDiesDoes
       DEF Others, WorkerStep, TimePasses, vars, reminding
  <2>4. tick[w].appt = a /\ a # None
    <3>1. \A b \in Appts : b # tick[w].appt => mail'[b] = mail[b]
      BY <2>1, <2>3, SendReminderDoes
    <3>2. mail[a] \in Nat
      BY <2>1 DEF TypeOK
    <3> QED
      BY <1>1, <3>1, <3>2, FollowUpConstants
  <2> QED
    BY <2>1, <2>4 DEF ReadInv, ReadIsTimely, MovesApart, Settled
<1>2. IInv /\ [Next]_vars => [\A a \in Appts : mail'[a] > mail[a] => Timely(a)]_vars
  BY <1>1
<1> QED
  BY <1>2, Invariance, PTL DEF Spec, ReminderIsTimely

=============================================================================
