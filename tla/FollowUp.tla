------------------------------ MODULE FollowUp ------------------------------
(***************************************************************************)
(* What follows the commit of a booking, a move or a cancellation          *)
(* (app/workflow/orchestrator.py, calendar.py, notifications.py, jobs.py): *)
(* the calendar is brought up to date, the customer is told, and a         *)
(* reminder job is created or moved.  All of it happens in a second        *)
(* transaction of the same request, which may be cut short; the reminder   *)
(* jobs are run by the worker, which may be, too.  Staff may retry the     *)
(* calendar of any appointment.                                            *)
(*                                                                         *)
(* Nothing keeps two requests about one appointment apart but the lock of  *)
(* its row, which a session holds from its UPDATE to its commit.  Time     *)
(* runs in units in which the reminder's lead is a whole number.           *)
(***************************************************************************)
EXTENDS Integers, FiniteSets

CONSTANTS
  Appts,      \* primary keys of appointments
  Sessions,   \* database sessions, one to a request
  Workers,    \* processes that run the worker's tick
  None,
  Starts,     \* the times that may be booked
  Lead,       \* Business.reminder_lead_hours
  Provider,   \* NOTIFICATION_PROVIDER
  Ambiguous,  \* whether the calendar may do what it answers it has not done
  MaxTime,    \* bounds: of the clock,
  MaxRequests,\* of the requests that begin,
  MaxEvents,  \* of the events the calendar creates,
  MaxFailures \* and of the calls, the processes and the ticks that fail

ASSUME FollowUpConstants ==
  /\ None \notin Appts \cup Int
  /\ Starts \subseteq Nat
  /\ Lead \in Nat
  /\ Provider \in {"mock", "console", "resend"}
  /\ Ambiguous \in BOOLEAN
  /\ {MaxTime, MaxRequests, MaxEvents, MaxFailures} \subseteq Nat

VARIABLES
  clock,
  row,     \* the appointments table
  event,   \* the calendar's own events
  job,     \* the SEND_REMINDER job of an appointment
  told,    \* what the customer was told last
  req,     \* the request of each session: where it is, what it holds
  cut,     \* which kinds of request about an appointment were cut short
  crossed, \* and which were in flight together
  begun,   \* how many have begun
  tick,    \* the reminder transactions in flight
  mail,    \* how many reminders of an appointment were handed to the provider
  lost,    \* how many of them by ticks that were rolled back
  failures \* how often something has failed

Events == 1 .. MaxEvents

request == <<req, cut, crossed, begun>>
reminding == <<tick, mail, lost>>
vars == <<clock, row, event, job, told, request, reminding, failures>>

Row == [status : {"FREE", "BOOKED", "CANCELLED"}, start : Starts \cup {None},
        event : Events \cup {None}, sync : {"PENDING", "SYNCED", "FAILED"}]
NoRow == [status |-> "FREE", start |-> None, event |-> None, sync |-> "PENDING"]

Event == [appt : Appts \cup {None}, at : Starts \cup {None}, live : BOOLEAN]
NoEvent == [appt |-> None, at |-> None, live |-> FALSE]

(* LOCKED is entered and left in one transaction, and never seen outside.  *)
Job == [status : {"NONE", "PENDING", "DONE", "FAILED_RETRYABLE"}, at : Int]
NoJob == [status |-> "NONE", at |-> 0]

(* The last notice that was sent, and whether one has failed since.        *)
Notice == [kind : {"none", "confirm", "move", "cancel"}, at : Starts \cup {None},
           failed : BOOLEAN]
NoNotice == [kind |-> "none", at |-> None, failed |-> FALSE]

Kind == {"confirm", "move", "cancel", "retry"}

(* "loaded" is the row as the session last saw it in the database, "row"   *)
(* what it makes of it, "job" the time of the job it has found to move.    *)
Request == [kind : Kind \cup {"none"}, appt : Appts \cup {None}, loaded : Row,
            row : Row, job : Int \cup {None},
            pc : {"idle", "loaded", "refresh", "calendar", "answered", "reminder",
                  "commit"}]
NoRequest == [kind |-> "none", appt |-> None, loaded |-> NoRow, row |-> NoRow,
              job |-> None, pc |-> "idle"]

(* The jobs a tick has locked, those still to do, those that failed, the   *)
(* reminders it sent, and the appointment and the start it has just read.  *)
Tick == [claimed : SUBSET Appts, todo : SUBSET Appts, failed : SUBSET Appts,
         sent : SUBSET Appts, appt : Appts \cup {None}, start : Starts \cup {None}]
NoTick == [claimed |-> {}, todo |-> {}, failed |-> {}, sent |-> {},
           appt |-> None, start |-> None]

Init ==
  /\ clock = 0
  /\ row = [a \in Appts |-> NoRow]
  /\ event = [e \in Events |-> NoEvent]
  /\ job = [a \in Appts |-> NoJob]
  /\ told = [a \in Appts |-> NoNotice]
  /\ req = [h \in Sessions |-> NoRequest]
  /\ cut = [a \in Appts |-> {}]
  /\ crossed = [a \in Appts |-> {}]
  /\ begun = 0
  /\ tick = [w \in Workers |-> NoTick]
  /\ mail = [a \in Appts |-> 0]
  /\ lost = [a \in Appts |-> 0]
  /\ failures = 0

-----------------------------------------------------------------------------
(* The calendar and the notifications.                                     *)

Fails == failures < MaxFailures /\ failures' = failures + 1

Goes(well) == IF well THEN failures' = failures ELSE Fails

(* Whether the calendar did what it was asked, and what it answered.       *)
Outcomes == [done : BOOLEAN, ok : BOOLEAN]
Outcome == {o \in Outcomes : o.done = o.ok \/ (Ambiguous /\ o.done)}

(* A new event, under a new id, for the times of a row in memory.          *)
CreateEvent(a, r, o, e) ==
  /\ event[e] = NoEvent
  /\ \A f \in 1 .. e - 1 : event[f] # NoEvent
  /\ event' = IF o.done THEN [event EXCEPT ![e] = [appt |-> a, at |-> r.start,
                                                   live |-> TRUE]]
              ELSE event

(* A slip: the status is the calendar's own word.                          *)
SyncCalendarVerbatim(r, o, e) ==
  IF o.ok THEN [r EXCEPT !.event = e, !.sync = "confirmed"]
          ELSE [r EXCEPT !.sync = "FAILED"]

(* The row after the calendar answered that it created event e.            *)
SyncCalendar(r, o, e) ==
  IF o.ok THEN [r EXCEPT !.event = e, !.sync = "SYNCED"]
          ELSE [r EXCEPT !.sync = "FAILED"]

(* A slip: a failed update is not recorded.                                *)
SyncedAnyway(r, o) == [r EXCEPT !.sync = "SYNCED"]

SyncCalendarUpdate(r, o) == [r EXCEPT !.sync = IF o.ok THEN "SYNCED" ELSE "FAILED"]

(* What a notification comes to: a row that says SENT or FAILED, or an     *)
(* error that is not caught.                                               *)
MockSend == {"SENT"}
ConsoleSend == {"SENT"}
ResendSend == {"SENT", "FAILED", "raises"}

Send == CASE Provider = "mock" -> MockSend
          [] Provider = "console" -> ConsoleSend
          [] Provider = "resend" -> ResendSend

(* A slip: the time is taken from the calendar.                            *)
ContentOfEvent(k, r) ==
  [kind |-> k, at |-> IF r.event = None THEN r.start ELSE event[r.event].at,
   failed |-> FALSE]

Content(k, r) == [kind |-> k, at |-> r.start, failed |-> FALSE]

(* A slip: the whole row is written.                                       *)
FlushAll(stored, loaded, new) == new

(* An UPDATE writes the columns that differ from the loaded row.           *)
Flush(stored, loaded, new) ==
  [f \in DOMAIN stored |-> IF new[f] # loaded[f] THEN new[f] ELSE stored[f]]

-----------------------------------------------------------------------------
(* Requests, up to their first commit.                                     *)

(* What is in flight is remembered when a second request comes.            *)
Begin(h, r) ==
  /\ req[h] = NoRequest
  /\ begun < MaxRequests /\ begun' = begun + 1
  /\ req' = [req EXCEPT ![h] = r]
  /\ crossed' = [crossed EXCEPT ![r.appt] = @ \cup
                   {{r.kind, req[g].kind} : g \in {x \in Sessions : req[x].appt = r.appt}}]
  /\ UNCHANGED <<clock, event, job, told, cut, reminding, failures>>

(* The appointment of a confirmation is new.                               *)
Book(h) ==
  \E a \in Appts, s \in {x \in Starts : x >= clock} :
    /\ row[a].status = "FREE"
    /\ row' = [row EXCEPT ![a].status = "BOOKED", ![a].start = s]
    /\ Begin(h, [NoRequest EXCEPT !.kind = "confirm", !.appt = a, !.pc = "refresh"])

CanModify(r) == r.status = "BOOKED" /\ r.start >= clock

Load(h, kind, a, new) ==
  /\ Begin(h, [kind |-> kind, appt |-> a, loaded |-> row[a], row |-> new, job |-> None,
               pc |-> IF kind = "retry" THEN "calendar" ELSE "loaded"])
  /\ UNCHANGED row

LoadMove(h) ==
  \E a \in Appts, s \in {x \in Starts : x >= clock} :
    CanModify(row[a]) /\ Load(h, "move", a, [row[a] EXCEPT !.start = s])

LoadCancel(h) ==
  \E a \in Appts :
    CanModify(row[a]) /\ Load(h, "cancel", a, [row[a] EXCEPT !.status = "CANCELLED"])

(* POST /appointments/{id}/retry-calendar-sync has one transaction only.   *)
LoadRetry(h) ==
  \E a \in Appts :
    row[a].status # "FREE" /\ row[a].sync # "SYNCED" /\ Load(h, "retry", a, row[a])

Changed(h) == req[h].row # req[h].loaded

(* Who writes the row waits for whoever has written it and not committed.  *)
Writable(h) ==
  Changed(h) =>
    \A g \in Sessions \ {h} :
      req[g].appt = req[h].appt /\ req[g].pc \in {"reminder", "commit"} => ~ Changed(g)

Written(h) ==
  row' = [row EXCEPT ![req[h].appt] = Flush(@, req[h].loaded, req[h].row)]

CommitChange(h) ==
  /\ req[h].pc = "loaded"
  /\ Writable(h) /\ Written(h)
  /\ req' = [req EXCEPT ![h] = [NoRequest EXCEPT !.kind = req[h].kind,
                                  !.appt = req[h].appt, !.pc = "refresh"]]
  /\ UNCHANGED <<clock, event, job, told, cut, crossed, begun, reminding, failures>>

Ends(h) == req' = [req EXCEPT ![h] = NoRequest]

(* Another appointment has the time by now; other times are offered.       *)
SlotTaken(h) ==
  /\ req[h].pc = "loaded" /\ req[h].kind = "move"
  /\ Ends(h)
  /\ UNCHANGED <<clock, row, event, job, told, cut, crossed, begun, reminding, failures>>

-----------------------------------------------------------------------------
(* The second transaction.                                                 *)

Then(h, where, r) == req' = [req EXCEPT ![h] = [r EXCEPT !.pc = where]]

(* It begins by reading the row, as it is by now.                          *)
Refresh(h) ==
  LET r == req[h] IN
    /\ r.pc = "refresh"
    /\ Then(h, "calendar", [r EXCEPT !.loaded = row[r.appt], !.row = row[r.appt]])
    /\ UNCHANGED <<clock, row, event, job, told, cut, crossed, begun, reminding, failures>>

Answered(h, new) ==
  /\ Then(h, "answered", [req[h] EXCEPT !.row = new])
  /\ UNCHANGED <<clock, row, job, told, cut, crossed, begun, reminding>>

(* A booking gets an event; so does a move that has none to update, and    *)
(* every retry.                                                            *)
CallCreate(h) ==
  LET r == req[h] IN
    /\ r.pc = "calendar"
    /\ r.kind \in {"confirm", "retry"} \/ (r.kind = "move" /\ r.row.event = None)
    /\ \E o \in Outcome, e \in Events :
         /\ Goes(o.ok)
         /\ CreateEvent(r.appt, r.row, o, e)
         /\ Answered(h, SyncCalendar(r.row, o, e))

CallUpdate(h) ==
  LET r == req[h] IN
    /\ r.pc = "calendar"
    /\ r.kind = "move" /\ r.row.event # None
    /\ \E o \in Outcome :
         /\ Goes(o.ok)
         /\ event' = IF o.done THEN [event EXCEPT ![r.row.event].at = r.row.start]
                     ELSE event
         /\ Answered(h, SyncCalendarUpdate(r.row, o))

(* The row says nothing of how the cancellation of its event went.         *)
CallCancel(h) ==
  LET r == req[h] IN
    /\ r.pc = "calendar"
    /\ r.kind = "cancel"
    /\ \/ r.row.event = None /\ event' = event /\ failures' = failures
       \/ /\ r.row.event # None
          /\ \E o \in Outcome :
               /\ Goes(o.ok)
               /\ event' = IF o.done THEN [event EXCEPT ![r.row.event].live = FALSE]
                           ELSE event
    /\ Answered(h, r.row)

(* What was not committed is undone, what the calendar did is not.         *)
CutShort(h) ==
  /\ Ends(h)
  /\ cut' = IF req[h].pc = "loaded" THEN cut
            ELSE [cut EXCEPT ![req[h].appt] = @ \cup {req[h].kind}]

Told(h) ==
  CASE req[h].kind = "confirm" -> Then(h, "commit", req[h])
    [] req[h].kind = "move" -> Then(h, "reminder", req[h])
    [] OTHER -> Ends(h)

(* The row is flushed, and the customer is told.  All that is left to a    *)
(* cancellation then is the commit of what is not modelled.                *)
Notify(h) ==
  LET r == req[h] IN
    /\ r.pc = "answered" /\ r.kind # "retry"
    /\ Writable(h)
    /\ \E s \in Send :
         /\ Goes(s = "SENT")
         /\ \/ s = "SENT" /\ told' = [told EXCEPT ![r.appt] = Content(r.kind, r.row)]
            \/ s = "FAILED" /\ told' = [told EXCEPT ![r.appt].failed = TRUE]
            \/ s = "raises" /\ told' = told
         /\ IF s = "raises" THEN CutShort(h) ELSE Told(h) /\ cut' = cut
    /\ UNCHANGED <<clock, row, event, job, crossed, begun, reminding>>

(* A slip: the job is left where it is.                                    *)
NoPendingJob(a) == FALSE

PendingJob(a) == job[a].status = "PENDING"

FindReminder(h) ==
  LET r == req[h] IN
    /\ r.pc = "reminder"
    /\ Then(h, "commit", [r EXCEPT !.job = IF PendingJob(r.appt) THEN job[r.appt].at
                                           ELSE None])
    /\ UNCHANGED <<clock, row, event, job, told, cut, crossed, begun, reminding, failures>>

Claimed(a) == \E w \in Workers : a \in tick[w].claimed

(* A slip: the lead is forgotten.                                          *)
RunAtStart(r) == r.start

RunAt(r) == r.start - Lead

(* A slip: the whole job is written.                                       *)
JobMoved(j, at) == [j EXCEPT !.status = "PENDING", !.at = at]

MovedJob(j, at) == [j EXCEPT !.at = at]

(* The UPDATE of a job waits for the tick that holds its lock, and writes  *)
(* no more than the time, when it is not the one that was found.           *)
Finish(h) ==
  LET r == req[h]
      a == r.appt IN
    /\ r.pc = "commit"
    /\ Written(h)
    /\ \/ r.kind = "confirm"
          /\ job' = [job EXCEPT ![a] = [status |-> "PENDING", at |-> RunAt(r.row)]]
       \/ /\ r.kind = "move" /\ r.job \notin {None, RunAt(r.row)}
          /\ ~ Claimed(a)
          /\ job' = [job EXCEPT ![a] = MovedJob(@, RunAt(r.row))]
       \/ r.kind = "move" /\ r.job \in {None, RunAt(r.row)} /\ job' = job
    /\ Ends(h)
    /\ UNCHANGED <<clock, event, told, cut, crossed, begun, reminding, failures>>

FinishRetry(h) ==
  /\ req[h].pc = "answered" /\ req[h].kind = "retry"
  /\ Writable(h) /\ Written(h)
  /\ Ends(h)
  /\ UNCHANGED <<clock, event, job, told, cut, crossed, begun, reminding, failures>>

(* The process dies, or something that nobody catches is raised.           *)
RequestDies(h) ==
  /\ Fails
  /\ req[h].pc # "idle"
  /\ CutShort(h)
  /\ UNCHANGED <<clock, row, event, job, told, crossed, begun, reminding>>

-----------------------------------------------------------------------------
(* The reminders of a tick.                                                *)

Due == {a \in Appts : job[a].status = "PENDING" /\ job[a].at =< clock}

(* Slips: the rows are not locked; a job is run on the dot or never.       *)
DueUnlocked(w) == Due
DueOnTheDot(w) == {a \in Due : ~ Claimed(a) /\ job[a].at = clock}

(* FOR UPDATE SKIP LOCKED.                                                 *)
Claimable(w) == {a \in Due : ~ Claimed(a)}

ClaimJobs(w) ==
  /\ tick[w] = NoTick
  /\ Claimable(w) # {}
  /\ tick' = [tick EXCEPT ![w] = [NoTick EXCEPT !.claimed = Claimable(w),
                                                !.todo = Claimable(w)]]
  /\ UNCHANGED <<clock, row, event, job, told, request, mail, lost, failures>>

(* A reminder is for an appointment that is still BOOKED.                  *)
ReadAppointment(w) ==
  /\ tick[w].appt = None
  /\ \E a \in tick[w].todo :
       tick' = [tick EXCEPT ![w].todo = @ \ {a},
                            ![w].appt = IF row[a].status = "BOOKED" THEN a ELSE None,
                            ![w].start = IF row[a].status = "BOOKED" THEN row[a].start
                                         ELSE None]
  /\ UNCHANGED <<clock, row, event, job, told, request, mail, lost, failures>>

(* What is raised becomes the job's failure.                               *)
SendReminder(w) ==
  LET a == tick[w].appt IN
    /\ a # None
    /\ \E s \in Send :
         /\ Goes(s = "SENT")
         /\ tick' = [tick EXCEPT ![w].appt = None, ![w].start = None,
                       ![w].failed = IF s = "raises" THEN @ \cup {a} ELSE @,
                       ![w].sent = IF s = "SENT" THEN @ \cup {a} ELSE @]
         /\ mail' = [mail EXCEPT ![a] = IF s = "SENT" THEN @ + 1 ELSE @]
    /\ UNCHANGED <<clock, row, event, job, told, request, lost>>

CommitReminders(w) ==
  LET t == tick[w] IN
    /\ t.claimed # {} /\ t.todo = {} /\ t.appt = None
    /\ job' = [a \in Appts |->
                 IF a \in t.failed THEN [job[a] EXCEPT !.status = "FAILED_RETRYABLE"]
                 ELSE IF a \in t.claimed THEN [job[a] EXCEPT !.status = "DONE"]
                 ELSE job[a]]
    /\ tick' = [tick EXCEPT ![w] = NoTick]
    /\ UNCHANGED <<clock, row, event, told, request, mail, lost, failures>>

(* The worker dies, or the database fails it: the tick is rolled back, and *)
(* the next one starts over.                                               *)
WorkerDies(w) ==
  /\ Fails
  /\ tick[w] # NoTick
  /\ lost' = [a \in Appts |-> IF a \in tick[w].sent THEN lost[a] + 1 ELSE lost[a]]
  /\ tick' = [tick EXCEPT ![w] = NoTick]
  /\ UNCHANGED <<clock, row, event, job, told, request, mail>>

-----------------------------------------------------------------------------

TimePasses ==
  /\ clock < MaxTime
  /\ clock' = clock + 1
  /\ UNCHANGED <<row, event, job, told, request, reminding, failures>>

Reminders(w) ==
  ClaimJobs(w) \/ ReadAppointment(w) \/ SendReminder(w) \/ CommitReminders(w)

Next ==
  \/ \E h \in Sessions : \/ Book(h) \/ LoadMove(h) \/ LoadCancel(h) \/ LoadRetry(h)
                         \/ CommitChange(h) \/ SlotTaken(h) \/ Refresh(h)
                         \/ CallCreate(h) \/ CallUpdate(h) \/ CallCancel(h)
                         \/ Notify(h) \/ FindReminder(h) \/ Finish(h) \/ FinishRetry(h)
                         \/ RequestDies(h)
  \/ \E w \in Workers : \/ ClaimJobs(w) \/ ReadAppointment(w) \/ SendReminder(w)
                        \/ CommitReminders(w) \/ WorkerDies(w)
  \/ TimePasses

Spec == Init /\ [][Next]_vars

(* The worker polls for ever, and takes up again what a tick left undone.  *)
FairSpec == Spec /\ \A w \in Workers : WF_vars(Reminders(w))

-----------------------------------------------------------------------------

(* Every variable keeps to its columns.                                    *)
TypeOK ==
  /\ clock \in 0 .. MaxTime
  /\ row \in [Appts -> Row]
  /\ event \in [Events -> Event]
  /\ job \in [Appts -> Job]
  /\ told \in [Appts -> Notice]
  /\ req \in [Sessions -> Request]
  /\ cut \in [Appts -> SUBSET Kind]
  /\ crossed \in [Appts -> SUBSET SUBSET Kind]
  /\ begun \in 0 .. MaxRequests
  /\ tick \in [Workers -> Tick]
  /\ mail \in [Appts -> Nat] /\ lost \in [Appts -> Nat]
  /\ failures \in 0 .. MaxFailures

(* Requests of these kinds that have committed are over, and done.         *)
UnderWay(a, kinds) ==
  \E h \in Sessions : req[h].appt = a /\ req[h].kind \in kinds /\ req[h].pc # "loaded"

Settled(a, kinds) == ~ UnderWay(a, kinds) /\ cut[a] \cap kinds = {}

(* A request of this kind met one of those kinds.                          *)
Crossed(a, kind, kinds) == \E k \in kinds : {kind, k} \in crossed[a]

(* SYNCED means what it says (orchestrator.py _sync_calendar,              *)
(* _sync_calendar_update, retry_calendar_sync): the calendar has the       *)
(* event the row names, at the time the row names, whatever failed before, *)
(* and although staff retry and customers cancel meanwhile; unless a move  *)
(* was cut short, or met something else that writes the calendar.          *)
SyncedIsMirrored ==
  \A a \in Appts :
    /\ row[a].status = "BOOKED" /\ row[a].sync = "SYNCED"
    /\ Settled(a, {"move"}) /\ ~ Crossed(a, "move", {"confirm", "move", "retry"})
    => /\ row[a].event # None
       /\ event[row[a].event] = [appt |-> a, at |-> row[a].start, live |-> TRUE]

(* However requests overlap, fail or are cut short, a booked appointment   *)
(* names no event that is another's or was cancelled: a request that read  *)
(* BOOKED before a cancellation does not write it back afterwards          *)
(* (orchestrator.py _sync_calendar_cancel, domain/appointments.py).        *)
BookedEventIsLive ==
  \A a \in Appts :
    row[a].status = "BOOKED" /\ row[a].event # None =>
      event[row[a].event].appt = a /\ event[row[a].event].live

(* A booked appointment has its reminder job, and while the job is still   *)
(* to run, it runs at the right time before the start the appointment has  *)
(* now (orchestrator.py _schedule_reminder, _reschedule_pending_reminder), *)
(* unless the booking or a move was cut short, or a move met another one   *)
(* or the booking.                                                         *)
ReminderFollows ==
  \A a \in Appts :
    /\ row[a].status = "BOOKED"
    /\ Settled(a, {"confirm", "move"}) /\ ~ Crossed(a, "move", {"confirm", "move"})
    => /\ job[a].status # "NONE"
       /\ job[a].status = "PENDING" => job[a].at = row[a].start - Lead

(* However many workers and retried ticks there are, a reminder goes out   *)
(* once, and once more for every tick that sent it and was rolled back     *)
(* (jobs.py run_due_reminders), also when requests overlap.                *)
RemindersCounted == \A a \in Appts : mail[a] =< 1 + lost[a]

(* What the customer was last told is true (orchestrator.py confirm_slot,  *)
(* _confirm_reschedule, _handle_cancel_intent; notifications.py), whatever *)
(* became of the calendar and whoever retries it, unless a notice could    *)
(* not be sent, a request was cut short, or two that the customer is told  *)
(* of met, other than two cancellations.                                   *)
LastNoticeIsTrue ==
  \A a \in Appts :
    /\ row[a].status # "FREE" /\ Settled(a, {"confirm", "move", "cancel"})
    /\ ~ told[a].failed
    /\ ~ Crossed(a, "move", {"confirm", "move", "cancel"})
    /\ ~ Crossed(a, "cancel", {"confirm"})
    => /\ told[a].at = row[a].start
       /\ (told[a].kind = "cancel") = (row[a].status = "CANCELLED")

(* A reminder job that is done, or has failed, stays so: no move ever      *)
(* makes it run again (orchestrator.py _reschedule_pending_reminder).      *)
JobsAreFinal ==
  [][\A a \in Appts : job[a].status \notin {"NONE", "PENDING"} =>
                        job'[a].status = job[a].status]_vars

(* A reminder is early only while a request that moves its appointment is  *)
(* on its way, or when one was cut short, or met another one or the        *)
(* booking (the jobs move in the second transaction of                     *)
(* _confirm_reschedule).                                                   *)
ReminderIsTimely ==
  [][\A a \in Appts : mail'[a] > mail[a] =>
       \/ \E w \in Workers : tick[w].appt = a /\ clock >= tick[w].start - Lead
       \/ ~ Settled(a, {"move"}) \/ Crossed(a, "move", {"confirm", "move"})]_vars

(* A due reminder does not stay due: it is run, or its appointment moves   *)
(* (worker.py main, jobs.py run_due_reminders).                            *)
DueJobsRun == \A a \in Appts : []<>(a \notin Due)

(* The calendar never has two events for one appointment, whatever is      *)
(* retried (orchestrator.py retry_calendar_sync).                          *)
RetryKeepsOneEvent ==
  \A a \in Appts :
    Cardinality({e \in Events : event[e].appt = a /\ event[e].live}) =< 1

=============================================================================
