# Appointment lifecycle automation in TLA+

A verification project for the backend of this repository
(`src/backend/app`): TLA+ modules that model the parts of the system in which
something can go wrong between two steps, the TLC configurations that check
them on small instances, and theorems about them that TLAPS proves for every
instance.

## The system

A FastAPI process serves customers (a chat page) and staff (a dashboard); a
second process, the worker, runs a tick of background work every minute. They
share nothing but one Postgres database. A language model turns a customer's
message into an intent; everything else is deterministic code.

| Component | State it keeps | Operations | Hard because |
|---|---|---|---|
| Appointment write paths (`domain/booking.py`, `domain/appointments.py`) | rows of `appointments`, under a unique constraint on the idempotency key and an exclusion constraint on overlapping BOOKED rows of a staff member | book, cancel, reschedule | every request reads and checks first and writes later, in an UPDATE that names only the primary key |
| Availability engine (`domain/availability.py`) | none; computed from working hours, blocked periods, bookings and policy | list the free slots of a window, re-check one slot | loops over rows in any order, windows cut at both ends, buffers; the re-check sees other rows than the listing |
| No-show sweep (`domain/noshow.py`, `workflow/jobs.py`) | marks rows NO_SHOW, opens a recovery run | sweep, by the worker and by a manual tick | loads everything first and commits appointment by appointment |
| Workflow engine (`workflow/orchestrator.py`, `state_machine.py`, `models.py`) | `processing_runs`, `escalation_cases`, `scheduled_jobs` | start, reply, confirm, recover; each may book, move or cancel | a request loads its run, locks it only with its first write, and may commit in the middle |
| Expiry sweep, reminders (`workflow/jobs.py`, `worker.py`) | closes idle runs, sends due reminders | one pass a minute | writes into runs that it loaded earlier |
| Calendar mirror (`workflow/calendar.py`, functions of `orchestrator.py`) | event id and sync status of an appointment; the provider's events | create, update, cancel, retry | the provider is outside the transaction, and may have done what it says it has not |
| Notifications (`workflow/notifications*.py`) | `notifications` | send | a failed send must not fail the request |
| Customer resolution (`domain/customers.py`) | `customers` | find or insert | looked up and inserted without a constraint |
| Rate limiter (`api/rate_limit.py`) | the recent hits of each client, in memory | check | runs on a pool of threads, without a lock |
| Dashboard and traces (`api/routes_dashboard.py`, `api/routes_workflow.py`) | none | trace, timeline, activity, overview | one page is many queries, and work goes on between them |
| AI interpretation (`ai/`, `workflow/clarify.py`) | none | interpret a message, word a question | the answer may be anything |
| HTTP routes, authentication (`api/`) | none | one session per request | |
| Frontend, chat page | none | send one request at a time | |

What has to be right, component by component:

- *Write paths*: no staff member is double-booked; a key has one appointment;
  a status that is final stays so; the buffer after an appointment is kept.
- *Availability*: what is listed can be kept; no room is overlooked; the
  re-check agrees with the listing; the order of rows does not matter.
- *No-show sweep*: only missed appointments are marked; each with its
  recovery; each in the end.
- *Workflow engine*: a conversation books at most once; its outcome names its
  appointment; it asks a bounded number of questions; nothing but a crash
  strands it; a state that is final stays so.
- *Expiry sweep*: abandoned conversations are closed, others left alone.
- *Calendar mirror*: SYNCED means that the calendar has the event the row
  names, at the row's time; one event per appointment.
- *Reminders*: one for each appointment, at the time it has now, in the end;
  again only when a tick was lost.
- *Notices*: what a customer was last told is true.
- *Intake*: nobody is refused early; one contact is one customer; no customer
  is left without a run.
- *Pages*: what they leave out is only what happened since they were asked
  for.

`PROJECT.json` lists the components with their status and every hazard with
its line.

## The modules

    AppointmentBook     what the appointments table promises
      ^ implemented by
    Booking             sessions that book, move, cancel and sweep
      ^ checked by MCBooking, proved about in BookingProofs
    Availability        how slots are listed and re-checked
      ^ proved about in AvailabilityProofs
    SlotCheck           Availability beside Booking: the loops of the one
                        answer the question of the other
      ^ checked by MCAvailability, proved about in SlotCheckProofs
    ProcessingRuns      conversations, their requests and the worker's sweeps
      ^ checked by MCProcessingRuns, proved about in ProcessingRunsProofs
    FollowUp            the second transaction of a request: calendar, notice,
                        reminder; the worker that sends reminders
      ^ checked by MCFollowUp, proved about in FollowUpProofs
    Intake              the limiter and the customer of a first message
      ^ checked by MCIntake, proved about in IntakeProofs
    Trail               what is written down, and the pages that show it
      ^ checked by MCTrail, proved about in TrailProofs

Each module takes one kind of interaction apart and leaves the others as
coarse as they may be: `Booking` knows sessions but no conversations;
`ProcessingRuns` knows conversations, locks and commits, and the appointments
of `AppointmentBook` on a calendar of slots; `FollowUp` knows no conversations
either, but every step of the transaction that follows a commit, of any number
of requests about one appointment at the same time; `Trail`
knows only which rows each transaction writes. The availability engine is one
operator in `Booking` (`IsSlotAvailable`), whose loops are the module
`Availability`; `SlotCheck` states, and `SlotCheckProofs` proves, that the
loops compute the operator.

### Booking

One action is one read or one committed write of one session. The variable
`row` is the table; `pc`, `req` and `todo` are what a session holds in memory;
`clock` is the wall clock, which a session reads once, at its start (`now`).

| Action | Code |
|---|---|
| `StartBooking`, `CheckSlot`, `CommitBooking`, `ResolveConflict` | `book_appointment`: key lookup and staff check; slot re-check; INSERT and commit; lookup after the rollback |
| `StartCancel`, `CommitCancel` | `cancel_appointment` before and at its commit |
| `StartReschedule`, `RecheckSlot`, `CommitReschedule` | `reschedule_appointment` |
| `StartSweep`, `MarkNoShow`, `EndSweep` | `sweep_no_shows`: the query, one iteration of the loop with its recovery, the end |
| `RequestDies`, `SweepDies` | a process that stops: its transaction is rolled back |
| `Tick` | time; a request is in flight for at most `MaxRequestTicks` |

The two constraints are evaluated against the rows at the commit, and only
there (`ExclusionHolds`, `WithKey`). SQLAlchemy writes the columns that
changed: a move to the time that was loaded writes nothing (`seen`). Postgres
may abort a writer because of a deadlock while another one writes
(`Contended`); then the code treats it like an overlap. Working hours and
blocked periods are the constant `Bookable`.

`AppointmentBook` is the same table for a reader who need not know about
sessions: one appointment changes at a time, an appointment holds its slot
exactly while it is BOOKED, slots of a staff member are disjoint, a key is used
once, cancelled and missed are final, and only what is past its grace period is
missed. `ImplementsBook` states that `Booking` implements it under the mapping
at the end of the module: an appointment that is not BOOKED holds no slot, so
that the one thing the code does to such a row, moving it (see "Where the code
and its documents differ"), is a
stutter.

### ProcessingRuns

A run is a record of the columns that the control flow reads. RECEIVED and
SLOTS_OFFERED are left in the transaction that enters them and are no states
of the model. A request is a handler with the copy of the run it loaded
(`mem[h].loaded`); `lock` says who holds the lock of a run's row.

| Action | Code |
|---|---|
| `StartRequest` | `start_request` up to its first commit |
| `LoadReply`, `LockReply`, `RouteReply` | `reply_to_clarification`: `db.get` and the state check; the flush of INTERPRETING; `_interpret_and_route` and commit |
| `FinishCancel` | `_handle_cancel_intent` after `cancel_appointment` committed |
| `LoadConfirm`, `LockConfirm` | `confirm_slot` up to the flush of BOOKING |
| `CheckBooking`, `CommitInsert`, `FinishBooking` | `book_appointment` inside `confirm_slot`, and the second transaction |
| `CheckMove`, `CommitMove`, `FinishMove` | `_confirm_reschedule` |
| `SendReminders`, `MarkNoShow` | `run_due_reminders`; a no-show with `start_recovery` |
| `LoadStale`, `LockStale`, `ExpireStale` | `sweep_expired_runs`: the query, the UPDATEs of its flush, the commit |
| `Age`, `SlotPasses` | an hour without reply; the time of a slot |
| `HandlerDies`, `WorkerDies` | a process that stops |

`Merge` is SQLAlchemy's UPDATE: the state, and the columns that differ from
the loaded copy. `Routed` is what the interpreter's answer leads to; the
answer itself is any member of `Intents`. The rollback of a lost race expires
the objects of the session, so that the request fails (`CommitInsert`); a
second escalation case for one run violates a unique constraint (`Conclude`).
Both are 500 answers, after which the run is where its last commit left it.
`abandoned` remembers the runs that a crash has left in INTERPRETING or
BOOKING: no code ever takes them up again, so that `NoRunIsStranded` says that
only a crash does this.

### Availability

The listing for one staff member, with one action per turn of each loop.
`hours`, `free`, `uncut` and `slots` are the lists of
`list_available_slots`; they are sets, since windows that occur twice are of
no consequence.

| Action | Code |
|---|---|
| `Clip` | notice and horizon; the early return |
| `WorkingDay` | one turn of the loop over local days in `_working_hours_windows`, with the clipping that follows it |
| `LoadBlockers` | `_blocked_windows` and `_booked_windows` |
| `Subtract` | one turn of the outer loop of `_subtract`, with `Remainder` for a window |
| `Cut`, `Drop` | one turn of the cursor's loop; the end of a window |
| `Recheck` | `is_slot_available` for a slot that was listed, later |
| `BookElsewhere` | an appointment booked between the two |

`Subtract` takes the blockers in any order, as the queries have no ORDER BY.
The properties compare the result with `IsFree`, which says without any loop
when a stretch of time can be had. `Clear` counts a buffer only where the
appointment's own times overlap the window, as the queries do; what follows
from that for the re-check is the run `buffer_lost`. A listing is `Complete`
when its last window has been cut up, or when a re-check has been answered.
`NothingIsMissed` and `SameInputsSameSlots` speak of complete listings.
`Listing` is the list as a function of the tables, the window and the time: the
hours of all days, what the blockers leave of each stretch of them, and the
slots at the multiples of the duration.

### SlotCheck

`Booking` asks `is_slot_available` in one step, as the predicate
`IsSlotAvailable` over its table. `SlotCheck` instantiates `Booking` with the
tables of a re-check: the rows of one staff member (`AsRow`), his working hours
and blocked periods as `Bookable` (`Open`, `Unblocked`), and the clock of the
call. `LoopsAnswerBooking` says that the loops answer what the predicate says
then, the moved appointment being left out by both. It adds no step to
`Availability`.

### FollowUp

A request is a session (`req[h]`) with the row as it loaded it (`loaded`), the
row as it has it in memory (`row`), and where it is (`pc`).

| Action | Code |
|---|---|
| `Book`, `LoadMove`, `LoadCancel` | `book_appointment` up to its commit; the load and the check of `reschedule_appointment` and `cancel_appointment` |
| `CommitChange`, `SlotTaken` | the first commit of a move or a cancellation; `SlotUnavailableError`, after which other times are offered |
| `Refresh` | `db.refresh` after that commit: the second transaction begins with the row as it is by then |
| `CallCreate`, `CallUpdate`, `CallCancel` | `_sync_calendar`, `_sync_calendar_update`, `_sync_calendar_cancel`: the call, and what becomes of the row in memory |
| `Notify` | the flush of the row, and the notice: sent, recorded as FAILED, or raised |
| `FindReminder` | the SELECT of `_reschedule_pending_reminder` |
| `Finish` | the reminder job, new or moved, and the second commit |
| `LoadRetry`, `FinishRetry` | `retry_calendar_sync` before and after its `CallCreate`; it has one transaction only |
| `ClaimJobs`, `ReadAppointment`, `SendReminder`, `CommitReminders` | `run_due_reminders`: the SELECT with SKIP LOCKED; for each job the appointment, the send; the one commit |
| `RequestDies`, `WorkerDies` | a process that stops, or an error nobody catches |

Sessions are kept apart by what the database keeps apart, and by nothing else:
an UPDATE of a row waits for whoever has updated it and not committed
(`Writable`), an UPDATE of a job waits for the tick that has claimed it
(`Claimed`), and an UPDATE names the columns whose value differs from the one
that was loaded (`Flush`). So a retry may run while a booking, a move or
another retry of the same appointment is under way, two moves may be, and a
cancellation may commit between the two transactions of a move.

The appointments are those that were booked in a conversation; staff who book
by `POST /appointments` get neither event nor reminder. A confirmation
repeated under the key of one that is in flight is the matter of
`ProcessingRuns`. NO_SHOW, which is set after an
appointment's end, is left to `Booking`. A recovery flushes the link to the missed appointment, and so
locks its row, before it calls the calendar; the model lets it lock the row no
sooner than any other booking, and so allows more. The calendar is any one that
keeps to the `CalendarProvider` protocol. It may refuse a call; with
`Ambiguous` it may also have done what it reports as failed (a timeout). What a
process had in memory is lost when it dies, what the calendar and the mail
provider did is not.

Three variables are not the program's. `cut` remembers of each appointment
which kinds of request were cut short, `crossed` which pairs of kinds were in
flight together, and `lost` how many reminders were sent by ticks that were
rolled back. The properties name exceptions by them: the overlaps in which the
code really goes wrong are exempted one by one, and are described below; all
other overlaps are not. `BookedEventIsLive`, `RemindersCounted` and
`JobsAreFinal` have no exemption for overlaps.

| Property | holds although these meet | is exempted when these met |
|---|---|---|
| `SyncedIsMirrored` | booking and retries, two retries, a cancellation and anything | a move with a booking, a move or a retry |
| `ReminderFollows`, `ReminderIsTimely` | a move with retries, a cancellation with anything | a move with a booking or a move |
| `LastNoticeIsTrue` | a retry with anything, two cancellations | a move with a booking, a move or a cancellation; a booking with a cancellation |

### Intake

`TakeTime`, `LookUp`, `Refuse` and `Admit` are the steps of
`FixedWindowRateLimiter.check` on a thread; `FindCustomer`, `CommitRequest`
and `StartGiven` are the part of `start_request` that deals with customers,
with the interpreter's call between the flush and the commit; `Fail` is any
error or crash. `Reply` is admitted by the same limiter and is otherwise the
matter of `ProcessingRuns`.

### Trail

Each transaction is one action that adds its rows (`Commit`) with the time at
which it began, which is what `created_at` holds: Postgres' `now()` is the
start of the transaction. Each page is opened (`Open`), made of its queries
one by one (`ReadTrace`, `ReadTimeline`, `ReadActivity`, `ReadOverview`), and
shown. `page.before` is what there was when the page was asked for.

## What TLC checks

Every property comes with a mutant in `PROJECT.json`: a definition marked
"A slip" in the modules, which must break it in the same run.

| Run | Question | Instance |
|---|---|---|
| `booking_race` | Two requests at once: double booking, one appointment per key, refinement of the book | 2 appointments, 2 staff members, a service of length 1 and one of length 2 with a buffer, 2 keys, time 0..3 standing still while requests run |
| `booking_lifecycle` | A request that stays in flight while time passes, and the sweep: statuses are final, only the missed are marked, all of them in the end | 2 appointments, 1 request, 1 sweep, time 0..6, requests up to 2 ticks, grace 1 |
| `runs_patient` | One booking and one pending reminder per conversation, and none left half-done but by a crash, through bookings, moves, cancellations, questions, crashes of any process, re-offers and expiry; does a successful run still name its appointment, and a recovery the missed one? | 2 runs, 2 appointments, 2 slots, 2 handlers, 1 worker, 3 keys |
| `runs_clarify` | At most `MAX_CLARIFICATION_ROUNDS` questions; every conversation left alone is closed | 2 runs, 1 appointment, 1 slot, 2 handlers that may die, 1 worker |
| `availability` | Is every listed slot free, every free start covered, the re-check right and what `Booking` takes it for, the order of rows irrelevant; does it end? | days of 8 units, weeks of 2 days, 3 sets of working hours, 3 of blocked periods, up to 2 bookings at first, windows of 8 and 13 units, a duration of 2 |
| `follow_up` | Do calendar, notice and reminder follow every booking, move and cancellation, whatever overlaps, but for the exemptions above? | 1 appointment, 3 requests of 2 sessions, 2 workers, 2 start times, a calendar that may mislead, a mail provider that may fail, 1 failure of anything, 2 events |
| `intake` | Does the limiter refuse and admit the right ones; who gets a second customer? | 3 first messages and a reply of one client, 2 contacts, a limit of 2 in 2 units of time |
| `trail` | What may a page leave out that was there when it was asked for? | 1 conversation with its cancellation or recovery, 1 question, activity cut at 2 entries |

*Bounds.* Two sessions are enough for every interleaving of a stale read and
a write of another session, which is what most hazards here are made of; two
appointments give a conflict and a bystander; two staff members and services
of different length let an overlap be partial, and let the same time be free
with one and taken with the other. The time bound of `booking_lifecycle`
leaves room for an appointment to start after the notice, end, outlive the
grace period and stay overdue for one tick more. Three keys on two runs let
one conversation be confirmed under two keys.

A day of eight units holds two shifts, a gap between them and a booking that
touches, overlaps or encloses their ends; windows of eight and thirteen units
that start at -1, 0, 3 and 8 begin and end inside a shift, at its edge and on
another day. In `follow_up` one appointment suffices, as no action of that
module relates two of them, but for a tick that claims several jobs: these
share only its commit and its rollback. Two sessions overlap in every pair of
kinds, and the third request comes before, during or after such a pair. One
failure, of a call, a process or a tick, is enough, because every exception in
the properties is remembered for the appointment; the theorems allow any
number. Two events allow for a booking whose event was lost, or that has met a
retry, and for a move or a retry that makes another one. A limit of two
and four messages let two be let through, one be refused and one come after
the window has moved. In `trail` two entries of activity are fewer than each
source may have, and more than one.

The theorems below do away with the bounds for `Booking`, `ProcessingRuns`,
`Availability`, `FollowUp`, `Intake` and `Trail`.
Symmetry is used in runs without liveness only, over sets the specifications
never choose from by name.

*Fairness.* Only the worker, the clock and requests in flight are fair; no
customer has to do anything. The worker's loop survives any failed tick
(`worker.py:35-40`) and comes back every minute, hence weak fairness of its
steps. In `runs_clarify` a step of the expiry sweep that waits for a row lock
is strongly fair: the lock may be taken again and again by a client's
requests, but Postgres queues the waiters. The worker itself is assumed not
to be killed in every sweep; in that run only the handlers die, and in
`follow_up` the number of failures is bounded. In `availability` the loops of
a listing are weakly fair: they run without waiting for anybody but the
database. `FollowUp` assumes of each worker only that it goes on with its own
tick, and nothing of requests or staff.

*Deadlock* is checked in `booking_race`, `booking_lifecycle`, `runs_patient`,
`runs_clarify` and `trail`. It is not in the others, where everybody may
rightly have nothing left to do: `availability` ends with its re-check,
`intake` when each message is answered, and `follow_up` when time is up and
every job has been run.

### Where the code and its documents differ

Each of these runs is expected to violate its property, which quotes a
document or a comment. The code is not judged here; the trace shows what it
does.

| Run | What happens |
|---|---|
| `buffer_lost` | the re-check looks at rows that overlap the slot by their bare times and misses a buffer that reaches into it; no concurrency needed |
| `sweep_and_confirm` | the expiry sweep overwrites the state a run has meanwhile ended in |
| `retry_calendar` | a booking is committed and still under way, its row PENDING; a retry creates an event, and so does the booking: two events, one of which no row names, and nothing has failed |
| `trace_after_reply` | a customer answers a question; the second interpretation makes `scalar_one_or_none` raise, and the trace promised by docs/PHASES.md is a 500 answer |

More was met while modelling, and is part of the models without a run of its
own, or is named as an exception by a property:

- *Booking.* A reschedule that loaded a BOOKED appointment moves it after a
  cancellation committed (`CommitReschedule`; a stutter of the book). Two
  overlapping sweeps, the worker's and a manual tick, open two recoveries for
  one missed appointment, and no more (`RecoveriesBounded`), so that
  `RecoveriesMatchNoShows` is checked and proved with one sweeper. Two requests
  under one key for disjoint times make the loser fail with the raw unique violation (`CommitBooking`, answer "error").
- *Conversations.* The loser of a race at the commit gets a server error
  instead of new offers (`CommitInsert`). A confirmation repeated under its
  key after the first one committed is refused, because the run is no longer
  waiting (`IsConfirmable`). Two replies handled at the same time are both
  answered with a question of which only one is counted, and a run confirmed
  at the same time under two keys books twice, so that `BoundedClarification`
  and `OneBookingPerRun` need patient clients. The chat page is patient: it
  disables its buttons while it waits.
- *Calendar.* The row does not record that cancelling an event failed, so
  that a retry, for which SYNCED is a no-op, cannot repair it
  (docs/PHASES.md:207-211 calls such a failure "recorded and retryable"). A
  move that is cut short leaves SYNCED beside an event at the old or the new
  time. So does a retry that loaded a FAILED row before a move committed: it
  creates an event at the old start, and writes its id and SYNCED last. Of two
  overlapping moves of a row without an event both create one, and of two
  updates of one event the older may come last. A second event also comes of
  two retries at once, and of one retry alone after the calendar refused the
  update of a move, as the retry creates and does not ask for the event the row
  names.
- *Overlapping moves and cancellations.* The second transaction of a move
  computes the time of the reminder from the start it read when that
  transaction began. When another move commits meanwhile and finishes first,
  the older one leaves the pending job at the time of its own start, which is
  not the appointment's. When a cancellation commits and tells the customer
  meanwhile, the move's notice comes last, and says that a cancelled
  appointment was moved.
- *Notices.* A notice that the provider refused is recorded as FAILED, and
  nothing sends it again; the request goes on as if it had been sent.
- *Reminders.* FAILED_RETRYABLE is selected by no query. The handler around a
  send (`jobs.py:87`, "a failing job must never crash the sweep") does not
  help when the database fails: the session is unusable and the whole tick is
  rolled back, after which its reminders are sent again.
- *Pages.* `created_at` orders entries by the start of their transaction.
  A case that was resolved lately but opened long ago is not in recent
  activity.
- *Limiter.* Checks that overlap lose hits, so that more than the limit may
  pass (`LimitHolds`); the entry of a client that never returns is kept.

## What TLAPS proves

`BookingProofs` proves, for every set of appointments, requests, sweeps, staff
members, services and keys, every duration, buffer and policy:

| Theorem | Statement |
|---|---|
| `TypeCorrect` | `Spec => []TypeOK` |
| `TimingCorrect` | `Spec => [](TypeOK /\ Timing)` |
| `StatusFinality` | `Spec => StatusIsFinal` |
| `NoShowCorrect` | `Spec => []NoShowWasMissed` |
| `NoDoubleBookingCorrect` | `Spec => []NoDoubleBooking` |
| `IdempotencyCorrect` | `Spec => []OneAppointmentPerKey` |
| `BookImplemented` | `Spec => ImplementsBook` |
| `RecoveriesBounded` | a missed appointment has a recovery, nothing else has one, and no appointment has more than there are sweeps, for finitely many sweeps |
| `RecoveriesCorrect` | `Spec => []RecoveriesMatchNoShows`, for at most one sweep |

The argument. `TypeOK` is inductive because a session names only rows that
exist, and rows are never deleted. `NoDoubleBooking` is inductive: a row
becomes BOOKED, or moves while BOOKED, only when the constraint holds at that
commit, and whatever the session saw before does not matter.
`OneAppointmentPerKey` uses the unique constraint and that keys of rows never
change. `StatusIsFinal` is not inductive by itself: `CommitCancel` and
`MarkNoShow` write without looking again, and only time keeps them apart. The
strengthening is `Timing`: a request that holds an appointment to modify
started no later than its start minus the notice (`ModifiersAreEarly`), is in
flight for a bounded time (`RequestsInTime`), and the appointments a sweep
holds are overdue and stay so (`SweepsAreLate`); since an appointment cannot
be overdue while a request that started so early is in flight, neither finds
the row changed by the other, except a row that the other has left as it is.
`BookImplemented` takes the three invariants and maps each action to a step of
the book or a stutter. `Timing` was checked on the instance of
`booking_lifecycle` before it was proved.

Recoveries are counted by `RecoveriesInv`: those an appointment has, and the
sweeps that still hold it (`Markers`), are together no more than there are
sweeps. A sweep that marks it goes from one side to the other, a sweep that
dies only leaves; and once it is marked nobody can load it again, since
`IsNoShow` asks for BOOKED and no request may touch it any more (`Timing`).
Hence the two overlapping sweeps
named above open two recoveries and never a third, and one sweep at a time,
which `RecoveriesCorrect` assumes, exactly one.

The assumptions are `BookingConstants` (types) and `RequestsAreShort`: a
request is answered before an appointment it may still modify can end and
outlive its grace period. Nothing in the code enforces it, but notice, duration
and grace are minutes to hours and a request takes seconds; without it
`StatusIsFinal` is false, as the slip `CanModifyAtAnyTime` shows.

`ProcessingRunsProofs` proves, for any runs, appointments, slots, requests,
workers and keys, every limit, and crashes of any process:

| Theorem | Statement |
|---|---|
| `TypeCorrect` | `Spec => []TypeOK` |
| `SuccessHasResultCorrect` | `Spec => []SuccessHasResult` |
| `OneBookingPerRunCorrect` | `Patient /\ Spec => []OneBookingPerRun` |
| `OnePendingReminderCorrect` | `Patient /\ Spec => []OnePendingReminder` |
| `BoundedClarificationCorrect` | `Patient /\ Spec => []BoundedClarification` |
| `NoRunIsStrandedCorrect` | `Patient /\ Spec => []NoRunIsStranded` |
| `OnlyExpiryOverwrites` | `Patient /\ Spec =>` a step that changes the state of a settled run makes it EXPIRED |
| `TerminalIsFinalWithoutSweeps` | `Patient /\ Spec => TerminalIsFinal`, if there is no worker |

The first two hold for any client. Their invariant, `ResultInv`, says what a
request holds (`HandlerHolds`), what a run is (`RunHolds`), and that an
appointment was booked by the run its key belongs to (`ApptHolds`). It is
inductive because no step takes back what a request relies on: a run is not
un-started and keeps what it recovers, and an appointment keeps who booked it,
its NO_SHOW, and its link unless its own run writes it (`RunKept`,
`ApptKept`). A commit writes only the columns its session changed
(`MergeFields`), so that a request whose copy of the run is old does not undo
another one's result.

The others assume `Patient`, for without it two confirmations at once book
twice. The run `runs_patient` checks `SuccessHasResult` of patient clients; that
it holds of impatient ones is known from the theorem. `PatientInv` rests on there
being one request at a time for a run (`OneHandler`), so that only a sweep can have
written the run since it was loaded (`LoadedIsCurrent`); and on a run that has
booked never waiting again (`BookedIsOver`), so that its key cannot be found
used and its reminder is the appointment's first (`RemindersAreFirst`). That
reminder being the only one is also why the second transaction of a move
cannot fail, which `NoRunIsStranded` needs. The assumptions are
`RunConstants`, which only types the constants.

What the run `sweep_and_confirm` shows is then narrowed down. By
`OnlyExpiryOverwrites` a run that SUCCEEDED, FAILED or was ESCALATED keeps its
state in every step but one that writes EXPIRED, however many sweeps run and
die; by `TerminalIsFinalWithoutSweeps` the property that run refutes holds when
there is no worker: its sweep, which looks before it waits for the lock,
is the only cause. The invariant is
`OpenInv`: a run that a request holds is not yet settled, so that what the
request writes at its end replaces nothing final. It needs `OneHandler`, for a
second request could have settled the run meanwhile.

`AvailabilityProofs` proves, for every length of day and week, every duration,
notice and horizon, every set of working hours, blocked periods and bookings,
and every window asked for:

| Theorem | Statement |
|---|---|
| `TypeCorrect` | `Spec => []TypeOK` |
| `LoopsCorrect` | `Spec => []Inv`, the invariants of the loops |
| `SlotsAreFreeCorrect` | `Spec => []SlotsAreFree` |
| `NothingIsMissedCorrect` | `Spec => []NothingIsMissed` |
| `RecheckIsRightCorrect` | `Spec => []RecheckIsRight` |
| `SameInputsSameSlotsCorrect` | `Spec => []SameInputsSameSlots` |

The argument is that of a loop invariant for each loop, in two halves: what a
list holds is sound (`AllSound`), and every stretch that could still be had
lies within one of its windows (`Holds`). `HoursInv` says so of the hours of
the days before the loop's day; `FreeInv` of the free windows and the blockers
subtracted so far, by `RemainderIsRight`, which says that `Remainder` leaves
exactly the stretches that do not touch the blocker; `CutInv` that a start
which is possible is covered by a slot already cut or lies in what is left to
cut. `SlotsInv` is what remains of them once the listing is over, and
`OfferInv` what is remembered of a listed slot when it is checked again.
`LoopsCorrect` proves all of them together (`Inv`), since each loop begins with
what the one before it leaves. `BlockersSuffice` closes the gap between rows
that overlap the window, which the queries select, and all rows, of which
`IsFree` speaks. `RecheckDecides` draws both halves together for a re-check: a
slot that was listed is listed again exactly when it is free. The assumptions
are `AvailabilityConstants`: types, and that durations are positive and windows
not empty.

That the order of rows does not matter needs more than soundness and
completeness, for two lists could both cover every free start and differ in
where their slots begin. `ListInv` compares each loop with `Listing`: `hours`
are the hours of the days so far; `free` is what the blockers taken out so far
leave of them, as maximal stretches (`UntouchedStep`: taking out one more
blocker by `Remainder` is the same as asking for stretches that one more
blocker does not touch); and `slots`, with what the cursor will still cut from
`uncut`, are the slots of those stretches (`SlotsInStep`). `Untouched` and
`SlotsIn` are set comprehensions without recursion, so that no induction over
the rows or over the slots is needed but that of the loops themselves.

`SlotCheckProofs` proves `LoopsAnswerBookingCorrect`,
`Spec => []LoopsAnswerBooking`, for every such instance of the two modules: by
`RecheckDecides` the loops answer `IsFree`, and `PredicateIsReference` shows
that `Booking`'s predicate is `IsFree` of a slot whose hours are settled. It
assumes that the service asked about is not among the rows, since each row
stands for its own service. So what `BookingProofs` proves of sessions that ask
a predicate holds of sessions that run these loops, as far as one answer
computed from one look at the tables goes.

`FollowUpProofs` proves, for any appointments, sessions and workers, every lead
time, each mail provider, any number of requests and failures, and a calendar
that refuses, or answers that it refused and did not:

| Theorem | Statement |
|---|---|
| `Invariance` | `Spec => []IInv`, the inductive invariant |
| `TypeCorrect` | `Spec => []TypeOK` |
| `SyncedIsMirroredCorrect` | `Spec => []SyncedIsMirrored` |
| `BookedEventIsLiveCorrect` | `Spec => []BookedEventIsLive` |
| `ReminderFollowsCorrect` | `Spec => []ReminderFollows` |
| `RemindersCountedCorrect` | `Spec => []RemindersCounted` |
| `LastNoticeCorrect` | `Spec => []LastNoticeIsTrue` |
| `JobsFinality` | `Spec => JobsAreFinal` |
| `ReminderTimeliness` | `Spec => ReminderIsTimely` |

None of these properties is inductive: each speaks of rows at rest, and what
makes them true is what requests and ticks in flight hold in memory, some of
it old. `IInv` has a part for each. `RequestsInv`: what a request may be
(`Shape`), what it holds (`Keeps`: a first transaction has changed the start or
the status and nothing else, a second one neither), and that requests in
flight together are remembered (`Met`). By `WrittenRow`, the lemma about
`Flush`, the first transaction therefore never disturbs the calendar's columns,
nor the second one the start or the status, however old its copy. `EventsInv`:
the event that a row or a request names is the appointment's own, and it is
live as long as the row is BOOKED, since only a request that has committed
CANCELLED cancels it; this is `BookedEventIsLive`, under every overlap.
`StartsInv`: what a second transaction holds is the row's start, unless a move
met another one or the booking. `MirrorInv`: a row that says SYNCED agrees with
the calendar, and so does what a request is about to write from the moment the
calendar answered; a move that has met no other writer has the row to itself.
`NoticeInv`: what was told last is what the row says, unless somebody has still
to be told. `BookingsInv`: a booking has no job until it is finished and one for
ever after. `PendingInv`: a job still to run is at the right time but for a
move in flight, and what a move has found is what it is going to move.
`ClaimsHold`: what ticks have claimed is still to run and claimed by no other
tick. `MailIsCounted`: a reminder more than the rolled-back ticks account for is
in a tick that has sent it. `ReadInv`: the row a tick read is due, or of an
appointment that is being moved. Cuts and crossings only grow (`GhostsGrow`),
so that whoever is exempted no longer is not exempted before either. The
assumptions are `FollowUpConstants`, which only types the constants.

`IntakeProofs` proves, for every number of requests, any contacts, and every
limit and window:

| Theorem | Statement |
|---|---|
| `TypeCorrect` | `Spec => []TypeOK` |
| `DuplicatesCorrect` | `Spec => []DuplicatesOverlapped` |
| `CustomersMatchRunsCorrect` | `Spec => []CustomersMatchRuns` |
| `RefusalIsJustifiedCorrect` | `Spec => []RefusalIsJustified` |
| `LimitHoldsCorrect` | `Spec => []LimitHolds` |

Customers and limiter are proved apart, each with its own invariant. For
customers (`CustomersInv`): whoever is in a row has committed, a request found
its customer or found nobody, and in the second case anybody who has inserted
the same contact meanwhile overlapped with it. For the limiter (`LimiterInv`):
a list that is read, pruned and written back holds only hits that were let
through, so that a refusal counts real ones; and as long as no two checks
overlapped, all hits of the current window are in the list between two checks.
The assumptions are `IntakeConstants`: types, and that requests are finitely
many, without which hits could not be counted.

`TrailProofs` proves, for any conversations, any number of questions, recent
activity of any length, and any time:

| Theorem | Statement |
|---|---|
| `InvCorrect` | `Spec => []Inv`, the inductive invariant |
| `TypeCorrect` | `Spec => []TypeOK` |
| `TimelineIsCompleteCorrect` | `Spec => []TimelineIsComplete` |
| `ActivityIsNewestCorrect` | `Spec => []ActivityIsNewest` |
| `OverviewOverlooksNothingCorrect` | `Spec => []OverviewOverlooksNothing` |

`RecordsInv` is about what is written down: the interpreter is called no more
often than it may be asked again (`CallsOK`), and what a transaction writes
before its run is linked to an appointment are steps and cases only
(`EntryOK`). `PagesInv` is about a page under way, and says of every query that
is over that it found what there was when the page was asked for. It says
nothing of the rows themselves, except of a page that shows the overview, and
so survives whatever commits between two queries (`QuietPages`). For recent activity an entry that a query left out is
`Outdone`: as many entries as are wanted, none of them older, are in the list;
`CutIs` shows that the last cut then keeps nothing older either, although it
may cut those very entries. The assumptions are `TrailConstants`, which types
the constants and has at least one entry of activity wanted.

Only model-checked is liveness (`OverdueIsSettled`, `AbandonedRunsClose`,
`DueJobsRun`, `ListingEnds`), which rests on fairness and is out of the
prover's reach. Every other property of a passing run is proved. The findings are not
proved: what the code does there is shown by the traces.

## Not modelled

- *Changes of the time zone's offset* inside a listing's window. The cursor
  adds wall-clock minutes, so that at such a change a slot is an hour longer
  or shorter in universal time; the models have one clock.
- *Interpretation and wording.* What a message means is a choice
  (`Intents`); matching a service name, wording a question and formatting a
  notice are stateless string functions.
- *Authentication, schemas, configuration, start-up checks*: they decide on
  one request by itself and keep no state that changes.
- *Set-up routes* for businesses, services, staff and working hours insert
  single rows, which are constants here; no code updates them.
- *Lists of the dashboard* (appointments, customers, notifications, jobs,
  escalations) are single queries, or one query per row, that promise nothing
  about what happens between them.
- *Frontend, chat page, migrations, evaluation script*: the chat page is the
  constant `Patient`; the others display, prepare or measure.
- *COMPLETED* is a status nothing sets. Restarts of Postgres are restarts of
  every session. Several businesses share nothing but the tables, and every
  query names its business or a primary key.
