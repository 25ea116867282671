------------------------------- MODULE Trail --------------------------------
(***************************************************************************)
(* What the system writes down about its work (the workflow steps, audit   *)
(* events, notifications, reminder jobs, escalation cases and interpreter  *)
(* calls of app/workflow/models.py), and what staff are shown of it: the   *)
(* trace of a request (app/api/routes_workflow.py), the timeline of an     *)
(* appointment, the recent activity and the overview                       *)
(* (app/api/routes_dashboard.py).                                          *)
(*                                                                         *)
(* created_at is the time at which the transaction began, which may be     *)
(* long before it commits.  A page is put together from several queries,   *)
(* each of which sees what has been committed by then.  A conversation is  *)
(* a run together with the appointment it books; who interrupts whom, and  *)
(* what may fail, is the matter of ProcessingRuns and FollowUp.            *)
(***************************************************************************)
EXTENDS Integers, Sequences, FiniteSets

CONSTANTS
  Convs,      \* conversations
  None,
  Limit,      \* how many entries of recent activity are wanted
  MAX_CLARIFICATION_ROUNDS,
  MaxTime     \* a bound

ASSUME TrailConstants ==
  /\ None \notin Nat
  /\ Limit \in Nat \ {0}
  /\ MAX_CLARIFICATION_ROUNDS \in Nat
  /\ MaxTime \in Nat

VARIABLES
  clock,
  stage,   \* what comes next in a conversation
  records, \* the rows of workflow_steps, audit_events, notifications,
           \* scheduled_jobs and escalation_cases
  calls,   \* how many rows of ai_invocations a run has
  appt,    \* the status of the appointment
  job,     \* the status of the reminder job
  solved,  \* when the escalation case was resolved
  page     \* the page that is being put together

writing == <<stage, records, calls, appt, job, solved>>
vars == <<clock, writing, page>>

Source == {"step", "audit", "notice", "job", "case"}

(* Who wrote an entry: one of the conversation's transactions.             *)
Writer == {"request", "reply", "book", "follow up", "cancel", "cancelled", "sweep",
           "remind"}

Entry == [of : Convs, by : Writer, source : Source \cup {"resolution"}, at : Nat]

(* "runs" and "got" are what the queries returned so far, "next" is the    *)
(* query that comes next, "before" what the page is about and there was    *)
(* when it was asked for.                                                  *)
NoPage == [name |-> "none", of |-> None, next |-> "none", runs |-> {}, got |-> {},
           before |-> {}]

Init ==
  /\ clock = 0
  /\ stage = [c \in Convs |-> "request"]
  /\ records = {}
  /\ calls = [c \in Convs |-> 0]
  /\ appt = [c \in Convs |-> "FREE"]
  /\ job = [c \in Convs |-> "NONE"]
  /\ solved = [c \in Convs |-> None]
  /\ page = NoPage

-----------------------------------------------------------------------------
(* Transactions.                                                           *)

(* Nothing depends on when it began, but that it was not later than now.   *)
Entries(c, by, sources, began) ==
  {[of |-> c, by |-> by, source |-> s, at |-> began] : s \in sources}

Commit(c, by, sources, then) ==
  /\ stage' = [stage EXCEPT ![c] = then]
  /\ \E began \in 0 .. clock : records' = records \cup Entries(c, by, sources, began)
  /\ UNCHANGED <<clock, solved, page>>

(* start_request and reply_to_clarification: every interpretation leaves   *)
(* its own row, unless it fails.                                           *)
Interpret(c) ==
  /\ stage[c] \in {"request", "reply"}
  /\ \/ /\ Commit(c, stage[c], {"step"}, "over")
        /\ UNCHANGED calls
     \/ /\ \/ Commit(c, stage[c], {"step", "case"}, "over")
           \/ Commit(c, stage[c], {"step"}, "book")
           \/ /\ calls[c] < MAX_CLARIFICATION_ROUNDS
              /\ Commit(c, stage[c], {"step"}, "reply")
        /\ calls' = [calls EXCEPT ![c] = @ + 1]
  /\ UNCHANGED <<appt, job>>

(* confirm_slot: the first transaction books, the second links the run.    *)
Book(c) ==
  /\ stage[c] = "book"
  /\ Commit(c, "book", {"step"}, "follow up")
  /\ appt' = [appt EXCEPT ![c] = "BOOKED"]
  /\ UNCHANGED <<calls, job>>

FollowUp(c) ==
  /\ stage[c] = "follow up"
  /\ Commit(c, "follow up", {"step", "audit", "notice", "job"}, "cancel")
  /\ job' = [job EXCEPT ![c] = "PENDING"]
  /\ UNCHANGED <<calls, appt>>

(* _handle_cancel_intent, in a run of its own that is linked likewise,     *)
(* unless it is too late to cancel.                                        *)
Cancel(c) ==
  /\ stage[c] = "cancel"
  /\ \/ /\ Commit(c, "cancel", {"step"}, "cancelled")
        /\ appt' = [appt EXCEPT ![c] = "CANCELLED"]
     \/ /\ Commit(c, "cancel", {"step", "case"}, "missed")
        /\ UNCHANGED appt
  /\ UNCHANGED <<calls, job>>

Cancelled(c) ==
  /\ stage[c] = "cancelled"
  /\ Commit(c, "cancelled", {"step", "audit", "notice"}, "over")
  /\ UNCHANGED <<calls, appt, job>>

(* sweep_no_shows and start_recovery; the recovery is a run of its own.    *)
Sweep(c) ==
  /\ stage[c] \in {"cancel", "missed"}
  /\ Commit(c, "sweep", {"audit", "step", "notice"}, "over")
  /\ appt' = [appt EXCEPT ![c] = "NO_SHOW"]
  /\ UNCHANGED <<calls, job>>

(* run_due_reminders; nothing is sent of an appointment that is no longer  *)
(* BOOKED, or when sending raises.                                         *)
Remind(c) ==
  /\ job[c] = "PENDING"
  /\ \/ /\ Commit(c, "remind", {"notice"}, stage[c])
        /\ job' = [job EXCEPT ![c] = "DONE"]
     \/ /\ Commit(c, "remind", {}, stage[c])
        /\ job' = [job EXCEPT ![c] = IF appt[c] = "BOOKED" THEN "FAILED_RETRYABLE"
                                     ELSE "DONE"]
  /\ UNCHANGED <<calls, appt>>

Of(source) == {e \in records : e.source = source}

(* POST /escalations/{id}/resolve.  The time is that of the last call.     *)
Resolve(c) ==
  /\ \E e \in Of("case") : e.of = c
  /\ solved' = [solved EXCEPT ![c] = clock]
  /\ UNCHANGED <<clock, stage, records, calls, appt, job, page>>

-----------------------------------------------------------------------------
(* Pages.                                                                  *)

(* A slip: the queries are made in another order.                          *)
SentFirst == <<"upcoming", "missed", "open", "messages", "pending">>

(* The counts of the overview, in the order in which they are made.        *)
(* Messages that were sent and that failed are counted next to each other. *)
Counts == <<"upcoming", "missed", "open", "pending", "messages">>

FirstQuery == [trace |-> "steps", timeline |-> "runs", activity |-> "audit",
               overview |-> Counts[1]]

(* What a page is about.                                                   *)
Matter(name, c) ==
  CASE name = "trace" -> {}
    [] name = "timeline" -> {e \in records : e.of = c /\ e.source # "case"}
    [] name = "activity" -> {e \in records : e.source \notin {"step", "job"}}
    [] name = "overview" -> Of("job")

Open(name, c) ==
  /\ page = NoPage
  /\ page' = [name |-> name, of |-> c, next |-> FirstQuery[name], runs |-> {},
              got |-> {}, before |-> Matter(name, c)]
  /\ UNCHANGED <<clock, writing>>

(* One query, and on to the next.                                          *)
Query(name, this, next, found) ==
  /\ page.name = name /\ page.next = this
  /\ page' = [page EXCEPT !.next = next, !.got = @ \cup found]
  /\ UNCHANGED <<clock, writing>>

(* scalar_one_or_none raises when there are two.                           *)
OneOrNone(n) == n =< 1

ReadTrace ==
  LET c == page.of IN
    \/ Query("trace", "steps", "calls",
             {e \in Of("step") : e.of = c /\ e.by \in {"request", "reply", "book", "follow up"}})
    \/ Query("trace", "calls", IF OneOrNone(calls[c]) THEN "shown" ELSE "raised", {})

(* The run an entry is of: the conversation's own, the one that cancels,   *)
(* or the recovery.                                                        *)
RunOf(e) == CASE e.by \in {"cancel", "cancelled"} -> "cancelling"
              [] e.by = "sweep" -> "recovery"
              [] OTHER -> "own"

(* The runs that name the appointment.                                     *)
RunsOf(c) ==
  {RunOf(e) : e \in {f \in records : f.of = c /\ f.by \in {"follow up", "cancelled", "sweep"}}}

(* A slip: what has no run is left out.                                    *)
AboutRuns(c, sources) == {e \in records : e.of = c /\ e.source \in sources /\ e.by # "remind"}

About(c, sources) == {e \in records : e.of = c /\ e.source \in sources}

ReadTimeline ==
  LET c == page.of IN
    \/ /\ page.name = "timeline" /\ page.next = "runs"
       /\ page' = [page EXCEPT !.next = "steps", !.runs = RunsOf(c)]
       /\ UNCHANGED <<clock, writing>>
    \/ Query("timeline", "steps", "audit",
             {e \in About(c, {"step"}) : RunOf(e) \in page.runs})
    \/ Query("timeline", "audit", "notice", About(c, {"audit"}))
    \/ Query("timeline", "notice", "job", About(c, {"notice"}))
    \/ Query("timeline", "job", "shown", About(c, {"job"}))

AtMostLimit(S) ==
  {T \in SUBSET S :
     Cardinality(T) = IF Cardinality(S) < Limit THEN Cardinality(S) ELSE Limit}

(* A slip: the order of the query is the wrong way round.                  *)
Oldest(S) == {T \in AtMostLimit(S) : \A x \in S \ T, y \in T : x.at >= y.at}

(* ORDER BY created_at DESC LIMIT: entries of one time come in any order.  *)
Newest(S) == {T \in AtMostLimit(S) : \A x \in S \ T, y \in T : x.at =< y.at}

(* A slip: a case that is open counts as resolved.                         *)
ResolutionsOfAll(S) == {[e EXCEPT !.source = "resolution", !.at = solved[e.of]] : e \in S}

(* The cases that were resolved, at that time.                             *)
Resolutions(S) ==
  {[e EXCEPT !.source = "resolution", !.at = solved[e.of]] :
     e \in {x \in S : solved[x.of] # None}}

ReadActivity ==
  \/ \E T \in Newest(Of("audit")) : Query("activity", "audit", "notice", T)
  \/ \E T \in Newest(Of("notice")) : Query("activity", "notice", "case", T)
  \/ \E T \in Newest(Of("case")) : Query("activity", "case", "cut", T \cup Resolutions(T))
  \/ /\ page.name = "activity" /\ page.next = "cut"
     /\ \E T \in Newest(page.got) : page' = [page EXCEPT !.next = "shown", !.got = T]
     /\ UNCHANGED <<clock, writing>>

(* What a count counts.                                                    *)
Counted(count) ==
  CASE count = "upcoming" -> {e \in Of("step") : e.by = "book" /\ appt[e.of] = "BOOKED"}
    [] count = "missed" -> {e \in Of("step") : e.by = "book" /\ appt[e.of] = "NO_SHOW"}
    [] count = "open" -> {e \in Of("case") : solved[e.of] = None}
    [] count = "pending" -> {e \in Of("job") : job[e.of] = "PENDING"}
    [] count = "messages" -> Of("notice")

ReadOverview ==
  \E i \in 1 .. Len(Counts) :
    Query("overview", Counts[i], IF i = Len(Counts) THEN "shown" ELSE Counts[i + 1],
          Counted(Counts[i]))

(* A page that is shown is out of date from then on; one that raised is    *)
(* answered 500.                                                           *)
Close ==
  /\ page.next \in {"shown", "raised"}
  /\ page' = NoPage
  /\ UNCHANGED <<clock, writing>>

-----------------------------------------------------------------------------

TimePasses ==
  /\ clock < MaxTime
  /\ clock' = clock + 1
  /\ UNCHANGED <<writing, page>>

Next ==
  \/ Close
  \/ /\ page.next \notin {"shown", "raised"}
     /\ \/ \E c \in Convs : \/ Interpret(c) \/ Book(c) \/ FollowUp(c)
                            \/ Cancel(c) \/ Cancelled(c) \/ Sweep(c) \/ Remind(c)
                            \/ Resolve(c)
                            \/ stage[c] # "request" /\ Open("trace", c)
                            \/ appt[c] # "FREE" /\ Open("timeline", c)
        \/ Open("activity", None) \/ Open("overview", None)
        \/ ReadTrace \/ ReadTimeline \/ ReadActivity \/ ReadOverview
        \/ TimePasses

Spec == Init /\ [][Next]_vars

-----------------------------------------------------------------------------

(* Every variable keeps to its columns.                                    *)
TypeOK ==
  /\ clock \in 0 .. MaxTime
  /\ stage \in [Convs -> Writer \cup {"missed", "over"}]
  /\ records \subseteq Entry
  /\ calls \in [Convs -> 0 .. MAX_CLARIFICATION_ROUNDS + 1]
  /\ appt \in [Convs -> {"FREE", "BOOKED", "CANCELLED", "NO_SHOW"}]
  /\ job \in [Convs -> {"NONE", "PENDING", "DONE", "FAILED_RETRYABLE"}]
  /\ solved \in [Convs -> Nat \cup {None}]
  /\ page.of \in Convs \cup {None}
  /\ page.runs \subseteq {"own", "cancelling", "recovery"}
  /\ page.got \subseteq Entry /\ page.before \subseteq records

Shown(name) == page.name = name /\ page.next = "shown"

(* A timeline leaves out nothing that was there when it was asked for, but *)
(* the steps of a run whose request is still being followed up, or never   *)
(* will be (routes_dashboard.py get_appointment_timeline).                 *)
TimelineIsComplete ==
  Shown("timeline") =>
    \A e \in page.before \ page.got :
      /\ e.source = "step"
      /\ \A f \in page.before : RunOf(f) = RunOf(e) => f.source = "step" \/ f.by = "remind"

(* What recent activity leaves out is no newer than what it shows, except  *)
(* that a case was resolved, and what was not committed when it was asked  *)
(* for (routes_dashboard.py list_recent_activity).                         *)
ActivityIsNewest ==
  Shown("activity") =>
    \A e \in page.before \ page.got :
      /\ Cardinality(page.got) = Limit
      /\ \A f \in page.got : f.at >= e.at

(* No reminder falls between two counts of the overview: one that was      *)
(* pending when it was asked for is counted as pending, or its message is  *)
(* counted, unless nothing was sent (routes_dashboard.py get_overview).    *)
OverviewOverlooksNothing ==
  Shown("overview") =>
    \A e \in page.before \ page.got : \A m \in records :
      m.of = e.of /\ m.by = "remind" => m \in page.got

(* The trace of any request tells what happened to it (docs/PHASES.md,     *)
(* Phase 3): reading it does not fail (routes_workflow.py get_trace).      *)
TraceAnswers == page.next # "raised"

=============================================================================
