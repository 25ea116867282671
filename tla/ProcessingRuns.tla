--------------------------- MODULE ProcessingRuns ---------------------------
(***************************************************************************)
(* The workflow engine (app/workflow/orchestrator.py, jobs.py): what       *)
(* becomes of the processing runs, the conversations that book, move and   *)
(* cancel one customer's appointments, when several API requests and the   *)
(* background worker handle them at the same time.                         *)
(*                                                                         *)
(* A request loads a run, checks its state, and locks the row only when it *)
(* first writes it; it does not look again after it got the lock.  Its     *)
(* UPDATE writes the columns that differ from the copy it loaded.  Booking *)
(* and moving an appointment commit in the middle of a request, so that    *)
(* the rest of it runs in a second transaction.                            *)
(*                                                                         *)
(* The appointments are those of module AppointmentBook, on one staff      *)
(* member's calendar divided into slots.                                   *)
(***************************************************************************)
EXTENDS Integers, FiniteSets

CONSTANTS
  Runs,      \* primary keys of processing_runs
  Appts,     \* primary keys of appointments
  Slots,     \* times that can be offered
  Handlers,  \* API requests in flight
  Workers,   \* processes that run the sweeps
  Keys,      \* idempotency keys
  KeyOf,     \* the conversation each key belongs to: keys are random UUIDs
  None,
  Intents,   \* what the interpreter may make of a message
  Patient,   \* whether a client waits for its answer, as the chat page does
  Mortal,    \* the processes that may die
  MAX_CLARIFICATION_ROUNDS,
  MAX_OFFERED_SLOTS

ASSUME RunConstants ==
  /\ None \notin Runs \cup Appts \cup Slots \cup Keys \cup Handlers \cup Workers
  /\ Handlers \cap Workers = {}
  /\ KeyOf \in [Keys -> Runs]
  /\ Intents \subseteq {"unclear", "book", "cancel", "reschedule", "other"}
  /\ Patient \in BOOLEAN
  /\ Mortal \subseteq Handlers \cup Workers
  /\ MAX_CLARIFICATION_ROUNDS \in Nat
  /\ MAX_OFFERED_SLOTS \in Nat \ {0}

VARIABLES
  run,       \* the processing_runs table
  appt,      \* the appointments table
  reminders, \* how many SEND_REMINDER jobs are PENDING for an appointment
  asked,     \* how many questions the customer of a run was asked
  cases,     \* the runs that have an escalation case; they may have only one
  passed,    \* the slots whose time has passed
  old,       \* the runs whose updated_at lies before the sweep's cutoff
  lock,      \* who holds the lock of a run's row
  pc, mem,   \* where each handler is, and what it holds in memory
  stale,     \* the runs a sweep has loaded
  abandoned  \* the runs that a crash has left midway

vars == <<run, appt, reminders, asked, cases, passed, old, lock, pc, mem, stale,
          abandoned>>

Expirable == {"AWAITING_CLARIFICATION", "AWAITING_CONFIRMATION"}
Terminal == {"SUCCEEDED", "FAILED", "ESCALATED", "EXPIRED"}
Midway == {"INTERPRETING", "BOOKING"}
State == Expirable \cup Terminal \cup Midway \cup {"NEW"}

(* "missed" is recovery_of_appointment_id; a run is a RECOVERY when it has *)
(* one.  SLOTS_OFFERED and RECEIVED are left in the transaction that       *)
(* enters them and never seen by another session.                          *)
Run == [state : State, rounds : Nat, offered : SUBSET Slots,
        target : Appts \cup {None}, result : Appts \cup {None},
        missed : Appts \cup {None}]

NoRun == [state |-> "NEW", rounds |-> 0, offered |-> {}, target |-> None,
          result |-> None, missed |-> None]

Appt == [status : {"FREE", "BOOKED", "CANCELLED", "NO_SHOW"},
         slot : Slots \cup {None}, key : Keys \cup {None},
         bookedBy : Runs \cup {None}, rebookedFrom : Appts \cup {None}]

NoAppt == [status |-> "FREE", slot |-> None, key |-> None,
           bookedBy |-> None, rebookedFrom |-> None]

(* "loaded" is the run as the session last saw it in the database.         *)
Mem == [run : Runs \cup {None}, loaded : Run, slot : Slots \cup {None},
        key : Keys \cup {None}, appt : Appts \cup {None}]

NoMem == [run |-> None, loaded |-> NoRun, slot |-> None, key |-> None,
          appt |-> None]

PC == {"idle", "replying", "interpreting", "finishing cancel", "confirming",
       "checking", "inserting", "finishing booking", "rechecking", "moving",
       "finishing move"}

Init ==
  /\ run = [r \in Runs |-> NoRun]
  /\ appt = [a \in Appts |-> NoAppt]
  /\ reminders = [a \in Appts |-> 0]
  /\ asked = [r \in Runs |-> 0]
  /\ cases = {}
  /\ passed = {}
  /\ old = {}
  /\ lock = [r \in Runs |-> None]
  /\ pc = [h \in Handlers |-> "idle"]
  /\ mem = [h \in Handlers |-> NoMem]
  /\ stale = [w \in Workers |-> {}]
  /\ abandoned = {}

-----------------------------------------------------------------------------
(* Reading the tables.                                                     *)

Upcoming == {a \in Appts : appt[a].status = "BOOKED" /\ appt[a].slot \notin passed}

Free(s, skip) ==
  /\ s \notin passed
  /\ \A a \in Appts \ {skip} : appt[a].status = "BOOKED" => appt[a].slot # s

(* The constraint of the table, which knows nothing of time.               *)
Fits(s, skip) ==
  \A a \in Appts \ {skip} : appt[a].status = "BOOKED" => appt[a].slot # s

WithKey(k) == {a \in Appts : appt[a].status # "FREE" /\ appt[a].key = k}

(* What may be offered: the first few slots of the window the customer     *)
(* asked for.  The window is the customer's choice.                        *)
Offers ==
  {S \in SUBSET {s \in Slots : Free(s, None)} : Cardinality(S) =< MAX_OFFERED_SLOTS}

-----------------------------------------------------------------------------
(* Routing a message: from a run in INTERPRETING to the run as it will be  *)
(* committed.                                                              *)

Escalated(x) == [x EXCEPT !.state = "ESCALATED"]

(* A slip: the second of the two transitions is forgotten.                 *)
OnlyOffered(x) ==
  { IF S = {} THEN Escalated(x)
    ELSE [x EXCEPT !.state = "SLOTS_OFFERED", !.offered = S] : S \in Offers }

Offered(x) ==
  { IF S = {} THEN Escalated(x)
    ELSE [x EXCEPT !.state = "AWAITING_CONFIRMATION", !.offered = S] : S \in Offers }

(* A slip: off by one.                                                     *)
ClarifiedOnceMore(x) ==
  IF x.rounds > MAX_CLARIFICATION_ROUNDS THEN {Escalated(x)}
  ELSE {[x EXCEPT !.state = "AWAITING_CLARIFICATION", !.rounds = @ + 1]}

Clarified(x) ==
  IF x.rounds >= MAX_CLARIFICATION_ROUNDS THEN {Escalated(x)}
  ELSE {[x EXCEPT !.state = "AWAITING_CLARIFICATION", !.rounds = @ + 1]}

(* Whether there is one upcoming appointment, and enough notice to modify  *)
(* it; otherwise the run is escalated.                                     *)
Retargeted(x) ==
  {Escalated(x)} \cup
    (IF Cardinality(Upcoming) = 1
     THEN UNION {Offered([x EXCEPT !.target = a]) : a \in Upcoming}
     ELSE {})

(* A recovery takes RESCHEDULE for a booking.                              *)
Routed(x) ==
  LET recovery == x.missed # None IN
    (IF "other" \in Intents
     THEN {Escalated(x), [x EXCEPT !.state = "FAILED"]} ELSE {})
    \cup (IF "unclear" \in Intents THEN Clarified(x) ELSE {})
    \cup (IF "book" \in Intents \/ (recovery /\ "reschedule" \in Intents)
          THEN Offered(x) ELSE {})
    \cup (IF "reschedule" \in Intents /\ ~ recovery THEN Retargeted(x) ELSE {})
    \cup (IF "cancel" \in Intents THEN {Escalated(x)} ELSE {})

MayCancel(x) ==
  "cancel" \in Intents /\ x.missed = None /\ Cardinality(Upcoming) = 1

-----------------------------------------------------------------------------
(* Writing a run.                                                          *)

(* Only the columns that differ from the loaded copy are written; the      *)
(* state was changed by the flush that took the lock.                      *)
Merge(new, loaded, now) ==
  [f \in DOMAIN now |->
     IF f = "state" \/ new[f] # loaded[f] THEN new[f] ELSE now[f]]

(* A commit by h that leaves its run as "new" says.                        *)
Save(h, new) ==
  LET r == mem[h].run IN
    /\ lock[r] \in {None, h}
    /\ run' = [run EXCEPT ![r] = Merge(new, mem[h].loaded, @)]
    /\ old' = old \ {r}
    /\ lock' = [lock EXCEPT ![r] = None]
    /\ asked' = [asked EXCEPT ![r] = IF new.state = "AWAITING_CLARIFICATION"
                                     THEN @ + 1 ELSE @]
    /\ cases' = IF new.state = "ESCALATED" THEN cases \cup {r} ELSE cases

Release(p) == lock' = [r \in Runs |-> IF lock[r] = p THEN None ELSE lock[r]]

Answer(h) ==
  /\ pc' = [pc EXCEPT ![h] = "idle"]
  /\ mem' = [mem EXCEPT ![h] = NoMem]

Goto(h, where, m) ==
  /\ pc' = [pc EXCEPT ![h] = where]
  /\ mem' = [mem EXCEPT ![h] = m]

(* The request is answered 500, and its open transaction is undone.        *)
Fail(h) ==
  /\ Release(h)
  /\ Answer(h)
  /\ UNCHANGED <<run, asked, cases, old>>

(* The last commit of a request that may escalate.  A second escalation    *)
(* case for one run violates a unique constraint that nothing handles.     *)
Conclude(h, new) ==
  \/ /\ new.state = "ESCALATED" => mem[h].run \notin cases
     /\ Save(h, new)
     /\ Answer(h)
  \/ /\ new.state = "ESCALATED" /\ mem[h].run \in cases
     /\ Fail(h)

(* On with the second transaction.                                         *)
GoOn(h, where, new, a) ==
  Goto(h, where, [mem[h] EXCEPT !.loaded = new, !.appt = a])

(* A slip: the transition is forgotten.                                    *)
InStateLoaded(h, s) == mem[h].loaded

InState(h, s) == [mem[h].loaded EXCEPT !.state = s]

-----------------------------------------------------------------------------
(* POST /requests and POST /requests/{id}/reply.                           *)

Busy(r) == \E h \in Handlers : pc[h] # "idle" /\ mem[h].run = r

Load(h, r, where, s, k) ==
  Goto(h, where, [NoMem EXCEPT !.run = r, !.loaded = run[r], !.slot = s, !.key = k])

(* Everything about a new run happens in the transaction that creates it,  *)
(* unless it cancels an appointment.                                       *)
StartRequest(h) ==
  /\ pc[h] = "idle"
  /\ \E r \in Runs :
       /\ run[r] = NoRun
       /\ \A g \in Handlers : mem[g].run # r
       /\ LET x == [NoRun EXCEPT !.state = "INTERPRETING"] IN
            \/ \E new \in Routed(x) :
                 /\ run' = [run EXCEPT ![r] = new]
                 /\ asked' = [asked EXCEPT ![r] = new.rounds]
                 /\ cases' = IF new.state = "ESCALATED" THEN cases \cup {r} ELSE cases
                 /\ Answer(h)
                 /\ UNCHANGED appt
            \/ /\ MayCancel(x)
               /\ \E a \in Upcoming :
                    /\ appt' = [appt EXCEPT ![a].status = "CANCELLED"]
                    /\ Goto(h, "finishing cancel",
                            [NoMem EXCEPT !.run = r, !.loaded = x, !.appt = a])
               /\ run' = [run EXCEPT ![r] = x]
               /\ UNCHANGED <<asked, cases>>
  /\ UNCHANGED <<reminders, passed, old, lock, stale, abandoned>>

(* A reply to a run in another state is refused and changes nothing.       *)
LoadReply(h) ==
  /\ pc[h] = "idle"
  /\ \E r \in Runs :
       /\ run[r].state = "AWAITING_CLARIFICATION"
       /\ Patient => ~ Busy(r)
       /\ Load(h, r, "replying", None, None)
  /\ UNCHANGED <<run, appt, reminders, asked, cases, passed, old, lock, stale,
                 abandoned>>

(* The flush of INTERPRETING takes the lock; the interpreter is called     *)
(* while it is held.                                                       *)
LockReply(h) ==
  /\ pc[h] = "replying"
  /\ lock[mem[h].run] = None
  /\ lock' = [lock EXCEPT ![mem[h].run] = h]
  /\ Goto(h, "interpreting", mem[h])
  /\ UNCHANGED <<run, appt, reminders, asked, cases, passed, old, stale,
                 abandoned>>

RouteReply(h) ==
  /\ pc[h] = "interpreting"
  /\ LET x == InState(h, "INTERPRETING") IN
       \/ /\ \E new \in Routed(x) : Conclude(h, new)
          /\ UNCHANGED appt
       \/ /\ MayCancel(x)
          /\ \E a \in Upcoming :
               /\ appt' = [appt EXCEPT ![a].status = "CANCELLED"]
               /\ GoOn(h, "finishing cancel", x, a)
          /\ Save(h, x)
  /\ UNCHANGED <<reminders, passed, stale, abandoned>>

FinishCancel(h) ==
  /\ pc[h] = "finishing cancel"
  /\ Save(h, [InState(h, "SUCCEEDED") EXCEPT !.result = mem[h].appt])
  /\ Answer(h)
  /\ UNCHANGED <<appt, reminders, passed, stale, abandoned>>

-----------------------------------------------------------------------------
(* POST /requests/{id}/confirm.                                            *)

(* A slip: an offer is taken for an invitation to confirm.                 *)
HasOffers(r) == run[r].offered # {}

IsConfirmable(r) == run[r].state = "AWAITING_CONFIRMATION"

(* The confirmation of a run in another state is refused and changes       *)
(* nothing, whatever its key.                                              *)
LoadConfirm(h) ==
  /\ pc[h] = "idle"
  /\ \E k \in Keys : \E r \in {KeyOf[k]} : \E s \in run[r].offered :
       /\ Patient => ~ Busy(r)
       /\ IsConfirmable(r)
       /\ Load(h, r, "confirming", s, k)
  /\ UNCHANGED <<run, appt, reminders, asked, cases, passed, old, lock, stale,
                 abandoned>>

(* The flush of BOOKING takes the lock.                                    *)
LockConfirm(h) ==
  /\ pc[h] = "confirming"
  /\ lock[mem[h].run] = None
  /\ lock' = [lock EXCEPT ![mem[h].run] = h]
  /\ Goto(h, IF mem[h].loaded.target = None THEN "checking" ELSE "rechecking", mem[h])
  /\ UNCHANGED <<run, appt, reminders, asked, cases, passed, old, stale,
                 abandoned>>

(* The slot is gone: offer others.                                         *)
Reoffer(h) == \E new \in Offered(InState(h, "BOOKING")) : Conclude(h, new)

CheckBooking(h) ==
  /\ pc[h] = "checking"
  /\ \/ /\ \E a \in WithKey(mem[h].key) :
             Goto(h, "finishing booking", [mem[h] EXCEPT !.appt = a])
        /\ UNCHANGED <<run, asked, cases, old, lock>>
     \/ /\ WithKey(mem[h].key) = {} /\ Free(mem[h].slot, None)
        /\ Goto(h, "inserting", mem[h])
        /\ UNCHANGED <<run, asked, cases, old, lock>>
     \/ /\ WithKey(mem[h].key) = {} /\ ~ Free(mem[h].slot, None)
        /\ Reoffer(h)
  /\ UNCHANGED <<appt, reminders, passed, stale, abandoned>>

(* The rollback of a lost race expires every object of the session, and    *)
(* the first use of the run afterwards raises: the request fails.          *)
CommitInsert(h) ==
  /\ pc[h] = "inserting"
  /\ \/ /\ Fits(mem[h].slot, None) /\ WithKey(mem[h].key) = {}
        /\ \E a \in Appts :
             /\ appt[a].status = "FREE"
             /\ appt' = [appt EXCEPT ![a] =
                           [NoAppt EXCEPT !.status = "BOOKED", !.slot = mem[h].slot,
                                          !.key = mem[h].key, !.bookedBy = mem[h].run]]
             /\ GoOn(h, "finishing booking", InState(h, "BOOKING"), a)
        /\ Save(h, InState(h, "BOOKING"))
     \/ /\ ~ Fits(mem[h].slot, None) \/ WithKey(mem[h].key) # {}
        /\ Fail(h)
        /\ UNCHANGED appt
  /\ UNCHANGED <<reminders, passed, stale, abandoned>>

(* A slip: the link is written into the missed appointment.                *)
LinkedBackwards(a, m) == IF m = None THEN appt ELSE [appt EXCEPT ![m].rebookedFrom = a]

Linked(a, m) == IF m = None THEN appt ELSE [appt EXCEPT ![a].rebookedFrom = m]

(* The result, the link to the missed appointment, the confirmation and    *)
(* the reminder are one transaction.                                       *)
FinishBooking(h) ==
  /\ pc[h] = "finishing booking"
  /\ LET a == mem[h].appt IN
         /\ Save(h, [InState(h, "SUCCEEDED") EXCEPT !.result = a])
         /\ appt' = Linked(a, mem[h].loaded.missed)
         /\ reminders' = [reminders EXCEPT ![a] = @ + 1]
  /\ Answer(h)
  /\ UNCHANGED <<passed, stale, abandoned>>

(* reschedule_appointment on the target: it may no longer be modifiable,   *)
(* because of what happened to it or because its time has come near.       *)
CheckMove(h) ==
  /\ pc[h] = "rechecking"
  /\ LET t == mem[h].loaded.target IN
       \/ Conclude(h, Escalated(mem[h].loaded))
       \/ /\ t \in Upcoming /\ Free(mem[h].slot, t)
          /\ Goto(h, "moving", [mem[h] EXCEPT !.appt = t])
          /\ UNCHANGED <<run, asked, cases, old, lock>>
       \/ /\ t \in Upcoming /\ ~ Free(mem[h].slot, t)
          /\ Reoffer(h)
  /\ UNCHANGED <<appt, reminders, passed, stale, abandoned>>

CommitMove(h) ==
  /\ pc[h] = "moving"
  /\ LET t == mem[h].appt IN
       \/ /\ appt[t].status = "BOOKED" => Fits(mem[h].slot, t)
          /\ appt' = [appt EXCEPT ![t].slot = mem[h].slot]
          /\ Save(h, InState(h, "BOOKING"))
          /\ GoOn(h, "finishing move", InState(h, "BOOKING"), t)
       \/ /\ appt[t].status = "BOOKED" /\ ~ Fits(mem[h].slot, t)
          /\ Fail(h)
          /\ UNCHANGED appt
  /\ UNCHANGED <<reminders, passed, stale, abandoned>>

(* A slip: scalar_one.                                                     *)
ReminderIsPending(a) == reminders[a] = 1

(* scalar_one_or_none raises when there are several.                       *)
ReminderIsUnique(a) == reminders[a] =< 1

(* Unless the pending reminder can be looked up, the second transaction is *)
(* lost.                                                                   *)
FinishMove(h) ==
  /\ pc[h] = "finishing move"
  /\ \/ /\ ReminderIsUnique(mem[h].appt)
        /\ Save(h, [InState(h, "SUCCEEDED") EXCEPT !.result = mem[h].appt])
        /\ Answer(h)
     \/ /\ ~ ReminderIsUnique(mem[h].appt)
        /\ Fail(h)
  /\ UNCHANGED <<appt, reminders, passed, stale, abandoned>>

-----------------------------------------------------------------------------
(* The worker's sweeps.                                                    *)

(* A due job is done whether the reminder was sent or, the appointment no  *)
(* longer being BOOKED, dropped.                                           *)
SendReminders(a) ==
  /\ reminders[a] > 0
  /\ reminders' = [reminders EXCEPT ![a] = 0]
  /\ UNCHANGED <<run, appt, asked, cases, passed, old, lock, pc, mem,
                 stale, abandoned>>

(* A missed appointment and its recovery, which speaks first, in one       *)
(* commit.  That a sweep may decide this on old data is in module Booking. *)
MarkNoShow(a) ==
  /\ appt[a].status = "BOOKED" /\ appt[a].slot \in passed
  /\ appt' = [appt EXCEPT ![a].status = "NO_SHOW"]
  /\ \E r \in Runs :
       /\ run[r] = NoRun
       /\ \A g \in Handlers : mem[g].run # r
       /\ run' = [run EXCEPT ![r] = [NoRun EXCEPT !.state = "AWAITING_CLARIFICATION",
                                                  !.missed = a]]
  /\ UNCHANGED <<reminders, asked, cases, passed, old, lock, pc, mem,
                 stale, abandoned>>

(* A slip: a customer who was asked something may take any time.           *)
StaleOffer(r) == r \in old /\ run[r].state = "AWAITING_CONFIRMATION"

IsStale(r) == r \in old /\ run[r].state \in Expirable

LoadStale(w) ==
  /\ stale[w] = {}
  /\ stale' = [stale EXCEPT ![w] = {r \in Runs : IsStale(r)}]
  /\ UNCHANGED <<run, appt, reminders, asked, cases, passed, old, lock, pc, mem,
                 abandoned>>

(* The flush before the commit updates, and so locks, one row after the    *)
(* other.                                                                  *)
LockStale(w) ==
  /\ \E r \in stale[w] :
       /\ lock[r] = None
       /\ lock' = [lock EXCEPT ![r] = w]
  /\ UNCHANGED <<run, appt, reminders, asked, cases, passed, old, pc, mem,
                 stale, abandoned>>

(* One commit for all of them, whatever they have become meanwhile.        *)
ExpireStale(w) ==
  /\ stale[w] # {}
  /\ \A r \in stale[w] : lock[r] = w
  /\ run' = [r \in Runs |->
               IF r \in stale[w] THEN [run[r] EXCEPT !.state = "EXPIRED"] ELSE run[r]]
  /\ old' = old \ stale[w]
  /\ stale' = [stale EXCEPT ![w] = {}]
  /\ Release(w)
  /\ UNCHANGED <<appt, reminders, asked, cases, passed, pc, mem,
                 abandoned>>

-----------------------------------------------------------------------------
(* The environment.                                                        *)

(* AWAITING_REPLY_TIMEOUT_MINUTES pass for every run that is waiting.      *)
Age ==
  /\ old' = {r \in Runs : run[r].state # "NEW"}
  /\ old' # old
  /\ UNCHANGED <<run, appt, reminders, asked, cases, passed, lock, pc, mem,
                 stale, abandoned>>

SlotPasses(s) ==
  /\ s \notin passed
  /\ passed' = passed \cup {s}
  /\ UNCHANGED <<run, appt, reminders, asked, cases, old, lock, pc, mem,
                 stale, abandoned>>

(* A process dies, or a client hangs up: the open transaction is undone.   *)
HandlerDies(h) ==
  /\ h \in Mortal
  /\ pc[h] # "idle"
  /\ abandoned' = abandoned \cup {r \in Runs : mem[h].run = r /\ run[r].state \in Midway}
  /\ Release(h)
  /\ pc' = [pc EXCEPT ![h] = "idle"]
  /\ mem' = [mem EXCEPT ![h] = NoMem]
  /\ UNCHANGED <<run, appt, reminders, asked, cases, passed, old, stale>>

WorkerDies(w) ==
  /\ w \in Mortal
  /\ stale[w] # {}
  /\ Release(w)
  /\ stale' = [stale EXCEPT ![w] = {}]
  /\ UNCHANGED <<run, appt, reminders, asked, cases, passed, old, pc, mem,
                 abandoned>>

HandlerStep(h) ==
  \/ LockReply(h) \/ RouteReply(h) \/ FinishCancel(h)
  \/ LockConfirm(h) \/ CheckBooking(h) \/ CommitInsert(h) \/ FinishBooking(h)
  \/ CheckMove(h) \/ CommitMove(h) \/ FinishMove(h)

HandlerNext(h) ==
  \/ StartRequest(h) \/ LoadReply(h) \/ LoadConfirm(h)
  \/ HandlerStep(h) \/ HandlerDies(h)

WorkerNext(w) ==
  \/ LoadStale(w) \/ LockStale(w) \/ ExpireStale(w) \/ WorkerDies(w)

Next ==
  \/ \E h \in Handlers : HandlerNext(h)
  \/ \E w \in Workers : WorkerNext(w)
  \/ \E a \in Appts : SendReminders(a) \/ MarkNoShow(a)
  \/ \E s \in Slots : SlotPasses(s)
  \/ Age

Spec == Init /\ [][Next]_vars

(* The worker's loop runs for ever, requests run to their answer, and an   *)
(* hour passes whatever happens.  An UPDATE that waits for a row is queued *)
(* behind those that asked before it, so that it gets the row in the end:  *)
(* hence the strong fairness.                                              *)
Fairness ==
  /\ WF_vars(Age)
  /\ \A h \in Handlers : WF_vars(HandlerStep(h))
  /\ \A w \in Workers :
       WF_vars(LoadStale(w)) /\ SF_vars(LockStale(w)) /\ WF_vars(ExpireStale(w))

FairSpec == Spec /\ Fairness

-----------------------------------------------------------------------------
(* Properties.                                                             *)

TypeOK ==
  /\ run \in [Runs -> Run]
  /\ appt \in [Appts -> Appt]
  /\ reminders \in [Appts -> Nat]
  /\ asked \in [Runs -> Nat]
  /\ cases \subseteq Runs
  /\ passed \subseteq Slots
  /\ old \subseteq Runs
  /\ lock \in [Runs -> Handlers \cup Workers \cup {None}]
  /\ pc \in [Handlers -> PC]
  /\ mem \in [Handlers -> Mem]
  /\ stale \in [Workers -> SUBSET Runs]
  /\ abandoned \subseteq Runs

(* A run that succeeded names an appointment, and a recovery's is linked   *)
(* to the appointment that was missed, which stays NO_SHOW                 *)
(* (orchestrator.py:697-712, models.py:256-263): the two are written in    *)
(* the second transaction, after other sessions had their chance.          *)
SuccessHasResult ==
  \A r \in Runs :
    run[r].state = "SUCCEEDED" =>
      /\ run[r].result # None
      /\ appt[run[r].result].status # "FREE"
      /\ run[r].missed # None =>
           /\ appt[run[r].result].rebookedFrom = run[r].missed
           /\ appt[run[r].missed].status = "NO_SHOW"

(* A conversation whose client waits for its answers books at most one     *)
(* appointment, through expiry, re-offers, crashes and lost answers.       *)
OneBookingPerRun ==
  \A a1, a2 \in Appts :
    appt[a1].bookedBy # None /\ appt[a1].bookedBy = appt[a2].bookedBy => a1 = a2

(* orchestrator.py:68-71: "at most this many clarifying questions before   *)
(* we stop guessing and hand off to a human".                              *)
BoundedClarification == \A r \in Runs : asked[r] =< MAX_CLARIFICATION_ROUNDS

(* _reschedule_pending_reminder (orchestrator.py:1024-1032) relies on an   *)
(* appointment having at most one pending reminder.                        *)
OnePendingReminder == \A a \in Appts : reminders[a] =< 1

(* Only a crash leaves a run in a state in which no request, reply or      *)
(* sweep would ever pick it up again.                                      *)
NoRunIsStranded ==
  \A r \in Runs :
    run[r].state \in Midway => Busy(r) \/ r \in abandoned

(* state_machine.py:1-4 and 39-42: a terminal run is never moved out of    *)
(* its state.                                                              *)
TerminalIsFinal ==
  [][ \A r \in Runs : run[r].state \in Terminal => run'[r].state = run[r].state ]_vars

(* jobs.py:145-147: an abandoned conversation is closed "rather than       *)
(* sitting open forever".                                                  *)
AbandonedRunsClose ==
  \A r \in Runs : run[r].state \in Expirable ~> run[r].state \notin Expirable

=============================================================================
