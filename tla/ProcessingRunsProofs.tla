------------------------ MODULE ProcessingRunsProofs ------------------------
(***************************************************************************)
(* Proofs about module ProcessingRuns, for any runs, appointments, slots,  *)
(* requests, workers and keys.  The first half holds for any client; the   *)
(* second for clients that wait for their answers.                         *)
(***************************************************************************)
EXTENDS ProcessingRuns, TLAPS

-----------------------------------------------------------------------------
(* What holds for any client.                                              *)

(* The parts of a request that act on the slot and key it was given, on    *)
(* the appointment it moves, and those after its first commit.             *)
Confirming == {"confirming", "checking", "inserting", "finishing booking", "rechecking",
               "moving", "finishing move"}
Moving == {"rechecking", "moving", "finishing move"}
Finishing == {"finishing cancel", "finishing booking", "finishing move"}

(* A request in flight holds a run that was started; a recovery has        *)
(* nothing to move.                                                        *)
HandlerHolds(h) ==
  IF pc[h] = "idle" THEN mem[h] = NoMem
  ELSE LET m == mem[h] IN
    /\ m.run \in Runs
    /\ run[m.run].state # "NEW" /\ m.loaded.state # "NEW"
    /\ m.loaded.missed = run[m.run].missed
    /\ m.loaded.missed # None => m.loaded.target = None
    /\ m.loaded.result # None => run[m.run].result # None
    /\ pc[h] \in Confirming => m.slot \in Slots /\ m.key \in Keys /\ KeyOf[m.key] = m.run
    /\ pc[h] \in Moving => m.loaded.target # None
    /\ pc[h] = "finishing cancel" => m.loaded.missed = None
    /\ pc[h] \in Finishing \cup {"moving"} =>
         m.appt \in Appts /\ appt[m.appt].status # "FREE"
    /\ pc[h] = "finishing booking" => appt[m.appt].bookedBy = m.run

(* A run that was not started is blank; what one started from stays; and   *)
(* its result is what it was about.                                        *)
RunHolds(r) ==
  /\ run[r].state = "NEW" => run[r] = NoRun
  /\ run[r].missed # None => run[r].target = None /\ appt[run[r].missed].status = "NO_SHOW"
  /\ run[r].state = "SUCCEEDED" => run[r].result # None
  /\ run[r].result # None =>
       /\ appt[run[r].result].status # "FREE"
       /\ run[r].missed # None =>
            /\ appt[run[r].result].bookedBy = r
            /\ appt[run[r].result].rebookedFrom = run[r].missed

(* An appointment was booked by the run its key belongs to.                *)
ApptHolds(a) ==
  IF appt[a].status = "FREE" THEN appt[a] = NoAppt
  ELSE appt[a].key \in Keys /\ appt[a].bookedBy = KeyOf[appt[a].key]

ResultInv ==
  /\ \A h \in Handlers : HandlerHolds(h)
  /\ \A r \in Runs : RunHolds(r)
  /\ \A a \in Appts : ApptHolds(a)

-----------------------------------------------------------------------------
(* What holds for clients that wait.                                       *)

(* One request at a time for each run, which has been left as it was       *)
(* loaded, unless a sweep has closed it.                                   *)
OneHandler ==
  \A g, h \in Handlers :
    pc[g] # "idle" /\ pc[h] # "idle" /\ mem[g].run = mem[h].run => g = h

LoadedIsCurrent(h) ==
  pc[h] # "idle" =>
    /\ mem[h].loaded.rounds = run[mem[h].run].rounds
    /\ pc[h] \notin Finishing => run[mem[h].run].state \in Expirable \cup {"EXPIRED"}

(* A run that has booked is never waiting again.                           *)
BookedIsOver(a) ==
  appt[a].bookedBy # None =>
    /\ run[appt[a].bookedBy].state \notin Expirable \cup {"NEW"}
    /\ \A h \in Handlers :
         pc[h] # "idle" /\ mem[h].run = appt[a].bookedBy => pc[h] = "finishing booking"

RemindersAreFirst ==
  /\ \A a \in Appts : appt[a].status = "FREE" => reminders[a] = 0
  /\ \A h \in Handlers : pc[h] = "finishing booking" => reminders[mem[h].appt] = 0

BookingInv == OneBookingPerRun /\ OnePendingReminder /\ RemindersAreFirst

(* Questions are counted.                                                  *)
RoundsAreAsked(r) ==
  asked[r] = run[r].rounds /\ run[r].rounds =< MAX_CLARIFICATION_ROUNDS

PatientInv ==
  /\ Patient
  /\ OneHandler
  /\ \A h \in Handlers : LoadedIsCurrent(h)
  /\ \A a \in Appts : BookedIsOver(a)
  /\ \A r \in Runs : RoundsAreAsked(r)
  /\ BookingInv
  /\ NoRunIsStranded

-----------------------------------------------------------------------------
(* What a message may make of a run.                                       *)

Outcomes == {"ESCALATED", "FAILED"} \cup Expirable

(* A run that was routed, or offered other slots: its result and origin    *)
(* stay, and a question is counted.                                        *)
Follows(new, x) ==
  /\ new \in Run /\ new.state \in Outcomes
  /\ new.missed = x.missed /\ new.result = x.result
  /\ x.missed # None => new.target = x.target
  /\ IF new.state = "AWAITING_CLARIFICATION"
       THEN new.rounds = x.rounds + 1 /\ new.rounds =< MAX_CLARIFICATION_ROUNDS
       ELSE new.rounds = x.rounds

LEMMA BlankTypes ==
  /\ NoRun \in Run /\ NoAppt \in Appt /\ NoMem \in Mem
  /\ NoRun.state = "NEW" /\ NoRun.missed = None /\ NoRun.target = None
  /\ NoRun.result = None /\ NoRun.rounds = 0
  /\ NoMem.run = None /\ NoMem.loaded = NoRun /\ NoMem.appt = None
  /\ NoAppt.status = "FREE" /\ NoAppt.bookedBy = None /\ NoAppt.key = None
BY DEF NoRun, Run, State, NoAppt, Appt, NoMem, Mem

LEMMA StateTypes ==
  ASSUME NEW x \in Run, NEW s \in State
  PROVE  LET y == [x EXCEPT !.state = s] IN
         /\ y \in Run /\ y.state = s /\ y.rounds = x.rounds /\ y.offered = x.offered
         /\ y.target = x.target /\ y.result = x.result /\ y.missed = x.missed
BY DEF Run

LEMMA OfferedFollows ==
  ASSUME NEW x \in Run, NEW new \in Offered(x)
  PROVE  Follows(new, x) /\ new.state # "AWAITING_CLARIFICATION" /\ new.target = x.target
<1>1. PICK S \in Offers :
        new = IF S = {} THEN Escalated(x)
              ELSE [x EXCEPT !.state = "AWAITING_CONFIRMATION", !.offered = S]
  BY DEF Offered
<1>2. S \in SUBSET Slots
  BY DEF Offers
<1>3. CASE S = {}
  BY <1>1, <1>3, StateTypes DEF Escalated, Follows, Outcomes, State, Terminal, Expirable
<1>4. CASE S # {}
  BY <1>1, <1>2, <1>4 DEF Follows, Outcomes, Run, State, Expirable
<1> QED
  BY <1>3, <1>4

LEMMA RoutedFollows ==
  ASSUME NEW x \in Run, NEW new \in Routed(x)
  PROVE  Follows(new, x)
<1>1. Follows(Escalated(x), x) /\ Follows([x EXCEPT !.state = "FAILED"], x)
  BY StateTypes DEF Escalated, Follows, Outcomes, State, Terminal, Expirable
<1>2. ASSUME new \in Clarified(x) PROVE Follows(new, x)
  <2>1. CASE x.rounds >= MAX_CLARIFICATION_ROUNDS
    BY <1>1, <1>2, <2>1 DEF Clarified
  <2>2. CASE ~ (x.rounds >= MAX_CLARIFICATION_ROUNDS)
    <3>1. new = [x EXCEPT !.state = "AWAITING_CLARIFICATION", !.rounds = @ + 1]
      BY <1>2, <2>2 DEF Clarified
    <3>2. x.rounds \in Nat /\ x.rounds + 1 =< MAX_CLARIFICATION_ROUNDS
      BY <2>2, RunConstants DEF Run
    <3>3. /\ new.state = "AWAITING_CLARIFICATION" /\ new.rounds = x.rounds + 1
          /\ new.missed = x.missed /\ new.result = x.result /\ new.target = x.target
      BY <3>1 DEF Run
    <3>4. new \in Run
      <4>1. x.rounds + 1 \in Nat
        BY <3>2
      <4> QED
        BY <3>1, <4>1 DEF Run, State, Expirable
    <3>5. new.state \in Outcomes
      BY <3>3 DEF Outcomes, Expirable
    <3> QED
      BY <3>2, <3>3, <3>4, <3>5 DEF Follows
  <2> QED
    BY <2>1, <2>2
<1>3. ASSUME new \in Retargeted(x), x.missed = None PROVE Follows(new, x)
  <2>1. CASE new = Escalated(x)
    BY <1>1, <2>1
  <2>2. CASE new # Escalated(x)
    <3>1. PICK a \in Upcoming : new \in Offered([x EXCEPT !.target = a])
      BY <1>3, <2>2 DEF Retargeted
    <3> DEFINE y == [x EXCEPT !.target = a]
    <3>2. /\ y \in Run /\ y.missed = x.missed /\ y.result = x.result /\ y.rounds = x.rounds
      BY DEF Run, Upcoming
    <3> HIDE DEF y
    <3>3. Follows(new, y)
      BY <3>1, <3>2, OfferedFollows DEF y
    <3> QED
      BY <1>3, <3>2, <3>3 DEF Follows
  <2> QED
    BY <2>1, <2>2
<1>4. \/ new \in {Escalated(x), [x EXCEPT !.state = "FAILED"]}
      \/ new \in Clarified(x)
      \/ new \in Offered(x)
      \/ new \in Retargeted(x) /\ x.missed = None
  BY DEF Routed
<1> QED
  BY <1>1, <1>2, <1>3, <1>4, OfferedFollows

(* What a commit leaves of a run.                                          *)
Column(new, loaded, now) == IF new # loaded THEN new ELSE now

Saved(h, new) ==
  LET r == mem[h].run
      l == mem[h].loaded IN
    /\ run'[r] \in Run
    /\ run'[r].state = new.state
    /\ run'[r].rounds = Column(new.rounds, l.rounds, run[r].rounds)
    /\ run'[r].target = Column(new.target, l.target, run[r].target)
    /\ run'[r].result = Column(new.result, l.result, run[r].result)
    /\ run'[r].missed = Column(new.missed, l.missed, run[r].missed)
    /\ asked'[r] = IF new.state = "AWAITING_CLARIFICATION" THEN asked[r] + 1 ELSE asked[r]
    /\ \A q \in Runs : q # r => run'[q] = run[q] /\ asked'[q] = asked[q]

LEMMA MergeFields ==
  ASSUME NEW new \in Run, NEW loaded \in Run, NEW now \in Run
  PROVE  LET m == Merge(new, loaded, now) IN
         /\ m \in Run
         /\ m.state = new.state
         /\ m.rounds = Column(new.rounds, loaded.rounds, now.rounds)
         /\ m.target = Column(new.target, loaded.target, now.target)
         /\ m.result = Column(new.result, loaded.result, now.result)
         /\ m.missed = Column(new.missed, loaded.missed, now.missed)
<1>1. DOMAIN now = {"state", "rounds", "offered", "target", "result", "missed"}
  BY DEF Run
<1> DEFINE m == [state |-> new.state,
                 rounds |-> Column(new.rounds, loaded.rounds, now.rounds),
                 offered |-> Column(new.offered, loaded.offered, now.offered),
                 target |-> Column(new.target, loaded.target, now.target),
                 result |-> Column(new.result, loaded.result, now.result),
                 missed |-> Column(new.missed, loaded.missed, now.missed)]
<1>2. Merge(new, loaded, now) = m
  BY <1>1 DEF Merge, Column
<1>3. m \in Run
  BY DEF Run, Column
<1> QED
  BY <1>2, <1>3

LEMMA SaveSaves ==
  ASSUME TypeOK, NEW h \in Handlers, mem[h].run \in Runs, NEW new \in Run, Save(h, new)
  PROVE  /\ Saved(h, new) /\ run' \in [Runs -> Run] /\ old' \subseteq Runs
         /\ lock' \in [Runs -> Handlers \cup Workers \cup {None}]
         /\ asked' \in [Runs -> Nat] /\ cases' \subseteq Runs
<1> DEFINE r == mem[h].run
           l == mem[h].loaded
<1>1. l \in Run /\ run[r] \in Run
  BY DEF TypeOK, Mem
<1>2. run' = [run EXCEPT ![r] = Merge(new, l, run[r])]
  BY DEF Save
<1>3. run'[r] = Merge(new, l, run[r]) /\ \A q \in Runs : q # r => run'[q] = run[q]
  BY <1>2 DEF TypeOK
<1>4. Merge(new, l, run[r]) \in Run
  BY <1>1, MergeFields
<1>5. run' \in [Runs -> Run]
  BY <1>2, <1>4 DEF TypeOK
<1>6. /\ asked' \in [Runs -> Nat]
      /\ asked'[r] = IF new.state = "AWAITING_CLARIFICATION" THEN asked[r] + 1 ELSE asked[r]
      /\ \A q \in Runs : q # r => asked'[q] = asked[q]
  BY DEF Save, TypeOK
<1>7. Saved(h, new)
  BY <1>1, <1>3, <1>6, MergeFields DEF Saved
<1> QED
  BY <1>5, <1>6, <1>7 DEF Save, TypeOK

-----------------------------------------------------------------------------
(* What no step takes back.                                                *)

RunKept(r) ==
  run[r].state # "NEW" =>
    /\ run'[r].state # "NEW" /\ run'[r].missed = run[r].missed
    /\ run[r].result # None => run'[r].result # None

ApptKept(a) ==
  appt[a].status # "FREE" =>
    /\ appt'[a].status # "FREE" /\ appt'[a].bookedBy = appt[a].bookedBy
    /\ appt[a].status = "NO_SHOW" => appt'[a].status = "NO_SHOW"
    /\ \/ appt'[a].rebookedFrom = appt[a].rebookedFrom
       \/ appt'[a].rebookedFrom = run[appt[a].bookedBy].missed

LEMMA HandlerStays ==
  ASSUME TypeOK, NEW h \in Handlers, HandlerHolds(h), \A r \in Runs : RunKept(r),
         \A a \in Appts : ApptKept(a), pc'[h] = pc[h], mem'[h] = mem[h]
  PROVE  HandlerHolds(h)'
<1>1. CASE pc[h] = "idle"
  BY <1>1 DEF HandlerHolds
<1>2. CASE pc[h] # "idle"
  <2>1. /\ mem[h].run \in Runs /\ run[mem[h].run].state # "NEW"
        /\ RunKept(mem[h].run)
    BY <1>2 DEF HandlerHolds
  <2>2. mem[h].appt \in Appts => ApptKept(mem[h].appt)
    OBVIOUS
  <2> QED
    BY <1>2, <2>1, <2>2 DEF HandlerHolds, RunKept, ApptKept, Finishing
<1> QED
  BY <1>1, <1>2

LEMMA RunStays ==
  ASSUME TypeOK, NEW r \in Runs, RunHolds(r), \A a \in Appts : ApptKept(a),
         run'[r] = run[r]
  PROVE  RunHolds(r)'
<1>1. run[r] \in Run
  BY DEF TypeOK
<1>2. run[r].missed # None => run[r].missed \in Appts /\ ApptKept(run[r].missed)
  BY <1>1 DEF Run
<1>3. run[r].result # None => run[r].result \in Appts /\ ApptKept(run[r].result)
  BY <1>1 DEF Run
<1> QED
  BY <1>2, <1>3 DEF RunHolds, ApptKept

LEMMA ResultFrame ==
  ASSUME TypeOK, ResultInv, \A r \in Runs : RunKept(r), \A a \in Appts : ApptKept(a),
         \A h \in Handlers : (pc'[h] = pc[h] /\ mem'[h] = mem[h]) \/ HandlerHolds(h)',
         \A r \in Runs : run'[r] = run[r] \/ RunHolds(r)',
         \A a \in Appts : appt'[a] = appt[a] \/ ApptHolds(a)'
  PROVE  ResultInv'
<1>1. ASSUME NEW h \in Handlers PROVE HandlerHolds(h)'
  BY HandlerStays DEF ResultInv
<1>2. ASSUME NEW r \in Runs PROVE RunHolds(r)'
  BY RunStays DEF ResultInv
<1>3. ASSUME NEW a \in Appts PROVE ApptHolds(a)'
  BY DEF ResultInv, ApptHolds
<1> QED
  BY <1>1, <1>2, <1>3 DEF ResultInv

(* What a request holds.                                                   *)
LEMMA HeldTypes ==
  ASSUME TypeOK, ResultInv, NEW h \in Handlers, pc[h] # "idle"
  PROVE  /\ mem[h] \in Mem /\ mem[h].run \in Runs /\ mem[h].loaded \in Run
         /\ run[mem[h].run] \in Run /\ run[mem[h].run].state # "NEW"
         /\ mem[h].loaded.missed = run[mem[h].run].missed
BY DEF TypeOK, Mem, ResultInv, HandlerHolds

(* A request that goes on.                                                 *)
LEMMA GotoHolds ==
  ASSUME TypeOK, ResultInv, NEW h \in Handlers, NEW where \in PC, NEW m \in Mem,
         Goto(h, where, m)
  PROVE  /\ pc' \in [Handlers -> PC] /\ mem' \in [Handlers -> Mem]
         /\ pc'[h] = where /\ mem'[h] = m
         /\ \A g \in Handlers : g # h => pc'[g] = pc[g] /\ mem'[g] = mem[g]
BY DEF Goto, TypeOK

LEMMA AnswerHolds ==
  ASSUME TypeOK, NEW h \in Handlers, Answer(h)
  PROVE  /\ pc' \in [Handlers -> PC] /\ mem' \in [Handlers -> Mem] /\ HandlerHolds(h)'
         /\ pc'[h] = "idle" /\ mem'[h] = NoMem
         /\ \A g \in Handlers : g # h => pc'[g] = pc[g] /\ mem'[g] = mem[g]
BY BlankTypes DEF Answer, TypeOK, PC, HandlerHolds

(* A commit keeps what a run started from; then its result may come.       *)
Continues(new, l) ==
  /\ new \in Run /\ new.state # "NEW" /\ new.missed = l.missed
  /\ l.missed # None => new.target = l.target

LEMMA SaveKeeps ==
  ASSUME TypeOK, ResultInv, NEW h \in Handlers, pc[h] # "idle",
         NEW new \in Run, Continues(new, mem[h].loaded), Save(h, new),
         new.result = mem[h].loaded.result \/ new.result # None
  PROVE  /\ \A r \in Runs : RunKept(r)
         /\ \A r \in Runs : r # mem[h].run => run'[r] = run[r]
         /\ run'[mem[h].run].missed # None => run'[mem[h].run].target = None
<1> DEFINE r == mem[h].run
           l == mem[h].loaded
<1>1. r \in Runs /\ run[r].state # "NEW" /\ l.missed = run[r].missed
  BY HeldTypes
<1>2. Saved(h, new)
  BY <1>1, SaveSaves
<1>3. /\ run'[r].state = new.state /\ run'[r].missed = run[r].missed
      /\ run'[r].target = Column(new.target, l.target, run[r].target)
      /\ run'[r].result = Column(new.result, l.result, run[r].result)
      /\ \A q \in Runs : q # r => run'[q] = run[q]
  BY <1>1, <1>2 DEF Saved, Continues, Column
<1>4. RunKept(r)
  <2>1. run'[r].state # "NEW"
    BY <1>3 DEF Continues
  <2>2. run[r].result # None => run'[r].result # None
    <3>1. CASE new.result = l.result
      BY <1>3, <3>1 DEF Column
    <3>2. CASE new.result # None
      BY <1>3, <3>2 DEF Column
    <3> QED
      BY <3>1, <3>2
  <2> QED
    BY <1>3, <2>1, <2>2 DEF RunKept
<1>5. ASSUME NEW q \in Runs, q # r PROVE RunKept(q)
  BY <1>3, <1>5 DEF RunKept
<1>6. run'[r].missed # None => run'[r].target = None
  <2>1. RunHolds(r) /\ HandlerHolds(h)
    BY <1>1 DEF ResultInv
  <2>2. l.missed # None => l.target = None /\ run[r].target = None
    BY <1>1, <2>1 DEF RunHolds, HandlerHolds
  <2> QED
    BY <1>1, <1>3, <2>2 DEF Continues, Column
<1> QED
  BY <1>3, <1>4, <1>5, <1>6

(* As long as it has not succeeded its result stays;                       *)
LEMMA RoutedHolds ==
  ASSUME TypeOK, ResultInv, NEW h \in Handlers, pc[h] # "idle",
         NEW r \in Runs, r = mem[h].run,
         NEW new \in Run, Continues(new, mem[h].loaded), Save(h, new),
         \A a \in Appts : ApptKept(a),
         new.result = mem[h].loaded.result, new.state # "SUCCEEDED"
  PROVE  RunHolds(r)'
<1> DEFINE l == mem[h].loaded
<1>1. r \in Runs /\ run[r] \in Run /\ run[r].state # "NEW" /\ l.missed = run[r].missed
  BY HeldTypes
<1>2. RunHolds(r)
  BY <1>1 DEF ResultInv
<1>3. Saved(h, new)
  BY <1>1, SaveSaves
<1>4. /\ run'[r].state = new.state /\ run'[r].missed = run[r].missed
      /\ run'[r].result = run[r].result
  BY <1>1, <1>3 DEF Saved, Continues, Column
<1>5. run'[r].missed # None => run'[r].target = None
  BY SaveKeeps
<1>6. run[r].missed # None => run[r].missed \in Appts /\ ApptKept(run[r].missed)
  BY <1>1 DEF Run
<1>7. run[r].result # None => run[r].result \in Appts /\ ApptKept(run[r].result)
  BY <1>1 DEF Run
<1>8. new.state # "NEW"
  BY DEF Continues
<1> QED
  BY <1>2, <1>4, <1>5, <1>6, <1>7, <1>8 DEF RunHolds, ApptKept

(* a run that succeeds names an appointment that it booked, if it is a     *)
(* recovery.                                                               *)
LEMMA SucceededHolds ==
  ASSUME TypeOK, ResultInv, NEW h \in Handlers, pc[h] # "idle",
         NEW r \in Runs, r = mem[h].run,
         NEW new \in Run, Continues(new, mem[h].loaded), Save(h, new),
         \A a \in Appts : ApptKept(a),
         NEW a \in Appts, new.result = a, new.state = "SUCCEEDED",
         appt'[a].status # "FREE",
         mem[h].loaded.missed # None =>
           appt'[a].bookedBy = mem[h].run /\ appt'[a].rebookedFrom = mem[h].loaded.missed
  PROVE  RunHolds(r)'
<1> DEFINE l == mem[h].loaded
<1>1. r \in Runs /\ run[r] \in Run /\ run[r].state # "NEW" /\ l.missed = run[r].missed
  BY HeldTypes
<1>2. RunHolds(r) /\ HandlerHolds(h)
  BY <1>1 DEF ResultInv
<1>3. Saved(h, new) /\ a # None
  BY <1>1, SaveSaves, RunConstants
<1>4. /\ run'[r].state = "SUCCEEDED" /\ run'[r].missed = run[r].missed
      /\ run'[r].result \in {a, run[r].result} /\ run'[r].result # None
  BY <1>1, <1>2, <1>3 DEF Saved, Continues, Column, HandlerHolds
<1>5. run'[r].missed # None => run'[r].target = None
  BY <1>3, SaveKeeps
<1>6. run[r].missed # None => run[r].missed \in Appts /\ ApptKept(run[r].missed)
  BY <1>1 DEF Run
<1>7. run[r].result # None => run[r].result \in Appts /\ ApptKept(run[r].result)
  BY <1>1 DEF Run
<1>8. run[r].missed # None => appt'[run[r].missed].status = "NO_SHOW"
  BY <1>2, <1>6 DEF RunHolds, ApptKept
<1>9. CASE run'[r].result = a
  BY <1>1, <1>4, <1>5, <1>8, <1>9 DEF RunHolds
<1>10. CASE run'[r].result = run[r].result
  BY <1>2, <1>4, <1>5, <1>7, <1>8, <1>10 DEF RunHolds, ApptKept
<1> QED
  BY <1>4, <1>9, <1>10

-----------------------------------------------------------------------------
(* The steps of a request.                                                 *)

LEMMA InStateIs ==
  ASSUME NEW h \in Handlers, mem[h].loaded \in Run, mem[h].loaded.state # "NEW",
         NEW s \in State \ {"NEW"}
  PROVE  /\ InState(h, s) \in Run /\ InState(h, s).state = s
         /\ Continues(InState(h, s), mem[h].loaded)
         /\ InState(h, s).result = mem[h].loaded.result
         /\ InState(h, s).target = mem[h].loaded.target
         /\ InState(h, s).rounds = mem[h].loaded.rounds
BY StateTypes DEF InState, Continues

LEMMA GoesHolds ==
  ASSUME TypeOK, ResultInv, NEW h \in Handlers, NEW where \in PC, NEW m \in Mem,
         Goto(h, where, m), HandlerHolds(h)',
         lock' \in [Runs -> Handlers \cup Workers \cup {None}],
         UNCHANGED <<run, appt, reminders, asked, cases, passed, old, stale, abandoned>>
  PROVE  TypeOK' /\ ResultInv'
<1>1. TypeOK'
  BY GotoHolds DEF TypeOK
<1>2. (\A r \in Runs : RunKept(r)) /\ (\A a \in Appts : ApptKept(a))
  BY DEF RunKept, ApptKept
<1>3. \A g \in Handlers : (pc'[g] = pc[g] /\ mem'[g] = mem[g]) \/ HandlerHolds(g)'
  BY GotoHolds
<1> QED
  BY <1>1, <1>2, <1>3, ResultFrame

LEMMA ReleaseType ==
  ASSUME TypeOK, NEW p, Release(p)
  PROVE  lock' \in [Runs -> Handlers \cup Workers \cup {None}]
BY DEF TypeOK, Release

LEMMA FailHolds ==
  ASSUME TypeOK, ResultInv, NEW h \in Handlers, Fail(h),
         UNCHANGED <<appt, reminders, passed, stale, abandoned>>
  PROVE  TypeOK' /\ ResultInv'
<1>1. TypeOK'
  BY AnswerHolds, ReleaseType DEF Fail, TypeOK
<1>2. (\A r \in Runs : RunKept(r)) /\ (\A a \in Appts : ApptKept(a))
  BY DEF RunKept, ApptKept, Fail
<1>3. \A g \in Handlers : (pc'[g] = pc[g] /\ mem'[g] = mem[g]) \/ HandlerHolds(g)'
  BY AnswerHolds DEF Fail
<1>4. \A r \in Runs : run'[r] = run[r]
  BY DEF Fail
<1> QED
  BY <1>1, <1>2, <1>3, <1>4, ResultFrame

LEMMA ConcludeHolds ==
  ASSUME TypeOK, ResultInv, NEW h \in Handlers, pc[h] # "idle",
         NEW new, Follows(new, mem[h].loaded), Conclude(h, new),
         UNCHANGED <<appt, reminders, passed, stale, abandoned>>
  PROVE  TypeOK' /\ ResultInv'
<1>1. CASE Fail(h)
  BY <1>1, FailHolds
<1>2. CASE Save(h, new) /\ Answer(h)
  <2>1. PICK r \in Runs : r = mem[h].run
    BY HeldTypes
  <2>2. new \in Run /\ Continues(new, mem[h].loaded) /\ new.state # "SUCCEEDED"
    BY DEF Follows, Continues, Outcomes, Expirable
  <2>3. new.result = mem[h].loaded.result
    BY DEF Follows
  <2>4. TypeOK'
    BY <1>2, <2>1, <2>2, AnswerHolds, SaveSaves DEF TypeOK
  <2>5. \A a \in Appts : ApptKept(a)
    BY DEF ApptKept
  <2>6. (\A q \in Runs : RunKept(q)) /\ (\A q \in Runs : q # r => run'[q] = run[q])
    BY <1>2, <2>1, <2>2, <2>3, SaveKeeps
  <2>7. RunHolds(r)'
    BY <1>2, <2>1, <2>2, <2>3, <2>5, RoutedHolds
  <2>8. \A g \in Handlers : (pc'[g] = pc[g] /\ mem'[g] = mem[g]) \/ HandlerHolds(g)'
    BY <1>2, AnswerHolds
  <2>9. \A q \in Runs : run'[q] = run[q] \/ RunHolds(q)'
    BY <2>6, <2>7
  <2> QED
    BY <2>4, <2>5, <2>6, <2>8, <2>9, ResultFrame
<1> QED
  BY <1>1, <1>2 DEF Conclude

LEMMA CommitHolds ==
  ASSUME TypeOK, ResultInv, NEW h \in Handlers, pc[h] # "idle",
         NEW s \in Midway, Save(h, InState(h, s)),
         NEW where \in Finishing, NEW a \in Appts, GoOn(h, where, InState(h, s), a),
         where \in Confirming => pc[h] \in Confirming,
         where \in Moving => mem[h].loaded.target # None,
         where = "finishing cancel" => mem[h].loaded.missed = None,
         where = "finishing booking" => appt'[a].bookedBy = mem[h].run,
         appt'[a].status # "FREE", appt' \in [Appts -> Appt],
         \A b \in Appts : ApptKept(b),
         \A b \in Appts : appt'[b] = appt[b] \/ ApptHolds(b)',
         UNCHANGED <<reminders, passed, stale, abandoned>>
  PROVE  TypeOK' /\ ResultInv'
<1> DEFINE new == InState(h, s)
           m == [mem[h] EXCEPT !.loaded = new, !.appt = a]
<1>1. PICK r \in Runs : r = mem[h].run
  BY HeldTypes
<1>2. HandlerHolds(h) /\ mem[h] \in Mem /\ mem[h].loaded \in Run
  BY HeldTypes DEF ResultInv
<1>3. /\ new \in Run /\ new.state = s /\ Continues(new, mem[h].loaded)
      /\ new.result = mem[h].loaded.result /\ new.target = mem[h].loaded.target
      /\ s # "SUCCEEDED"
  <2>1. s \in State \ {"NEW"} /\ s # "SUCCEEDED"
    BY DEF Midway, State
  <2>2. mem[h].loaded.state # "NEW"
    BY <1>2 DEF HandlerHolds
  <2> QED
    BY <1>2, <2>1, <2>2, InStateIs
<1> HIDE DEF new
<1>4. /\ m \in Mem /\ m.run = mem[h].run /\ m.loaded = new /\ m.appt = a
      /\ m.slot = mem[h].slot /\ m.key = mem[h].key
  BY <1>2, <1>3 DEF Mem
<1>5. where \in PC /\ where # "idle" /\ where # "moving"
  BY DEF Finishing, PC
<1>6. /\ pc' \in [Handlers -> PC] /\ mem' \in [Handlers -> Mem]
      /\ pc'[h] = where /\ mem'[h] = m
      /\ \A g \in Handlers : g # h => pc'[g] = pc[g] /\ mem'[g] = mem[g]
  BY <1>4, <1>5, GotoHolds DEF GoOn, new
<1>7. Save(h, new)
  BY DEF new
<1>8. TypeOK'
  BY <1>1, <1>3, <1>6, <1>7, SaveSaves DEF TypeOK
<1>9. (\A q \in Runs : RunKept(q)) /\ (\A q \in Runs : q # r => run'[q] = run[q])
  BY <1>1, <1>3, <1>7, SaveKeeps
<1>10. RunHolds(r)'
  BY <1>1, <1>3, <1>7, RoutedHolds
<1>11. HandlerHolds(h)'
  <2>1. RunKept(r)
    BY <1>9
  <2>2. /\ run'[r].state # "NEW" /\ new.state # "NEW"
        /\ new.missed = run'[r].missed
        /\ new.missed # None => new.target = None
        /\ new.result # None => run'[r].result # None
    BY <1>1, <1>2, <1>3, <2>1 DEF RunKept, HandlerHolds, Continues
  <2>3. where \in Confirming => m.slot \in Slots /\ m.key \in Keys /\ KeyOf[m.key] = m.run
    BY <1>2, <1>4 DEF HandlerHolds
  <2>4. where \in Moving => new.target # None
    BY <1>3
  <2>5. where = "finishing cancel" => new.missed = None
    BY <1>3 DEF Continues
  <2> HIDE DEF m
  <2> QED
    BY <1>1, <1>4, <1>5, <1>6, <2>2, <2>3, <2>4, <2>5 DEF HandlerHolds
<1>12. \A g \in Handlers : (pc'[g] = pc[g] /\ mem'[g] = mem[g]) \/ HandlerHolds(g)'
  BY <1>6, <1>11
<1>13. \A q \in Runs : run'[q] = run[q] \/ RunHolds(q)'
  BY <1>9, <1>10
<1> QED
  BY <1>8, <1>9, <1>12, <1>13, ResultFrame

LEMMA FinishHolds ==
  ASSUME TypeOK, ResultInv, NEW h \in Handlers, pc[h] \in Finishing, Answer(h),
         NEW a \in Appts, a = mem[h].appt,
         Save(h, [InState(h, "SUCCEEDED") EXCEPT !.result = a]),
         \A b \in Appts : ApptKept(b),
         mem[h].loaded.missed # None =>
           appt'[a].bookedBy = mem[h].run /\ appt'[a].rebookedFrom = mem[h].loaded.missed,
         \A b \in Appts : appt'[b] = appt[b] \/ ApptHolds(b)',
         appt' \in [Appts -> Appt], reminders' \in [Appts -> Nat],
         UNCHANGED <<passed, stale, abandoned>>
  PROVE  TypeOK' /\ ResultInv'
<1> DEFINE new == [InState(h, "SUCCEEDED") EXCEPT !.result = a]
<1>1. PICK r \in Runs : r = mem[h].run
  BY HeldTypes DEF Finishing
<1>2. HandlerHolds(h) /\ mem[h] \in Mem /\ mem[h].loaded \in Run /\ pc[h] # "idle"
  BY HeldTypes DEF ResultInv, Finishing
<1>3. new \in Run /\ new.state = "SUCCEEDED" /\ new.result = a /\ Continues(new, mem[h].loaded)
  <2>1. "SUCCEEDED" \in State \ {"NEW"} /\ mem[h].loaded.state # "NEW"
    BY <1>2 DEF HandlerHolds, State, Terminal
  <2>2. InState(h, "SUCCEEDED") \in Run /\ InState(h, "SUCCEEDED").state = "SUCCEEDED"
        /\ Continues(InState(h, "SUCCEEDED"), mem[h].loaded)
    BY <1>2, <2>1, InStateIs
  <2> QED
    BY <2>2 DEF Run, Continues
<1>4. Save(h, new) /\ new.result # None
  BY <1>3, RunConstants
<1> HIDE DEF new
<1>5. TypeOK'
  BY <1>1, <1>3, <1>4, SaveSaves, AnswerHolds DEF TypeOK
<1>6. (\A q \in Runs : RunKept(q)) /\ (\A q \in Runs : q # r => run'[q] = run[q])
  BY <1>1, <1>2, <1>3, <1>4, SaveKeeps
<1>7. appt'[a].status # "FREE"
  BY <1>2 DEF HandlerHolds, ApptKept
<1>8. RunHolds(r)'
  BY <1>1, <1>2, <1>3, <1>4, <1>7, SucceededHolds
<1>9. \A g \in Handlers : (pc'[g] = pc[g] /\ mem'[g] = mem[g]) \/ HandlerHolds(g)'
  BY AnswerHolds
<1>10. \A q \in Runs : run'[q] = run[q] \/ RunHolds(q)'
  BY <1>6, <1>8
<1> QED
  BY <1>5, <1>6, <1>9, <1>10, ResultFrame

LEMMA FollowsState ==
  ASSUME TypeOK, ResultInv, NEW h \in Handlers, pc[h] # "idle",
         NEW s \in State \ {"NEW"}, NEW new, Follows(new, InState(h, s))
  PROVE  Follows(new, mem[h].loaded)
<1>1. mem[h].loaded \in Run /\ HandlerHolds(h)
  BY HeldTypes DEF ResultInv
<1>2. mem[h].loaded.state # "NEW"
  BY <1>1 DEF HandlerHolds
<1>3. LET x == InState(h, s) IN
      x.missed = mem[h].loaded.missed /\ x.result = mem[h].loaded.result
      /\ x.target = mem[h].loaded.target /\ x.rounds = mem[h].loaded.rounds
  BY <1>1, <1>2, InStateIs DEF Continues
<1> QED
  BY <1>3 DEF Follows

LEMMA CancelKeeps ==
  ASSUME TypeOK, ResultInv, NEW a \in Upcoming,
         appt' = [appt EXCEPT ![a].status = "CANCELLED"]
  PROVE  /\ a \in Appts /\ appt' \in [Appts -> Appt] /\ appt'[a].status = "CANCELLED"
         /\ \A b \in Appts : ApptKept(b)
         /\ \A b \in Appts : appt'[b] = appt[b] \/ ApptHolds(b)'
<1>1. a \in Appts /\ appt[a] \in Appt /\ appt[a].status = "BOOKED" /\ ApptHolds(a)
  BY DEF Upcoming, TypeOK, ResultInv
<1>2. /\ appt'[a] = [appt[a] EXCEPT !.status = "CANCELLED"]
      /\ \A b \in Appts : b # a => appt'[b] = appt[b]
  BY <1>1 DEF TypeOK
<1>3. /\ appt'[a] \in Appt /\ appt'[a].status = "CANCELLED"
      /\ appt'[a].key = appt[a].key /\ appt'[a].bookedBy = appt[a].bookedBy
      /\ appt'[a].rebookedFrom = appt[a].rebookedFrom
  BY <1>1, <1>2 DEF Appt
<1>4. appt' \in [Appts -> Appt]
  BY <1>1, <1>3 DEF TypeOK
<1>5. \A b \in Appts : ApptKept(b)
  BY <1>1, <1>2, <1>3 DEF ApptKept
<1>6. ApptHolds(a)'
  BY <1>1, <1>3 DEF ApptHolds
<1> QED
  BY <1>1, <1>2, <1>3, <1>4, <1>5, <1>6

LEMMA LoadHolds ==
  ASSUME TypeOK, ResultInv, NEW h \in Handlers, NEW r \in Runs, run[r].state # "NEW",
         NEW where \in {"replying", "confirming"},
         NEW s \in Slots \cup {None}, NEW k \in Keys \cup {None},
         where = "confirming" => s \in Slots /\ k \in Keys /\ KeyOf[k] = r,
         Load(h, r, where, s, k),
         UNCHANGED <<run, appt, reminders, asked, cases, passed, old, lock, stale,
                     abandoned>>
  PROVE  TypeOK' /\ ResultInv'
<1> DEFINE m == [NoMem EXCEPT !.run = r, !.loaded = run[r], !.slot = s, !.key = k]
<1>1. run[r] \in Run /\ RunHolds(r)
  BY DEF TypeOK, ResultInv
<1>2. /\ m \in Mem /\ m.run = r /\ m.loaded = run[r] /\ m.slot = s /\ m.key = k
  BY <1>1 DEF NoMem, Mem
<1>3. where \in PC /\ where \notin Finishing \cup Moving \cup {"idle"}
  BY DEF PC, Finishing, Moving
<1>4. where \in Confirming => where = "confirming"
  BY DEF Confirming
<1> HIDE DEF m
<1>5. Goto(h, where, m)
  BY DEF Load, m
<1>6. pc'[h] = where /\ mem'[h] = m
  BY <1>2, <1>3, <1>5, GotoHolds
<1>7. HandlerHolds(h)'
  BY <1>1, <1>2, <1>3, <1>4, <1>6 DEF HandlerHolds, RunHolds, Finishing, Moving
<1>8. lock' \in [Runs -> Handlers \cup Workers \cup {None}]
  BY DEF TypeOK
<1> QED
  BY <1>2, <1>3, <1>5, <1>7, <1>8, GoesHolds

LEMMA LockHolds ==
  ASSUME TypeOK, ResultInv, NEW h \in Handlers, pc[h] # "idle",
         NEW where \in {"interpreting", "checking", "rechecking"},
         where \in Confirming => pc[h] \in Confirming,
         where = "rechecking" => mem[h].loaded.target # None,
         lock' = [lock EXCEPT ![mem[h].run] = h],
         Goto(h, where, mem[h]),
         UNCHANGED <<run, appt, reminders, asked, cases, passed, old, stale, abandoned>>
  PROVE  TypeOK' /\ ResultInv'
<1>1. HandlerHolds(h) /\ mem[h] \in Mem
  BY HeldTypes DEF ResultInv
<1>2. where \in PC /\ where \notin Finishing \cup {"idle", "moving"}
  BY DEF PC, Finishing
<1>3. pc'[h] = where /\ mem'[h] = mem[h]
  BY <1>1, <1>2, GotoHolds
<1>4. where \in Moving => where = "rechecking"
  BY DEF Moving
<1>5. HandlerHolds(h)'
  BY <1>1, <1>2, <1>3, <1>4 DEF HandlerHolds, Finishing
<1>6. lock' \in [Runs -> Handlers \cup Workers \cup {None}]
  BY DEF TypeOK
<1> QED
  BY <1>1, <1>2, <1>5, <1>6, GoesHolds

LEMMA RouteReplyResult ==
  ASSUME TypeOK, ResultInv, NEW h \in Handlers, RouteReply(h)
  PROVE  TypeOK' /\ ResultInv'
<1> DEFINE x == InState(h, "INTERPRETING")
<1>1. pc[h] = "interpreting" /\ pc[h] # "idle"
  BY DEF RouteReply
<1>2. "INTERPRETING" \in State \ {"NEW"} /\ "INTERPRETING" \in Midway
  BY DEF State, Midway
<1>3. mem[h].loaded \in Run /\ HandlerHolds(h)
  BY <1>1, HeldTypes DEF ResultInv
<1>4. x \in Run /\ x.missed = mem[h].loaded.missed
  BY <1>1, <1>2, <1>3, InStateIs DEF HandlerHolds, Continues
<1>5. CASE (\E new \in Routed(x) : Conclude(h, new)) /\ UNCHANGED appt
  <2>1. PICK new \in Routed(x) : Conclude(h, new)
    BY <1>5
  <2>2. Follows(new, mem[h].loaded)
    BY <1>1, <1>2, <1>4, <2>1, RoutedFollows, FollowsState
  <2> QED
    BY <1>1, <1>5, <2>1, <2>2, ConcludeHolds DEF RouteReply
<1>6. ASSUME MayCancel(x), Save(h, x), NEW a \in Upcoming,
             appt' = [appt EXCEPT ![a].status = "CANCELLED"],
             GoOn(h, "finishing cancel", x, a)
      PROVE  TypeOK' /\ ResultInv'
  <2>1. mem[h].loaded.missed = None
    BY <1>4, <1>6 DEF MayCancel
  <2>2. "finishing cancel" \in Finishing /\ "finishing cancel" \notin Confirming \cup Moving
    BY DEF Finishing, Confirming, Moving
  <2>3. UNCHANGED <<reminders, passed, stale, abandoned>>
    BY DEF RouteReply
  <2> QED
    BY <1>1, <1>2, <1>6, <2>1, <2>2, <2>3, CancelKeeps, CommitHolds
<1> QED
  BY <1>5, <1>6 DEF RouteReply

LEMMA FinishCancelResult ==
  ASSUME TypeOK, ResultInv, NEW h \in Handlers, FinishCancel(h)
  PROVE  TypeOK' /\ ResultInv'
<1>1. pc[h] = "finishing cancel" /\ pc[h] \in Finishing /\ HandlerHolds(h)
  BY DEF FinishCancel, Finishing, ResultInv
<1>2. mem[h].appt \in Appts /\ mem[h].loaded.missed = None
  BY <1>1 DEF HandlerHolds
<1>3. \A b \in Appts : ApptKept(b)
  BY DEF FinishCancel, ApptKept
<1>4. appt' \in [Appts -> Appt] /\ reminders' \in [Appts -> Nat]
  BY DEF FinishCancel, TypeOK
<1> QED
  BY <1>1, <1>2, <1>3, <1>4, FinishHolds DEF FinishCancel

LEMMA ReofferHolds ==
  ASSUME TypeOK, ResultInv, NEW h \in Handlers, pc[h] # "idle", Reoffer(h),
         UNCHANGED <<appt, reminders, passed, stale, abandoned>>
  PROVE  TypeOK' /\ ResultInv'
<1>1. PICK new \in Offered(InState(h, "BOOKING")) : Conclude(h, new)
  BY DEF Reoffer
<1>2. "BOOKING" \in State \ {"NEW"}
  BY DEF State, Midway
<1>3. mem[h].loaded \in Run /\ HandlerHolds(h)
  BY HeldTypes DEF ResultInv
<1>4. InState(h, "BOOKING") \in Run
  BY <1>2, <1>3, InStateIs DEF HandlerHolds
<1>5. Follows(new, mem[h].loaded)
  BY <1>1, <1>2, <1>4, OfferedFollows, FollowsState
<1> QED
  BY <1>1, <1>5, ConcludeHolds

LEMMA CheckBookingResult ==
  ASSUME TypeOK, ResultInv, NEW h \in Handlers, CheckBooking(h)
  PROVE  TypeOK' /\ ResultInv'
<1>1. /\ pc[h] = "checking" /\ pc[h] # "idle" /\ HandlerHolds(h) /\ mem[h] \in Mem
      /\ lock' \in [Runs -> Handlers \cup Workers \cup {None}] \/ Reoffer(h)
  BY HeldTypes DEF CheckBooking, ResultInv, TypeOK
<1>2. pc[h] \in Confirming \ (Moving \cup Finishing)
  BY <1>1 DEF Confirming, Moving, Finishing
<1>3. ASSUME NEW a \in WithKey(mem[h].key),
             Goto(h, "finishing booking", [mem[h] EXCEPT !.appt = a]),
             UNCHANGED <<run, asked, cases, old, lock>>
      PROVE  TypeOK' /\ ResultInv'
  <2> DEFINE m == [mem[h] EXCEPT !.appt = a]
  <2>1. a \in Appts /\ appt[a].status # "FREE" /\ appt[a].key = mem[h].key
    BY DEF WithKey
  <2>2. ApptHolds(a)
    BY <2>1 DEF ResultInv
  <2>3. /\ m \in Mem /\ m.run = mem[h].run /\ m.loaded = mem[h].loaded /\ m.appt = a
        /\ m.slot = mem[h].slot /\ m.key = mem[h].key
    BY <1>1, <2>1 DEF Mem
  <2> HIDE DEF m
  <2>4. Goto(h, "finishing booking", m) /\ "finishing booking" \in PC
    BY <1>3 DEF m, PC
  <2>5. pc'[h] = "finishing booking" /\ mem'[h] = m
    BY <2>3, <2>4, GotoHolds
  <2>6. HandlerHolds(h)'
    BY <1>1, <1>2, <1>3, <2>1, <2>2, <2>3, <2>5
       DEF HandlerHolds, ApptHolds, CheckBooking, Finishing, Moving
  <2>7. lock' \in [Runs -> Handlers \cup Workers \cup {None}]
    BY <1>3 DEF TypeOK
  <2>8. UNCHANGED <<run, appt, reminders, asked, cases, passed, old, stale, abandoned>>
    BY <1>3 DEF CheckBooking
  <2> QED
    BY <2>3, <2>4, <2>6, <2>7, <2>8, GoesHolds
<1>4. ASSUME Goto(h, "inserting", mem[h]), UNCHANGED <<run, asked, cases, old, lock>>
      PROVE  TypeOK' /\ ResultInv'
  <2>1. "inserting" \in PC /\ "inserting" \in Confirming \ (Moving \cup Finishing)
    BY DEF PC, Confirming, Moving, Finishing
  <2>2. pc'[h] = "inserting" /\ mem'[h] = mem[h]
    BY <1>1, <1>4, <2>1, GotoHolds
  <2>3. HandlerHolds(h)'
    BY <1>1, <1>2, <1>4, <2>1, <2>2 DEF HandlerHolds
  <2>4. lock' \in [Runs -> Handlers \cup Workers \cup {None}]
    BY <1>4 DEF TypeOK
  <2>5. UNCHANGED <<run, appt, reminders, asked, cases, passed, old, stale, abandoned>>
    BY <1>4 DEF CheckBooking
  <2> QED
    BY <1>1, <1>4, <2>1, <2>3, <2>4, <2>5, GoesHolds
<1>5. CASE Reoffer(h)
  BY <1>1, <1>5, ReofferHolds DEF CheckBooking
<1> QED
  BY <1>3, <1>4, <1>5 DEF CheckBooking

LEMMA InsertKeeps ==
  ASSUME TypeOK, ResultInv, NEW h \in Handlers, pc[h] = "inserting",
         NEW a \in Appts, appt[a].status = "FREE",
         appt' = [appt EXCEPT ![a] =
                    [NoAppt EXCEPT !.status = "BOOKED", !.slot = mem[h].slot,
                                   !.key = mem[h].key, !.bookedBy = mem[h].run]]
  PROVE  /\ appt' \in [Appts -> Appt]
         /\ appt'[a].status = "BOOKED" /\ appt'[a].bookedBy = mem[h].run
         /\ \A b \in Appts : b # a => appt'[b] = appt[b]
         /\ \A b \in Appts : ApptKept(b)
         /\ \A b \in Appts : appt'[b] = appt[b] \/ ApptHolds(b)'
<1> DEFINE new == [NoAppt EXCEPT !.status = "BOOKED", !.slot = mem[h].slot,
                                 !.key = mem[h].key, !.bookedBy = mem[h].run]
<1>1. /\ mem[h].run \in Runs /\ mem[h].slot \in Slots /\ mem[h].key \in Keys
      /\ KeyOf[mem[h].key] = mem[h].run
  BY DEF ResultInv, HandlerHolds, Confirming
<1>2. /\ new \in Appt /\ new.status = "BOOKED" /\ new.key = mem[h].key
      /\ new.bookedBy = mem[h].run
  BY <1>1 DEF NoAppt, Appt
<1>3. appt'[a] = new /\ \A b \in Appts : b # a => appt'[b] = appt[b]
  BY DEF TypeOK
<1> HIDE DEF new
<1>4. appt' \in [Appts -> Appt]
  BY <1>2 DEF TypeOK, new
<1>5. \A b \in Appts : ApptKept(b)
  BY <1>3 DEF ApptKept
<1>6. ApptHolds(a)'
  BY <1>1, <1>2, <1>3 DEF ApptHolds
<1> QED
  BY <1>2, <1>3, <1>4, <1>5, <1>6

LEMMA CommitInsertResult ==
  ASSUME TypeOK, ResultInv, NEW h \in Handlers, CommitInsert(h)
  PROVE  TypeOK' /\ ResultInv'
<1>1. /\ pc[h] = "inserting" /\ pc[h] # "idle"
      /\ UNCHANGED <<reminders, passed, stale, abandoned>>
  BY DEF CommitInsert
<1>2. CASE Fail(h) /\ UNCHANGED appt
  BY <1>1, <1>2, FailHolds
<1>3. ASSUME NEW a \in Appts, appt[a].status = "FREE",
             appt' = [appt EXCEPT ![a] =
                        [NoAppt EXCEPT !.status = "BOOKED", !.slot = mem[h].slot,
                                       !.key = mem[h].key, !.bookedBy = mem[h].run]],
             GoOn(h, "finishing booking", InState(h, "BOOKING"), a),
             Save(h, InState(h, "BOOKING"))
      PROVE  TypeOK' /\ ResultInv'
  <2>1. /\ "finishing booking" \in Finishing /\ "finishing booking" \notin Moving
        /\ pc[h] \in Confirming /\ "BOOKING" \in Midway
    BY <1>1 DEF Finishing, Moving, Confirming, Midway
  <2>2. /\ appt' \in [Appts -> Appt]
        /\ appt'[a].status = "BOOKED" /\ appt'[a].bookedBy = mem[h].run
        /\ \A b \in Appts : ApptKept(b)
        /\ \A b \in Appts : appt'[b] = appt[b] \/ ApptHolds(b)'
    BY <1>1, <1>3, InsertKeeps
  <2> QED
    BY <1>1, <1>3, <2>1, <2>2, CommitHolds
<1> QED
  BY <1>2, <1>3 DEF CommitInsert

LEMMA FinishBookingResult ==
  ASSUME TypeOK, ResultInv, NEW h \in Handlers, FinishBooking(h)
  PROVE  TypeOK' /\ ResultInv'
<1>1. /\ pc[h] = "finishing booking" /\ pc[h] \in Finishing /\ pc[h] # "idle"
      /\ HandlerHolds(h)
  BY DEF FinishBooking, Finishing, ResultInv
<1>2. PICK a \in Appts : a = mem[h].appt
  BY <1>1 DEF HandlerHolds
<1>3. PICK m \in Appts \cup {None} : m = mem[h].loaded.missed
  BY <1>1, HeldTypes DEF Run
<1>4. /\ appt[a].status # "FREE" /\ appt[a].bookedBy = mem[h].run
      /\ mem[h].run \in Runs /\ m = run[mem[h].run].missed /\ ApptHolds(a)
  BY <1>1, <1>2, <1>3 DEF HandlerHolds, ResultInv
<1>5. appt' = Linked(a, m)
  BY <1>2, <1>3 DEF FinishBooking
<1>6. /\ \A b \in Appts : b # a => appt'[b] = appt[b]
      /\ m = None => appt'[a] = appt[a]
      /\ m # None => appt'[a] = [appt[a] EXCEPT !.rebookedFrom = m]
  BY <1>5 DEF Linked, TypeOK
<1>7. /\ appt'[a] \in Appt /\ appt'[a].status = appt[a].status
      /\ appt'[a].bookedBy = appt[a].bookedBy /\ appt'[a].key = appt[a].key
      /\ appt'[a].rebookedFrom = IF m = None THEN appt[a].rebookedFrom ELSE m
  BY <1>6 DEF TypeOK, Appt
<1>8. appt' \in [Appts -> Appt]
  BY <1>5, <1>6, <1>7 DEF Linked, TypeOK
<1>9. \A b \in Appts : ApptKept(b)
  BY <1>4, <1>6, <1>7 DEF ApptKept
<1>10. ApptHolds(a)'
  BY <1>4, <1>7 DEF ApptHolds
<1>11. \A b \in Appts : appt'[b] = appt[b] \/ ApptHolds(b)'
  BY <1>6, <1>10
<1>12. reminders' \in [Appts -> Nat]
  <2>1. reminders \in [Appts -> Nat] /\ reminders[a] + 1 \in Nat
    BY DEF TypeOK
  <2>2. reminders' = [reminders EXCEPT ![a] = reminders[a] + 1]
    BY <1>2 DEF FinishBooking
  <2> QED
    BY <2>1, <2>2
<1>13. /\ Save(h, [InState(h, "SUCCEEDED") EXCEPT !.result = a]) /\ Answer(h)
       /\ UNCHANGED <<passed, stale, abandoned>>
  BY <1>2 DEF FinishBooking
<1>14. mem[h].loaded.missed # None =>
         appt'[a].bookedBy = mem[h].run /\ appt'[a].rebookedFrom = mem[h].loaded.missed
  BY <1>3, <1>4, <1>7
<1> QED
  BY <1>1, <1>2, <1>8, <1>9, <1>11, <1>12, <1>13, <1>14, FinishHolds

LEMMA CheckMoveResult ==
  ASSUME TypeOK, ResultInv, NEW h \in Handlers, CheckMove(h)
  PROVE  TypeOK' /\ ResultInv'
<1> DEFINE t == mem[h].loaded.target
<1>1. /\ pc[h] = "rechecking" /\ pc[h] # "idle" /\ HandlerHolds(h)
      /\ mem[h] \in Mem /\ mem[h].loaded \in Run
  BY HeldTypes DEF CheckMove, ResultInv
<1>2. pc[h] \in Confirming /\ pc[h] \in Moving
  BY <1>1 DEF Confirming, Moving
<1>3. CASE Conclude(h, Escalated(mem[h].loaded))
  <2>1. Follows(Escalated(mem[h].loaded), mem[h].loaded)
    BY <1>1, StateTypes DEF Escalated, Follows, Outcomes, State, Terminal, Expirable
  <2> QED
    BY <1>1, <1>3, <2>1, ConcludeHolds DEF CheckMove
<1>4. CASE /\ t \in Upcoming
           /\ Goto(h, "moving", [mem[h] EXCEPT !.appt = t])
           /\ UNCHANGED <<run, asked, cases, old, lock>>
  <2> DEFINE m == [mem[h] EXCEPT !.appt = t]
  <2>1. t \in Appts /\ appt[t].status # "FREE"
    BY <1>4 DEF Upcoming
  <2>2. /\ m \in Mem /\ m.run = mem[h].run /\ m.loaded = mem[h].loaded /\ m.appt = t
        /\ m.slot = mem[h].slot /\ m.key = mem[h].key
    BY <1>1, <2>1 DEF Mem
  <2> HIDE DEF m, t
  <2>3. Goto(h, "moving", m) /\ "moving" \in PC /\ "moving" \notin Finishing
    BY <1>4 DEF m, PC, Finishing
  <2>4. pc'[h] = "moving" /\ mem'[h] = m
    BY <2>2, <2>3, GotoHolds
  <2>5. HandlerHolds(h)'
    BY <1>1, <1>2, <1>4, <2>1, <2>2, <2>3, <2>4 DEF HandlerHolds, CheckMove
  <2>6. lock' \in [Runs -> Handlers \cup Workers \cup {None}]
    BY <1>4 DEF TypeOK
  <2>7. UNCHANGED <<run, appt, reminders, asked, cases, passed, old, stale, abandoned>>
    BY <1>4 DEF CheckMove
  <2> QED
    BY <2>2, <2>3, <2>5, <2>6, <2>7, GoesHolds
<1>5. CASE Reoffer(h)
  BY <1>1, <1>5, ReofferHolds DEF CheckMove
<1> QED
  BY <1>3, <1>4, <1>5 DEF CheckMove

LEMMA MoveKeeps ==
  ASSUME TypeOK, ResultInv, NEW a \in Appts, appt[a].status # "FREE", NEW s \in Slots,
         appt' = [appt EXCEPT ![a].slot = s]
  PROVE  /\ appt' \in [Appts -> Appt] /\ appt'[a].status = appt[a].status
         /\ \A b \in Appts : appt'[b].bookedBy = appt[b].bookedBy
         /\ \A b \in Appts : (appt[b].status = "FREE") = (appt'[b].status = "FREE")
         /\ \A b \in Appts : ApptKept(b)
         /\ \A b \in Appts : appt'[b] = appt[b] \/ ApptHolds(b)'
<1>1. appt[a] \in Appt /\ ApptHolds(a)
  BY DEF TypeOK, ResultInv
<1>2. /\ appt'[a] = [appt[a] EXCEPT !.slot = s]
      /\ \A b \in Appts : b # a => appt'[b] = appt[b]
  BY DEF TypeOK
<1>3. /\ appt'[a] \in Appt /\ appt'[a].status = appt[a].status
      /\ appt'[a].key = appt[a].key /\ appt'[a].bookedBy = appt[a].bookedBy
      /\ appt'[a].rebookedFrom = appt[a].rebookedFrom
  BY <1>1, <1>2 DEF Appt
<1>4. appt' \in [Appts -> Appt]
  BY <1>3 DEF TypeOK
<1>5. \A b \in Appts : ApptKept(b)
  BY <1>2, <1>3 DEF ApptKept
<1>6. ApptHolds(a)'
  BY <1>1, <1>3 DEF ApptHolds
<1>7. \A b \in Appts : (appt[b].status = "FREE") = (appt'[b].status = "FREE")
  BY <1>2, <1>3
<1> QED
  BY <1>2, <1>3, <1>4, <1>5, <1>6, <1>7

LEMMA CommitMoveResult ==
  ASSUME TypeOK, ResultInv, NEW h \in Handlers, CommitMove(h)
  PROVE  TypeOK' /\ ResultInv'
<1>1. /\ pc[h] = "moving" /\ pc[h] # "idle" /\ HandlerHolds(h)
      /\ UNCHANGED <<reminders, passed, stale, abandoned>>
  BY DEF CommitMove, ResultInv
<1>2. pc[h] \in Confirming /\ pc[h] \in Moving /\ "BOOKING" \in Midway
      /\ "finishing move" \in Finishing
  BY <1>1 DEF Confirming, Moving, Finishing, Midway
<1>3. PICK t \in Appts : t = mem[h].appt
  BY <1>1 DEF HandlerHolds
<1>4. appt[t].status # "FREE" /\ mem[h].slot \in Slots /\ mem[h].loaded.target # None
  BY <1>1, <1>2, <1>3 DEF HandlerHolds
<1>5. CASE Fail(h) /\ UNCHANGED appt
  BY <1>1, <1>5, FailHolds
<1>6. CASE /\ appt' = [appt EXCEPT ![t].slot = mem[h].slot]
           /\ Save(h, InState(h, "BOOKING"))
           /\ GoOn(h, "finishing move", InState(h, "BOOKING"), t)
  <2>1. /\ appt' \in [Appts -> Appt] /\ appt'[t].status # "FREE"
        /\ \A b \in Appts : ApptKept(b)
        /\ \A b \in Appts : appt'[b] = appt[b] \/ ApptHolds(b)'
    BY <1>4, <1>6, MoveKeeps
  <2> QED
    BY <1>1, <1>2, <1>4, <1>6, <2>1, CommitHolds
<1> QED
  BY <1>3, <1>5, <1>6 DEF CommitMove

LEMMA FinishMoveResult ==
  ASSUME TypeOK, ResultInv, NEW h \in Handlers, FinishMove(h)
  PROVE  TypeOK' /\ ResultInv'
<1>1. /\ pc[h] = "finishing move" /\ pc[h] \in Finishing /\ pc[h] \in Moving
      /\ pc[h] # "idle" /\ HandlerHolds(h)
  BY DEF FinishMove, Finishing, Moving, ResultInv
<1>2. mem[h].appt \in Appts /\ mem[h].loaded.missed = None
  BY <1>1 DEF HandlerHolds
<1>3. \A b \in Appts : ApptKept(b)
  BY DEF FinishMove, ApptKept
<1>4. appt' \in [Appts -> Appt] /\ reminders' \in [Appts -> Nat]
  BY DEF FinishMove, TypeOK
<1>5. CASE Fail(h)
  BY <1>5, FailHolds DEF FinishMove
<1>6. CASE /\ Save(h, [InState(h, "SUCCEEDED") EXCEPT !.result = mem[h].appt])
           /\ Answer(h)
  BY <1>1, <1>2, <1>3, <1>4, <1>6, FinishHolds DEF FinishMove
<1> QED
  BY <1>5, <1>6 DEF FinishMove

LEMMA HandlerStepResult ==
  ASSUME TypeOK, ResultInv, NEW h \in Handlers, HandlerStep(h)
  PROVE  TypeOK' /\ ResultInv'
<1>1. CASE LockReply(h)
  <2>1. "interpreting" \notin Confirming /\ pc[h] # "idle"
    BY <1>1 DEF LockReply, Confirming
  <2> QED
    BY <1>1, <2>1, LockHolds DEF LockReply
<1>2. CASE LockConfirm(h)
  <2>1. pc[h] # "idle" /\ pc[h] \in Confirming
    BY <1>2 DEF LockConfirm, Confirming
  <2> QED
    BY <1>2, <2>1, LockHolds DEF LockConfirm
<1> QED
  BY <1>1, <1>2, RouteReplyResult, FinishCancelResult, CheckBookingResult,
     CommitInsertResult, FinishBookingResult, CheckMoveResult, CommitMoveResult,
     FinishMoveResult DEF HandlerStep

LEMMA StartIs ==
  LET x == [NoRun EXCEPT !.state = "INTERPRETING"] IN
  /\ x \in Run /\ x.state = "INTERPRETING" /\ x.rounds = 0
  /\ x.missed = None /\ x.target = None /\ x.result = None
BY DEF NoRun, Run, State, Midway

LEMMA StartRequestResult ==
  ASSUME TypeOK, ResultInv, NEW h \in Handlers, StartRequest(h)
  PROVE  TypeOK' /\ ResultInv'
<1> DEFINE x == [NoRun EXCEPT !.state = "INTERPRETING"]
           m(r, a) == [NoMem EXCEPT !.run = r, !.loaded = x, !.appt = a]
<1>1. PICK r \in Runs :
        /\ run[r] = NoRun
        /\ \/ \E new \in Routed(x) :
                 /\ run' = [run EXCEPT ![r] = new]
                 /\ asked' = [asked EXCEPT ![r] = new.rounds]
                 /\ cases' = IF new.state = "ESCALATED" THEN cases \cup {r} ELSE cases
                 /\ Answer(h)
                 /\ UNCHANGED appt
           \/ /\ \E a \in Upcoming :
                    /\ appt' = [appt EXCEPT ![a].status = "CANCELLED"]
                    /\ Goto(h, "finishing cancel", m(r, a))
              /\ run' = [run EXCEPT ![r] = x]
              /\ UNCHANGED <<asked, cases>>
  BY DEF StartRequest
<1>2. UNCHANGED <<reminders, passed, old, lock, stale, abandoned>>
  BY DEF StartRequest
<1>3. \A y : run' = [run EXCEPT ![r] = y] =>
        /\ run'[r] = y /\ \A q \in Runs : q # r => run'[q] = run[q]
        /\ \A q \in Runs : RunKept(q)
  BY <1>1, BlankTypes DEF TypeOK, RunKept
<1>4. /\ x \in Run /\ x.state = "INTERPRETING" /\ x.rounds = 0
      /\ x.missed = None /\ x.target = None /\ x.result = None
  BY StartIs
<1> HIDE DEF x
<1>5. ASSUME NEW new \in Routed(x), run' = [run EXCEPT ![r] = new],
             asked' = [asked EXCEPT ![r] = new.rounds],
             cases' = IF new.state = "ESCALATED" THEN cases \cup {r} ELSE cases,
             Answer(h), UNCHANGED appt
      PROVE  TypeOK' /\ ResultInv'
  <2>1. /\ new \in Run /\ new.state \notin {"NEW", "SUCCEEDED"}
        /\ new.missed = None /\ new.result = None /\ new.rounds \in Nat
    BY <1>4, <1>5, RoutedFollows DEF Follows, Outcomes, Expirable, Run
  <2>2. TypeOK'
    BY <1>2, <1>5, <2>1, AnswerHolds DEF TypeOK
  <2>3. RunHolds(r)'
    BY <1>3, <1>5, <2>1 DEF RunHolds
  <2>4. \A a \in Appts : ApptKept(a)
    BY <1>5 DEF ApptKept
  <2>5. \A g \in Handlers : (pc'[g] = pc[g] /\ mem'[g] = mem[g]) \/ HandlerHolds(g)'
    BY <1>5, AnswerHolds
  <2>6. \A q \in Runs : run'[q] = run[q] \/ RunHolds(q)'
    BY <1>3, <1>5, <2>3
  <2> QED
    BY <1>3, <1>5, <2>2, <2>4, <2>5, <2>6, ResultFrame
<1>6. ASSUME NEW a \in Upcoming, appt' = [appt EXCEPT ![a].status = "CANCELLED"],
             Goto(h, "finishing cancel", m(r, a)),
             run' = [run EXCEPT ![r] = x], UNCHANGED <<asked, cases>>
      PROVE  TypeOK' /\ ResultInv'
  <2>1. /\ a \in Appts /\ appt' \in [Appts -> Appt] /\ appt'[a].status = "CANCELLED"
        /\ \A b \in Appts : ApptKept(b)
        /\ \A b \in Appts : appt'[b] = appt[b] \/ ApptHolds(b)'
    BY <1>6, CancelKeeps
  <2>2. /\ m(r, a) \in Mem /\ m(r, a).run = r /\ m(r, a).loaded = x /\ m(r, a).appt = a
    BY <1>4, <2>1 DEF NoMem, Mem
  <2> HIDE DEF m
  <2>3. /\ pc' \in [Handlers -> PC] /\ mem' \in [Handlers -> Mem]
        /\ pc'[h] = "finishing cancel" /\ mem'[h] = m(r, a)
        /\ \A g \in Handlers : g # h => pc'[g] = pc[g] /\ mem'[g] = mem[g]
    BY <1>6, <2>2, GotoHolds DEF PC
  <2>4. run' \in [Runs -> Run]
    BY <1>4, <1>6 DEF TypeOK
  <2>5. TypeOK'
    BY <1>2, <1>6, <2>1, <2>3, <2>4 DEF TypeOK
  <2>6. RunHolds(r)'
    BY <1>3, <1>4, <1>6 DEF RunHolds
  <2>7. HandlerHolds(h)'
    <3>1. run'[r] = x
      BY <1>3, <1>6
    <3>2. "finishing cancel" \notin Confirming \cup Moving \cup {"moving", "finishing booking"}
      BY DEF Confirming, Moving
    <3>3. /\ m(r, a).run \in Runs
          /\ run'[m(r, a).run].state # "NEW" /\ m(r, a).loaded.state # "NEW"
          /\ m(r, a).loaded.missed = None /\ run'[m(r, a).run].missed = None
          /\ m(r, a).loaded.result = None
          /\ m(r, a).appt \in Appts /\ appt'[m(r, a).appt].status # "FREE"
      BY <1>4, <2>1, <2>2, <3>1
    <3> QED
      BY <2>3, <3>2, <3>3 DEF HandlerHolds
  <2>8. \A q \in Runs : run'[q] = run[q] \/ RunHolds(q)'
    BY <1>3, <1>6, <2>6
  <2>9. \A g \in Handlers : (pc'[g] = pc[g] /\ mem'[g] = mem[g]) \/ HandlerHolds(g)'
    BY <2>3, <2>7
  <2> QED
    BY <1>3, <1>6, <2>1, <2>5, <2>8, <2>9, ResultFrame
<1> QED
  BY <1>1, <1>5, <1>6

LEMMA LoadReplyResult ==
  ASSUME TypeOK, ResultInv, NEW h \in Handlers, LoadReply(h)
  PROVE  TypeOK' /\ ResultInv'
<1>1. PICK r \in Runs :
        run[r].state = "AWAITING_CLARIFICATION" /\ Load(h, r, "replying", None, None)
  BY DEF LoadReply
<1>2. UNCHANGED <<run, appt, reminders, asked, cases, passed, old, lock, stale, abandoned>>
  BY DEF LoadReply
<1> QED
  BY <1>1, <1>2, LoadHolds

LEMMA LoadConfirmResult ==
  ASSUME TypeOK, ResultInv, NEW h \in Handlers, LoadConfirm(h)
  PROVE  TypeOK' /\ ResultInv'
<1>1. PICK k \in Keys : \E r \in {KeyOf[k]} : \E s \in run[r].offered :
        IsConfirmable(r) /\ Load(h, r, "confirming", s, k)
  BY DEF LoadConfirm
<1> DEFINE r == KeyOf[k]
<1>2. PICK s \in run[r].offered : IsConfirmable(r) /\ Load(h, r, "confirming", s, k)
  BY <1>1
<1>3. r \in Runs
  BY RunConstants
<1>4. s \in Slots /\ run[r].state # "NEW"
  BY <1>2, <1>3 DEF TypeOK, Run, IsConfirmable
<1>5. UNCHANGED <<run, appt, reminders, asked, cases, passed, old, lock, stale, abandoned>>
  BY DEF LoadConfirm
<1> QED
  BY <1>2, <1>3, <1>4, <1>5, LoadHolds

-----------------------------------------------------------------------------
(* The other steps.                                                        *)

LEMMA HandlerDiesResult ==
  ASSUME TypeOK, ResultInv, NEW h \in Handlers, HandlerDies(h)
  PROVE  TypeOK' /\ ResultInv'
<1>1. Answer(h) /\ Release(h)
  BY DEF HandlerDies, Answer
<1>2. TypeOK'
  BY <1>1, AnswerHolds, ReleaseType DEF HandlerDies, TypeOK
<1>3. (\A r \in Runs : RunKept(r)) /\ (\A a \in Appts : ApptKept(a))
  BY DEF RunKept, ApptKept, HandlerDies
<1>4. \A g \in Handlers : (pc'[g] = pc[g] /\ mem'[g] = mem[g]) \/ HandlerHolds(g)'
  BY <1>1, AnswerHolds
<1>5. (\A r \in Runs : run'[r] = run[r]) /\ (\A a \in Appts : appt'[a] = appt[a])
  BY DEF HandlerDies
<1> QED
  BY <1>2, <1>3, <1>4, <1>5, ResultFrame

(* What touches neither runs nor appointments nor requests.                *)
LEMMA QuietResult ==
  ASSUME TypeOK, ResultInv, UNCHANGED <<run, appt, pc, mem>>
  PROVE  ResultInv'
<1>1. (\A r \in Runs : RunKept(r)) /\ (\A a \in Appts : ApptKept(a))
  BY DEF RunKept, ApptKept
<1> QED
  BY <1>1, ResultFrame

LEMMA MarkNoShowResult ==
  ASSUME TypeOK, ResultInv, NEW a \in Appts, MarkNoShow(a)
  PROVE  TypeOK' /\ ResultInv'
<1>1. PICK r \in Runs :
        /\ run[r] = NoRun
        /\ run' = [run EXCEPT ![r] = [NoRun EXCEPT !.state = "AWAITING_CLARIFICATION",
                                                   !.missed = a]]
  BY DEF MarkNoShow
<1> DEFINE new == [NoRun EXCEPT !.state = "AWAITING_CLARIFICATION", !.missed = a]
<1>2. /\ new \in Run /\ new.state = "AWAITING_CLARIFICATION" /\ new.missed = a
      /\ new.target = None /\ new.result = None
  BY DEF NoRun, Run, State, Expirable
<1> HIDE DEF new
<1>3. run'[r] = new /\ \A q \in Runs : q # r => run'[q] = run[q]
  BY <1>1 DEF TypeOK, new
<1>4. appt[a] \in Appt /\ appt[a].status = "BOOKED" /\ ApptHolds(a)
  BY DEF MarkNoShow, TypeOK, ResultInv
<1>5. /\ appt'[a] = [appt[a] EXCEPT !.status = "NO_SHOW"]
      /\ \A b \in Appts : b # a => appt'[b] = appt[b]
  BY DEF MarkNoShow, TypeOK
<1>6. /\ appt'[a] \in Appt /\ appt'[a].status = "NO_SHOW"
      /\ appt'[a].key = appt[a].key /\ appt'[a].bookedBy = appt[a].bookedBy
      /\ appt'[a].rebookedFrom = appt[a].rebookedFrom
  BY <1>4, <1>5 DEF Appt
<1>7. UNCHANGED <<reminders, asked, cases, passed, old, lock, pc, mem, stale, abandoned>>
  BY DEF MarkNoShow
<1>8. TypeOK'
  <2>1. appt' \in [Appts -> Appt]
    BY <1>6 DEF MarkNoShow, TypeOK
  <2>2. run' \in [Runs -> Run]
    BY <1>1, <1>2 DEF TypeOK, new
  <2> QED
    BY <1>7, <2>1, <2>2 DEF TypeOK
<1>9. \A q \in Runs : RunKept(q)
  BY <1>1, <1>3, BlankTypes DEF RunKept
<1>10. \A b \in Appts : ApptKept(b)
  BY <1>4, <1>5, <1>6 DEF ApptKept
<1>11. RunHolds(r)'
  BY <1>2, <1>3, <1>6, RunConstants DEF RunHolds
<1>12. ApptHolds(a)'
  BY <1>4, <1>6 DEF ApptHolds
<1>13. \A q \in Runs : run'[q] = run[q] \/ RunHolds(q)'
  BY <1>3, <1>11
<1>14. \A b \in Appts : appt'[b] = appt[b] \/ ApptHolds(b)'
  BY <1>5, <1>12
<1> QED
  BY <1>7, <1>8, <1>9, <1>10, <1>13, <1>14, ResultFrame

LEMMA ExpireStaleResult ==
  ASSUME TypeOK, ResultInv, NEW w \in Workers, ExpireStale(w)
  PROVE  TypeOK' /\ ResultInv'
<1>1. \A r \in Runs :
        run'[r] = IF r \in stale[w] THEN [run[r] EXCEPT !.state = "EXPIRED"] ELSE run[r]
  BY DEF ExpireStale
<1>2. ASSUME NEW r \in Runs
      PROVE  /\ run'[r] \in Run /\ run'[r].missed = run[r].missed
             /\ run'[r].target = run[r].target /\ run'[r].result = run[r].result
             /\ run'[r].state \in {run[r].state, "EXPIRED"}
  BY <1>1 DEF TypeOK, Run, State, Terminal
<1>3. TypeOK'
  <2>1. run' \in [Runs -> Run]
    BY <1>2 DEF ExpireStale
  <2>2. stale' \in [Workers -> SUBSET Runs] /\ old' \subseteq Runs
    BY DEF ExpireStale, TypeOK
  <2> QED
    BY <2>1, <2>2, ReleaseType DEF ExpireStale, TypeOK
<1>4. \A r \in Runs : RunKept(r)
  BY <1>2 DEF RunKept
<1>5. \A a \in Appts : ApptKept(a)
  BY DEF ApptKept, ExpireStale
<1>6. ASSUME NEW r \in Runs PROVE run'[r] = run[r] \/ RunHolds(r)'
  <2>1. CASE run'[r].state = "EXPIRED"
    <3>1. RunHolds(r) /\ appt' = appt
      BY DEF ResultInv, ExpireStale
    <3> QED
      BY <1>2, <2>1, <3>1 DEF RunHolds
  <2>2. CASE r \notin stale[w]
    BY <1>1, <2>2
  <2> QED
    BY <1>1, <2>1, <2>2 DEF TypeOK, Run
<1>7. UNCHANGED <<appt, pc, mem>>
  BY DEF ExpireStale
<1> QED
  BY <1>3, <1>4, <1>5, <1>6, <1>7, ResultFrame

LEMMA ResultStep == TypeOK /\ ResultInv /\ [Next]_vars => TypeOK' /\ ResultInv'
<1> SUFFICES ASSUME TypeOK, ResultInv, [Next]_vars PROVE TypeOK' /\ ResultInv'
  OBVIOUS
<1>1. ASSUME NEW h \in Handlers, HandlerNext(h) PROVE TypeOK' /\ ResultInv'
  BY <1>1, StartRequestResult, LoadReplyResult, LoadConfirmResult, HandlerStepResult,
     HandlerDiesResult DEF HandlerNext
<1>2. ASSUME NEW w \in Workers, WorkerNext(w) PROVE TypeOK' /\ ResultInv'
  <2>1. CASE LoadStale(w)
    BY <2>1, QuietResult DEF LoadStale, TypeOK
  <2>2. CASE LockStale(w)
    BY <2>2, QuietResult DEF LockStale, TypeOK
  <2>3. CASE WorkerDies(w)
    BY <2>3, QuietResult, ReleaseType DEF WorkerDies, TypeOK
  <2> QED
    BY <1>2, <2>1, <2>2, <2>3, ExpireStaleResult DEF WorkerNext
<1>3. ASSUME NEW a \in Appts, SendReminders(a) PROVE TypeOK' /\ ResultInv'
  BY <1>3, QuietResult DEF SendReminders, TypeOK
<1>4. ASSUME NEW s \in Slots, SlotPasses(s) PROVE TypeOK' /\ ResultInv'
  BY <1>4, QuietResult DEF SlotPasses, TypeOK
<1>5. CASE Age
  BY <1>5, QuietResult DEF Age, TypeOK
<1>6. CASE UNCHANGED vars
  BY <1>6, QuietResult DEF vars, TypeOK
<1> QED
  BY <1>1, <1>2, <1>3, <1>4, <1>5, <1>6, MarkNoShowResult DEF Next

LEMMA InitResult == Init => TypeOK /\ ResultInv
<1> SUFFICES ASSUME Init PROVE TypeOK /\ ResultInv
  OBVIOUS
<1>1. TypeOK
  BY BlankTypes DEF Init, TypeOK, PC
<1>2. ResultInv
  BY BlankTypes DEF Init, ResultInv, HandlerHolds, RunHolds, ApptHolds
<1> QED
  BY <1>1, <1>2

LEMMA ResultInvCorrect == Spec => [](TypeOK /\ ResultInv)
<1>1. Spec => [](TypeOK /\ ResultInv)
  BY InitResult, ResultStep, PTL DEF Spec
<1> QED
  BY <1>1

(* Every variable keeps its type.                                          *)
THEOREM TypeCorrect == Spec => []TypeOK
  BY ResultInvCorrect, PTL

(* A run that succeeded names its appointment, and a recovery's is linked  *)
(* to the one that was missed (orchestrator.py:697-712), whoever else      *)
(* writes the run or the appointments between its two transactions.        *)
THEOREM SuccessHasResultCorrect == Spec => []SuccessHasResult
<1>1. ResultInv => SuccessHasResult
  BY DEF ResultInv, RunHolds, SuccessHasResult
<1> QED
  BY <1>1, ResultInvCorrect, PTL

-----------------------------------------------------------------------------
(* Clients that wait.                                                      *)

(* A step of h, which is alone with run r.                                 *)
LEMMA PatientFrame ==
  ASSUME TypeOK, ResultInv, PatientInv, NEW h \in Handlers, NEW r \in Runs,
         \A g \in Handlers : g # h /\ pc[g] # "idle" => mem[g].run # r,
         pc[h] # "idle" => mem[h].run = r,
         \A g \in Handlers : g # h => pc'[g] = pc[g] /\ mem'[g] = mem[g],
         pc'[h] # "idle" => mem'[h].run = r /\ LoadedIsCurrent(h)',
         \A q \in Runs : q # r => run'[q] = run[q] /\ asked'[q] = asked[q],
         RoundsAreAsked(r)', abandoned \subseteq abandoned',
         run'[r].state \in Midway => pc'[h] # "idle" \/ r \in abandoned',
         \A a \in Appts :
           IF appt'[a].bookedBy = r
             THEN /\ run'[r].state \notin Expirable \cup {"NEW"}
                  /\ pc'[h] \in {"idle", "finishing booking"}
             ELSE appt'[a].bookedBy = appt[a].bookedBy,
         BookingInv'
  PROVE  PatientInv'
<1>1. OneHandler'
  <2> SUFFICES ASSUME NEW f \in Handlers, NEW g \in Handlers, f # g,
                      pc'[f] # "idle", pc'[g] # "idle", mem'[f].run = mem'[g].run
               PROVE  FALSE
    BY DEF OneHandler
  <2>1. CASE f # h /\ g # h
    BY <2>1 DEF PatientInv, OneHandler
  <2>2. CASE f = h \/ g = h
    BY <2>2
  <2> QED
    BY <2>1, <2>2
<1>2. ASSUME NEW g \in Handlers PROVE LoadedIsCurrent(g)'
  <2>1. CASE g = h
    BY <2>1 DEF LoadedIsCurrent
  <2>2. CASE g # h /\ pc[g] = "idle"
    BY <2>2 DEF LoadedIsCurrent
  <2>3. CASE g # h /\ pc[g] # "idle"
    <3>1. mem[g].run \in Runs /\ mem[g].run # r
      BY <2>3, HeldTypes
    <3>2. LoadedIsCurrent(g)
      BY DEF PatientInv
    <3> QED
      BY <2>3, <3>1, <3>2 DEF LoadedIsCurrent
  <2> QED
    BY <2>1, <2>2, <2>3
<1>3. ASSUME NEW a \in Appts PROVE BookedIsOver(a)'
  <2>1. CASE appt'[a].bookedBy = r
    BY <2>1, HeldTypes DEF BookedIsOver
  <2>2. CASE appt'[a].bookedBy # r
    <3>1. appt[a].bookedBy \in Runs \cup {None} /\ BookedIsOver(a)
      BY DEF TypeOK, Appt, PatientInv
    <3>2. appt'[a].bookedBy = appt[a].bookedBy
      BY <2>2
    <3> QED
      BY <2>2, <3>1, <3>2 DEF BookedIsOver
  <2> QED
    BY <2>1, <2>2
<1>4. ASSUME NEW q \in Runs PROVE RoundsAreAsked(q)'
  BY DEF PatientInv, RoundsAreAsked
<1>5. NoRunIsStranded'
  <2> SUFFICES ASSUME NEW q \in Runs, run'[q].state \in Midway
               PROVE  Busy(q)' \/ q \in abandoned'
    BY DEF NoRunIsStranded
  <2>1. CASE q = r
    BY <2>1 DEF Busy
  <2>2. CASE q # r
    <3>1. Busy(q) \/ q \in abandoned
      BY <2>2 DEF PatientInv, NoRunIsStranded
    <3>2. ASSUME NEW g \in Handlers, pc[g] # "idle", mem[g].run = q
          PROVE  Busy(q)'
      <4>1. g # h
        BY <2>2, <3>2
      <4> QED
        BY <3>2, <4>1 DEF Busy
    <3> QED
      BY <3>1, <3>2 DEF Busy
  <2> QED
    BY <2>1, <2>2
<1> QED
  BY <1>1, <1>2, <1>3, <1>4, <1>5 DEF PatientInv

(* A run that is held before its request's first commit has not booked.    *)
LEMMA NothingBooked ==
  ASSUME TypeOK, ResultInv, PatientInv, NEW h \in Handlers,
         pc[h] \notin {"idle", "finishing booking"}
  PROVE  \A a \in Appts : appt[a].bookedBy # mem[h].run
<1> SUFFICES ASSUME NEW a \in Appts, appt[a].bookedBy = mem[h].run PROVE FALSE
  OBVIOUS
<1>1. mem[h].run \in Runs /\ mem[h].run # None
  BY HeldTypes, RunConstants
<1> QED
  BY <1>1 DEF PatientInv, BookedIsOver

LEMMA Alone ==
  ASSUME TypeOK, ResultInv, PatientInv, NEW h \in Handlers, pc[h] # "idle"
  PROVE  \A g \in Handlers : g # h /\ pc[g] # "idle" => mem[g].run # mem[h].run
BY DEF PatientInv, OneHandler

(* As long as nothing is booked or reminded of.                            *)
LEMMA BookingFrame ==
  ASSUME TypeOK, PatientInv, UNCHANGED reminders,
         \A a \in Appts : appt'[a].bookedBy = appt[a].bookedBy,
         \A a \in Appts : appt'[a].status = "FREE" => appt[a].status = "FREE",
         \A g \in Handlers : pc'[g] = "finishing booking" =>
           pc[g] = "finishing booking" /\ mem'[g] = mem[g]
  PROVE  BookingInv'
<1>1. OneBookingPerRun'
  BY DEF PatientInv, BookingInv, OneBookingPerRun
<1>2. OnePendingReminder'
  BY DEF PatientInv, BookingInv, OnePendingReminder
<1>3. RemindersAreFirst'
  BY DEF PatientInv, BookingInv, RemindersAreFirst
<1> QED
  BY <1>1, <1>2, <1>3 DEF BookingInv

LEMMA GoesPatient ==
  ASSUME TypeOK, ResultInv, PatientInv, NEW h \in Handlers,
         pc[h] \notin Finishing \cup {"idle"},
         NEW where \in PC \ ({"idle"} \cup Finishing), NEW m \in Mem,
         m.run = mem[h].run, m.loaded = mem[h].loaded,
         Goto(h, where, m), UNCHANGED <<run, appt, reminders, asked, abandoned>>
  PROVE  PatientInv'
<1>1. PICK r \in Runs : r = mem[h].run
  BY HeldTypes
<1>2. /\ pc'[h] = where /\ mem'[h] = m
      /\ \A g \in Handlers : g # h => pc'[g] = pc[g] /\ mem'[g] = mem[g]
  BY GotoHolds
<1>3. LoadedIsCurrent(h)'
  BY <1>2 DEF PatientInv, LoadedIsCurrent
<1>4. RoundsAreAsked(r)'
  BY DEF PatientInv, RoundsAreAsked
<1>5. BookingInv'
  BY <1>2, BookingFrame DEF Finishing
<1>6. \A a \in Appts : appt'[a].bookedBy # r
  BY <1>1, NothingBooked DEF Finishing
<1>7. \A a \in Appts : appt'[a].bookedBy = appt[a].bookedBy
  OBVIOUS
<1>8. \A g \in Handlers : g # h /\ pc[g] # "idle" => mem[g].run # r
  BY <1>1, Alone
<1> QED
  BY <1>1, <1>2, <1>3, <1>4, <1>5, <1>6, <1>7, <1>8, PatientFrame

LEMMA FailPatient ==
  ASSUME TypeOK, ResultInv, PatientInv, NEW h \in Handlers,
         pc[h] \notin Finishing \cup {"idle"}, Fail(h),
         UNCHANGED <<appt, reminders, abandoned>>
  PROVE  PatientInv'
<1>1. PICK r \in Runs : r = mem[h].run
  BY HeldTypes
<1>2. /\ pc'[h] = "idle" /\ UNCHANGED <<run, asked>>
      /\ \A g \in Handlers : g # h => pc'[g] = pc[g] /\ mem'[g] = mem[g]
  BY AnswerHolds DEF Fail
<1>3. run'[r].state \notin Midway
  BY <1>1, <1>2 DEF PatientInv, LoadedIsCurrent, Midway, Expirable
<1>4. RoundsAreAsked(r)'
  BY <1>2 DEF PatientInv, RoundsAreAsked
<1>5. BookingInv'
  BY <1>2, BookingFrame
<1>6. \A a \in Appts : appt'[a].bookedBy # r
  BY <1>1, NothingBooked DEF Finishing
<1>7. \A a \in Appts : appt'[a].bookedBy = appt[a].bookedBy
  OBVIOUS
<1>8. \A g \in Handlers : g # h /\ pc[g] # "idle" => mem[g].run # r
  BY <1>1, Alone
<1> QED
  BY <1>1, <1>2, <1>3, <1>4, <1>5, <1>6, <1>7, <1>8, PatientFrame

(* A commit counts the questions of its run.                               *)
LEMMA SavePatient ==
  ASSUME TypeOK, ResultInv, PatientInv, NEW h \in Handlers, pc[h] # "idle",
         NEW r \in Runs, r = mem[h].run, NEW new \in Run, Save(h, new),
         IF new.state = "AWAITING_CLARIFICATION"
           THEN new.rounds = mem[h].loaded.rounds + 1
                /\ new.rounds =< MAX_CLARIFICATION_ROUNDS
           ELSE new.rounds = mem[h].loaded.rounds
  PROVE  /\ RoundsAreAsked(r)' /\ run'[r].state = new.state /\ run'[r].rounds = new.rounds
         /\ \A q \in Runs : q # r => run'[q] = run[q] /\ asked'[q] = asked[q]
<1>1. Saved(h, new)
  BY SaveSaves
<1>2. /\ run'[r].state = new.state
      /\ asked'[r] = IF new.state = "AWAITING_CLARIFICATION" THEN asked[r] + 1 ELSE asked[r]
      /\ run'[r].rounds = Column(new.rounds, mem[h].loaded.rounds, run[r].rounds)
      /\ \A q \in Runs : q # r => run'[q] = run[q] /\ asked'[q] = asked[q]
  BY <1>1 DEF Saved
<1>3. mem[h].loaded.rounds = run[r].rounds /\ RoundsAreAsked(r)
  BY DEF PatientInv, LoadedIsCurrent
<1>4. run'[r].rounds = new.rounds
  BY <1>2, <1>3 DEF Column
<1>5. RoundsAreAsked(r)'
  BY <1>2, <1>3, <1>4 DEF RoundsAreAsked
<1> QED
  BY <1>2, <1>4, <1>5

LEMMA ConcludePatient ==
  ASSUME TypeOK, ResultInv, PatientInv, NEW h \in Handlers,
         pc[h] \notin Finishing \cup {"idle"},
         NEW new, Follows(new, mem[h].loaded), Conclude(h, new),
         UNCHANGED <<appt, reminders, abandoned>>
  PROVE  PatientInv'
<1>1. PICK r \in Runs : r = mem[h].run
  BY HeldTypes
<1>2. CASE Fail(h)
  BY <1>2, FailPatient
<1>3. CASE Save(h, new) /\ Answer(h)
  <2>1. /\ new \in Run /\ new.state \notin Midway
        /\ IF new.state = "AWAITING_CLARIFICATION"
             THEN new.rounds = mem[h].loaded.rounds + 1
                  /\ new.rounds =< MAX_CLARIFICATION_ROUNDS
             ELSE new.rounds = mem[h].loaded.rounds
    BY DEF Follows, Outcomes, Midway, Expirable
  <2>2. /\ RoundsAreAsked(r)' /\ run'[r].state = new.state
        /\ \A q \in Runs : q # r => run'[q] = run[q] /\ asked'[q] = asked[q]
    BY <1>1, <1>3, <2>1, SavePatient
  <2>3. /\ pc'[h] = "idle"
        /\ \A g \in Handlers : g # h => pc'[g] = pc[g] /\ mem'[g] = mem[g]
    BY <1>3, AnswerHolds
  <2>4. BookingInv'
    BY <2>3, BookingFrame
  <2>5. \A a \in Appts : appt'[a].bookedBy # r
    BY <1>1, NothingBooked DEF Finishing
  <2>6. \A a \in Appts : appt'[a].bookedBy = appt[a].bookedBy
    OBVIOUS
  <2>7. \A g \in Handlers : g # h /\ pc[g] # "idle" => mem[g].run # r
    BY <1>1, Alone
  <2> QED
    BY <1>1, <2>1, <2>2, <2>3, <2>4, <2>5, <2>6, <2>7, PatientFrame
<1> QED
  BY <1>2, <1>3 DEF Conclude

LEMMA CommitPatient ==
  ASSUME TypeOK, ResultInv, PatientInv, NEW h \in Handlers,
         pc[h] \notin Finishing \cup {"idle"},
         NEW s \in Midway, Save(h, InState(h, s)),
         NEW where \in Finishing, NEW a \in Appts, GoOn(h, where, InState(h, s), a),
         \A b \in Appts :
           \/ appt'[b].bookedBy = appt[b].bookedBy
           \/ appt'[b].bookedBy = mem[h].run /\ where = "finishing booking",
         BookingInv', UNCHANGED abandoned
  PROVE  PatientInv'
<1> DEFINE new == InState(h, s)
           m == [mem[h] EXCEPT !.loaded = new, !.appt = a]
<1>1. PICK r \in Runs : r = mem[h].run
  BY HeldTypes
<1>2. HandlerHolds(h) /\ mem[h] \in Mem /\ mem[h].loaded \in Run
  BY HeldTypes DEF ResultInv
<1>3. new \in Run /\ new.state = s /\ new.rounds = mem[h].loaded.rounds
  <2>1. s \in State \ {"NEW"} /\ mem[h].loaded.state # "NEW"
    BY <1>2 DEF Midway, State, HandlerHolds
  <2> QED
    BY <1>2, <2>1, InStateIs
<1>4. s \notin Expirable \cup {"NEW"}
  BY DEF Midway, Expirable
<1> HIDE DEF new
<1>5. m \in Mem /\ m.run = r /\ m.loaded = new
  BY <1>1, <1>2, <1>3 DEF Mem
<1> HIDE DEF m
<1>6. where \in PC /\ where # "idle" /\ Goto(h, where, m) /\ Save(h, new)
  BY DEF Finishing, PC, GoOn, m, new
<1>7. /\ pc'[h] = where /\ mem'[h] = m
      /\ \A g \in Handlers : g # h => pc'[g] = pc[g] /\ mem'[g] = mem[g]
  BY <1>5, <1>6, GotoHolds
<1>8. /\ RoundsAreAsked(r)' /\ run'[r].state = s /\ run'[r].rounds = new.rounds
      /\ \A q \in Runs : q # r => run'[q] = run[q] /\ asked'[q] = asked[q]
  BY <1>1, <1>3, <1>4, <1>6, SavePatient DEF Expirable
<1>9. LoadedIsCurrent(h)'
  BY <1>5, <1>7, <1>8 DEF LoadedIsCurrent
<1>10. \A b \in Appts : appt[b].bookedBy # r
  BY <1>1, NothingBooked DEF Finishing
<1>11. \A g \in Handlers : g # h /\ pc[g] # "idle" => mem[g].run # r
  BY <1>1, Alone
<1>12. \A b \in Appts :
          IF appt'[b].bookedBy = r
            THEN /\ run'[r].state \notin Expirable \cup {"NEW"}
                 /\ pc'[h] \in {"idle", "finishing booking"}
            ELSE appt'[b].bookedBy = appt[b].bookedBy
  BY <1>1, <1>4, <1>7, <1>8, <1>10
<1>13. pc'[h] # "idle" /\ mem'[h].run = r
  BY <1>5, <1>6, <1>7
<1> QED
  BY <1>1, <1>7, <1>8, <1>9, <1>11, <1>12, <1>13, PatientFrame

LEMMA FinishPatient ==
  ASSUME TypeOK, ResultInv, PatientInv, NEW h \in Handlers, pc[h] \in Finishing,
         NEW a \in Appts, Save(h, [InState(h, "SUCCEEDED") EXCEPT !.result = a]),
         Answer(h), \A b \in Appts : appt'[b].bookedBy = appt[b].bookedBy,
         BookingInv', UNCHANGED abandoned
  PROVE  PatientInv'
<1> DEFINE new == [InState(h, "SUCCEEDED") EXCEPT !.result = a]
<1>1. PICK r \in Runs : r = mem[h].run
  BY HeldTypes DEF Finishing
<1>2. HandlerHolds(h) /\ mem[h].loaded \in Run /\ pc[h] # "idle"
  BY HeldTypes DEF ResultInv, Finishing
<1>3. new \in Run /\ new.state = "SUCCEEDED" /\ new.rounds = mem[h].loaded.rounds
  <2>1. "SUCCEEDED" \in State \ {"NEW"} /\ mem[h].loaded.state # "NEW"
    BY <1>2 DEF HandlerHolds, State, Terminal
  <2>2. /\ InState(h, "SUCCEEDED") \in Run /\ InState(h, "SUCCEEDED").state = "SUCCEEDED"
        /\ InState(h, "SUCCEEDED").rounds = mem[h].loaded.rounds
    BY <1>2, <2>1, InStateIs
  <2> QED
    BY <2>2 DEF Run
<1> HIDE DEF new
<1>4. Save(h, new)
  BY DEF new
<1>5. /\ RoundsAreAsked(r)' /\ run'[r].state = "SUCCEEDED"
      /\ \A q \in Runs : q # r => run'[q] = run[q] /\ asked'[q] = asked[q]
  BY <1>1, <1>2, <1>3, <1>4, SavePatient
<1>6. /\ pc'[h] = "idle"
      /\ \A g \in Handlers : g # h => pc'[g] = pc[g] /\ mem'[g] = mem[g]
  BY AnswerHolds
<1>7. "SUCCEEDED" \notin Midway \cup Expirable \cup {"NEW"}
  BY DEF Midway, Expirable
<1>8. \A g \in Handlers : g # h /\ pc[g] # "idle" => mem[g].run # r
  BY <1>1, <1>2, Alone
<1> QED
  BY <1>1, <1>5, <1>6, <1>7, <1>8, PatientFrame

LEMMA RouteReplyPatient ==
  ASSUME TypeOK, ResultInv, PatientInv, NEW h \in Handlers, RouteReply(h)
  PROVE  PatientInv'
<1> DEFINE x == InState(h, "INTERPRETING")
<1>1. /\ pc[h] = "interpreting" /\ pc[h] \notin Finishing \cup {"idle"}
      /\ UNCHANGED <<reminders, abandoned>>
  BY DEF RouteReply, Finishing
<1>2. "INTERPRETING" \in State \ {"NEW"} /\ "INTERPRETING" \in Midway
  BY DEF State, Midway
<1>3. mem[h] \in Mem /\ mem[h].loaded \in Run /\ HandlerHolds(h)
  BY <1>1, HeldTypes DEF ResultInv
<1>4. x \in Run
  BY <1>1, <1>2, <1>3, InStateIs DEF HandlerHolds
<1>5. CASE (\E new \in Routed(x) : Conclude(h, new)) /\ UNCHANGED appt
  <2>1. PICK new \in Routed(x) : Conclude(h, new)
    BY <1>5
  <2>2. Follows(new, mem[h].loaded)
    BY <1>1, <1>2, <1>4, <2>1, RoutedFollows, FollowsState
  <2> QED
    BY <1>1, <1>5, <2>1, <2>2, ConcludePatient
<1>6. ASSUME Save(h, x), NEW a \in Upcoming,
             appt' = [appt EXCEPT ![a].status = "CANCELLED"],
             GoOn(h, "finishing cancel", x, a)
      PROVE  PatientInv'
  <2>1. a \in Appts /\ "finishing cancel" \in Finishing
    BY DEF Upcoming, Finishing
  <2>2. \A b \in Appts : /\ appt'[b].bookedBy = appt[b].bookedBy
                         /\ appt'[b].status = "FREE" => appt[b].status = "FREE"
    BY <1>6, <2>1 DEF TypeOK, Appt
  <2>3. \A g \in Handlers : pc'[g] = "finishing booking" =>
          pc[g] = "finishing booking" /\ mem'[g] = mem[g]
    BY <1>6 DEF GoOn, Goto, TypeOK
  <2>4. BookingInv'
    BY <1>1, <2>2, <2>3, BookingFrame
  <2> QED
    BY <1>1, <1>2, <1>6, <2>1, <2>2, <2>4, CommitPatient
<1> QED
  BY <1>5, <1>6 DEF RouteReply

LEMMA FinishCancelPatient ==
  ASSUME TypeOK, ResultInv, PatientInv, NEW h \in Handlers, FinishCancel(h)
  PROVE  PatientInv'
<1>1. pc[h] = "finishing cancel" /\ pc[h] \in Finishing /\ HandlerHolds(h)
  BY DEF FinishCancel, Finishing, ResultInv
<1>2. mem[h].appt \in Appts
  BY <1>1 DEF HandlerHolds
<1>3. \A g \in Handlers : pc'[g] = "finishing booking" =>
        pc[g] = "finishing booking" /\ mem'[g] = mem[g]
  BY DEF FinishCancel, Answer, TypeOK
<1>4. BookingInv'
  BY <1>3, BookingFrame DEF FinishCancel
<1>5. \A b \in Appts : appt'[b].bookedBy = appt[b].bookedBy
  BY DEF FinishCancel
<1> QED
  BY <1>1, <1>2, <1>4, <1>5, FinishPatient DEF FinishCancel

LEMMA ReofferPatient ==
  ASSUME TypeOK, ResultInv, PatientInv, NEW h \in Handlers,
         pc[h] \notin Finishing \cup {"idle"}, Reoffer(h),
         UNCHANGED <<appt, reminders, abandoned>>
  PROVE  PatientInv'
<1>1. PICK new \in Offered(InState(h, "BOOKING")) : Conclude(h, new)
  BY DEF Reoffer
<1>2. "BOOKING" \in State \ {"NEW"}
  BY DEF State, Midway
<1>3. mem[h].loaded \in Run /\ HandlerHolds(h)
  BY HeldTypes DEF ResultInv
<1>4. InState(h, "BOOKING") \in Run
  BY <1>2, <1>3, InStateIs DEF HandlerHolds
<1>5. Follows(new, mem[h].loaded)
  BY <1>1, <1>2, <1>4, OfferedFollows, FollowsState
<1> QED
  BY <1>1, <1>5, ConcludePatient

(* The key was not used, as this would have ended the run.                 *)
LEMMA CheckBookingPatient ==
  ASSUME TypeOK, ResultInv, PatientInv, NEW h \in Handlers, CheckBooking(h)
  PROVE  PatientInv'
<1>1. /\ pc[h] = "checking" /\ pc[h] \notin Finishing \cup {"idle"}
      /\ UNCHANGED <<appt, reminders, abandoned>>
  BY DEF CheckBooking, Finishing
<1>2. mem[h] \in Mem /\ HandlerHolds(h)
  BY <1>1, HeldTypes DEF ResultInv
<1>3. WithKey(mem[h].key) = {}
  <2> SUFFICES ASSUME NEW a \in WithKey(mem[h].key) PROVE FALSE
    OBVIOUS
  <2>1. a \in Appts /\ appt[a].status # "FREE" /\ appt[a].key = mem[h].key
    BY DEF WithKey
  <2>2. ApptHolds(a)
    BY <2>1 DEF ResultInv
  <2>3. KeyOf[mem[h].key] = mem[h].run
    BY <1>1, <1>2 DEF HandlerHolds, Confirming
  <2>4. appt[a].bookedBy = mem[h].run
    BY <2>1, <2>2, <2>3 DEF ApptHolds
  <2> QED
    BY <1>1, <2>1, <2>4, NothingBooked DEF Finishing
<1>4. CASE Goto(h, "inserting", mem[h]) /\ UNCHANGED <<run, asked, cases, old, lock>>
  <2>1. "inserting" \in PC \ ({"idle"} \cup Finishing)
    BY DEF PC, Finishing
  <2> QED
    BY <1>1, <1>2, <1>4, <2>1, GoesPatient
<1>5. CASE Reoffer(h)
  BY <1>1, <1>5, ReofferPatient
<1> QED
  BY <1>3, <1>4, <1>5 DEF CheckBooking

LEMMA CommitInsertPatient ==
  ASSUME TypeOK, ResultInv, PatientInv, NEW h \in Handlers, CommitInsert(h)
  PROVE  PatientInv'
<1>1. /\ pc[h] = "inserting" /\ pc[h] \notin Finishing \cup {"idle"}
      /\ UNCHANGED <<reminders, abandoned>>
  BY DEF CommitInsert, Finishing
<1>2. mem[h] \in Mem /\ mem[h].run \in Runs
  BY <1>1, HeldTypes
<1>3. CASE Fail(h) /\ UNCHANGED appt
  BY <1>1, <1>3, FailPatient
<1>4. ASSUME NEW a \in Appts, appt[a].status = "FREE",
             appt' = [appt EXCEPT ![a] =
                        [NoAppt EXCEPT !.status = "BOOKED", !.slot = mem[h].slot,
                                       !.key = mem[h].key, !.bookedBy = mem[h].run]],
             GoOn(h, "finishing booking", InState(h, "BOOKING"), a),
             Save(h, InState(h, "BOOKING"))
      PROVE  PatientInv'
  <2>1. "finishing booking" \in Finishing /\ "BOOKING" \in Midway
    BY DEF Finishing, Midway
  <2>2. /\ appt'[a].status = "BOOKED" /\ appt'[a].bookedBy = mem[h].run
        /\ \A b \in Appts : b # a => appt'[b] = appt[b]
    BY <1>1, <1>4, InsertKeeps
  <2>3. \A b \in Appts : appt[b].bookedBy # mem[h].run
    BY <1>1, NothingBooked DEF Finishing
  <2>4. OneBookingPerRun'
    <3> SUFFICES ASSUME NEW b \in Appts, NEW c \in Appts,
                        appt'[b].bookedBy # None, appt'[b].bookedBy = appt'[c].bookedBy
                 PROVE  b = c
      BY DEF OneBookingPerRun
    <3>1. CASE b # a /\ c # a
      BY <2>2, <3>1 DEF PatientInv, BookingInv, OneBookingPerRun
    <3>2. CASE b = a \/ c = a
      BY <2>2, <2>3, <3>2
    <3> QED
      BY <3>1, <3>2
  <2>5. OnePendingReminder'
    BY <1>1 DEF PatientInv, BookingInv, OnePendingReminder
  <2>6. RemindersAreFirst'
    <3>1. \A b \in Appts : appt'[b].status = "FREE" => reminders'[b] = 0
      BY <1>1, <2>2 DEF PatientInv, BookingInv, RemindersAreFirst
    <3>2. /\ mem'[h].appt = a
          /\ \A g \in Handlers : g # h => pc'[g] = pc[g] /\ mem'[g] = mem[g]
      BY <1>2, <1>4 DEF GoOn, Goto, TypeOK, Mem
    <3>3. reminders[a] = 0
      BY <1>4 DEF PatientInv, BookingInv, RemindersAreFirst
    <3>4. ASSUME NEW g \in Handlers, pc'[g] = "finishing booking"
          PROVE  reminders'[mem'[g].appt] = 0
      <4>1. CASE g = h
        BY <1>1, <3>2, <3>3, <4>1
      <4>2. CASE g # h
        BY <1>1, <3>2, <3>4, <4>2 DEF PatientInv, BookingInv, RemindersAreFirst
      <4> QED
        BY <4>1, <4>2
    <3> QED
      BY <3>1, <3>4 DEF RemindersAreFirst
  <2>7. BookingInv'
    BY <2>4, <2>5, <2>6 DEF BookingInv
  <2>8. \A b \in Appts :
           \/ appt'[b].bookedBy = appt[b].bookedBy
           \/ appt'[b].bookedBy = mem[h].run
    BY <2>2
  <2> QED
    BY <1>1, <1>4, <2>1, <2>7, <2>8, CommitPatient
<1> QED
  BY <1>3, <1>4 DEF CommitInsert

(* The reminder is the appointment's first.                                *)
LEMMA FinishBookingPatient ==
  ASSUME TypeOK, ResultInv, PatientInv, NEW h \in Handlers, FinishBooking(h)
  PROVE  PatientInv'
<1>1. /\ pc[h] = "finishing booking" /\ pc[h] \in Finishing /\ pc[h] # "idle"
      /\ HandlerHolds(h)
  BY DEF FinishBooking, Finishing, ResultInv
<1>2. PICK a \in Appts : a = mem[h].appt
  BY <1>1 DEF HandlerHolds
<1>3. appt[a].status # "FREE" /\ appt[a].bookedBy = mem[h].run
  BY <1>1, <1>2 DEF HandlerHolds
<1>4. \A b \in Appts : /\ appt'[b].bookedBy = appt[b].bookedBy
                       /\ appt'[b].status = appt[b].status
  BY <1>2 DEF FinishBooking, Linked, TypeOK, Appt
<1>5. /\ pc'[h] = "idle"
      /\ \A g \in Handlers : g # h => pc'[g] = pc[g] /\ mem'[g] = mem[g]
  BY AnswerHolds DEF FinishBooking
<1>6. reminders[a] = 0
  BY <1>1, <1>2 DEF PatientInv, BookingInv, RemindersAreFirst
<1>7. reminders' = [reminders EXCEPT ![a] = 1]
  <2>1. reminders' = [reminders EXCEPT ![a] = reminders[a] + 1]
    BY <1>2 DEF FinishBooking
  <2>2. reminders[a] + 1 = 1
    BY <1>6
  <2> QED
    BY <2>1, <2>2
<1>8. reminders'[a] = 1 /\ \A b \in Appts : b # a => reminders'[b] = reminders[b]
  BY <1>7 DEF TypeOK
<1>9. OneBookingPerRun'
  BY <1>4 DEF PatientInv, BookingInv, OneBookingPerRun
<1>10. OnePendingReminder'
  BY <1>8 DEF PatientInv, BookingInv, OnePendingReminder
<1>11. RemindersAreFirst'
  <2>1. \A b \in Appts : appt'[b].status = "FREE" => reminders'[b] = 0
    BY <1>3, <1>4, <1>8 DEF PatientInv, BookingInv, RemindersAreFirst
  <2>2. ASSUME NEW g \in Handlers, pc'[g] = "finishing booking"
        PROVE  reminders'[mem'[g].appt] = 0
    <3>1. g # h /\ pc[g] = "finishing booking" /\ mem'[g] = mem[g]
      BY <1>5, <2>2
    <3>2. HandlerHolds(g)
      BY DEF ResultInv
    <3>3. mem[g].appt \in Appts /\ appt[mem[g].appt].bookedBy = mem[g].run
      BY <3>1, <3>2 DEF HandlerHolds, Finishing
    <3>4. mem[g].run # mem[h].run
      BY <1>1, <3>1, Alone
    <3>5. mem[g].appt # a
      BY <1>3, <3>3, <3>4
    <3>6. reminders[mem[g].appt] = 0
      BY <3>1 DEF PatientInv, BookingInv, RemindersAreFirst
    <3> QED
      BY <1>8, <3>1, <3>3, <3>5, <3>6
  <2> QED
    BY <2>1, <2>2 DEF RemindersAreFirst
<1>12. BookingInv'
  BY <1>9, <1>10, <1>11 DEF BookingInv
<1>13. /\ Save(h, [InState(h, "SUCCEEDED") EXCEPT !.result = a]) /\ Answer(h)
       /\ UNCHANGED abandoned
  BY <1>2 DEF FinishBooking
<1> QED
  BY <1>1, <1>4, <1>12, <1>13, FinishPatient

LEMMA CheckMovePatient ==
  ASSUME TypeOK, ResultInv, PatientInv, NEW h \in Handlers, CheckMove(h)
  PROVE  PatientInv'
<1> DEFINE t == mem[h].loaded.target
<1>1. /\ pc[h] = "rechecking" /\ pc[h] \notin Finishing \cup {"idle"}
      /\ UNCHANGED <<appt, reminders, abandoned>>
  BY DEF CheckMove, Finishing
<1>2. mem[h] \in Mem /\ mem[h].loaded \in Run
  BY <1>1, HeldTypes
<1>3. CASE Conclude(h, Escalated(mem[h].loaded))
  <2>1. Follows(Escalated(mem[h].loaded), mem[h].loaded)
    BY <1>2, StateTypes DEF Escalated, Follows, Outcomes, State, Terminal, Expirable
  <2> QED
    BY <1>1, <1>3, <2>1, ConcludePatient
<1>4. CASE /\ t \in Upcoming
           /\ Goto(h, "moving", [mem[h] EXCEPT !.appt = t])
           /\ UNCHANGED <<run, asked, cases, old, lock>>
  <2> DEFINE m == [mem[h] EXCEPT !.appt = t]
  <2>1. m \in Mem /\ m.run = mem[h].run /\ m.loaded = mem[h].loaded
    BY <1>2, <1>4 DEF Mem, Upcoming
  <2> HIDE DEF m, t
  <2>2. Goto(h, "moving", m) /\ "moving" \in PC \ ({"idle"} \cup Finishing)
    BY <1>4 DEF m, PC, Finishing
  <2> QED
    BY <1>1, <1>4, <2>1, <2>2, GoesPatient
<1>5. CASE Reoffer(h)
  BY <1>1, <1>5, ReofferPatient
<1> QED
  BY <1>3, <1>4, <1>5 DEF CheckMove

LEMMA CommitMovePatient ==
  ASSUME TypeOK, ResultInv, PatientInv, NEW h \in Handlers, CommitMove(h)
  PROVE  PatientInv'
<1>1. /\ pc[h] = "moving" /\ pc[h] \notin Finishing \cup {"idle"} /\ HandlerHolds(h)
      /\ UNCHANGED <<reminders, abandoned>>
  BY DEF CommitMove, Finishing, ResultInv
<1>2. pc[h] \in Confirming /\ "BOOKING" \in Midway /\ "finishing move" \in Finishing
  BY <1>1 DEF Confirming, Finishing, Midway
<1>3. PICK t \in Appts : t = mem[h].appt
  BY <1>1 DEF HandlerHolds
<1>4. appt[t].status # "FREE" /\ mem[h].slot \in Slots
  BY <1>1, <1>2, <1>3 DEF HandlerHolds
<1>5. CASE Fail(h) /\ UNCHANGED appt
  BY <1>1, <1>5, FailPatient
<1>6. CASE /\ appt' = [appt EXCEPT ![t].slot = mem[h].slot]
           /\ Save(h, InState(h, "BOOKING"))
           /\ GoOn(h, "finishing move", InState(h, "BOOKING"), t)
  <2>1. \A b \in Appts : /\ appt'[b].bookedBy = appt[b].bookedBy
                         /\ appt'[b].status = "FREE" => appt[b].status = "FREE"
    BY <1>4, <1>6, MoveKeeps
  <2>2. \A g \in Handlers : pc'[g] = "finishing booking" =>
          pc[g] = "finishing booking" /\ mem'[g] = mem[g]
    BY <1>6 DEF GoOn, Goto, TypeOK
  <2>3. BookingInv'
    BY <1>1, <2>1, <2>2, BookingFrame
  <2> QED
    BY <1>1, <1>2, <1>6, <2>1, <2>3, CommitPatient
<1> QED
  BY <1>3, <1>5, <1>6 DEF CommitMove

(* The reminder can be looked up.                                          *)
LEMMA FinishMovePatient ==
  ASSUME TypeOK, ResultInv, PatientInv, NEW h \in Handlers, FinishMove(h)
  PROVE  PatientInv'
<1>1. pc[h] = "finishing move" /\ pc[h] \in Finishing /\ HandlerHolds(h)
  BY DEF FinishMove, Finishing, ResultInv
<1>2. mem[h].appt \in Appts
  BY <1>1 DEF HandlerHolds
<1>3. ReminderIsUnique(mem[h].appt)
  BY <1>2 DEF PatientInv, BookingInv, OnePendingReminder, ReminderIsUnique
<1>4. /\ Save(h, [InState(h, "SUCCEEDED") EXCEPT !.result = mem[h].appt]) /\ Answer(h)
      /\ UNCHANGED <<appt, reminders, abandoned>>
  BY <1>3 DEF FinishMove
<1>5. \A g \in Handlers : pc'[g] = "finishing booking" =>
        pc[g] = "finishing booking" /\ mem'[g] = mem[g]
  BY <1>4 DEF Answer, TypeOK
<1>6. BookingInv'
  BY <1>4, <1>5, BookingFrame
<1>7. \A b \in Appts : appt'[b].bookedBy = appt[b].bookedBy
  BY <1>4
<1> QED
  BY <1>1, <1>2, <1>4, <1>6, <1>7, FinishPatient

LEMMA HandlerStepPatient ==
  ASSUME TypeOK, ResultInv, PatientInv, NEW h \in Handlers, HandlerStep(h)
  PROVE  PatientInv'
<1>1. CASE LockReply(h)
  <2>1. /\ pc[h] \notin Finishing \cup {"idle"} /\ mem[h] \in Mem
        /\ "interpreting" \in PC \ ({"idle"} \cup Finishing)
    BY <1>1 DEF LockReply, Finishing, PC, TypeOK
  <2> QED
    BY <1>1, <2>1, GoesPatient DEF LockReply
<1>2. CASE LockConfirm(h)
  <2> DEFINE where == IF mem[h].loaded.target = None THEN "checking" ELSE "rechecking"
  <2>1. /\ pc[h] \notin Finishing \cup {"idle"} /\ mem[h] \in Mem
        /\ where \in PC \ ({"idle"} \cup Finishing)
    BY <1>2 DEF LockConfirm, Finishing, PC, TypeOK
  <2>2. Goto(h, where, mem[h]) /\ UNCHANGED <<run, appt, reminders, asked, abandoned>>
    BY <1>2 DEF LockConfirm
  <2> HIDE DEF where
  <2> QED
    BY <2>1, <2>2, GoesPatient
<1> QED
  BY <1>1, <1>2, RouteReplyPatient, FinishCancelPatient, CheckBookingPatient,
     CommitInsertPatient, FinishBookingPatient, CheckMovePatient, CommitMovePatient,
     FinishMovePatient DEF HandlerStep

LEMMA LoadPatient ==
  ASSUME TypeOK, ResultInv, PatientInv, NEW h \in Handlers, pc[h] = "idle",
         NEW r \in Runs, run[r].state \in Expirable, ~ Busy(r),
         NEW where \in {"replying", "confirming"},
         NEW s \in Slots \cup {None}, NEW k \in Keys \cup {None},
         Load(h, r, where, s, k),
         UNCHANGED <<run, appt, reminders, asked, abandoned>>
  PROVE  PatientInv'
<1> DEFINE m == [NoMem EXCEPT !.run = r, !.loaded = run[r], !.slot = s, !.key = k]
<1>1. run[r] \in Run
  BY DEF TypeOK
<1>2. m \in Mem /\ m.run = r /\ m.loaded = run[r]
  BY <1>1 DEF NoMem, Mem
<1>3. where \in PC /\ where # "finishing booking"
  BY DEF PC
<1> HIDE DEF m
<1>4. Goto(h, where, m)
  BY DEF Load, m
<1>5. /\ pc'[h] = where /\ mem'[h] = m
      /\ \A g \in Handlers : g # h => pc'[g] = pc[g] /\ mem'[g] = mem[g]
  BY <1>2, <1>3, <1>4, GotoHolds
<1>6. LoadedIsCurrent(h)'
  BY <1>2, <1>5 DEF LoadedIsCurrent
<1>7. RoundsAreAsked(r)'
  BY DEF PatientInv, RoundsAreAsked
<1>8. BookingInv'
  BY <1>3, <1>5, BookingFrame
<1>9. \A a \in Appts : appt'[a].bookedBy # r
  BY RunConstants DEF PatientInv, BookedIsOver
<1>10. \A a \in Appts : appt'[a].bookedBy = appt[a].bookedBy
  OBVIOUS
<1>11. \A g \in Handlers : g # h /\ pc[g] # "idle" => mem[g].run # r
  BY DEF Busy
<1>12. run'[r].state \notin Midway
  BY DEF Midway, Expirable
<1> QED
  BY <1>2, <1>5, <1>6, <1>7, <1>8, <1>9, <1>10, <1>11, <1>12, PatientFrame

(* A run that is just created is nobody's, and has not booked.             *)
LEMMA StartRequestPatient ==
  ASSUME TypeOK, ResultInv, PatientInv, NEW h \in Handlers, StartRequest(h)
  PROVE  PatientInv'
<1> DEFINE x == [NoRun EXCEPT !.state = "INTERPRETING"]
           m(r, a) == [NoMem EXCEPT !.run = r, !.loaded = x, !.appt = a]
<1>1. PICK r \in Runs :
        /\ run[r] = NoRun
        /\ \A g \in Handlers : mem[g].run # r
        /\ \/ \E new \in Routed(x) :
                 /\ run' = [run EXCEPT ![r] = new]
                 /\ asked' = [asked EXCEPT ![r] = new.rounds]
                 /\ Answer(h)
                 /\ UNCHANGED appt
           \/ /\ \E a \in Upcoming :
                    /\ appt' = [appt EXCEPT ![a].status = "CANCELLED"]
                    /\ Goto(h, "finishing cancel", m(r, a))
              /\ run' = [run EXCEPT ![r] = x]
              /\ UNCHANGED asked
  BY DEF StartRequest
<1>2. pc[h] = "idle" /\ UNCHANGED <<reminders, abandoned>>
  BY DEF StartRequest
<1>3. /\ x \in Run /\ x.state = "INTERPRETING" /\ x.rounds = 0
  BY StartIs
<1> HIDE DEF x
<1>4. asked[r] = 0 /\ run[r].state = "NEW" /\ 0 =< MAX_CLARIFICATION_ROUNDS
  BY <1>1, BlankTypes DEF PatientInv, RoundsAreAsked
<1>5. \A a \in Appts : appt[a].bookedBy # r
  BY <1>4, RunConstants DEF PatientInv, BookedIsOver
<1>6. \A y : run' = [run EXCEPT ![r] = y] =>
        run'[r] = y /\ \A q \in Runs : q # r => run'[q] = run[q]
  BY DEF TypeOK
<1>7. ASSUME NEW new \in Routed(x), run' = [run EXCEPT ![r] = new],
             asked' = [asked EXCEPT ![r] = new.rounds], Answer(h), UNCHANGED appt
      PROVE  PatientInv'
  <2>1. /\ new \in Run /\ new.state \notin Midway /\ new.rounds =< MAX_CLARIFICATION_ROUNDS
    <3>1. Follows(new, x)
      BY <1>3, RoutedFollows
    <3>2. new \in Run /\ new.state \notin Midway
      BY <3>1 DEF Follows, Outcomes, Expirable, Midway
    <3>3. new.rounds =< MAX_CLARIFICATION_ROUNDS
      BY <1>3, <1>4, <3>1 DEF Follows
    <3> QED
      BY <3>2, <3>3
  <2>2. asked'[r] = new.rounds /\ \A q \in Runs : q # r => asked'[q] = asked[q]
    BY <1>7 DEF TypeOK
  <2>3. RoundsAreAsked(r)'
    BY <1>6, <1>7, <2>1, <2>2 DEF RoundsAreAsked
  <2>4. /\ pc'[h] = "idle"
        /\ \A g \in Handlers : g # h => pc'[g] = pc[g] /\ mem'[g] = mem[g]
    BY <1>7, AnswerHolds
  <2>5. BookingInv'
    BY <1>2, <1>7, <2>4, BookingFrame
  <2>6. run'[r].state \notin Midway
    BY <1>6, <1>7, <2>1
  <2> QED
    BY <1>1, <1>2, <1>5, <1>6, <1>7, <2>2, <2>3, <2>4, <2>5, <2>6, PatientFrame
<1>8. ASSUME NEW a \in Upcoming, appt' = [appt EXCEPT ![a].status = "CANCELLED"],
             Goto(h, "finishing cancel", m(r, a)),
             run' = [run EXCEPT ![r] = x], UNCHANGED asked
      PROVE  PatientInv'
  <2>1. a \in Appts
    BY DEF Upcoming
  <2>2. m(r, a) \in Mem /\ m(r, a).run = r /\ m(r, a).loaded = x
    BY <1>3, <2>1 DEF NoMem, Mem
  <2> HIDE DEF m
  <2>3. /\ pc'[h] = "finishing cancel" /\ mem'[h] = m(r, a)
        /\ \A g \in Handlers : g # h => pc'[g] = pc[g] /\ mem'[g] = mem[g]
    BY <1>8, <2>2, GotoHolds DEF PC
  <2>4. \A b \in Appts : /\ appt'[b].bookedBy = appt[b].bookedBy
                         /\ appt'[b].status = "FREE" => appt[b].status = "FREE"
    BY <1>8, <2>1 DEF TypeOK, Appt
  <2>5. BookingInv'
    BY <1>2, <2>3, <2>4, BookingFrame
  <2>6. run'[r] = x /\ \A q \in Runs : q # r => run'[q] = run[q]
    BY <1>6, <1>8
  <2>7. RoundsAreAsked(r)'
    BY <1>3, <1>4, <1>8, <2>6 DEF RoundsAreAsked
  <2>8. LoadedIsCurrent(h)'
    BY <2>2, <2>3, <2>6 DEF LoadedIsCurrent, Finishing
  <2>9. pc'[h] # "idle" /\ mem'[h].run = r
    BY <2>2, <2>3
  <2>10. \A b \in Appts : appt'[b].bookedBy # r
    BY <1>5, <2>4
  <2> QED
    <3>1. \A q \in Runs : q # r => run'[q] = run[q] /\ asked'[q] = asked[q]
      BY <1>8, <2>6
    <3>2. \A b \in Appts :
            IF appt'[b].bookedBy = r
              THEN /\ run'[r].state \notin Expirable \cup {"NEW"}
                   /\ pc'[h] \in {"idle", "finishing booking"}
              ELSE appt'[b].bookedBy = appt[b].bookedBy
      BY <2>4, <2>10
    <3> QED
      BY <1>1, <1>2, <2>3, <2>5, <2>7, <2>8, <2>9, <3>1, <3>2, PatientFrame
<1> QED
  BY <1>1, <1>7, <1>8

LEMMA LoadsPatient ==
  ASSUME TypeOK, ResultInv, PatientInv, NEW h \in Handlers,
         LoadReply(h) \/ LoadConfirm(h)
  PROVE  PatientInv'
<1>1. Patient /\ pc[h] = "idle" /\ UNCHANGED <<run, appt, reminders, asked, abandoned>>
  BY DEF PatientInv, LoadReply, LoadConfirm
<1>2. CASE LoadReply(h)
  <2>1. PICK r \in Runs :
          /\ run[r].state = "AWAITING_CLARIFICATION" /\ ~ Busy(r)
          /\ Load(h, r, "replying", None, None)
    BY <1>1, <1>2 DEF LoadReply
  <2> QED
    BY <1>1, <2>1, LoadPatient DEF Expirable
<1>3. CASE LoadConfirm(h)
  <2>1. PICK k \in Keys : \E r \in {KeyOf[k]} : \E s \in run[r].offered :
          ~ Busy(r) /\ IsConfirmable(r) /\ Load(h, r, "confirming", s, k)
    BY <1>1, <1>3 DEF LoadConfirm
  <2> DEFINE r == KeyOf[k]
  <2>2. PICK s \in run[r].offered :
          ~ Busy(r) /\ IsConfirmable(r) /\ Load(h, r, "confirming", s, k)
    BY <2>1
  <2>3. r \in Runs
    BY RunConstants
  <2>4. s \in Slots /\ run[r].state \in Expirable
    BY <2>2, <2>3 DEF TypeOK, Run, IsConfirmable, Expirable
  <2> QED
    BY <1>1, <2>2, <2>3, <2>4, LoadPatient
<1> QED
  BY <1>2, <1>3

(* A crash is remembered for a run that it leaves midway.                  *)
LEMMA HandlerDiesPatient ==
  ASSUME TypeOK, ResultInv, PatientInv, NEW h \in Handlers, HandlerDies(h)
  PROVE  PatientInv'
<1>1. /\ pc[h] # "idle" /\ Answer(h) /\ UNCHANGED <<run, appt, reminders, asked>>
      /\ abandoned' = abandoned \cup {r \in Runs : mem[h].run = r /\ run[r].state \in Midway}
  BY DEF HandlerDies, Answer
<1>2. PICK r \in Runs : r = mem[h].run
  BY <1>1, HeldTypes
<1>3. /\ pc'[h] = "idle"
      /\ \A g \in Handlers : g # h => pc'[g] = pc[g] /\ mem'[g] = mem[g]
  BY <1>1, AnswerHolds
<1>4. RoundsAreAsked(r)'
  BY <1>1 DEF PatientInv, RoundsAreAsked
<1>5. BookingInv'
  BY <1>1, <1>3, BookingFrame
<1>6. \A a \in Appts : appt[a].bookedBy = r => run[r].state \notin Expirable \cup {"NEW"}
  BY RunConstants DEF PatientInv, BookedIsOver
<1>7. \A a \in Appts :
        IF appt'[a].bookedBy = r
          THEN /\ run'[r].state \notin Expirable \cup {"NEW"}
               /\ pc'[h] \in {"idle", "finishing booking"}
          ELSE appt'[a].bookedBy = appt[a].bookedBy
  BY <1>1, <1>3, <1>6
<1>8. run'[r].state \in Midway => r \in abandoned'
  BY <1>1, <1>2
<1>9. \A g \in Handlers : g # h /\ pc[g] # "idle" => mem[g].run # r
  BY <1>1, <1>2, Alone
<1>10. \A q \in Runs : q # r => run'[q] = run[q] /\ asked'[q] = asked[q]
  BY <1>1
<1>11. abandoned \subseteq abandoned'
  BY <1>1
<1> QED
  BY <1>2, <1>3, <1>4, <1>5, <1>7, <1>8, <1>9, <1>10, <1>11, PatientFrame

(* Sweeps close runs, or start them, and count no questions.               *)
LEMMA SweepPatient ==
  ASSUME TypeOK, ResultInv, PatientInv, UNCHANGED <<pc, mem, asked, abandoned>>,
         BookingInv', \A a \in Appts : appt'[a].bookedBy = appt[a].bookedBy,
         \A r \in Runs :
           /\ run'[r].rounds = run[r].rounds
           /\ \/ run'[r].state \in {run[r].state, "EXPIRED"}
              \/ run[r].state = "NEW" /\ run'[r].state \in Expirable
  PROVE  PatientInv'
<1>1. OneHandler'
  BY DEF PatientInv, OneHandler
<1>2. ASSUME NEW h \in Handlers PROVE LoadedIsCurrent(h)'
  <2>1. CASE pc[h] = "idle"
    BY <2>1 DEF LoadedIsCurrent
  <2>2. CASE pc[h] # "idle"
    <3>1. mem[h].run \in Runs /\ run[mem[h].run].state # "NEW"
      BY <2>2, HeldTypes
    <3> QED
      BY <2>2, <3>1 DEF PatientInv, LoadedIsCurrent
  <2> QED
    BY <2>1, <2>2
<1>3. ASSUME NEW a \in Appts PROVE BookedIsOver(a)'
  <2>1. CASE appt[a].bookedBy = None
    BY <2>1 DEF BookedIsOver
  <2>2. CASE appt[a].bookedBy # None
    <3>1. appt[a] \in Appt /\ BookedIsOver(a)
      BY DEF TypeOK, PatientInv
    <3>2. PICK r \in Runs : r = appt[a].bookedBy
      BY <2>2, <3>1 DEF Appt
    <3>3. /\ run[r].state \notin Expirable \cup {"NEW"}
          /\ \A h \in Handlers : pc[h] # "idle" /\ mem[h].run = r => pc[h] = "finishing booking"
      BY <2>2, <3>1, <3>2 DEF BookedIsOver
    <3>4. run'[r].state \notin Expirable \cup {"NEW"}
      BY <3>3 DEF Expirable
    <3>5. appt'[a].bookedBy = r
      BY <3>2
    <3> QED
      BY <3>3, <3>4, <3>5 DEF BookedIsOver
  <2> QED
    BY <2>1, <2>2
<1>4. ASSUME NEW r \in Runs PROVE RoundsAreAsked(r)'
  BY DEF PatientInv, RoundsAreAsked
<1>5. NoRunIsStranded'
  <2> SUFFICES ASSUME NEW r \in Runs, run'[r].state \in Midway
               PROVE  Busy(r)' \/ r \in abandoned'
    BY DEF NoRunIsStranded
  <2>1. run[r].state \in Midway
    BY DEF Midway, Expirable
  <2> QED
    BY <2>1 DEF PatientInv, NoRunIsStranded, Busy
<1> QED
  BY <1>1, <1>2, <1>3, <1>4, <1>5 DEF PatientInv

LEMMA QuietPatient ==
  ASSUME TypeOK, ResultInv, PatientInv,
         UNCHANGED <<run, appt, reminders, pc, mem, asked, abandoned>>
  PROVE  PatientInv'
<1>1. BookingInv'
  BY BookingFrame
<1> QED
  BY <1>1, SweepPatient

LEMMA PatientStep == TypeOK /\ ResultInv /\ PatientInv /\ [Next]_vars => PatientInv'
<1> SUFFICES ASSUME TypeOK, ResultInv, PatientInv, [Next]_vars PROVE PatientInv'
  OBVIOUS
<1>1. ASSUME NEW h \in Handlers, HandlerNext(h) PROVE PatientInv'
  BY <1>1, StartRequestPatient, LoadsPatient, HandlerStepPatient, HandlerDiesPatient
     DEF HandlerNext
<1>2. ASSUME NEW w \in Workers, ExpireStale(w) PROVE PatientInv'
  <2>1. UNCHANGED <<appt, reminders, pc, mem, asked, abandoned>>
    BY <1>2 DEF ExpireStale
  <2>2. \A r \in Runs : run'[r].rounds = run[r].rounds
                        /\ run'[r].state \in {run[r].state, "EXPIRED"}
    BY <1>2 DEF ExpireStale, TypeOK, Run
  <2>3. BookingInv'
    BY <2>1, BookingFrame
  <2> QED
    BY <2>1, <2>2, <2>3, SweepPatient
<1>3. ASSUME NEW w \in Workers, LoadStale(w) \/ LockStale(w) \/ WorkerDies(w)
      PROVE  PatientInv'
  BY <1>3, QuietPatient DEF LoadStale, LockStale, WorkerDies
<1>4. ASSUME NEW a \in Appts, SendReminders(a) PROVE PatientInv'
  <2>1. UNCHANGED <<run, appt, pc, mem, asked, abandoned>>
    BY <1>4 DEF SendReminders
  <2>2. \A b \in Appts : reminders'[b] \in {0, reminders[b]}
    BY <1>4 DEF SendReminders, TypeOK
  <2>3. OnePendingReminder'
    BY <2>2 DEF PatientInv, BookingInv, OnePendingReminder
  <2>4. RemindersAreFirst'
    <3>1. \A b \in Appts : appt'[b].status = "FREE" => reminders'[b] = 0
      BY <2>1, <2>2 DEF PatientInv, BookingInv, RemindersAreFirst
    <3>2. ASSUME NEW h \in Handlers, pc'[h] = "finishing booking"
          PROVE  reminders'[mem'[h].appt] = 0
      <4>1. HandlerHolds(h) /\ pc[h] = "finishing booking"
        BY <2>1, <3>2 DEF ResultInv
      <4>2. mem[h].appt \in Appts
        BY <4>1 DEF HandlerHolds, Finishing
      <4> QED
        BY <2>1, <2>2, <4>1, <4>2 DEF PatientInv, BookingInv, RemindersAreFirst
    <3> QED
      BY <3>1, <3>2 DEF RemindersAreFirst
  <2>5. BookingInv'
    BY <2>1, <2>3, <2>4 DEF PatientInv, BookingInv, OneBookingPerRun
  <2> QED
    BY <2>1, <2>5, SweepPatient
<1>5. ASSUME NEW a \in Appts, MarkNoShow(a) PROVE PatientInv'
  <2>1. UNCHANGED <<reminders, pc, mem, asked, abandoned>>
    BY <1>5 DEF MarkNoShow
  <2>2. PICK r \in Runs :
          /\ run[r] = NoRun
          /\ run' = [run EXCEPT ![r] = [NoRun EXCEPT !.state = "AWAITING_CLARIFICATION",
                                                     !.missed = a]]
    BY <1>5 DEF MarkNoShow
  <2>3. \A q \in Runs :
          /\ run'[q].rounds = run[q].rounds
          /\ \/ run'[q].state = run[q].state
             \/ run[q].state = "NEW" /\ run'[q].state \in Expirable
    BY <2>2 DEF TypeOK, NoRun, Run, Expirable
  <2>4. \A b \in Appts : /\ appt'[b].bookedBy = appt[b].bookedBy
                         /\ appt'[b].status = "FREE" => appt[b].status = "FREE"
    BY <1>5 DEF MarkNoShow, TypeOK, Appt
  <2>5. BookingInv'
    BY <2>1, <2>4, BookingFrame
  <2> QED
    BY <2>1, <2>3, <2>4, <2>5, SweepPatient
<1>6. ASSUME NEW s \in Slots, SlotPasses(s) PROVE PatientInv'
  BY <1>6, QuietPatient DEF SlotPasses
<1>7. CASE Age
  BY <1>7, QuietPatient DEF Age
<1>8. CASE UNCHANGED vars
  BY <1>8, QuietPatient DEF vars
<1> QED
  BY <1>1, <1>2, <1>3, <1>4, <1>5, <1>6, <1>7, <1>8 DEF Next, WorkerNext

LEMMA InitPatient == Patient /\ Init => PatientInv
<1> SUFFICES ASSUME Patient, Init PROVE PatientInv
  OBVIOUS
<1>1. OneHandler /\ \A h \in Handlers : LoadedIsCurrent(h)
  BY DEF Init, OneHandler, LoadedIsCurrent
<1>2. \A a \in Appts : BookedIsOver(a)
  BY BlankTypes DEF Init, BookedIsOver
<1>3. \A r \in Runs : RoundsAreAsked(r)
  BY BlankTypes, RunConstants DEF Init, RoundsAreAsked
<1>4. BookingInv
  BY BlankTypes DEF Init, BookingInv, OneBookingPerRun, OnePendingReminder, RemindersAreFirst
<1>5. NoRunIsStranded
  BY BlankTypes DEF Init, NoRunIsStranded, Midway
<1> QED
  BY <1>1, <1>2, <1>3, <1>4, <1>5 DEF PatientInv

LEMMA PatientInvCorrect == Patient /\ Spec => []PatientInv
<1>1. Patient /\ Init => PatientInv
  BY InitPatient
<1>2. TypeOK /\ ResultInv /\ PatientInv /\ [Next]_vars => PatientInv'
  BY PatientStep
<1> QED
  BY <1>1, <1>2, ResultInvCorrect, PTL DEF Spec

(* Clients that wait book one appointment in a conversation, through       *)
(* expiry, other offers, crashes and lost answers (orchestrator.py         *)
(* confirm_booking).                                                       *)
THEOREM OneBookingPerRunCorrect == Patient /\ Spec => []OneBookingPerRun
<1>1. PatientInv => OneBookingPerRun
  BY DEF PatientInv, BookingInv
<1> QED
  BY <1>1, PatientInvCorrect, PTL

(* and an appointment has one pending reminder at most                     *)
(* (orchestrator.py _reschedule_pending_reminder relies on it).            *)
THEOREM OnePendingReminderCorrect == Patient /\ Spec => []OnePendingReminder
<1>1. PatientInv => OnePendingReminder
  BY DEF PatientInv, BookingInv
<1> QED
  BY <1>1, PatientInvCorrect, PTL

(* They are asked no more questions than the limit                         *)
(* (MAX_CLARIFICATION_ROUNDS).                                             *)
THEOREM BoundedClarificationCorrect == Patient /\ Spec => []BoundedClarification
<1>1. PatientInv => BoundedClarification
  BY DEF PatientInv, RoundsAreAsked, BoundedClarification
<1> QED
  BY <1>1, PatientInvCorrect, PTL

(* Nothing but a crash leaves a run where no request, reply or sweep picks *)
(* it up (jobs.py expire_stale_runs).                                      *)
THEOREM NoRunIsStrandedCorrect == Patient /\ Spec => []NoRunIsStranded
<1>1. PatientInv => NoRunIsStranded
  BY DEF PatientInv
<1> QED
  BY <1>1, PatientInvCorrect, PTL

-----------------------------------------------------------------------------
(* What a terminal state is worth.                                         *)

(* The terminal states a request leaves a run in.                          *)
Settled == {"SUCCEEDED", "FAILED", "ESCALATED"}

(* A run that a request still holds is not settled.                        *)
HeldIsOpen(h) == pc[h] # "idle" => run[mem[h].run].state \notin Settled

OpenInv == \A h \in Handlers : HeldIsOpen(h)

(* A request writes its own run, which it then has answered about or left  *)
(* midway.                                                                 *)
WritesOwn(h) ==
  /\ \A q \in Runs : q # mem[h].run => run'[q] = run[q]
  /\ \A g \in Handlers : g # h => pc'[g] = pc[g] /\ mem'[g] = mem[g]
  /\ \/ pc'[h] = "idle"
     \/ /\ mem'[h].run = mem[h].run
        /\ \/ run'[mem[h].run] = run[mem[h].run]
           \/ run'[mem[h].run].state \in Midway
  /\ run'[mem[h].run] = run[mem[h].run] \/ run'[mem[h].run].state # "EXPIRED"

LEMMA GoesOwn ==
  ASSUME TypeOK, ResultInv, NEW h \in Handlers, pc[h] # "idle", NEW where \in PC,
         NEW m \in Mem, m.run = mem[h].run, Goto(h, where, m), UNCHANGED run
  PROVE  WritesOwn(h)
BY GotoHolds DEF WritesOwn

LEMMA FailOwn ==
  ASSUME TypeOK, NEW h \in Handlers, Fail(h)
  PROVE  WritesOwn(h)
BY AnswerHolds DEF Fail, WritesOwn

LEMMA AnswerOwn ==
  ASSUME TypeOK, ResultInv, NEW h \in Handlers, pc[h] # "idle",
         NEW new \in Run, new.state # "EXPIRED", Save(h, new), Answer(h)
  PROVE  WritesOwn(h)
<1>1. mem[h].run \in Runs
  BY HeldTypes
<1> QED
  BY <1>1, AnswerHolds, SaveSaves DEF Saved, WritesOwn

LEMMA ConcludeOwn ==
  ASSUME TypeOK, ResultInv, NEW h \in Handlers, pc[h] # "idle",
         NEW new \in Run, new.state # "EXPIRED", Conclude(h, new)
  PROVE  WritesOwn(h)
BY FailOwn, AnswerOwn DEF Conclude

(* A commit in the middle of a request.                                    *)
LEMMA CommitOwn ==
  ASSUME TypeOK, ResultInv, NEW h \in Handlers, pc[h] # "idle",
         NEW where \in PC, NEW s \in Midway, NEW a \in Appts \cup {None},
         Save(h, InState(h, s)), GoOn(h, where, InState(h, s), a)
  PROVE  WritesOwn(h)
<1>1. /\ mem[h] \in Mem /\ mem[h].run \in Runs
      /\ mem[h].loaded \in Run /\ mem[h].loaded.state # "NEW"
  BY HeldTypes DEF ResultInv, HandlerHolds
<1>2. s \in State \ {"NEW"} /\ s # "EXPIRED"
  BY DEF Midway, State
<1>3. InState(h, s) \in Run /\ InState(h, s).state = s
  BY <1>1, <1>2, InStateIs
<1> DEFINE m == [mem[h] EXCEPT !.loaded = InState(h, s), !.appt = a]
<1>4. m \in Mem /\ m.run = mem[h].run
  BY <1>1, <1>3 DEF Mem
<1> HIDE DEF m
<1>5. Goto(h, where, m)
  BY DEF GoOn, m
<1> QED
  BY <1>1, <1>2, <1>3, <1>4, <1>5, GotoHolds, SaveSaves DEF Saved, WritesOwn

LEMMA HandlerStepOwn ==
  ASSUME TypeOK, ResultInv, NEW h \in Handlers, HandlerStep(h)
  PROVE  pc[h] # "idle" /\ WritesOwn(h)
<1>1. pc[h] # "idle"
  BY DEF HandlerStep, LockReply, RouteReply, FinishCancel, LockConfirm, CheckBooking,
         CommitInsert, FinishBooking, CheckMove, CommitMove, FinishMove
<1>2. /\ mem[h] \in Mem /\ mem[h].run \in Runs
      /\ mem[h].loaded \in Run /\ mem[h].loaded.state # "NEW"
  BY <1>1, HeldTypes DEF ResultInv, HandlerHolds
<1>3. \A s \in {"SUCCEEDED", "BOOKING", "INTERPRETING"} :
         /\ InState(h, s) \in Run /\ InState(h, s).state = s
         /\ s # "EXPIRED"
  BY <1>2, InStateIs DEF State, Midway, Terminal
<1>4. \A x \in Run : \A new : Follows(new, x) => new \in Run /\ new.state # "EXPIRED"
  BY DEF Follows, Outcomes, Expirable
<1>5. \A where \in PC, a \in Appts \cup {None}, s \in {"BOOKING", "INTERPRETING"} :
        Save(h, InState(h, s)) /\ GoOn(h, where, InState(h, s), a) => WritesOwn(h)
  BY <1>1, CommitOwn DEF Midway
<1>6. CASE LockReply(h)
  BY <1>1, <1>2, <1>6, GoesOwn DEF LockReply, PC
<1>7. CASE RouteReply(h)
  <2> DEFINE x == InState(h, "INTERPRETING")
  <2>1. ASSUME NEW new \in Routed(x), Conclude(h, new) PROVE WritesOwn(h)
    BY <1>1, <1>3, <1>4, <2>1, RoutedFollows, ConcludeOwn
  <2>2. "finishing cancel" \in PC
    BY DEF PC
  <2> QED
    BY <1>5, <1>7, <2>1, <2>2 DEF RouteReply, Upcoming
<1>8. CASE FinishCancel(h)
  <2> DEFINE new == [InState(h, "SUCCEEDED") EXCEPT !.result = mem[h].appt]
  <2>1. new \in Run /\ new.state # "EXPIRED"
    BY <1>2, <1>3 DEF Run, Mem
  <2>2. Save(h, new) /\ Answer(h)
    BY <1>8 DEF FinishCancel
  <2> HIDE DEF new
  <2> QED
    BY <1>1, <2>1, <2>2, AnswerOwn
<1>9. CASE LockConfirm(h)
  BY <1>1, <1>2, <1>9, GoesOwn DEF LockConfirm, PC
<1>10. ASSUME Reoffer(h) PROVE WritesOwn(h)
  <2>1. PICK new \in Offered(InState(h, "BOOKING")) : Conclude(h, new)
    BY <1>10 DEF Reoffer
  <2>2. new \in Run /\ new.state # "EXPIRED"
    BY <1>3, <1>4, <2>1, OfferedFollows
  <2> QED
    BY <1>1, <2>1, <2>2, ConcludeOwn
<1>11. CASE CheckBooking(h)
  <2>1. ASSUME NEW a \in WithKey(mem[h].key),
               Goto(h, "finishing booking", [mem[h] EXCEPT !.appt = a]), UNCHANGED run
        PROVE  WritesOwn(h)
    <3>1. /\ [mem[h] EXCEPT !.appt = a] \in Mem
          /\ [mem[h] EXCEPT !.appt = a].run = mem[h].run
      BY <1>2, <2>1 DEF Mem, WithKey
    <3>2. "finishing booking" \in PC
      BY DEF PC
    <3> QED
      BY <1>1, <2>1, <3>1, <3>2, GoesOwn
  <2>2. ASSUME Goto(h, "inserting", mem[h]), UNCHANGED run PROVE WritesOwn(h)
    BY <1>1, <1>2, <2>2, GoesOwn DEF PC
  <2> QED
    BY <1>10, <1>11, <2>1, <2>2 DEF CheckBooking
<1>12. CASE CommitInsert(h)
  BY <1>5, <1>12, FailOwn DEF CommitInsert, PC
<1>13. CASE FinishBooking(h)
  <2> DEFINE new == [InState(h, "SUCCEEDED") EXCEPT !.result = mem[h].appt]
  <2>1. new \in Run /\ new.state # "EXPIRED"
    BY <1>2, <1>3 DEF Run, Mem
  <2>2. Save(h, new) /\ Answer(h)
    BY <1>13 DEF FinishBooking
  <2> HIDE DEF new
  <2> QED
    BY <1>1, <2>1, <2>2, AnswerOwn
<1>14. CASE CheckMove(h)
  <2> DEFINE t == mem[h].loaded.target
  <2>1. Escalated(mem[h].loaded) \in Run /\ Escalated(mem[h].loaded).state # "EXPIRED"
    BY <1>2, StateTypes DEF Escalated, State, Terminal
  <2>2. ASSUME t \in Upcoming, Goto(h, "moving", [mem[h] EXCEPT !.appt = t]), UNCHANGED run
        PROVE  WritesOwn(h)
    <3>1. /\ [mem[h] EXCEPT !.appt = t] \in Mem
          /\ [mem[h] EXCEPT !.appt = t].run = mem[h].run
      BY <1>2, <2>2 DEF Mem, Upcoming
    <3>2. "moving" \in PC
      BY DEF PC
    <3> QED
      BY <1>1, <2>2, <3>1, <3>2, GoesOwn
  <2> QED
    BY <1>1, <1>10, <1>14, <2>1, <2>2, ConcludeOwn DEF CheckMove
<1>15. CASE CommitMove(h)
  <2>1. mem[h].appt \in Appts \cup {None} /\ "finishing move" \in PC
    BY <1>2 DEF Mem, PC
  <2> QED
    BY <1>5, <1>15, <2>1, FailOwn DEF CommitMove
<1>16. CASE FinishMove(h)
  <2> DEFINE new == [InState(h, "SUCCEEDED") EXCEPT !.result = mem[h].appt]
  <2>1. new \in Run /\ new.state # "EXPIRED"
    BY <1>2, <1>3 DEF Run, Mem
  <2>2. (Save(h, new) /\ Answer(h)) \/ Fail(h)
    BY <1>16 DEF FinishMove
  <2> HIDE DEF new
  <2> QED
    BY <1>1, <2>1, <2>2, AnswerOwn, FailOwn
<1>17. WritesOwn(h)
  BY <1>6, <1>7, <1>8, <1>9, <1>11, <1>12, <1>13, <1>14, <1>15, <1>16 DEF HandlerStep
<1> QED
  BY <1>1, <1>17

(* What a step of a request does to the states of the runs: those that are *)
(* settled stay, and none expires.                                         *)
RunsStay ==
  \A r \in Runs :
    /\ run[r].state \in Settled => run'[r].state = run[r].state
    /\ run'[r].state = "EXPIRED" => run[r].state = "EXPIRED"

LEMMA HandlerStepOpen ==
  ASSUME TypeOK, ResultInv, PatientInv, OpenInv, NEW h \in Handlers, HandlerStep(h)
  PROVE  OpenInv' /\ RunsStay
<1>1. pc[h] # "idle" /\ WritesOwn(h) /\ HeldIsOpen(h)
  BY HandlerStepOwn DEF OpenInv
<1>2. PICK r \in Runs : r = mem[h].run
  BY <1>1, HeldTypes
<1>3. \A g \in Handlers : g # h /\ pc[g] # "idle" => mem[g].run # r
  BY <1>1, <1>2, Alone
<1>4. ASSUME NEW g \in Handlers, pc'[g] # "idle"
      PROVE  run'[mem'[g].run].state \notin Settled
  <2>1. CASE g = h
    BY <1>1, <1>2, <1>4, <2>1 DEF WritesOwn, HeldIsOpen, Midway, Settled
  <2>2. CASE g # h
    <3>1. pc[g] # "idle" /\ mem'[g] = mem[g]
      BY <1>1, <1>4, <2>2 DEF WritesOwn
    <3>2. mem[g].run \in Runs /\ mem[g].run # r
      BY <1>3, <2>2, <3>1, HeldTypes
    <3> QED
      BY <1>1, <1>2, <3>1, <3>2 DEF WritesOwn, OpenInv, HeldIsOpen
  <2> QED
    BY <2>1, <2>2
<1>5. OpenInv'
  BY <1>4 DEF OpenInv, HeldIsOpen
<1>6. RunsStay
  BY <1>1, <1>2 DEF RunsStay, WritesOwn, HeldIsOpen
<1> QED
  BY <1>5, <1>6

LEMMA StartRequestOpen ==
  ASSUME TypeOK, ResultInv, OpenInv, NEW h \in Handlers, StartRequest(h)
  PROVE  OpenInv' /\ RunsStay
<1> DEFINE x == [NoRun EXCEPT !.state = "INTERPRETING"]
<1>1. PICK r \in Runs :
        /\ run[r] = NoRun /\ \A g \in Handlers : mem[g].run # r
        /\ \/ \E new \in Routed(x) : run' = [run EXCEPT ![r] = new] /\ Answer(h)
           \/ /\ \E a \in Upcoming :
                   Goto(h, "finishing cancel",
                        [NoMem EXCEPT !.run = r, !.loaded = x, !.appt = a])
              /\ run' = [run EXCEPT ![r] = x]
  BY DEF StartRequest
<1>2. x \in Run /\ x.state = "INTERPRETING"
  BY StartIs
<1>3. \A new \in Routed(x) : new.state # "EXPIRED"
  BY <1>2, RoutedFollows DEF Follows, Outcomes, Expirable
<1> HIDE DEF x
<1>4. /\ \A q \in Runs : q # r => run'[q] = run[q]
      /\ run[r].state = "NEW" /\ run'[r].state # "EXPIRED"
  BY <1>1, <1>2, <1>3, BlankTypes DEF TypeOK
<1>5. /\ pc'[h] = "idle" \/ (mem'[h].run = r /\ run'[r] = x)
      /\ \A g \in Handlers : g # h => pc'[g] = pc[g] /\ mem'[g] = mem[g]
  <2>1. CASE Answer(h)
    BY <2>1, AnswerHolds
  <2>2. ASSUME NEW a \in Upcoming,
               Goto(h, "finishing cancel",
                    [NoMem EXCEPT !.run = r, !.loaded = x, !.appt = a]),
               run' = [run EXCEPT ![r] = x]
        PROVE  /\ mem'[h].run = r /\ run'[r] = x
               /\ \A g \in Handlers : g # h => pc'[g] = pc[g] /\ mem'[g] = mem[g]
    <3> DEFINE m == [NoMem EXCEPT !.run = r, !.loaded = x, !.appt = a]
    <3>1. m \in Mem /\ m.run = r
      BY <1>2 DEF NoMem, Mem, Upcoming
    <3> HIDE DEF m
    <3>2. Goto(h, "finishing cancel", m)
      BY <2>2 DEF m
    <3>3. run'[r] = x
      BY <2>2 DEF TypeOK
    <3> QED
      BY <3>1, <3>2, <3>3, GotoHolds DEF PC
  <2> QED
    BY <1>1, <2>1, <2>2
<1>6. ASSUME NEW g \in Handlers, pc'[g] # "idle"
      PROVE  run'[mem'[g].run].state \notin Settled
  <2>1. CASE g = h
    BY <1>2, <1>5, <1>6, <2>1 DEF Settled
  <2>2. CASE g # h
    <3>1. pc[g] # "idle" /\ mem'[g] = mem[g] /\ mem[g].run # r
      BY <1>1, <1>5, <1>6, <2>2
    <3> QED
      BY <1>4, <3>1, HeldTypes DEF OpenInv, HeldIsOpen
  <2> QED
    BY <2>1, <2>2
<1>7. OpenInv'
  BY <1>6 DEF OpenInv, HeldIsOpen
<1>8. RunsStay
  BY <1>4 DEF RunsStay, Settled
<1> QED
  BY <1>7, <1>8

LEMMA LoadOpen ==
  ASSUME TypeOK, OpenInv, NEW h \in Handlers, NEW r \in Runs,
         run[r].state \in Expirable, NEW where \in PC,
         NEW s \in Slots \cup {None}, NEW k \in Keys \cup {None},
         Load(h, r, where, s, k), UNCHANGED run
  PROVE  OpenInv' /\ RunsStay
<1> DEFINE m == [NoMem EXCEPT !.run = r, !.loaded = run[r], !.slot = s, !.key = k]
<1>1. m \in Mem /\ m.run = r
  BY DEF TypeOK, NoMem, Mem
<1>2. Goto(h, where, m)
  BY DEF Load
<1> HIDE DEF m
<1>3. mem'[h] = m /\ \A g \in Handlers : g # h => pc'[g] = pc[g] /\ mem'[g] = mem[g]
  BY <1>1, <1>2 DEF Goto, TypeOK
<1>4. OpenInv'
  BY <1>1, <1>3 DEF OpenInv, HeldIsOpen, Settled, Expirable
<1>5. RunsStay
  BY DEF RunsStay
<1> QED
  BY <1>4, <1>5

LEMMA HandlerOpen ==
  ASSUME TypeOK, ResultInv, PatientInv, OpenInv, NEW h \in Handlers, HandlerNext(h)
  PROVE  OpenInv' /\ RunsStay
<1>1. CASE LoadReply(h)
  BY <1>1, LoadOpen DEF LoadReply, Expirable, PC
<1>2. CASE LoadConfirm(h)
  <2>1. PICK k \in Keys : \E s \in run[KeyOf[k]].offered :
          IsConfirmable(KeyOf[k]) /\ Load(h, KeyOf[k], "confirming", s, k)
    BY <1>2 DEF LoadConfirm
  <2>2. PICK s \in run[KeyOf[k]].offered :
          IsConfirmable(KeyOf[k]) /\ Load(h, KeyOf[k], "confirming", s, k)
    BY <2>1
  <2>3. PICK r \in Runs : r = KeyOf[k]
    BY RunConstants
  <2>4. s \in Slots
    BY <2>2, <2>3 DEF TypeOK, Run
  <2>5. run[r].state \in Expirable /\ "confirming" \in PC /\ UNCHANGED run
    BY <1>2, <2>2, <2>3 DEF IsConfirmable, Expirable, PC, LoadConfirm
  <2> QED
    BY <2>2, <2>3, <2>4, <2>5, LoadOpen
<1>3. CASE HandlerDies(h)
  <2>1. Answer(h) /\ UNCHANGED run
    BY <1>3 DEF HandlerDies, Answer
  <2> QED
    BY <2>1, AnswerHolds DEF OpenInv, HeldIsOpen, RunsStay
<1> QED
  BY <1>1, <1>2, <1>3, StartRequestOpen, HandlerStepOpen DEF HandlerNext

(* The expiry sweep overwrites any state with EXPIRED.                     *)
LEMMA ExpireOpen ==
  ASSUME TypeOK, ResultInv, OpenInv, NEW w \in Workers, ExpireStale(w)
  PROVE  /\ OpenInv'
         /\ \A r \in Runs : run'[r].state \in {run[r].state, "EXPIRED"}
<1>1. \A r \in Runs : run'[r].state \in {run[r].state, "EXPIRED"}
  BY DEF ExpireStale, TypeOK, Run
<1>2. UNCHANGED <<pc, mem>>
  BY DEF ExpireStale
<1>3. OpenInv'
  BY <1>1, <1>2, HeldTypes DEF OpenInv, HeldIsOpen, Settled
<1> QED
  BY <1>1, <1>3

LEMMA MarkNoShowOpen ==
  ASSUME TypeOK, ResultInv, OpenInv, NEW a \in Appts, MarkNoShow(a)
  PROVE  OpenInv' /\ RunsStay
<1>1. PICK r \in Runs :
        /\ run[r] = NoRun /\ \A g \in Handlers : mem[g].run # r
        /\ run' = [run EXCEPT ![r] = [NoRun EXCEPT !.state = "AWAITING_CLARIFICATION",
                                                   !.missed = a]]
  BY DEF MarkNoShow
<1>2. UNCHANGED <<pc, mem>>
  BY DEF MarkNoShow
<1>3. /\ \A q \in Runs : q # r => run'[q] = run[q]
      /\ run[r].state = "NEW" /\ run'[r].state = "AWAITING_CLARIFICATION"
  BY <1>1 DEF TypeOK, NoRun
<1>4. OpenInv'
  BY <1>1, <1>2, <1>3, HeldTypes DEF OpenInv, HeldIsOpen
<1>5. RunsStay
  BY <1>3 DEF RunsStay, Settled
<1> QED
  BY <1>4, <1>5

LEMMA OpenStep ==
  ASSUME TypeOK, ResultInv, PatientInv, OpenInv, [Next]_vars
  PROVE  /\ OpenInv'
         /\ \/ RunsStay
            \/ /\ Workers # {}
               /\ \A r \in Runs : run'[r].state \in {run[r].state, "EXPIRED"}
<1>1. ASSUME NEW h \in Handlers, HandlerNext(h) PROVE OpenInv' /\ RunsStay
  BY <1>1, HandlerOpen
<1>2. ASSUME UNCHANGED <<run, pc, mem>> PROVE OpenInv' /\ RunsStay
  BY <1>2 DEF OpenInv, HeldIsOpen, RunsStay
<1>3. ASSUME NEW w \in Workers, WorkerNext(w), ~ ExpireStale(w)
      PROVE  OpenInv' /\ RunsStay
  BY <1>2, <1>3 DEF WorkerNext, LoadStale, LockStale, WorkerDies
<1>4. ASSUME NEW a \in Appts, SendReminders(a) \/ MarkNoShow(a)
      PROVE  OpenInv' /\ RunsStay
  BY <1>2, <1>4, MarkNoShowOpen DEF SendReminders
<1>5. ASSUME NEW s \in Slots, SlotPasses(s) PROVE OpenInv' /\ RunsStay
  BY <1>2, <1>5 DEF SlotPasses
<1>6. CASE Age \/ UNCHANGED vars
  BY <1>2, <1>6 DEF Age, vars
<1>7. ASSUME NEW w \in Workers, ExpireStale(w)
      PROVE  /\ OpenInv' /\ Workers # {}
             /\ \A r \in Runs : run'[r].state \in {run[r].state, "EXPIRED"}
  BY <1>7, ExpireOpen
<1> QED
  BY <1>1, <1>3, <1>4, <1>5, <1>6, <1>7 DEF Next

LEMMA OpenInvCorrect == Patient /\ Spec => [](TypeOK /\ ResultInv /\ PatientInv /\ OpenInv)
<1>1. Init => OpenInv
  BY DEF Init, OpenInv, HeldIsOpen
<1>2. TypeOK /\ ResultInv /\ PatientInv /\ OpenInv /\ [Next]_vars => OpenInv'
  BY OpenStep
<1> QED
  BY <1>1, <1>2, ResultInvCorrect, PatientInvCorrect, PTL DEF Spec

(* A run that has succeeded, failed or been escalated keeps its state,     *)
(* unless the expiry sweep overwrites it: no request of clients that wait  *)
(* ever reopens it, and only EXPIRED is ever left again.  The sweep judges *)
(* what it loaded and writes later (jobs.py:152-175).                      *)
THEOREM OnlyExpiryOverwrites ==
  Patient /\ Spec => [][\A r \in Runs :
                         run[r].state \in Settled =>
                           run'[r].state \in {run[r].state, "EXPIRED"}]_vars
<1>1. TypeOK /\ ResultInv /\ PatientInv /\ OpenInv /\ [Next]_vars
        => \A r \in Runs : run[r].state \in Settled =>
                             run'[r].state \in {run[r].state, "EXPIRED"}
  BY OpenStep DEF RunsStay
<1> QED
  BY <1>1, OpenInvCorrect, PTL DEF Spec

(* Without expiry sweeps a terminal run is final (state_machine.py:39-42): *)
(* the sweep alone is to blame when it is not.                             *)
THEOREM TerminalIsFinalWithoutSweeps ==
  ASSUME Workers = {}
  PROVE  Patient /\ Spec => TerminalIsFinal
<1> DEFINE NoneExpired == \A r \in Runs : run[r].state # "EXPIRED"
<1>1. Init => NoneExpired
  BY BlankTypes DEF Init
<1>2. TypeOK /\ ResultInv /\ PatientInv /\ OpenInv /\ [Next]_vars => RunsStay
  BY OpenStep
<1>3. NoneExpired /\ RunsStay => NoneExpired'
  BY DEF RunsStay
<1>4. NoneExpired /\ RunsStay =>
        \A r \in Runs : run[r].state \in Terminal => run'[r].state = run[r].state
  BY DEF RunsStay, Terminal, Settled
<1> HIDE DEF NoneExpired
<1> QED
  BY <1>1, <1>2, <1>3, <1>4, OpenInvCorrect, PTL DEF Spec, TerminalIsFinal

=============================================================================
