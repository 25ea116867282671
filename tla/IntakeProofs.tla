---------------------------- MODULE IntakeProofs ----------------------------
(***************************************************************************)
(* Proofs about module Intake, for every number of requests, any names and *)
(* contacts, and every limit.                                              *)
(***************************************************************************)
EXTENDS Intake, FiniteSetTheorems, TLAPS

-----------------------------------------------------------------------------
(* Customers.                                                              *)

(* Only first messages look for a customer.                                *)
OnlyFirst == \A p \in Requests : pc[p] = "interpreting" => p \in First

(* A row is inserted by the request it is named after, when that is over.  *)
InsertersAreDone == \A c \in customers : pc[c.id] = "done"

(* A request either found its customer or is about to insert him;          *)
FoundOrNew ==
  \A p \in Interpreting :
     \/ mine[p] = p
     \/ \E c \in customers : c.id = mine[p] /\ c.contact = ContactOf[p]

(* in the second case, whoever has the same contact came in between;       *)
NewWereUnknown ==
  \A p \in Interpreting :
     mine[p] = p =>
       \A c \in customers : c.contact = ContactOf[p] => {c.id, p} \in overlapped

(* and all that are under way at the same time overlap.                    *)
TogetherOverlap ==
  \A p, q \in Interpreting : p # q => {p, q} \in overlapped

CustomersInv == /\ OnlyFirst /\ InsertersAreDone /\ FoundOrNew /\ NewWereUnknown
                /\ TogetherOverlap /\ DuplicatesOverlapped /\ CustomersMatchRuns

LEMMA MineType ==
  ASSUME TypeOK, CustomersInv, NEW p \in Requests, pc[p] = "interpreting"
  PROVE  p \in First /\ p \in Interpreting /\ mine[p] \in First
<1>1. p \in First /\ p \in Interpreting
  BY DEF CustomersInv, OnlyFirst, Interpreting
<1> QED
  BY <1>1 DEF CustomersInv, FoundOrNew, TypeOK, Customer

LEMMA TypeStep == TypeOK /\ CustomersInv /\ [Next]_vars => TypeOK'
<1> SUFFICES ASSUME TypeOK, CustomersInv, [Next]_vars PROVE TypeOK'
  OBVIOUS
<1>1. ASSUME NEW p \in Requests, TakeTime(p) PROVE TypeOK'
  BY <1>1 DEF TypeOK, TakeTime, Goto, PC, resolving
<1>2. ASSUME NEW p \in Requests, LookUp(p) PROVE TypeOK'
  BY <1>2 DEF TypeOK, LookUp, Goto, PC, resolving
<1>3. ASSUME NEW p \in Requests, Refuse(p) PROVE TypeOK'
  BY <1>3 DEF TypeOK, Refuse, Goto, PC, resolving
<1>4. ASSUME NEW p \in Requests, Admit(p) PROVE TypeOK'
  <2>1. Own(p) \in Hit
    BY DEF Own, Hit, TypeOK
  <2> QED
    BY <1>4, <2>1 DEF TypeOK, Admit, Goto, PC, Kept, resolving
<1>5. ASSUME NEW p \in Requests, Reply(p) PROVE TypeOK'
  BY <1>5 DEF TypeOK, Reply, Goto, PC, checking, resolving
<1>6. ASSUME NEW p \in Requests, FindCustomer(p) PROVE TypeOK'
  <2>1. mine' \in [Requests -> First \cup {None}]
    BY <1>6 DEF TypeOK, FindCustomer, Customer
  <2>2. overlapped' \subseteq SUBSET First
    BY <1>6 DEF TypeOK, FindCustomer, Interpreting
  <2> QED
    BY <1>6, <2>1, <2>2 DEF TypeOK, FindCustomer, Goto, PC, AfterFlush, checking
<1>7. ASSUME NEW p \in Requests, CommitRequest(p) PROVE TypeOK'
  <2>1. p \in First /\ mine[p] \in First
    BY <1>7, MineType DEF CommitRequest
  <2>2. Row(p) \in Customer
    BY <2>1 DEF Row, Customer
  <2>3. [of |-> p, customer |-> mine[p], given |-> FALSE] \in Run
    BY <2>1 DEF Run
  <2> QED
    BY <1>7, <2>2, <2>3 DEF TypeOK, CommitRequest, Goto, PC, checking
<1>8. ASSUME NEW p \in Requests, StartGiven(p) PROVE TypeOK'
  <2>1. PICK c \in customers : runs' = runs \cup {[of |-> p, customer |-> c.id, given |-> TRUE]}
    BY <1>8 DEF StartGiven
  <2>2. [of |-> p, customer |-> c.id, given |-> TRUE] \in Run
    BY <1>8 DEF Run, StartGiven, TypeOK, Customer
  <2> QED
    BY <1>8, <2>1, <2>2 DEF TypeOK, StartGiven, Goto, PC, checking
<1>9. ASSUME NEW p \in Requests, Fail(p) PROVE TypeOK'
  BY <1>9 DEF TypeOK, Fail, Goto, PC, checking
<1>10. CASE TimePasses
  BY <1>10 DEF TypeOK, TimePasses, resolving
<1>11. CASE UNCHANGED vars
  BY <1>11 DEF TypeOK, vars, checking, resolving
<1> QED
  BY <1>1, <1>2, <1>3, <1>4, <1>5, <1>6, <1>7, <1>8, <1>9, <1>10, <1>11 DEF Next

(* What happens before and after the search changes nothing about it.      *)
LEMMA CustomersFrame ==
  ASSUME TypeOK, CustomersInv, NEW p \in Requests, NEW where \in PC,
         pc[p] # "done", where # "interpreting", Goto(p, where),
         UNCHANGED <<customers, runs, overlapped>>,
         \A q \in Interpreting : q # p => mine'[q] = mine[q]
  PROVE  CustomersInv'
<1>1. Interpreting' \subseteq Interpreting \ {p}
  BY DEF Interpreting, Goto, TypeOK
<1>2. OnlyFirst'
  BY DEF CustomersInv, OnlyFirst, Goto, TypeOK
<1>3. InsertersAreDone'
  BY DEF CustomersInv, InsertersAreDone, Goto, TypeOK, Customer
<1>4. FoundOrNew'
  BY <1>1 DEF CustomersInv, FoundOrNew
<1>5. NewWereUnknown'
  BY <1>1 DEF CustomersInv, NewWereUnknown
<1>6. TogetherOverlap'
  BY <1>1 DEF CustomersInv, TogetherOverlap
<1>7. DuplicatesOverlapped' /\ CustomersMatchRuns'
  BY DEF CustomersInv, DuplicatesOverlapped, CustomersMatchRuns
<1> QED
  BY <1>2, <1>3, <1>4, <1>5, <1>6, <1>7 DEF CustomersInv

LEMMA FindCustomerStep ==
  ASSUME TypeOK, CustomersInv, NEW p \in Requests, FindCustomer(p)
  PROVE  CustomersInv'
<1>1. /\ p \in First /\ pc[p] = "admitted" /\ Goto(p, "interpreting")
      /\ customers' = customers /\ runs' = runs
      /\ overlapped' = overlapped \cup {{p, q} : q \in Interpreting}
  BY DEF FindCustomer, AfterFlush
<1>2. Interpreting' = Interpreting \cup {p} /\ p \notin Interpreting
  BY <1>1 DEF Interpreting, Goto, TypeOK, First
<1>3. \A q \in Interpreting : mine'[q] = mine[q]
  BY <1>2 DEF FindCustomer, TypeOK, Interpreting, First
<1>4. \/ /\ \A c \in customers : c.contact # ContactOf[p]
         /\ mine'[p] = p
      \/ \E c \in customers : c.contact = ContactOf[p] /\ mine'[p] = c.id
  BY DEF FindCustomer, SameContact, TypeOK
<1>5. OnlyFirst'
  BY <1>1 DEF CustomersInv, OnlyFirst, Goto, TypeOK
<1>6. InsertersAreDone'
  BY <1>1 DEF CustomersInv, InsertersAreDone, Goto, TypeOK, Customer
<1>7. FoundOrNew'
  BY <1>1, <1>2, <1>3, <1>4 DEF CustomersInv, FoundOrNew
<1>8. NewWereUnknown'
  <2>1. \A c \in customers : c.id # p
    BY <1>1 DEF CustomersInv, InsertersAreDone
  <2> QED
    BY <1>1, <1>2, <1>3, <1>4, <2>1 DEF CustomersInv, NewWereUnknown
<1>9. TogetherOverlap'
  <2> SUFFICES ASSUME NEW x \in Interpreting', NEW y \in Interpreting', x # y
               PROVE  {x, y} \in overlapped'
    BY DEF TogetherOverlap
  <2>1. CASE x # p /\ y # p
    BY <1>1, <1>2, <2>1 DEF CustomersInv, TogetherOverlap
  <2>2. CASE x = p
    BY <1>1, <1>2, <2>2
  <2>3. CASE y = p
    <3>1. {x, y} = {p, x}
      BY <2>3
    <3> QED
      BY <1>1, <1>2, <2>3, <3>1
  <2> QED
    BY <2>1, <2>2, <2>3
<1>10. DuplicatesOverlapped' /\ CustomersMatchRuns'
  BY <1>1 DEF CustomersInv, DuplicatesOverlapped, CustomersMatchRuns
<1> QED
  BY <1>5, <1>6, <1>7, <1>8, <1>9, <1>10 DEF CustomersInv

LEMMA CommitRequestStep ==
  ASSUME TypeOK, CustomersInv, NEW p \in Requests, CommitRequest(p)
  PROVE  CustomersInv'
<1>1. /\ pc[p] = "interpreting" /\ Goto(p, "done")
      /\ customers' = IF mine[p] = p THEN customers \cup {Row(p)} ELSE customers
      /\ runs' = runs \cup {[of |-> p, customer |-> mine[p], given |-> FALSE]}
      /\ overlapped' = overlapped
  BY DEF CommitRequest, checking
<1>2. p \in First /\ p \in Interpreting /\ mine[p] \in First
  BY <1>1, MineType
<1>3. Interpreting' = Interpreting \ {p}
  BY <1>1 DEF Interpreting, Goto, TypeOK, First
<1>4. \A q \in Interpreting' : mine'[q] = mine[q]
  BY <1>3 DEF CommitRequest, TypeOK, Interpreting, First
<1>5. Row(p).id = p /\ Row(p).contact = ContactOf[p]
  BY DEF Row
<1>6. OnlyFirst'
  BY <1>1 DEF CustomersInv, OnlyFirst, Goto, TypeOK
<1>7. InsertersAreDone'
  BY <1>1, <1>5 DEF CustomersInv, InsertersAreDone, Goto, TypeOK, Customer
<1>8. FoundOrNew'
  BY <1>1, <1>3, <1>4 DEF CustomersInv, FoundOrNew
<1>9. NewWereUnknown'
  <2> SUFFICES ASSUME NEW q \in Interpreting', mine[q] = q,
                      NEW c \in customers', c.contact = ContactOf[q]
               PROVE  {c.id, q} \in overlapped
    BY <1>1, <1>4 DEF NewWereUnknown
  <2>1. CASE c \in customers
    BY <1>3, <2>1 DEF CustomersInv, NewWereUnknown
  <2>2. CASE c = Row(p)
    BY <1>2, <1>3, <1>5, <2>2 DEF CustomersInv, TogetherOverlap
  <2> QED
    BY <1>1, <2>1, <2>2
<1>10. TogetherOverlap'
  BY <1>1, <1>3 DEF CustomersInv, TogetherOverlap
<1>11. DuplicatesOverlapped'
  <2>1. ASSUME mine[p] = p, NEW c \in customers, c.contact = ContactOf[p]
        PROVE  {c.id, p} \in overlapped /\ {p, c.id} \in overlapped
    <3>1. {c.id, p} \in overlapped
      BY <1>2, <2>1 DEF CustomersInv, NewWereUnknown
    <3>2. {p, c.id} = {c.id, p}
      OBVIOUS
    <3> QED
      BY <3>1, <3>2
  <2> QED
    BY <1>1, <1>5, <2>1 DEF CustomersInv, DuplicatesOverlapped
<1>12. CustomersMatchRuns'
  <2>1. \E c \in customers' : c.id = mine[p] /\ c.contact = ContactOf[p]
    BY <1>1, <1>2, <1>5 DEF CustomersInv, FoundOrNew
  <2>2. ASSUME NEW c \in customers' PROVE \E r \in runs' : r.customer = c.id
    <3>1. CASE c \in customers
      BY <1>1, <3>1 DEF CustomersInv, CustomersMatchRuns
    <3>2. CASE mine[p] = p /\ c = Row(p)
      <4>1. [of |-> p, customer |-> mine[p], given |-> FALSE].customer = c.id
        BY <1>5, <3>2
      <4> QED
        BY <1>1, <4>1
    <3> QED
      BY <1>1, <3>1, <3>2
  <2>3. customers \subseteq customers'
    BY <1>1
  <2> QED
    BY <1>1, <2>1, <2>2, <2>3 DEF CustomersInv, CustomersMatchRuns
<1> QED
  BY <1>6, <1>7, <1>8, <1>9, <1>10, <1>11, <1>12 DEF CustomersInv

LEMMA CustomersStep == TypeOK /\ CustomersInv /\ [Next]_vars => CustomersInv'
<1> SUFFICES ASSUME TypeOK, CustomersInv, [Next]_vars PROVE CustomersInv'
  OBVIOUS
<1>1. ASSUME NEW p \in Requests, TakeTime(p) \/ LookUp(p) \/ Refuse(p) \/ Admit(p) \/ Reply(p)
      PROVE  CustomersInv'
  <2>1. PICK where \in PC : where # "interpreting" /\ Goto(p, where)
    BY <1>1 DEF TakeTime, LookUp, Refuse, Admit, Reply, PC
  <2>2. pc[p] # "done" /\ UNCHANGED resolving
    BY <1>1 DEF TakeTime, LookUp, Refuse, Admit, Reply
  <2> QED
    BY <2>1, <2>2, CustomersFrame DEF resolving
<1>2. ASSUME NEW p \in Requests, FindCustomer(p) PROVE CustomersInv'
  BY <1>2, FindCustomerStep
<1>3. ASSUME NEW p \in Requests, CommitRequest(p) PROVE CustomersInv'
  BY <1>3, CommitRequestStep
<1>4. ASSUME NEW p \in Requests, StartGiven(p) PROVE CustomersInv'
  <2>1. PICK c \in customers : runs' = runs \cup {[of |-> p, customer |-> c.id, given |-> TRUE]}
    BY <1>4 DEF StartGiven
  <2>2. /\ pc[p] = "admitted" /\ Goto(p, "done")
        /\ UNCHANGED <<customers, mine, overlapped>>
    BY <1>4 DEF StartGiven
  <2>3. Interpreting' \subseteq Interpreting
    BY <2>2 DEF Interpreting, Goto, TypeOK
  <2>4. OnlyFirst' /\ InsertersAreDone'
    BY <2>2 DEF CustomersInv, OnlyFirst, InsertersAreDone, Goto, TypeOK, Customer
  <2>5. FoundOrNew' /\ NewWereUnknown' /\ TogetherOverlap' /\ DuplicatesOverlapped'
    BY <2>2, <2>3 DEF CustomersInv, FoundOrNew, NewWereUnknown, TogetherOverlap,
                      DuplicatesOverlapped
  <2>6. CustomersMatchRuns'
    BY <2>1, <2>2 DEF CustomersInv, CustomersMatchRuns
  <2> QED
    BY <2>4, <2>5, <2>6 DEF CustomersInv
<1>5. ASSUME NEW p \in Requests, Fail(p) PROVE CustomersInv'
  <2>1. /\ Goto(p, "failed") /\ pc[p] # "done"
        /\ UNCHANGED <<customers, runs, overlapped>>
        /\ \A q \in Requests : q # p => mine'[q] = mine[q]
    BY <1>5 DEF Fail, TypeOK
  <2> QED
    BY <2>1, CustomersFrame DEF PC, Interpreting, First
<1>6. CASE TimePasses \/ UNCHANGED vars
  <2>1. UNCHANGED <<pc, resolving>>
    BY <1>6 DEF TimePasses, vars
  <2> QED
    BY <2>1 DEF CustomersInv, OnlyFirst, InsertersAreDone, FoundOrNew, NewWereUnknown,
                TogetherOverlap, DuplicatesOverlapped, CustomersMatchRuns, Interpreting,
                resolving
<1> QED
  BY <1>1, <1>2, <1>3, <1>4, <1>5, <1>6 DEF Next

LEMMA CustomersCorrect == Spec => [](TypeOK /\ CustomersInv)
<1>1. Init => TypeOK
  <2> SUFFICES ASSUME Init PROVE TypeOK
    OBVIOUS
  <2>1. /\ clock \in Nat /\ pc \in [Requests -> PC] /\ now \in [Requests -> Nat]
        /\ mine \in [Requests -> First \cup {None}] /\ raced \in BOOLEAN
    BY DEF Init, PC
  <2>2. recent \in [Requests -> SUBSET Hit]
    BY DEF Init
  <2>3. /\ hits \subseteq Hit /\ admitted \subseteq Hit /\ customers \subseteq Customer
        /\ runs \subseteq Run /\ overlapped \subseteq SUBSET First
    BY DEF Init
  <2> QED
    BY <2>1, <2>2, <2>3 DEF TypeOK
<1>2. Init => CustomersInv
  BY DEF Init, CustomersInv, OnlyFirst, InsertersAreDone, FoundOrNew, NewWereUnknown,
         TogetherOverlap, DuplicatesOverlapped, CustomersMatchRuns, Interpreting, First
<1> QED
  BY <1>1, <1>2, TypeStep, CustomersStep, PTL DEF Spec

(* Every variable keeps its type.                                          *)
THEOREM TypeCorrect == Spec => []TypeOK
  BY CustomersCorrect, PTL

(* Two customers with one contact were inserted by requests that were      *)
(* under way together (customers.py find_or_create_customer).              *)
THEOREM DuplicatesCorrect == Spec => []DuplicatesOverlapped
<1>1. CustomersInv => DuplicatesOverlapped
  BY DEF CustomersInv
<1> QED
  BY <1>1, CustomersCorrect, PTL

(* Runs belong to customers with their contact, and customers have runs    *)
(* (orchestrator.py start_request).                                        *)
THEOREM CustomersMatchRunsCorrect == Spec => []CustomersMatchRuns
<1>1. CustomersInv => CustomersMatchRuns
  BY DEF CustomersInv
<1> QED
  BY <1>1, CustomersCorrect, PTL

-----------------------------------------------------------------------------
(* The limiter.                                                            *)

WasLetIn(t) == {h \in admitted : h.at > t - WindowSeconds}

(* The list is part of what was let in, and never too long; so is what a   *)
(* check has found.                                                        *)
ListsOK ==
  /\ IsFiniteSet(admitted)
  /\ hits \subseteq admitted /\ Cardinality(hits) =< MaxRequests
  /\ \A p \in Requests : pc[p] = "looked" =>
        recent[p] \subseteq WasLetIn(now[p]) /\ Cardinality(recent[p]) =< MaxRequests

(* Nobody has read a time that is still to come.                           *)
TimesOK ==
  /\ \A p \in Requests : now[p] =< clock
  /\ \A h \in admitted : h.at =< clock

(* As long as no two checks overlap, there is one at most,                 *)
OneCheck == \A p, q \in Checking : p = q

(* it comes after all that were let in,                                    *)
CheckIsLast == \A p \in Checking, h \in admitted : h.at =< now[p]

(* and nothing of the window is forgotten between the checks, before the   *)
(* list is read, and after that.                                           *)
NoneForgotten ==
  /\ Checking = {} => WasLetIn(clock) \subseteq hits
  /\ \A p \in Requests : pc[p] = "timed" => WasLetIn(now[p]) \subseteq hits
  /\ \A p \in Requests : pc[p] = "looked" => WasLetIn(now[p]) \subseteq recent[p]

InWindowOf(h) == {g \in admitted : g.at =< h.at /\ g.at > h.at - WindowSeconds}

WindowsAreBounded == \A h \in admitted : Cardinality(InWindowOf(h)) =< MaxRequests

LimiterInv ==
  /\ ListsOK /\ TimesOK /\ RefusalIsJustified
  /\ ~ raced => OneCheck /\ CheckIsLast /\ NoneForgotten /\ WindowsAreBounded

LEMMA LimiterTypes ==
  ASSUME TypeOK
  PROVE  /\ clock \in Nat
         /\ \A p \in Requests : now[p] \in Nat
         /\ \A h \in admitted : h.at \in Nat
         /\ \A h \in hits : h.at \in Nat
         /\ WindowSeconds \in Nat /\ WindowSeconds > 0 /\ MaxRequests \in Nat
  BY IntakeConstants DEF TypeOK, Hit

(* A refusal stays justified, whatever else is let in.                     *)
LEMMA RefusalFrame ==
  ASSUME TypeOK, LimiterInv, NEW p \in Requests, pc[p] = "refused",
         now'[p] = now[p], admitted \subseteq admitted', IsFiniteSet(admitted')
  PROVE  Cardinality({h \in admitted' : h.at > now'[p] - WindowSeconds}) >= MaxRequests
<1> DEFINE S == {h \in admitted : h.at > now[p] - WindowSeconds}
           T == {h \in admitted' : h.at > now[p] - WindowSeconds}
<1>1. IsFiniteSet(T) /\ S \subseteq T
  BY FS_Subset
<1>2. Cardinality(S) =< Cardinality(T)
  BY <1>1, FS_Subset
<1>3. Cardinality(S) \in Nat /\ Cardinality(T) \in Nat
  BY <1>1, FS_Subset, FS_CardinalityType
<1>4. Cardinality(S) >= MaxRequests
  BY DEF LimiterInv, RefusalIsJustified
<1> QED
  BY <1>2, <1>3, <1>4, LimiterTypes

LEMMA TakeTimeStep ==
  ASSUME TypeOK, LimiterInv, NEW p \in Requests, TakeTime(p)
  PROVE  LimiterInv'
<1>1. /\ pc[p] = "new" /\ Goto(p, "timed")
      /\ now' = [now EXCEPT ![p] = clock]
      /\ raced' = (raced \/ Checking # {})
      /\ UNCHANGED <<clock, recent, hits, admitted>>
  BY DEF TakeTime
<1>2. /\ \A q \in Requests : q # p => pc'[q] = pc[q] /\ now'[q] = now[q]
      /\ pc'[p] = "timed" /\ now'[p] = clock
  BY <1>1 DEF Goto, TypeOK
<1>3. ListsOK'
  BY <1>1, <1>2 DEF LimiterInv, ListsOK, WasLetIn
<1>4. TimesOK'
  BY <1>1, <1>2, LimiterTypes DEF LimiterInv, TimesOK
<1>5. RefusalIsJustified'
  BY <1>1, <1>2, RefusalFrame DEF LimiterInv, ListsOK, RefusalIsJustified
<1>6. ASSUME ~ raced' PROVE OneCheck' /\ CheckIsLast' /\ NoneForgotten' /\ WindowsAreBounded'
  <2>1. ~ raced /\ Checking = {}
    BY <1>1, <1>6 DEF TypeOK
  <2>2. Checking' = {p}
    BY <1>2, <2>1 DEF Checking
  <2>3. OneCheck' /\ CheckIsLast'
    BY <1>1, <1>2, <2>2 DEF OneCheck, CheckIsLast, LimiterInv, TimesOK
  <2>4. WasLetIn(clock) \subseteq hits
    BY <2>1 DEF LimiterInv, NoneForgotten
  <2>5. NoneForgotten'
    BY <1>1, <1>2, <2>1, <2>2, <2>4 DEF NoneForgotten, WasLetIn, Checking
  <2>6. WindowsAreBounded'
    BY <1>1, <2>1 DEF LimiterInv, WindowsAreBounded, InWindowOf
  <2> QED
    BY <2>3, <2>5, <2>6
<1> QED
  BY <1>3, <1>4, <1>5, <1>6 DEF LimiterInv

LEMMA LookUpStep ==
  ASSUME TypeOK, LimiterInv, NEW p \in Requests, LookUp(p)
  PROVE  LimiterInv'
<1>1. /\ pc[p] = "timed" /\ Goto(p, "looked")
      /\ recent' = [recent EXCEPT ![p] = {h \in hits : InWindow(h, now[p])}]
      /\ UNCHANGED <<clock, now, hits, admitted, raced>>
  BY DEF LookUp
<1>2. /\ \A q \in Requests : q # p => pc'[q] = pc[q] /\ recent'[q] = recent[q]
      /\ pc'[p] = "looked"
      /\ recent'[p] = {h \in hits : h.at > now[p] - WindowSeconds}
  BY <1>1 DEF Goto, TypeOK, InWindow
<1>3. ListsOK'
  <2>1. IsFiniteSet(hits) /\ Cardinality(hits) \in Nat /\ Cardinality(hits) =< MaxRequests
    BY FS_Subset, FS_CardinalityType DEF LimiterInv, ListsOK
  <2>2. recent'[p] \subseteq hits
    BY <1>2
  <2>3. Cardinality(recent'[p]) =< Cardinality(hits) /\ Cardinality(recent'[p]) \in Nat
    BY <2>1, <2>2, FS_Subset, FS_CardinalityType
  <2>4. Cardinality(recent'[p]) =< MaxRequests
    BY <2>1, <2>3, LimiterTypes
  <2>5. recent'[p] \subseteq WasLetIn(now[p])
    BY <1>2 DEF LimiterInv, ListsOK, WasLetIn
  <2> QED
    BY <1>1, <1>2, <2>4, <2>5 DEF LimiterInv, ListsOK, WasLetIn
<1>4. TimesOK'
  BY <1>1 DEF LimiterInv, TimesOK
<1>5. RefusalIsJustified'
  BY <1>1, <1>2 DEF LimiterInv, RefusalIsJustified
<1>6. ASSUME ~ raced PROVE OneCheck' /\ CheckIsLast' /\ NoneForgotten' /\ WindowsAreBounded'
  <2>1. Checking' = Checking
    BY <1>1, <1>2 DEF Checking
  <2>2. OneCheck' /\ CheckIsLast'
    BY <1>1, <1>6, <2>1 DEF LimiterInv, OneCheck, CheckIsLast
  <2>3. WasLetIn(now[p]) \subseteq recent'[p]
    BY <1>1, <1>2, <1>6 DEF LimiterInv, NoneForgotten, WasLetIn
  <2>4. NoneForgotten'
    BY <1>1, <1>2, <1>6, <2>1, <2>3 DEF LimiterInv, NoneForgotten, WasLetIn
  <2>5. WindowsAreBounded'
    BY <1>1, <1>6 DEF LimiterInv, WindowsAreBounded, InWindowOf
  <2> QED
    BY <2>2, <2>4, <2>5
<1> QED
  BY <1>1, <1>3, <1>4, <1>5, <1>6 DEF LimiterInv

LEMMA RefuseStep ==
  ASSUME TypeOK, LimiterInv, NEW p \in Requests, Refuse(p)
  PROVE  LimiterInv'
<1>1. /\ pc[p] = "looked" /\ IsFull(p) /\ Goto(p, "refused")
      /\ hits' = recent[p] /\ recent' = [recent EXCEPT ![p] = {}]
      /\ UNCHANGED <<clock, now, admitted, raced>>
  BY DEF Refuse
<1>2. /\ \A q \in Requests : q # p => pc'[q] = pc[q] /\ recent'[q] = recent[q]
      /\ pc'[p] = "refused"
  BY <1>1 DEF Goto, TypeOK
<1>3. recent[p] \subseteq WasLetIn(now[p]) /\ Cardinality(recent[p]) =< MaxRequests
  BY <1>1 DEF LimiterInv, ListsOK
<1>4. ListsOK'
  BY <1>1, <1>2, <1>3 DEF LimiterInv, ListsOK, WasLetIn
<1>5. TimesOK'
  BY <1>1 DEF LimiterInv, TimesOK
<1>6. RefusalIsJustified'
  <2>1. IsFiniteSet(WasLetIn(now[p]))
    BY FS_Subset DEF LimiterInv, ListsOK, WasLetIn
  <2>2. /\ Cardinality(recent[p]) =< Cardinality(WasLetIn(now[p]))
        /\ Cardinality(WasLetIn(now[p])) \in Nat /\ Cardinality(recent[p]) \in Nat
    BY <1>3, <2>1, FS_Subset, FS_CardinalityType
  <2>3. Cardinality(WasLetIn(now[p])) >= MaxRequests
    BY <1>1, <2>2, LimiterTypes DEF IsFull
  <2> QED
    BY <1>1, <1>2, <2>3 DEF LimiterInv, RefusalIsJustified, WasLetIn
<1>7. ASSUME ~ raced PROVE OneCheck' /\ CheckIsLast' /\ NoneForgotten' /\ WindowsAreBounded'
  <2>1. Checking = {p} /\ Checking' = {}
    BY <1>1, <1>2, <1>7 DEF Checking, LimiterInv, OneCheck
  <2>2. WasLetIn(clock) \subseteq recent[p]
    BY <1>1, <1>7, LimiterTypes DEF LimiterInv, NoneForgotten, WasLetIn, TimesOK
  <2>3. NoneForgotten'
    BY <1>1, <2>1, <2>2 DEF NoneForgotten, WasLetIn, Checking
  <2>4. WindowsAreBounded'
    BY <1>1, <1>7 DEF LimiterInv, WindowsAreBounded, InWindowOf
  <2> QED
    BY <2>1, <2>3, <2>4 DEF OneCheck, CheckIsLast
<1> QED
  BY <1>1, <1>4, <1>5, <1>6, <1>7 DEF LimiterInv

LEMMA AdmitStep ==
  ASSUME TypeOK, LimiterInv, NEW p \in Requests, Admit(p)
  PROVE  LimiterInv'
<1>1. /\ pc[p] = "looked" /\ ~ IsFull(p) /\ Goto(p, "admitted")
      /\ hits' = recent[p] \cup {Own(p)} /\ admitted' = admitted \cup {Own(p)}
      /\ now' = [now EXCEPT ![p] = 0] /\ recent' = [recent EXCEPT ![p] = {}]
      /\ UNCHANGED <<clock, raced>>
  BY DEF Admit, Kept
<1>2. /\ \A q \in Requests : q # p => /\ pc'[q] = pc[q] /\ recent'[q] = recent[q]
                                      /\ now'[q] = now[q]
      /\ pc'[p] = "admitted" /\ now'[p] = 0
  BY <1>1 DEF Goto, TypeOK
<1>3. recent[p] \subseteq WasLetIn(now[p])
  BY <1>1 DEF LimiterInv, ListsOK
<1>4. IsFiniteSet(admitted') /\ Own(p).at = now[p]
  BY <1>1, FS_AddElement DEF LimiterInv, ListsOK, Own
<1>5. IsFiniteSet(recent[p]) /\ IsFiniteSet(hits') /\ Cardinality(hits') =< MaxRequests
  <2>1. IsFiniteSet(WasLetIn(now[p]))
    BY FS_Subset DEF LimiterInv, ListsOK, WasLetIn
  <2>2. IsFiniteSet(recent[p]) /\ Cardinality(recent[p]) \in Nat
    BY <1>3, <2>1, FS_Subset, FS_CardinalityType
  <2>3. Cardinality(recent[p]) + 1 =< MaxRequests
    BY <1>1, <2>2, LimiterTypes DEF IsFull
  <2>4. /\ IsFiniteSet(hits')
        /\ Cardinality(hits') = Cardinality(recent[p]) \/ Cardinality(hits') = Cardinality(recent[p]) + 1
    BY <1>1, <2>2, FS_AddElement
  <2> QED
    BY <2>2, <2>3, <2>4, LimiterTypes
<1>6. ListsOK'
  <2>1. hits' \subseteq admitted'
    BY <1>1, <1>3 DEF WasLetIn
  <2>2. ASSUME NEW q \in Requests, pc'[q] = "looked"
        PROVE  recent'[q] \subseteq WasLetIn(now[q])' /\ Cardinality(recent'[q]) =< MaxRequests
    <3>1. q # p /\ pc[q] = "looked"
      BY <1>2, <2>2
    <3> QED
      BY <1>1, <1>2, <3>1 DEF LimiterInv, ListsOK, WasLetIn
  <2> QED
    BY <1>4, <1>5, <2>1, <2>2 DEF ListsOK
<1>7. TimesOK'
  BY <1>1, <1>2, <1>4, LimiterTypes DEF LimiterInv, TimesOK
<1>8. RefusalIsJustified'
  BY <1>1, <1>2, <1>4, RefusalFrame DEF RefusalIsJustified
<1>9. ASSUME ~ raced PROVE OneCheck' /\ CheckIsLast' /\ NoneForgotten' /\ WindowsAreBounded'
  <2>1. Checking = {p} /\ Checking' = {}
    BY <1>1, <1>2, <1>9 DEF Checking, LimiterInv, OneCheck
  <2>2. WasLetIn(now[p]) \subseteq recent[p]
    BY <1>1, <1>9 DEF LimiterInv, NoneForgotten
  <2>3. WasLetIn(clock)' \subseteq hits'
    <3> SUFFICES ASSUME NEW h \in admitted', h.at > clock - WindowSeconds PROVE h \in hits'
      BY <1>1 DEF WasLetIn
    <3>1. CASE h \in admitted
      <4>1. h.at > now[p] - WindowSeconds
        BY <3>1, LimiterTypes DEF LimiterInv, TimesOK
      <4> QED
        BY <1>1, <2>2, <3>1, <4>1 DEF WasLetIn
    <3> QED
      BY <1>1, <3>1
  <2>4. NoneForgotten'
    BY <2>1, <2>3 DEF NoneForgotten, Checking
  <2>5. WindowsAreBounded'
    <3> SUFFICES ASSUME NEW h \in admitted' PROVE Cardinality(InWindowOf(h)') =< MaxRequests
      BY DEF WindowsAreBounded, InWindowOf
    <3>1. CASE h.at = now[p]
      <4>1. InWindowOf(h)' \subseteq hits'
        BY <1>1, <2>2, <3>1 DEF InWindowOf, WasLetIn
      <4>2. Cardinality(InWindowOf(h)') =< Cardinality(hits')
        BY <1>5, <4>1, FS_Subset
      <4>3. Cardinality(InWindowOf(h)') \in Nat /\ Cardinality(hits') \in Nat
        BY <1>5, <4>1, FS_Subset, FS_CardinalityType
      <4> QED
        BY <1>5, <4>2, <4>3, LimiterTypes
    <3>2. CASE h \in admitted /\ h.at # now[p]
      <4>1. h.at < now[p]
        BY <1>9, <2>1, <3>2, LimiterTypes DEF LimiterInv, CheckIsLast
      <4>2. InWindowOf(h)' = InWindowOf(h)
        BY <1>1, <1>4, <3>2, <4>1, LimiterTypes DEF InWindowOf
      <4> QED
        BY <1>9, <3>2, <4>2 DEF LimiterInv, WindowsAreBounded
    <3> QED
      BY <1>1, <1>4, <3>1, <3>2
  <2> QED
    BY <2>1, <2>4, <2>5 DEF OneCheck, CheckIsLast
<1> QED
  BY <1>1, <1>6, <1>7, <1>8, <1>9 DEF LimiterInv

(* What follows an admission leaves the limiter alone.                     *)
LEMMA LimiterFrame ==
  ASSUME TypeOK, LimiterInv, NEW p \in Requests, NEW where,
         pc[p] \in {"admitted", "interpreting"},
         where \notin {"timed", "looked", "refused"}, Goto(p, where),
         UNCHANGED checking
  PROVE  LimiterInv'
<1>1. \A q \in Requests : /\ pc'[q] = "timed" <=> pc[q] = "timed"
                          /\ pc'[q] = "looked" <=> pc[q] = "looked"
                          /\ pc'[q] = "refused" <=> pc[q] = "refused"
  BY DEF Goto, TypeOK
<1>2. Checking' = Checking
  BY <1>1 DEF Checking
<1>3. ListsOK' /\ TimesOK' /\ RefusalIsJustified'
  BY <1>1 DEF LimiterInv, ListsOK, TimesOK, RefusalIsJustified, WasLetIn, checking
<1>4. ASSUME ~ raced PROVE OneCheck' /\ CheckIsLast' /\ NoneForgotten' /\ WindowsAreBounded'
  BY <1>1, <1>2, <1>4 DEF LimiterInv, OneCheck, CheckIsLast, NoneForgotten, WindowsAreBounded,
     WasLetIn, InWindowOf, checking
<1> QED
  BY <1>3, <1>4 DEF LimiterInv, checking

LEMMA TimePassesStep ==
  ASSUME TypeOK, LimiterInv, TimePasses
  PROVE  LimiterInv'
<1>1. clock' = clock + 1 /\ UNCHANGED <<pc, now, recent, hits, admitted, raced>>
  BY DEF TimePasses
<1>2. ListsOK' /\ RefusalIsJustified'
  BY <1>1 DEF LimiterInv, ListsOK, RefusalIsJustified, WasLetIn
<1>3. TimesOK'
  BY <1>1, LimiterTypes DEF LimiterInv, TimesOK
<1>4. ASSUME ~ raced PROVE OneCheck' /\ CheckIsLast' /\ NoneForgotten' /\ WindowsAreBounded'
  <2>1. WasLetIn(clock)' \subseteq WasLetIn(clock)
    BY <1>1, LimiterTypes DEF WasLetIn
  <2>2. Checking' = Checking
    BY <1>1 DEF Checking
  <2>3. NoneForgotten'
    BY <1>1, <1>4, <2>1, <2>2 DEF LimiterInv, NoneForgotten, WasLetIn
  <2> QED
    BY <1>1, <1>4, <2>2, <2>3 DEF LimiterInv, OneCheck, CheckIsLast, WindowsAreBounded, InWindowOf
<1> QED
  BY <1>1, <1>2, <1>3, <1>4 DEF LimiterInv

LEMMA LimiterStep == TypeOK /\ LimiterInv /\ [Next]_vars => LimiterInv'
<1> SUFFICES ASSUME TypeOK, LimiterInv, [Next]_vars PROVE LimiterInv'
  OBVIOUS
<1>1. ASSUME NEW p \in Requests, TakeTime(p) PROVE LimiterInv'
  BY <1>1, TakeTimeStep
<1>2. ASSUME NEW p \in Requests, LookUp(p) PROVE LimiterInv'
  BY <1>2, LookUpStep
<1>3. ASSUME NEW p \in Requests, Refuse(p) PROVE LimiterInv'
  BY <1>3, RefuseStep
<1>4. ASSUME NEW p \in Requests, Admit(p) PROVE LimiterInv'
  BY <1>4, AdmitStep
<1>5. ASSUME NEW p \in Requests,
             Reply(p) \/ FindCustomer(p) \/ CommitRequest(p) \/ StartGiven(p) \/ Fail(p)
      PROVE  LimiterInv'
  <2>1. PICK where : where \notin {"timed", "looked", "refused"} /\ Goto(p, where)
    BY <1>5 DEF Reply, FindCustomer, CommitRequest, StartGiven, Fail
  <2>2. pc[p] \in {"admitted", "interpreting"} /\ UNCHANGED checking
    BY <1>5 DEF Reply, FindCustomer, CommitRequest, StartGiven, Fail
  <2> QED
    BY <2>1, <2>2, LimiterFrame
<1>6. CASE TimePasses
  BY <1>6, TimePassesStep
<1>7. CASE UNCHANGED vars
  BY <1>7 DEF LimiterInv, ListsOK, TimesOK, RefusalIsJustified, OneCheck, CheckIsLast,
     NoneForgotten, WindowsAreBounded, WasLetIn, InWindowOf, Checking, vars, checking
<1> QED
  BY <1>1, <1>2, <1>3, <1>4, <1>5, <1>6, <1>7 DEF Next

LEMMA LimiterCorrect == Spec => []LimiterInv
<1>1. Init => LimiterInv
  <2> SUFFICES ASSUME Init PROVE LimiterInv
    OBVIOUS
  <2>1. ListsOK
    BY FS_EmptySet, IntakeConstants DEF Init, ListsOK
  <2>2. TimesOK /\ RefusalIsJustified
    BY DEF Init, TimesOK, RefusalIsJustified
  <2>3. Checking = {}
    BY DEF Init, Checking
  <2>4. OneCheck /\ CheckIsLast /\ NoneForgotten /\ WindowsAreBounded
    BY <2>3 DEF Init, OneCheck, CheckIsLast, NoneForgotten, WindowsAreBounded, WasLetIn
  <2> QED
    BY <2>1, <2>2, <2>4 DEF LimiterInv
<1> QED
  BY <1>1, LimiterStep, TypeCorrect, PTL DEF Spec

(* Nobody is refused before MaxRequests others were let in within the      *)
(* window, although hits may be lost (rate_limit.py check).                *)
THEOREM RefusalIsJustifiedCorrect == Spec => []RefusalIsJustified
<1>1. LimiterInv => RefusalIsJustified
  BY DEF LimiterInv
<1> QED
  BY <1>1, LimiterCorrect, PTL

(* The list of hits stays within the limit, and so do the admissions of    *)
(* every window as long as no checks overlap (rate_limit.py check).        *)
THEOREM LimitHoldsCorrect == Spec => []LimitHolds
<1>1. LimiterInv => LimitHolds
  BY DEF LimiterInv, ListsOK, WindowsAreBounded, InWindowOf, LimitHolds
<1> QED
  BY <1>1, LimiterCorrect, PTL

=============================================================================
