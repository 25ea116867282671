------------------------------- MODULE Intake -------------------------------
(***************************************************************************)
(* How a message comes in: the rate limiter in front of POST /requests and *)
(* POST /requests/{id}/reply (app/api/rate_limit.py), and the customer a   *)
(* first message is taken to be from (app/domain/customers.py, called by   *)
(* start_request).                                                         *)
(*                                                                         *)
(* The limiter is a function that is not async, so that the framework runs *)
(* it on a pool of threads: it reads the clock, then the list of earlier   *)
(* hits, and then writes the list, without a lock.  All requests here come *)
(* from one client, since the lists of two clients are kept apart.  What   *)
(* becomes of an admitted reply, and of the run that a first message       *)
(* starts, is the matter of module ProcessingRuns.                         *)
(***************************************************************************)
EXTENDS Integers, FiniteSets

CONSTANTS
  Requests,
  Replies,    \* those that answer a question; the others start a run
  NameOf, ContactOf,  \* customer_name and customer_contact of a request
  None,
  MaxRequests, WindowSeconds,  \* of the limiter
  MaxTime     \* a bound

First == Requests \ Replies

ASSUME IntakeConstants ==
  /\ Replies \subseteq Requests
  /\ IsFiniteSet(Requests)
  /\ None \notin Requests
  /\ MaxRequests \in Nat \ {0}
  /\ WindowSeconds \in Nat \ {0}
  /\ MaxTime \in Nat

VARIABLES
  clock,
  pc,
  now,        \* the time a check has read
  recent,     \* the hits it has found
  hits,       \* the list the limiter keeps
  admitted,   \* every hit that was let through
  raced,      \* whether two checks ever overlapped
  customers,  \* the customers table; a row is named after who inserted it
  mine,       \* the customer a request found, or is about to insert
  runs,       \* the processing_runs table
  overlapped  \* the pairs of first messages that were handled together

checking == <<clock, now, recent, hits, admitted, raced>>
resolving == <<customers, mine, runs, overlapped>>
vars == <<pc, checking, resolving>>

Hit == [by : Requests, at : Nat]
Customer == [id : First, name : {NameOf[p] : p \in First},
             contact : {ContactOf[p] : p \in First}]
Run == [of : First, customer : First, given : BOOLEAN]

PC == {"new", "timed", "looked", "refused", "admitted", "interpreting", "done",
       "failed"}

Init ==
  /\ clock = 0
  /\ pc = [p \in Requests |-> "new"]
  /\ now = [p \in Requests |-> 0]
  /\ recent = [p \in Requests |-> {}]
  /\ hits = {}
  /\ admitted = {}
  /\ raced = FALSE
  /\ customers = {}
  /\ mine = [p \in Requests |-> None]
  /\ runs = {}
  /\ overlapped = {}

Goto(p, where) == pc' = [pc EXCEPT ![p] = where]

-----------------------------------------------------------------------------
(* FixedWindowRateLimiter.check.                                           *)

Checking == {p \in Requests : pc[p] \in {"timed", "looked"}}

TakeTime(p) ==
  /\ pc[p] = "new"
  /\ now' = [now EXCEPT ![p] = clock]
  /\ raced' = (raced \/ Checking # {})
  /\ Goto(p, "timed")
  /\ UNCHANGED <<clock, recent, hits, admitted, resolving>>

(* A slip: the window is closed at its start.                              *)
InClosedWindow(h, t) == h.at >= t - WindowSeconds

InWindow(h, t) == h.at > t - WindowSeconds

LookUp(p) ==
  /\ pc[p] = "timed"
  /\ recent' = [recent EXCEPT ![p] = {h \in hits : InWindow(h, now[p])}]
  /\ Goto(p, "looked")
  /\ UNCHANGED <<clock, now, hits, admitted, raced, resolving>>

(* A slip: one too many.                                                   *)
IsOverFull(p) == Cardinality(recent[p]) > MaxRequests

IsFull(p) == Cardinality(recent[p]) >= MaxRequests

Refuse(p) ==
  /\ pc[p] = "looked"
  /\ IsFull(p)
  /\ hits' = recent[p]
  /\ recent' = [recent EXCEPT ![p] = {}]
  /\ Goto(p, "refused")
  /\ UNCHANGED <<clock, now, admitted, raced, resolving>>

Own(p) == [by |-> p, at |-> now[p]]

Kept(p) == recent[p] \cup {Own(p)}

Admit(p) ==
  /\ pc[p] = "looked"
  /\ ~ IsFull(p)
  /\ hits' = Kept(p)
  /\ admitted' = admitted \cup {Own(p)}
  /\ now' = [now EXCEPT ![p] = 0]
  /\ recent' = [recent EXCEPT ![p] = {}]
  /\ Goto(p, "admitted")
  /\ UNCHANGED <<clock, raced, resolving>>

-----------------------------------------------------------------------------
(* start_request, as far as customers go.                                  *)

Reply(p) ==
  /\ pc[p] = "admitted"
  /\ p \in Replies
  /\ Goto(p, "done")
  /\ UNCHANGED <<checking, resolving>>

(* A slip: a customer is known by name and contact.                        *)
SameNameAndContact(c, p) == c.name = NameOf[p] /\ c.contact = ContactOf[p]

SameContact(c, p) == c.contact = ContactOf[p]

(* A slip: the two fields are mixed up.                                    *)
RowMixedUp(p) == [id |-> p, name |-> NameOf[p], contact |-> NameOf[p]]

Row(p) == [id |-> p, name |-> NameOf[p], contact |-> ContactOf[p]]

(* A slip: the new customer is committed at once.                          *)
WithRow(p) == customers \cup {Row(x) : x \in {y \in {p} : mine'[y] = y}}

(* What others see of the customer that was flushed: nothing.              *)
AfterFlush(p) == customers

Interpreting == {q \in First : pc[q] = "interpreting"}

(* find_or_create_customer; the interpreter is called afterwards, in the   *)
(* same transaction.                                                       *)
FindCustomer(p) ==
  /\ pc[p] = "admitted"
  /\ p \in First
  /\ LET known == {c \in customers : SameContact(c, p)} IN
       \/ \E c \in known : mine' = [mine EXCEPT ![p] = c.id]
       \/ known = {} /\ mine' = [mine EXCEPT ![p] = p]
  /\ customers' = AfterFlush(p)
  /\ overlapped' = overlapped \cup {{p, q} : q \in Interpreting}
  /\ Goto(p, "interpreting")
  /\ UNCHANGED <<checking, runs>>

(* The run is committed together with its customer.                        *)
CommitRequest(p) ==
  /\ pc[p] = "interpreting"
  /\ customers' = IF mine[p] = p THEN customers \cup {Row(p)} ELSE customers
  /\ runs' = runs \cup {[of |-> p, customer |-> mine[p], given |-> FALSE]}
  /\ mine' = [mine EXCEPT ![p] = None]
  /\ Goto(p, "done")
  /\ UNCHANGED <<checking, overlapped>>

(* A request may name its customer by id.                                  *)
StartGiven(p) ==
  /\ pc[p] = "admitted"
  /\ p \in First
  /\ \E c \in customers :
       runs' = runs \cup {[of |-> p, customer |-> c.id, given |-> TRUE]}
  /\ Goto(p, "done")
  /\ UNCHANGED <<checking, customers, mine, overlapped>>

(* An error, or a process that dies: the transaction is undone.            *)
Fail(p) ==
  /\ pc[p] \in {"admitted", "interpreting"}
  /\ mine' = [mine EXCEPT ![p] = None]
  /\ Goto(p, "failed")
  /\ UNCHANGED <<checking, customers, runs, overlapped>>

-----------------------------------------------------------------------------

TimePasses ==
  /\ clock < MaxTime
  /\ clock' = clock + 1
  /\ UNCHANGED <<pc, now, recent, hits, admitted, raced, resolving>>

Next ==
  \/ \E p \in Requests : \/ TakeTime(p) \/ LookUp(p) \/ Refuse(p) \/ Admit(p)
                         \/ Reply(p) \/ FindCustomer(p) \/ CommitRequest(p)
                         \/ StartGiven(p) \/ Fail(p)
  \/ TimePasses

Spec == Init /\ [][Next]_vars

-----------------------------------------------------------------------------

(* Every variable keeps to its columns.                                    *)
TypeOK ==
  /\ clock \in Nat
  /\ pc \in [Requests -> PC]
  /\ now \in [Requests -> Nat]
  /\ recent \in [Requests -> SUBSET Hit]
  /\ hits \subseteq Hit
  /\ admitted \subseteq Hit
  /\ raced \in BOOLEAN
  /\ customers \subseteq Customer
  /\ mine \in [Requests -> First \cup {None}]
  /\ runs \subseteq Run
  /\ overlapped \subseteq SUBSET First

(* Nobody is turned away before his time: a refused request comes after    *)
(* MaxRequests others that were let through in the window before it        *)
(* (rate_limit.py check), whatever the threads overwrite.                  *)
RefusalIsJustified ==
  \A p \in Requests : pc[p] = "refused" =>
    Cardinality({h \in admitted : h.at > now[p] - WindowSeconds}) >= MaxRequests

(* The list of hits never outgrows the limit, although nothing but the     *)
(* next request empties it; and the limit holds, in every window, as long  *)
(* as no two checks overlap (rate_limit.py check).                         *)
LimitHolds ==
  /\ Cardinality(hits) =< MaxRequests
  /\ ~ raced =>
        \A h \in admitted :
          Cardinality({g \in admitted : /\ g.at =< h.at
                                        /\ g.at > h.at - WindowSeconds}) =< MaxRequests

(* One contact has two customers only when the requests that inserted them *)
(* were handled at the same time (customers.py find_or_create_customer).   *)
DuplicatesOverlapped ==
  \A c, d \in customers :
    c # d /\ c.contact = d.contact => {c.id, d.id} \in overlapped

(* A run that was started with a contact belongs to a customer with this   *)
(* contact, and no customer is left behind by a request that failed after  *)
(* it inserted him (customers.py find_or_create_customer, orchestrator.py  *)
(* start_request).                                                         *)
CustomersMatchRuns ==
  /\ \A r \in runs : ~ r.given =>
        \E c \in customers : c.id = r.customer /\ c.contact = ContactOf[r.of]
  /\ \A c \in customers : \E r \in runs : r.customer = c.id

=============================================================================
