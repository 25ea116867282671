--------------------------- MODULE AppointmentBook ---------------------------
(***************************************************************************)
(* What the appointment table promises, without sessions, snapshots or     *)
(* constraints: a book in which one appointment changes at a time.  An     *)
(* appointment holds a slot exactly while it is BOOKED; the slots of one   *)
(* staff member are disjoint; a key is used once; a cancelled or missed    *)
(* appointment stays so; and only an appointment whose slot is past the    *)
(* grace period is missed.  Module Booking implements this book.           *)
(***************************************************************************)
EXTENDS Integers

CONSTANTS Appts, Staff, Keys, None, Grace

VARIABLES time, state, keyOf, slot

bookVars == <<time, state, keyOf, slot>>

Slot == [staff : Staff, from : Nat, until : Nat]

Clash(x, y) == x.staff = y.staff /\ x.from < y.until /\ y.from < x.until

(* A slot that clashes with no appointment but, perhaps, a.                *)
FreeSlot(a, x) ==
  \A b \in Appts \ {a} : state[b] = "BOOKED" => ~ Clash(x, slot[b])

Init ==
  /\ time = 0
  /\ state = [a \in Appts |-> "FREE"]
  /\ keyOf = [a \in Appts |-> None]
  /\ slot = [a \in Appts |-> None]

Put(a) ==
  /\ slot'[a] \in Slot
  /\ FreeSlot(a, slot'[a])
  /\ slot' = [slot EXCEPT ![a] = slot'[a]]

Reserve(a) ==
  /\ state[a] = "FREE"
  /\ Put(a)
  /\ keyOf'[a] \in Keys
  /\ \A b \in Appts : keyOf[b] # keyOf'[a]
  /\ state' = [state EXCEPT ![a] = "BOOKED"]
  /\ keyOf' = [keyOf EXCEPT ![a] = keyOf'[a]]
  /\ UNCHANGED time

Move(a) ==
  /\ state[a] = "BOOKED"
  /\ Put(a)
  /\ slot'[a].staff = slot[a].staff
  /\ UNCHANGED <<time, state, keyOf>>

Release(a) ==
  /\ state[a] = "BOOKED"
  /\ state' = [state EXCEPT ![a] = "CANCELLED"]
  /\ slot' = [slot EXCEPT ![a] = None]
  /\ UNCHANGED <<time, keyOf>>

Miss(a) ==
  /\ state[a] = "BOOKED"
  /\ time > slot[a].until + Grace
  /\ state' = [state EXCEPT ![a] = "NO_SHOW"]
  /\ slot' = [slot EXCEPT ![a] = None]
  /\ UNCHANGED <<time, keyOf>>

Pass ==
  /\ time' = time + 1
  /\ UNCHANGED <<state, keyOf, slot>>

Next ==
  \/ \E a \in Appts : Reserve(a) \/ Move(a) \/ Release(a) \/ Miss(a)
  \/ Pass

Spec == Init /\ [][Next]_bookVars

=============================================================================
