\* Clients that wait for their answers, who book, move and cancel, the worker's
\* sweeps, and crashes.
SPECIFICATION Spec
CONSTANTS
  Runs = {r1, r2}
  Appts = {a1, a2}
  Slots = {s1, s2}
  Handlers = {h1, h2}
  Workers = {w1}
  Keys = {k1, k2, k3}
  KeyOf <- MCKeyOf
  None = None
  Intents = {"book", "reschedule", "cancel", "unclear", "other"}
  Patient = TRUE
  Mortal = {h1, h2, w1}
  MAX_CLARIFICATION_ROUNDS = 1
  MAX_OFFERED_SLOTS = 2
SYMMETRY MCSymmetry
INVARIANTS
  TypeOK
  OneBookingPerRun
  OnePendingReminder
  NoRunIsStranded
  SuccessHasResult
