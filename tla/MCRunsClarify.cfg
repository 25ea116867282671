\* Conversations that go back and forth, and the worker that closes them.
SPECIFICATION FairSpec
CONSTANTS
  Runs = {r1, r2}
  Appts = {a1}
  Slots = {s1}
  Handlers = {h1, h2}
  Workers = {w1}
  Keys = {k1, k2}
  KeyOf <- MCKeyOf
  None = None
  Intents = {"unclear", "book", "other"}
  Patient = TRUE
  Mortal = {h1, h2}
  MAX_CLARIFICATION_ROUNDS = 2
  MAX_OFFERED_SLOTS = 2
INVARIANTS
  BoundedClarification
PROPERTIES
  AbandonedRunsClose
