\* A confirmation and the expiry sweep meet at the hour.
SPECIFICATION Spec
CONSTANTS
  Runs = {r1}
  Appts = {a1, a2}
  Slots = {s1, s2}
  Handlers = {h1}
  Workers = {w1}
  Keys = {k1}
  KeyOf <- MCKeyOf
  None = None
  Intents = {"book"}
  Patient = TRUE
  Mortal = {}
  MAX_CLARIFICATION_ROUNDS = 1
  MAX_OFFERED_SLOTS = 2
PROPERTIES
  TerminalIsFinal
