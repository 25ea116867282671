\* Two sessions and nothing that fails: a retry while the booking is under way.
SPECIFICATION Spec
CONSTANTS
  a1 = a1
  h1 = h1
  h2 = h2
  w1 = w1
  w2 = w2
  Appts = {a1}
  Sessions = {h1, h2}
  Workers = {w1}
  None = None
  Starts = {1, 2}
  Lead = 1
  Provider = "mock"
  Ambiguous = FALSE
  MaxTime = 1
  MaxRequests = 3
  MaxEvents = 3
  MaxFailures = 0
INVARIANTS
  RetryKeepsOneEvent
CHECK_DEADLOCK FALSE
