\* A customer answers a question, and staff ask what happened to the request.
SPECIFICATION Spec
CONSTANTS
  c1 = c1
  Convs = {c1}
  None = None
  Limit = 2
  MAX_CLARIFICATION_ROUNDS = 1
  MaxTime = 0
INVARIANTS
  TraceAnswers
