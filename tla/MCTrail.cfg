\* A conversation is written down while staff read one page after the other.
SPECIFICATION Spec
CONSTANTS
  c1 = c1
  Convs = {c1}
  None = None
  Limit = 2
  MAX_CLARIFICATION_ROUNDS = 1
  MaxTime = 1
INVARIANTS
  TypeOK
  TimelineIsComplete
  ActivityIsNewest
  OverviewOverlooksNothing
