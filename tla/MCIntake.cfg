\* First messages and a reply from one client, faster than the limiter allows.
SPECIFICATION Spec
CONSTANTS
  p1 = p1
  p2 = p2
  p3 = p3
  p4 = p4
  ann = ann
  ben = ben
  home = home
  work = work
  Requests = {p1, p2, p3, p4}
  Replies = {p4}
  NameOf <- MCNameOf
  ContactOf <- MCContactOf
  None = None
  MaxRequests = 2
  WindowSeconds = 2
  MaxTime = 2
INVARIANTS
  TypeOK
  RefusalIsJustified
  LimitHolds
  DuplicatesOverlapped
  CustomersMatchRuns
\* Once every request is answered, nothing is left to do.
CHECK_DEADLOCK FALSE
