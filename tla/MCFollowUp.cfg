\* Three requests of two sessions, one failure of anything, an uncertain calendar.
SPECIFICATION FairSpec
CONSTANTS
  a1 = a1
  h1 = h1
  h2 = h2
  w1 = w1
  w2 = w2
  Appts = {a1}
  Sessions = {h1, h2}
  Workers = {w1, w2}
  None = None
  Starts = {1, 2}
  Lead = 1
  Provider = "resend"
  Ambiguous = TRUE
  MaxTime = 1
  MaxRequests = 3
  MaxEvents = 2
  MaxFailures = 1
INVARIANTS
  TypeOK
  SyncedIsMirrored
  ReminderFollows
  RemindersCounted
  LastNoticeIsTrue
  BookedEventIsLive
PROPERTIES
  JobsAreFinal
  ReminderIsTimely
  DueJobsRun
CHECK_DEADLOCK FALSE
