\* A request that stays in flight while time passes, and the worker's sweep.
SPECIFICATION FairSpec
CONSTANTS
  Appts = {a1, a2}
  Requests = {r1}
  Sweepers = {w1}
  Staff = {"ann"}
  Services = {"cut"}
  Keys = {k1, k2}
  None = None
  Performs <- MCPerforms
  Bookable <- MCBookable
  Duration <- MCDuration
  Buffer <- MCBuffer
  BookingNotice = 2
  Horizon = 4
  Notice = 0
  Grace = 1
  MaxRequestTicks = 2
  MaxTime = 6
INVARIANTS
  NoShowWasMissed
  RecoveriesMatchNoShows
PROPERTIES
  StatusIsFinal
  OverdueIsSettled
