\* One request after another, on a calendar with buffers.
SPECIFICATION Spec
CONSTANTS
  Appts = {a1, a2}
  Requests = {r1}
  Sweepers = {}
  Staff = {"ann"}
  Services = {"cut", "colour"}
  Keys = {k1, k2}
  None = None
  Performs <- MCPerforms
  Bookable <- MCBookable
  Duration <- MCDuration
  Buffer <- MCBuffer
  BookingNotice = 0
  Horizon = 4
  Notice = 0
  Grace = 0
  MaxRequestTicks = 0
  MaxTime = 4
INVARIANTS
  BufferIsKept
