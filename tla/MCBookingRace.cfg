\* Two requests race for two calendars with two services.
SPECIFICATION Spec
CONSTANTS
  Appts = {a1, a2}
  Requests = {r1, r2}
  Sweepers = {}
  Staff = {"ann", "bob"}
  Services = {"cut", "colour"}
  Keys = {k1, k2}
  None = None
  Performs <- MCPerforms
  Bookable <- MCBookable
  Duration <- MCDuration
  Buffer <- MCBuffer
  BookingNotice = 0
  Horizon = 3
  Notice = 0
  Grace = 0
  MaxRequestTicks = 0
  MaxTime = 3
SYMMETRY MCSymmetry
INVARIANTS
  TypeOK
  NoDoubleBooking
  OneAppointmentPerKey
PROPERTIES
  ImplementsBook
