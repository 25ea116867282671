\* Listing the slots of a staff member, and re-checking one of them.
SPECIFICATION FairSpec
CONSTANTS
  DayLength = 8
  DaysPerWeek = 2
  Duration = 2
  Notice = 1
  Horizon = 16
  None = None
  TheStaff = s1
  TheService = v1
  TheRules <- MCTheRules
  TheBlocked <- MCTheBlocked
  RuleSets <- MCRuleSets
  BlockedSets <- MCBlockedSets
  Bookings <- MCBookings
  BookedSets <- MCBookedSets
  Asks <- MCAsks
  Delays = {0, 2, 5}
INVARIANTS
  TypeOK
  SlotsAreFree
  NothingIsMissed
  RecheckIsRight
  LoopsAnswerBooking
  SameInputsSameSlots
PROPERTIES
  ListingEnds
CHECK_DEADLOCK FALSE
