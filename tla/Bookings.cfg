SPECIFICATION MCLiveSpec
CONSTANTS
  Bookings = {b1, b2}
  Workers = {w1, w2}
  LastNight = 2
  TotalRooms = 1
  RoomCounts = {1}
  LastWeek = 2
  MaxCrashes = 1
CHECK_DEADLOCK FALSE
INVARIANTS
  CalendarIsStays
  PinIsMoney
  SettlementPaysItsRows
PROPERTIES
  ImplementsRooms
  OverdueEnds
