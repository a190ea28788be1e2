SPECIFICATION MCLiveSpec
CONSTANTS
  Jobs = {1, 2}
  Couriers = {c1, c2}
  NoCourier = NoCourier
  Drivers = {c2}
  Workers = {w1, w2}
  Timer = timer
  Capacity = 2
  Batch = 1
  MaxCrashes = 1
CHECK_DEADLOCK FALSE
INVARIANTS
  SettledOnce
  SerialCountIsJobs
PROPERTIES
  SerialJobsFindCouriers
