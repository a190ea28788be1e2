SPECIFICATION MCLiveSpec
CONSTANTS
  Rides = {r1, r2}
  Drivers = {d1, d2}
  Workers = {w1}
  MaxAttempts = 2
  Batch = 1
  MaxCrashes = 1
  NoDriver = NoDriver
INVARIANTS
  SerialDriverAccepted
PROPERTIES
  SearchResumes
