SPECIFICATION MCSpec
CONSTANTS
  Rides = {r1}
  Drivers = {d1, d2}
  Workers = {w1, w2}
  MaxAttempts = 2
  Batch = 1
  MaxCrashes = 0
  NoDriver = NoDriver
SYMMETRY Symmetry
PROPERTIES
  WinnerKeepsRide
