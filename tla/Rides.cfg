SPECIFICATION MCSpec
CONSTANTS
  Rides = {r1, r2}
  Drivers = {d1, d2}
  Workers = {w1, w2}
  MaxAttempts = 1
  Batch = 1
  MaxCrashes = 1
  NoDriver = NoDriver
SYMMETRY Symmetry
INVARIANTS
  SerialCountIsTrips
  SerialOneLiveOffer
PROPERTIES
  ImplementsTrips
  LoserTakesNothing
