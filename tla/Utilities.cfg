SPECIFICATION MCLiveSpec
CONSTANTS
  Purchases = {p1, p2}
  Workers = {w1, w2}
  MaxCrashes = 1
INVARIANTS
  BoughtOnce
  RefundHasGround
  OneVerdict
PROPERTIES
  PaidMovesOn
CHECK_DEADLOCK FALSE
