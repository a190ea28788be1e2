SPECIFICATION MCLiveSpec
CONSTANTS
  Orders = {o1, o2}
  Workers = {w1, w2}
  MaxCrashes = 0
  Activated = TRUE
  Overlap = FALSE
CHECK_DEADLOCK FALSE
INVARIANTS
  CartFollowsOrder
  CaseFollowsOrder
PROPERTIES
  UnpaidEnds
