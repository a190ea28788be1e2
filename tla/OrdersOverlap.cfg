SPECIFICATION MCSpec
CONSTANTS
  Orders = {o1}
  Workers = {w1, w2}
  MaxCrashes = 1
  Activated = TRUE
  Overlap = TRUE
SYMMETRY Alike
CHECK_DEADLOCK FALSE
INVARIANTS
  MoneyIsReceived
  RefundIsPosted
  SettlementIsPosted
