SPECIFICATION Spec
CONSTANTS
  Requests = {q1, q2}
  Workers = {h1, h2}
  Amounts = {1, 2}
  Funds = 3
  Debts = {0, 1}
  MaxCrashes = 1
SYMMETRY Symmetry
INVARIANTS
  SentIsFunded
  RefundIsDue
  StatusIsMoney
  NoticeIsHeeded
CHECK_DEADLOCK FALSE
