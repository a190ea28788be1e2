SPECIFICATION MCSpec
CONSTANTS
  Txns = {t1, t2}
  Workers = {w1, w2}
  MaxCrashes = 1
SYMMETRY Alike
INVARIANTS
  StatusIsMoney
  MoneyIsCovered
  SettledByMethod
