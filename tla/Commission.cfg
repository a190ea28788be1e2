SPECIFICATION MCSpec
CONSTANTS
  order = order
  reversal = reversal
  settlement = settlement
  NoLimit = 9
  NoRef = NoRef
  Handlers = {h1, h2}
  Calls <- AllCalls
  Limits = {0, 1}
  MaxEntries = 2
  MaxDeaths = 1
SYMMETRY Symmetry
INVARIANTS
  BooksBalance
  PaymentsCovered
PROPERTIES
  BlockFollowsDebt
