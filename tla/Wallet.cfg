SPECIFICATION MCSpec
CONSTANTS
  w1 = w1
  w2 = w2
  topup = topup
  purchase = purchase
  booking = booking
  booking2 = booking2
  send1 = send1
  send2 = send2
  Wallets = {w1, w2}
  Conns = {c1, c2}
  Refs = {topup, purchase, booking, booking2, send1, send2}
  Amounts = {1, 2}
  Calls <- AllCalls
  UpsertLocks = FALSE
  Free = Free
  NoRow = NoRow
INVARIANTS
  BooksBalance
  Reconciles
PROPERTIES
  Answered
  AnswerIsBooked
  ImplementsBook
