SPECIFICATION FairSpec
CONSTANTS
  t1 = t1
  t2 = t2
  i1 = i1
  i2 = i2
  c1 = c1
  w1 = w1
  w2 = w2
  None = None
  Unbilled = Unbilled
  Transactions = {t1, t2}
  LineItems = {1, 2, 3, 4, 5}
  InitialLines = {1, 2, 3, 4, 5}
  Items = {i1, i2}
  Customers = {}
  Workers = {w1, w2}
  TxOf <- MCTxOfFive
  ItemOf <- MCItemOfFive
  QtyOf <- MCQtyOfFive
  CustomerOf <- MCWalkIn
  InitialStock <- MCStock
  MaxRemovals = 0
PROPERTY EveryRequestEnds
