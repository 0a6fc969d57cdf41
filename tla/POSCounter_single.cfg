SPECIFICATION Spec
CONSTANTS
  t1 = t1
  t2 = t2
  i1 = i1
  i2 = i2
  c1 = c1
  w1 = w1
  w2 = w2
  None = None
  Unbilled = Unbilled
  Transactions = {t1, t2}
  LineItems = {1, 2, 3, 4}
  InitialLines = {}
  Items = {i1, i2}
  Customers = {c1}
  Workers = {w1}
  TxOf <- MCTxOf
  ItemOf <- MCItemOf
  QtyOf <- MCQtyOf
  CustomerOf <- MCCustomerOf
  InitialStock <- MCStock
  MaxRemovals = 4
INVARIANTS TypeOK CustomerIsCredited
PROPERTY ImplementsTill
