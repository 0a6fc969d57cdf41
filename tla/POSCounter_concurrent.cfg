SPECIFICATION Spec
CONSTANTS
  t1 = t1
  t2 = t2
  i1 = i1
  i2 = i2
  c1 = c1
  w1 = w1
  w2 = w2
  None = None
  Unbilled = Unbilled
  Transactions = {t1, t2}
  LineItems = {1, 2}
  InitialLines = {}
  Items = {i1}
  Customers = {c1}
  Workers = {w1, w2}
  TxOf <- MCTxOfShort
  ItemOf <- MCItemOfShort
  QtyOf <- MCQtyOfShort
  CustomerOf <- MCCustomerOf
  InitialStock <- MCStockShort
  MaxRemovals = 2
INVARIANTS NoPhantomSale CompletedIsBilled UnitsTakenOnce
SYMMETRY WorkerSymmetry
