SPECIFICATION FairSpec
CONSTANTS
  r1 = r1
  r2 = r2
  d1 = d1
  d2 = d2
  i1 = i1
  i2 = i2
  w1 = w1
  w2 = w2
  None = None
  Records = {r1, r2}
  Devices = {d1, d2}
  DeviceOf <- MCDeviceOf
  Items = {i1, i2}
  Workers = {w1}
  Lines <- MCLines
  Paid = {r1}
  InitialStock <- MCStock
  MaxRetries = 2
  MaxTx = 3
  MaxCrashes = 1
CHECK_DEADLOCK FALSE
INVARIANTS TypeOK ConflictIsExhausted StockConserved
PROPERTY SettlesIfTakenUp
