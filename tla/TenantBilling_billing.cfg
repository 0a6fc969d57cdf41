SPECIFICATION FairSpec
CONSTANTS
  t1 = t1
  t2 = t2
  t3 = t3
  c1 = c1
  b1 = b1
  d1 = d1
  None = None
  Tenants = {t1, t2, t3}
  Emailed = {t2}
  Uncycled = {t3}
  Clerks = {c1}
  Batches = {b1}
  Collectors = {d1}
  MonthDays = 3
  Term = 0
  Grace = 1
  MaxDay = 2
  MaxSeq = 3
  MaxRequests = 1
  Kinds = {"monthly", "custom"}
  MaxCrashes = 1
INVARIANTS
  TypeOK
  BilledOncePerProcess
  SuspendedWasLate
PROPERTIES
  MovedWasBilled
  NoticedIfCollected
  BilledIfRun
CHECK_DEADLOCK FALSE
