SPECIFICATION FairSpec
CONSTANTS
  b1 = b1
  b2 = b2
  w1 = w1
  w2 = w2
  None = None
  Backups = {b1, b2}
  Workers = {w1, w2}
  MaxFaults = 2
  MaxCrashes = 1
INVARIANTS
  TypeOK
  CompletedIsKept
  CorruptedWasDamaged
  OrphansAreFaults
PROPERTIES
  RemovedIsFinal
  ExpiredIsRemoved
CHECK_DEADLOCK FALSE
