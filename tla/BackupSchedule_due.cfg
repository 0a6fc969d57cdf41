SPECIFICATION FairSpec
CONSTANTS
  daily = daily
  shop = shop
  config = config
  w1 = w1
  w2 = w2
  Daily = {daily}
  Weekly = {}
  Monthly = {}
  TenantOnly = {shop}
  Unknown = {config}
  Name <- MCName
  Workers = {w1, w2}
  Day = 2
  Week = 2
  Month = 1
  Hour = 1
  WeekDay <- MCWeekDay
  MonthDay <- MCMonthDay
  MaxTime = 3
  MaxRetries = 1
  MaxFaults = 1
INVARIANTS
  TypeOK
  LaterSlotIsKept
  UndisturbedIsCounted
PROPERTIES
  DueIsRecorded
CHECK_DEADLOCK FALSE
