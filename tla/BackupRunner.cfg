CONSTANTS
  Recent = 1
  AgedDays = 2
  Proc = {r, o}
  Once = {o}
  Destination = {d, e}
  PeriodLength = 2
  Slot = 1
  BackoffStart = 1
  BackoffCap = 2
  Remote = {3, 7}
  FirstTick = 5
  MaxClock = 7
  NoOne = NoOne
SPECIFICATION FairSpec
INVARIANTS
  RecentKept
  AgedTier
  RecordBacked
  SpoolKept
PROPERTIES
  OncePerPeriod
  StopEnds
