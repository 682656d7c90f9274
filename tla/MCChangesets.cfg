SPECIFICATION Spec
CONSTANTS
  c = c
  d = d
  e = e
  NotADateTime = NotADateTime
  NadtMinutes <- NadtVeryOld
  TicksPerMinute = 1
  Period = 1
  Start = 1
  Cores = 2
  PerServer = 2
  EndTime = NotADateTime
  Quiet = {3, 4}
  Content <- SmallContent
  Faults = {"systemError", "sql"}
  FirstNow = 4
  FirstNewest = 3
  MaxNow = 5
  MaxSeq = 6
  MaxBatches = 5
INVARIANTS TypeOK EveryFileAccounted StaleByLessThanARound RowsSettle CleanOnceSteady
PROPERTY FollowerSpec
CHECK_DEADLOCK FALSE
