SPECIFICATION Spec
CONSTANTS
  NotADateTime = NotADateTime
  NadtMinutes <- NadtInFuture
  TicksPerMinute = 2
  Period = 1
  Start = 0
  Cores = 1
  EndTime = 5
  Enabled = {"underpass", "osm"}
  Outside = {2}
  Empty = {}
  Faults = {"gatewayTimeout", "systemError", "readError", "dns", "sql"}
  FirstNow = 8
  FirstNewest = 3
  MaxNow = 9
  MaxSeq = 5
  MaxBatches = 3
INVARIANTS TypeOK EveryFileAccounted SteadyNeverSkips AppliedInOrder WindowCovered
PROPERTY FollowerSpec
CHECK_DEADLOCK FALSE
