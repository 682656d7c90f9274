SPECIFICATION Spec
CONSTANTS
  PageSize = 2
  Concurrency = 2
  RowCounts = {0, 3, 4, 9}
  MaxFailures = 1
INVARIANTS TypeOK EveryRowOnce DiesForWantOfRows
PROPERTY Terminates
CHECK_DEADLOCK FALSE
