SPECIFICATION Spec
CONSTANTS
  Workers = {w1, w2}
  MaxFile = 2
  MaxRounds = 4
  MaxCrashes = 1
SYMMETRY WorkerSymmetry
INVARIANTS TypeOK BadFilesGo MissedForCause
CHECK_DEADLOCK FALSE
