SPECIFICATION Spec
CONSTANTS
  Changesets = {c1, c2}
  MaxUploads = 3
  MaxEdits = 1
  MaxFiles = 2
  MaxRestarts = 1
SYMMETRY ChangesetSymmetry
INVARIANTS
  TypeOK
  MetaInStep
  
  
CHECK_DEADLOCK FALSE
