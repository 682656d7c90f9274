SPECIFICATION Spec
CONSTANTS
  Stoi <- ValueOf
  TimeFromString <- ValueOf
INVARIANTS RelationBuilt StatsCounted 
CHECK_DEADLOCK FALSE
