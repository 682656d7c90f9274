SPECIFICATION Spec
CONSTANTS
  a = a
  b = b
  c = c
  Nodes = {a, b, c}
  Ways = {w}
  Locs = {here, there}
  NoLoc = nowhere
  Refs <- Shapes
  FilesAtOnce = 1
  RefsOnDelete = {"all"}
  MaxFiles = 2
  MaxEdits = 2
  MaxRestarts = 0
SYMMETRY LocSymmetry
ACTION_CONSTRAINT FeedFirst
CHECK_DEADLOCK FALSE
INVARIANT MovedWaysFollow
