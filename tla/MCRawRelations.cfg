SPECIFICATION SpecAll
CONSTANTS
  a = a
  b = b
  c = c
  w = w
  Nodes = {a, b, c}
  Ways = {w}
  Relations = {r, q}
  Multipolygons = {q}
  MemberLists <- Members
  Locs = {here, there}
  NoLoc = nowhere
  Refs <- Ring
  FilesAtOnce = 1
  RefsOnDelete = {"all"}
  MaxFiles = 2
  MaxEdits = 2
  MaxRestarts = 1
SYMMETRY LocSymmetry
ACTION_CONSTRAINT FeedFirst
CHECK_DEADLOCK FALSE
INVARIANTS  RelationsInStep RelationsFollow
