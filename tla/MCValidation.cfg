SPECIFICATION Spec
CONSTANTS
  NodeIds = {1}
  WayIds = {1}
  NodeTags <- TagsOfNodes
  WayTags <- TagsOfWays
  BadTags <- Empty
  BuildingTests <- Tests
  FilesAtOnce = 2
  MaxFiles = 2
  MaxEdits = 3
  MaxRestarts = 1
ACTION_CONSTRAINT FeedFirst
CHECK_DEADLOCK FALSE
INVARIANTS  NodesAgree
