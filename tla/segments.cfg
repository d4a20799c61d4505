SPECIFICATION Spec
CONSTANTS
  Window = 6
  MinStep = 2
  Shortest = 1
  Items <- MCItems
INVARIANTS SegmentsTile NothingIsLost
CHECK_DEADLOCK FALSE
