SPECIFICATION FairSrvSpec
CONSTANTS
  NKeys = 2
  DebounceTicks = 2
  MaxEdges = 4
  MaxFires = 4
CHECK_DEADLOCK FALSE
INVARIANTS
  PressShape
PROPERTIES
  LevelReported
