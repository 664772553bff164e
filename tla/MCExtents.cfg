SPECIFICATION Spec
CONSTANTS
  NBlocks = 10
  MaxSize = 5
  RootMax = 1
  NodeMax = 2
  Explored = {}
INVARIANTS MapsRight Accounted Ordered
PROPERTY RemovalEnds
CHECK_DEADLOCK FALSE
