SPECIFICATION Spec
CONSTANTS
  twinB = twinB
  twinC = twinC
  Names <- MCNames
  Dot = "."
  DotDot = ".."
  NameLen <- MCNameLen
  Hash <- MCHash
  BlockSize = 32
  RootLimit = 2
  NodeLimit = 3
  MaxBlocks = 6
  Explored = {}
INVARIANTS Tiled FindsNames ListsAll
VIEW View
SYMMETRY Twins
CHECK_DEADLOCK FALSE
