SPECIFICATION Spec
CONSTANTS
  Blocks = {1, 2, 3, 4, 5, 6, 7, 8, 9, 10, 11, 12, 13, 14, 15, 16, 17}
  DirectCount = 1
  Fanout = 2
  BlockSize = 2
INVARIANTS Accounted MapsFile
