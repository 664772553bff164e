SPECIFICATION Spec
CONSTANTS
  GroupSize = 12
  TotalBlocks = 20
  FirstDataBlock = 1
  ByteBits = 3
  WordBits = 6
  Meta <- MCMeta
  InodesPerGroup = 2
  TotalInodes = 3
  UninitGroups = {1}
INVARIANTS BlocksAccounted InodesAccounted
PROPERTIES FullWhenTold SearchEnds
