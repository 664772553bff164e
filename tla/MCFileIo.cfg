SPECIFICATION FairSpec
CONSTANTS
  Handles = {h1, h2}
  BlockSize = 4
  SectorSize = 2
  NBlocks = 4
  Sizes = {3, 9}
  Offsets = {0, 3}
  MaxTrunc = 4
  MaxCalls = 2
  IoFails = TRUE
INVARIANTS ContentRight ReadRight WriteBackEnds
PROPERTIES Confined CallEnds
CHECK_DEADLOCK FALSE
