SPECIFICATION Spec
CONSTANTS
  Lbas <- MCLbas2
  Values = {0, 1}
  Zero = 0
  cnt = 1
  MaxRef = 2
  MaxBack = 2
  MaxRange = 2
  Stores = TRUE
  IoFails = TRUE
INVARIANTS ListFlushable LatestSeen
