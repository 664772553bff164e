SPECIFICATION Spec
CONSTANTS
  Lbas <- MCLbas2
  Values = {0, 1}
  Zero = 0
  cnt = 1
  MaxRef = 1
  MaxBack = 1
  MaxRange = 2
  Stores = TRUE
  IoFails = FALSE
INVARIANTS LatestAlways
