SPECIFICATION Spec
CONSTANTS
  Lbas <- MCLbas
  Values = {0}
  Zero = 0
  cnt = 2
  MaxRef = 2
  MaxBack = 2
  MaxRange = 2
  Stores = TRUE
  IoFails = FALSE
PROPERTIES GrowsOnlyHeld AllDelayedFlushed
VIEW View
