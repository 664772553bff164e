CONSTANTS
  Unit = 32
  MAX_BUDDY_HEADER_BITS = 8
  HeapBase = 1500
  HeapSize = 580
  HeaderSize = 16
  Sizes = {0, 40, 70}
SPECIFICATION FairSpec
INVARIANTS HeldApart LiveTagged StaleFreeHarmless
PROPERTIES CutConserves CallsReturn
CHECK_DEADLOCK FALSE
