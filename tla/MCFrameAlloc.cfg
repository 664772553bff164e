CONSTANTS
  Unit = 4096
  MAX_BUDDY_HEADER_BITS = 17
  Maps <- AllMaps
  Counts = {1, 3, 8}
  MaxCalls = 4
SPECIFICATION FrameSpec
INVARIANTS PagesApart OutsideImage
CHECK_DEADLOCK FALSE
