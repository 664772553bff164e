CONSTANTS
  Unit = 4096
  MAX_BUDDY_HEADER_BITS = 17
  Maps <- TailMaps
  Counts = {1}
  MaxCalls = 3
SPECIFICATION FrameSpec
INVARIANT AvailPageClear
CHECK_DEADLOCK FALSE
