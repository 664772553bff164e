CONSTANTS
  QUEUE_NUM = 4
  IdxModulus = 8
  Sectors = {0}
  MaxCount = 1
  Values = {0, 1}
  DeviceFails = FALSE
  Reloads = FALSE
SPECIFICATION FairSpec
PROPERTY CallReturns
CHECK_DEADLOCK FALSE
