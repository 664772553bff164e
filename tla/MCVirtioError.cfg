CONSTANTS
  QUEUE_NUM = 4
  IdxModulus = 4
  Sectors = {0, 1}
  MaxCount = 2
  Values = {0, 1}
  DeviceFails = TRUE
  Reloads = TRUE
SPECIFICATION Spec
INVARIANT ReturnMeansDone
