CONSTANTS
  QUEUE_NUM = 3
  IdxModulus = 6
  Sectors = {0, 1}
  MaxCount = 2
  Values = {0, 1}
  DeviceFails = TRUE
  Reloads = TRUE
SPECIFICATION FairSpec
INVARIANTS DeviceSeesWholeChain NoDescriptorLost
PROPERTIES CallReturns ImplementsBlockDev
