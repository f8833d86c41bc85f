CONSTANTS
  Entries = 8
  WordBits = 4
  KernelPD = 5
  ImagePages = 6
  PDFrame = 0
  PT1Frame = 1
  PoolFrame = 2
  PoolSize = 3
  VGAFrame = 5
  DemandBase = 8
  NFrames = 16
  FirmwareFrames <- MCFirmwareFrames
  Touchable <- MCTouchable
  MaxRequests = 3
  IndexOnPool = TRUE
SPECIFICATION Spec
INVARIANT TablesNotShared
CHECK_DEADLOCK FALSE
