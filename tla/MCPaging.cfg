CONSTANTS
  Entries = 8
  WordBits = 4
  KernelPD = 5
  ImagePages = 6
  PDFrame = 0
  PT1Frame = 1
  PoolFrame = 2
  PoolSize = 3
  VGAFrame = 5
  DemandBase = 8
  NFrames = 16
  FirmwareFrames <- MCFirmwareFrames
  Touchable <- MCTouchable
  MaxRequests = 3
  IndexOnPool = FALSE
  BootText = 5
  Text = 5
  Stack = 5
  Watched <- MCWatched
SPECIFICATION BootSpec
INVARIANTS MappedAsAsked TablesNotShared PoolKept FramesPrivate AccessesLand NothingStale HandsOver
PROPERTIES MappingsAreStable ImplementsAddressSpace
CHECK_DEADLOCK FALSE
