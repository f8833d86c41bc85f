CONSTANTS
  Port2 = "nothing"
  DualChannel = TRUE
  Prompt = TRUE
  EarlyKeys = TRUE
  ScanCodes <- MCScanCodes
  MaxKeys = 1
SPECIFICATION Spec
INVARIANT InterruptsEnabled
CHECK_DEADLOCK FALSE
