CONSTANTS
  Port2 = "mouse"
  DualChannel = TRUE
  Prompt = TRUE
  EarlyKeys = FALSE
  ScanCodes <- MCScanCodes
  MaxKeys = 0
SPECIFICATION Spec
INVARIANT InterruptsEnabled
CHECK_DEADLOCK FALSE
