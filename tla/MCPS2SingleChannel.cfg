CONSTANTS
  Port2 = "nothing"
  DualChannel = FALSE
  Prompt = TRUE
  EarlyKeys = FALSE
  ScanCodes <- MCScanCodes
  MaxKeys = 0
SPECIFICATION Spec
PROPERTY InitEnds
CHECK_DEADLOCK FALSE
