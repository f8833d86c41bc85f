CONSTANTS
  Port2 = "nothing"
  DualChannel = TRUE
  Prompt = TRUE
  EarlyKeys = FALSE
  ScanCodes <- MCScanCodes
  MaxKeys = 2
SPECIFICATION Spec
INVARIANTS AnswersInStep InterruptsEnabled KeyboardIdentified NothingWaitsInVain
PROPERTIES InitEnds KeysRead
CHECK_DEADLOCK FALSE
