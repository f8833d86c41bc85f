CONSTANTS
  Pins <- MCPins
  ApicBases <- MCBases
  MaxEvents = 3
SPECIFICATION Spec
INVARIANT NothingLeftInService
CHECK_DEADLOCK FALSE
