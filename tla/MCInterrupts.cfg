CONSTANTS
  Pins <- MCPins
  ApicBases <- MCBases
  MaxEvents = 4
  Chips = {"prompt", "slow", "faulty", "absent"}
  Lines <- MCLines
  FirmwareMasks <- MCFirmwareMasks
  LowBase = 16
  HighBase = 4
  LowLimit = 8
  Half = 8
  TssAddress = 55
  TssSize = 20
  StackPointer = 7
  Gates = 3
  Stubs <- MCStubs
SPECIFICATION KernelSpec
INVARIANTS NothingLeftInService AcknowledgesReachApic
INVARIANTS LineCarriesText ChipConfigured DriversServed SelectorsUsable
INVARIANTS LegacyOutOfTheWay GatesReady
PROPERTIES Served StartsUp
CHECK_DEADLOCK FALSE
