CONSTANTS
  Width = 3
  Height = 2
  VideoCells = 8
  Radix = 3
  Chars <- MCChars
  Newline = "NL"
  Blank = " "
  HandlerText <- MCHandlerText
  MaxChars = 9
  MaxKeys = 0
  Character <- MCCharacter
  Requests <- MCRequests
  CountMax = 7
  WordValues = 256
  DecimalSize = 3
  HexSize = 2
  IntMinText <- MCIntMinText
  MemorySize = 4
  ByteRadix = 3
  MaxLength = 3
SPECIFICATION ConsoleSpec
INVARIANTS Renders FailsWhenTooLong DigitsFit LibraryCorrect
PROPERTIES ImplementsScreen
CHECK_DEADLOCK FALSE
