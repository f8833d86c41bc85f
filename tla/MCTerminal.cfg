CONSTANTS
  Width = 3
  Height = 2
  VideoCells = 8
  Radix = 3
  Chars = {"a", "k"}
  Newline = "NL"
  Blank = " "
  HandlerText <- MCHandlerText
  MaxChars = 4
  MaxKeys = 2
  Interrupts = {33, 48, 50, 51}
  Exceptions = {0, 13}
  Pages = {1, 2}
  ErrorCodes = {0, 2}
  MaxDepth = 3
SPECIFICATION HandlersSpec
INVARIANTS StoresInsideVideo CursorFollows CalledInOrder
PROPERTIES HandlerLeavesCursor Resumes PrintsEnd
CHECK_DEADLOCK FALSE
