CONSTANTS
  Top = 14
  LineSize = 3
  Align = 2
  MaxLine = 4
  ContextSize = 4
  CodeSizes = {0, 6}
  Chars <- MCChars
  Typed <- MCTyped
  Numbers <- MCNumbers
  Disk <- MCDisk
  Names <- MCNames
  Unwritable = {"g"}
SPECIFICATION Spec
INVARIANT RunReturns
CHECK_DEADLOCK FALSE
