CONSTANTS
  Typed <- MCTyped
  Numbers <- MCNumbers
  Texts <- MCTexts
  Disk <- MCDisk
  MaxLines = 3
  MaxToken = 6
  MaxLine = 14
SPECIFICATION ConsoleSpec
INVARIANTS Increasing ListingIsProgram
PROPERTY ImplementsProgramText
CHECK_DEADLOCK FALSE
