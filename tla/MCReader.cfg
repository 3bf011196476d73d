SPECIFICATION ReaderFairSpec
CONSTANTS
  MaxRuns = 2
  Space = {0, 1, 2}
  NewProgram = "empty"
  Programs <- MCPrograms
  Edits <- MCEdits
  Names <- MCNames
  Readable <- MCReadable
  MainLines <- MCMainLines
  FileLines <- MCFileLines
INVARIANTS ReaderTypeOK IncludedOnce HandlesAccounted
PROPERTIES RunEnds
CHECK_DEADLOCK FALSE
