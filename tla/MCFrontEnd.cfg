SPECIFICATION Spec
CONSTANTS
  W = 2
  MaxToken = 32
  MaxRuns = 2
  Space = {0, 1, 2}
  Programs <- MCPrograms
  NewProgram <- MCNewProgram
  Edits <- MCEdits
  Names <- MCNames
  Readable <- MCReadable
  MainLines <- MCMainLines
  FileLines <- MCFileLines
  ProgramText <- MCProgramText
  FileText <- MCFileText
INVARIANTS ReadsAsWritten NothingIgnored
