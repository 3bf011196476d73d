CONSTANTS
  W = 2
  MaxBlocks = 3
  SymbolSize = 2
  StringSize = 2
  Untyped = Untyped
  StaleTypes = {Untyped}
  MaxSymbols = 12
  Programs <- AllPrograms
  Lines = 4
  StackSize = 30
  Fuel = 14
  Garbage = {77}
  Input = {65}
SPECIFICATION Spec
INVARIANTS TypeOK MachineTypeOK MatchesReference CodeTrusted BalancedAtHalt PcOnBoundary FrameChainIntact StaysInFrame RefusedIffIllNested AllPlaced ReferencesSound BranchesSound
PROPERTIES ReturnsToCaller PatchedOnce Terminates ImplementsNesting
