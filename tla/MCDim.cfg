CONSTANTS
  W = 2
  MaxBlocks = 3
  SymbolSize = 2
  StringSize = 2
  Untyped = Untyped
  StaleTypes = {Untyped, "int"}
  MaxSymbols = 2
  Programs <- DimPrograms
  StackSize = 30
  Fuel = 12
  Garbage = {77}
  Input = {65}
SPECIFICATION Spec
INVARIANT RefusedIffIllNested
