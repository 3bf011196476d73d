CONSTANT MaxBlocks = 6
SPECIFICATION Spec
INVARIANT WellNested
PROPERTY FunctionsOnlyAtTopLevel
CHECK_DEADLOCK FALSE
