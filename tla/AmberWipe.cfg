CONSTANTS
  Data <- MCData
  Chunk = 2
  Blocks = {0, 1, 2, 4}
  MaxPasses = 2
  MaxWrites = 1
  MaxLen = 4
SPECIFICATION Spec
INVARIANT WipeSanitizes
CHECK_DEADLOCK FALSE
