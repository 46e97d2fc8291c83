CONSTANTS
  Modulus = 17
  Root = 2
  MaxSize = 8
  Kinds <- MCKinds
  MAX_INPUTS = 2
  BLOCK_SIZE = 2
  RingSize = 1
  MaxNodes = 3
  MaxWires = 2
  MaxFrames = 4
  MaxSent = 1
  Data <- MCData
  Chunk = 2
  Blocks = {0, 1, 2, 4}
  MaxPasses = 2
  MaxWrites = 1
  MaxLen = 4
  Clients = {1, 2}
  MaxIssued = 3
  MaxCalls = 2
  Stagings = {"s", "t"}
  Others = {"m"}
  RowWidgets = {1, 2}
  MaxTyped = 1
  MaxTexts = 3
  MaxStarts = 2
  CHANNEL = 2
  MaxFired = 4
SPECIFICATION PartsSpec
INVARIANTS PlaysThePatch ReportsAreTrue RefreshIsExact InputIsKept ImprintsInOrder ArithmeticIsExact InputsAreDecoded
PROPERTIES NothingHangs
CHECK_DEADLOCK FALSE
