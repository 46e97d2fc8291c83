CONSTANTS
  BLOCK_SIZE = 2
  DeviceBlocks = 4
  ByteValues = {1, 2}
  Foreign = 9
  MaxSize = 6
  MaxGap = 4
SPECIFICATION Spec
INVARIANTS EndIsMapped
