CONSTANTS
  BLOCK_SIZE = 2
  DeviceBlocks = 4
  ByteValues = {1, 2}
  Foreign = 9
  MaxSize = 5
  MaxGap = 0
  Inodes = {i1, i2}
  Keys = {"type", "embedding"}
  Types = {"string", "vector"}
  Width = 2
  KeyHash <- MCKeyHash
  CreateKeys = {"type"}
  MaxEntries = 2
SPECIFICATION FilesSpec
INVARIANTS ExtentsTile QueryExact
PROPERTY ImplementsByteFile
SYMMETRY InodeSymmetry
