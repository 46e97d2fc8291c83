CONSTANTS
  JOURNAL_BLOCKS = 2
  BLOCK_SIZE = 40
  LEN_PREFIX = 2
  SHORT_RECORD = 4
  LONG_RECORD = 7
  SystemBlocks = 1
  DeviceBlocks = 8
  BitmapCapacity = 9
  InitialLength = 8
  InodeRoom = 3
  Keys = {k1, k2}
  CreateKeys = {k1}
  Names = {a, b}
  MaxFileBlocks = 2
  MaxLargeBlocks = 2
  MaxOps = 3
  MaxMounts = 1
SPECIFICATION Spec
INVARIANTS TypeOK AllocationExact NothingPending FreeCount EntriesSound CatalogComplete DamageDetected
CHECK_DEADLOCK FALSE
