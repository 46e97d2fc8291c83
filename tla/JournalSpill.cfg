CONSTANTS
  JOURNAL_BLOCKS = 2
  BLOCK_SIZE = 20
  LEN_PREFIX = 2
  SHORT_RECORD = 4
  LONG_RECORD = 7
  Inodes = {1}
  MaxRecords = 6
  MaxMounts = 0
SPECIFICATION Spec
INVARIANTS AnyBeginWithoutEndIsDirty
CHECK_DEADLOCK FALSE
