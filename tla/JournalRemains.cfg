CONSTANTS
  JOURNAL_BLOCKS = 1
  BLOCK_SIZE = 44
  LEN_PREFIX = 2
  SHORT_RECORD = 4
  LONG_RECORD = 7
  Inodes = {1}
  MaxRecords = 6
  MaxMounts = 2
SPECIFICATION Spec
INVARIANTS DirtyMeansUnclosed
CHECK_DEADLOCK FALSE
