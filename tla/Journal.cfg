CONSTANTS
  JOURNAL_BLOCKS = 2
  BLOCK_SIZE = 20
  LEN_PREFIX = 2
  SHORT_RECORD = 4
  LONG_RECORD = 7
  Inodes = {1, 2}
  MaxRecords = 7
  MaxMounts = 2
SPECIFICATION Spec
INVARIANTS TypeOK IntactRecords NoFalseAlarm TornIsDirty
PROPERTIES SessionOnlyAppends
CHECK_DEADLOCK FALSE
