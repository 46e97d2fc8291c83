CONSTANTS
  MaxPort = 2
  MaxSlot = 2
  EP0_SIZE = 16
  Storage = {1}
  MaxPlugs = 2
SPECIFICATION Spec
INVARIANTS TypeOK Attribution BufferIsCurrent CommandsPerPlug
PROPERTIES StorageIsRead
CHECK_DEADLOCK FALSE
