CONSTANTS
  Text = {1, 2}
  MaxDispatch = 2
  MaxOther = 1
SPECIFICATION Spec
INVARIANTS TypeOK LockedIsAwaited LockedIsKept NoSelfRecall
PROPERTIES AllServed
CHECK_DEADLOCK FALSE
