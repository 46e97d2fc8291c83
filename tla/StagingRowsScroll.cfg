CONSTANTS
  Stagings = {"s", "t"}
  Others = {"m"}
  Rows = {1, 2}
  MaxTyped = 2
SPECIFICATION Spec
INVARIANT ScrollKeepsText
CHECK_DEADLOCK FALSE
