SPECIFICATION Spec
CONSTANTS
  Keys = {1, 2}
  MaxWrites = 3
  MaxSwitches = 2
INVARIANT ReadsAsOf
CHECK_DEADLOCK FALSE
