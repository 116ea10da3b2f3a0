SPECIFICATION Spec
CONSTANTS
  Keys = {1, 2}
  MaxWrites = 4
  MaxSwitches = 2
INVARIANTS GetExact RegularIteration
CHECK_DEADLOCK FALSE
