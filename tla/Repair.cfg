SPECIFICATION Spec
CONSTANTS
  Writes = {1, 2, 3}
  OldTables = {7}
  OldLogs = {4, 6}
  MaxRuns = 2
  MaxFailures = 1
INVARIANTS NothingLost Complete NewestFound
CHECK_DEADLOCK FALSE
