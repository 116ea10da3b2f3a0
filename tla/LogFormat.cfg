SPECIFICATION Spec
CONSTANTS
  BlockSize = 6
  HeaderSize = 2
  Sizes = {1, 2, 3, 4, 5, 6, 9}
  MaxRecords = 2
  MaxWriters = 2
  Lengths = {0, 1, 6}
INVARIANTS ReadsWhatWasWritten OneTornRecord
CHECK_DEADLOCK FALSE
