SPECIFICATION FairSpec
CONSTANTS
  a = a
  b = b
  c = c
  d = d
  f = f
  Writers <- MCWriters
  Forced <- MCForced
  Count <- MCCount
  Limit = 1
  MaxGroup = 3
  BufferSize = 1
  BackgroundBusy = TRUE
  MayFail = TRUE
CHECK_DEADLOCK FALSE
INVARIANTS
  OneLeader
  WakeUps
  Recoverable
  SequencesExact
  AckMeansApplied
PROPERTIES
  EveryCallReturns
  NothingAfterFailure
  ImplementsAtomicWrites
