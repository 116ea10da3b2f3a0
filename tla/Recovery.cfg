SPECIFICATION FairSpec
CONSTANTS
  Opened = {0, 3}
  BufferSize = 1
  Faults = {"current", "table", "flush", "replay", "descriptor", "throw", "reader"}
  MaxWrites = 6
  MaxFailures = 2
INVARIANTS
  
  NewestWins
  SequencesFresh
  DiskCovers
PROPERTIES
  LogsFresh
  ReadersKeep
  Reopens
  FlushEnds
