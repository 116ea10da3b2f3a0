SPECIFICATION Spec
CONSTANTS
  Keys = {1, 2, 3}
  Snapshots = {s1}
  NoSnapshot = NoSnapshot
  s1 = s1
  NumLevels = 3
  MaxMemCompactLevel = 1
  L0Trigger = 2
  Writes <- MCWrites
  MaxRestarts = 1
INVARIANTS OverlapOnlyByRange NewerAbove SnapshotsAbove
PROPERTY ImplementsMap
CHECK_DEADLOCK FALSE
