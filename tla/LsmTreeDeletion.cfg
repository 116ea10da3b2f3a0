SPECIFICATION Spec
CONSTANTS
  Keys = {1, 2}
  Snapshots = {s1}
  NoSnapshot = NoSnapshot
  s1 = s1
  NumLevels = 3
  MaxMemCompactLevel = 1
  L0Trigger = 1
  Writes <- MCDeletionWrites
  MaxRestarts = 0
INVARIANT DeletionsObsolete
CHECK_DEADLOCK FALSE
