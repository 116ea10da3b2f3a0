SPECIFICATION LockSpec
CONSTANTS
  Processes = {p1, p2}
  p1 = p1
  p2 = p2
  Stale = 2
  Half = 1
  Margin = 1
INVARIANTS Exclusive
PROPERTIES Answered
