SPECIFICATION Spec
CONSTANTS
  Files = {f1, f2, f3}
  Readers = {r1, r2}
  Capacity = 2
  MaxOpens = 4
INVARIANTS Accounted OpensBounded UsableUnlessEnded
SYMMETRY Symmetry
CHECK_DEADLOCK FALSE
