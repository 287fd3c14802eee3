SPECIFICATION Spec
CONSTANTS
  Requests = {r1, r2}
  Amounts = {3, 5}
  Threshold = 5
  MaxDocs = 3
  MaxExtras = 1
  MaxOverlaps = 0
  MaxFaults = 0
SYMMETRY RequestSymmetry
CHECK_DEADLOCK FALSE
INVARIANT KeysNeverCollide
