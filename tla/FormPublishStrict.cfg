SPECIFICATION Spec
CONSTANTS
  Requests = {r1, r2}
  Internal = TRUE
  MaxVersions = 3  MaxSaves = 2  MaxFaults = 0
SYMMETRY RequestSymmetry
INVARIANT AlwaysStrict
CHECK_DEADLOCK FALSE
