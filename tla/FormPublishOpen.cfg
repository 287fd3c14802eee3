SPECIFICATION Spec
CONSTANTS
  Requests = {r1}
  Internal = TRUE
  MaxVersions = 3  MaxSaves = 2  MaxFaults = 0
SYMMETRY RequestSymmetry
INVARIANT PointsAtADraft
CHECK_DEADLOCK FALSE
