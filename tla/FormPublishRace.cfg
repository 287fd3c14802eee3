SPECIFICATION Spec
CONSTANTS
  Requests = {r1, r2}
  Internal = TRUE
  MaxVersions = 3  MaxSaves = 2  MaxFaults = 2
SYMMETRY RequestSymmetry
INVARIANTS PublicIsSound NextDraftIsAClone EndsWhole
PROPERTY PublishedIsImmutable
CHECK_DEADLOCK FALSE
