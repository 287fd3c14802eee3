SPECIFICATION Spec
CONSTANTS
  e1 = e1  e2 = e2  k1 = k1  k2 = k2
  Emails = {e1}
  Kinds = {k1}
  KindOf <- MCOneKind
  PaRuns = {p1, p2}
  CfRuns = {c1, c2}
  NoClaim = NoClaim
  PaLimit = 2  CfLimit = 1
  MaxAttempts = 2  AbandonedAttempts = 9
  MaxFaults = 2  MaxOps = 2
INVARIANT AbandonIsFinal
