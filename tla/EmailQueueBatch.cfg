SPECIFICATION Spec
CONSTANTS
  e1 = e1  e2 = e2  k1 = k1  k2 = k2
  Emails = {e1, e2}
  Kinds = {k1, k2}
  KindOf <- MCTwoKinds
  PaRuns = {p1}
  CfRuns = {c1}
  NoClaim = NoClaim
  PaLimit = 2  CfLimit = 2
  MaxAttempts = 2  AbandonedAttempts = 9
  MaxFaults = 1  MaxOps = 1
INVARIANTS SplitNeedsReroute EachCopyIsExcused
PROPERTIES ImplementsOutbox SettlesEventually
