SPECIFICATION Spec
CONSTANTS
  d1 = d1  d2 = d2  d3 = d3
  Deliveries = {d1}  Forged = {}  Observable = {d1}  Hopeless = {}
  Drains = {c1}
  MaxAttempts = 2  DrainBatch = 1
  Nothing = Nothing
  InlineMayOverrun = FALSE
  MaxFaults = 2
INVARIANTS AckedIsNotLost
CHECK_DEADLOCK FALSE
