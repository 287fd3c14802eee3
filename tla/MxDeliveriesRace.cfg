SPECIFICATION Spec
CONSTANTS
  d1 = d1  d2 = d2  d3 = d3
  Deliveries = {d1, d2, d3}  Forged = {d3}  Observable = {d1, d3}  Hopeless = {d2}
  Drains = {c1, c2}
  MaxAttempts = 2  DrainBatch = 2
  Nothing = Nothing
  InlineMayOverrun = FALSE
  MaxFaults = 3
INVARIANT ObservationComesFirst
PROPERTY EveryRowIsStamped
CHECK_DEADLOCK FALSE
