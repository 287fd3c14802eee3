SPECIFICATION Spec
CONSTANTS
  Requests = {r1, r2}
  Amounts = {3, 5}
  Threshold = 5
  MaxDocs = 2
  MaxExtras = 2
  MaxOverlaps = 1
  MaxFaults = 1
SYMMETRY RequestSymmetry
CHECK_DEADLOCK FALSE
INVARIANTS ApprovedQuoteStays PaymentIsApproved ChecksAreApproved OneWorkOrder FilesAreKept
PROPERTY TransitionsAreSound
