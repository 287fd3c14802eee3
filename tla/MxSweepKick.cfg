SPECIFICATION Spec
CONSTANTS
  Orders <- TwoOrders
  Cron = cron
  Kicks = {kick}
  Overlap = 1
  MaxTime = 3
  MaxKicks = 1
  MaxFaults = 0
  MaxLags = 1
INVARIANTS NoHole
