SPECIFICATION Spec
CONSTANTS
  Orders <- TwoOrders
  Cron = cron
  Kicks = {}
  Overlap = 1
  MaxTime = 3
  MaxKicks = 0
  MaxFaults = 1
  MaxLags = 1
INVARIANTS NoHole ReArmIsWalked
PROPERTY GapsHeal
