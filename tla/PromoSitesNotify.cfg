SPECIFICATION Spec
CONSTANTS
  store = store  boss = boss
  Sites <- TwoSites
  Managers <- OneManager
  Addresses = {store, boss}  NoAddress = NoAddress
  Contact <- MCContact
  Requests = {r1, r2}
  MaxMarks = 2  MaxFaults = 1
SYMMETRY RequestSymmetry
INVARIANTS StampedIsMailed UnmarkedIsUnstamped
