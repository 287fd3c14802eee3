SPECIFICATION Spec
CONSTANTS
  store = store  boss = boss
  Sites <- OneSite
  Managers <- OneManager
  Addresses = {store, boss}  NoAddress = NoAddress
  Contact <- MCContact
  Requests = {r1, r2}
  MaxMarks = 2  MaxFaults = 0
SYMMETRY RequestSymmetry
INVARIANT RemarkFiresFresh
