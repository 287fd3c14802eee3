SPECIFICATION Spec
CONSTANTS
  Clients = {ann, bob}
  Accounts = {ann, bob}
  Account <- MCAccount
  Slots = {s1, s2}
  Attempts = 2
  NoRow = NoRow
  MaxChanges = 3
  MaxLives = 2
  MaxUnderWay = 2
  MaxSaves = 3
  MaxFaults = 0
SYMMETRY DraftSymmetry
CHECK_DEADLOCK FALSE
INVARIANT NothingReplacedUnreported
