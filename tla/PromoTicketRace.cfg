SPECIFICATION TicketSpec
CONSTANTS
  Users = {u1, u2}
  Statuses = {"Submitted", "Scoped", "Live"}
  Calls = {r1, r2, r3}
  MaxMishaps = 2
SYMMETRY MCSymmetry
INVARIANT AdvanceIsNotMissed
PROPERTY AutoAdvanceIsDue
