SPECIFICATION TicketSpec
CONSTANTS
  Users = {u1}
  Statuses = {"Submitted", "Scoped", "Live"}
  Calls = {r1, r2}
  MaxMishaps = 0
SYMMETRY MCSymmetry
INVARIANT AdvanceFires
