SPECIFICATION Spec
CONSTANTS
  ask = ask  tell = tell  nudge = nudge  review = review  rework = rework  done = done
  ann = ann  bob = bob  root = root  p1 = p1  p2 = p2
  Approvals = {review, rework}  Emails = {ask, tell, nudge}  Outcomes = {done}
  DefaultStage = ask
  Transitions <- MCTransitions
  LinkEmails = {ask}
  People = {ann, bob, root}  Admins = {root}
  Payloads = {p1}
  PinnedApprovers <- MCPinned
  CurrentApprovers <- MCCurrent
  Recipients <- MCRecipients
  Requests = {r1, r2, r3}
  Nobody = Nobody  NoLink = NoLink  NoStage = NoStage
  MaxCascadeDepth = 10
  MaxFaults = 0  MaxEdits = 0
SYMMETRY RequestSymmetry
INVARIANTS NobodyQueuedAtOutcome
CHECK_DEADLOCK FALSE
