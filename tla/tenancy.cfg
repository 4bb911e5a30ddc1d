\* Two renters submit, decisions and settlements overlap, and one request may
\* fail between its writes.
CONSTANTS
  r1 = r1
  r2 = r2
  p1 = p1
  h1 = h1
  h2 = h2
  Nobody = Nobody
  Renters = {r1, r2}
  Properties = {p1}
  MaxRows = 2
  Handlers = {h1, h2}
  MaxFaults = 1
  Overlap = TRUE
  DecidesPending = TRUE
SPECIFICATION Spec
SYMMETRY Symmetry
INVARIANTS TypeOK ApplicationOfItsLease ActiveIsSigned CompletedIsActive ApprovalIsWhole
PROPERTIES FollowsLifecycle
CHECK_DEADLOCK FALSE
