\* One lease: a settlement overtakes a slow approval.
CONSTANTS
  r1 = r1
  r2 = r2
  p1 = p1
  h1 = h1
  h2 = h2
  Nobody = Nobody
  Renters = {r1}
  Properties = {p1}
  MaxRows = 1
  Handlers = {h1, h2}
  MaxFaults = 0
  Overlap = TRUE
  DecidesPending = TRUE
SPECIFICATION Spec
INVARIANTS DocumentServed
CHECK_DEADLOCK FALSE
