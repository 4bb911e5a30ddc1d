\* Two users, three requests at the same time, two failures; administrators
\* also pass the third status the column accepts.
CONSTANTS
  u1 = u1
  u2 = u2
  h1 = h1
  h2 = h2
  h3 = h3
  Nobody = Nobody
  Users = {u1, u2}
  Handlers = {h1, h2, h3}
  Decisions = {"verified", "rejected", "pending"}
  MaxFaults = 2
SPECIFICATION Spec
SYMMETRY Symmetry
INVARIANTS TypeOK AdmittedWasVerified CopiesAgree
PROPERTIES VerifiedStands
CHECK_DEADLOCK FALSE
