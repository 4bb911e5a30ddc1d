\* A landlord under either role name, two other people, two requests at the same
\* time; one failure.
CONSTANTS
  landlord = landlord
  r1 = r1
  r2 = r2
  h1 = h1
  h2 = h2
  Nobody = Nobody
  Users = {landlord, r1, r2}
  Landlord = landlord
  StoredRoles = {"owner", "landlord"}
  Handlers = {h1, h2}
  MaxTours = 1
  MaxThreads = 2
  MaxMessages = 2
  Asks <- MCAsks
  MaxFaults = 1
SPECIFICATION Spec
SYMMETRY Symmetry
CONSTRAINT Apart
INVARIANTS TypeOK DecisionIsTold OneThreadPerPair ListedByNewest
CHECK_DEADLOCK FALSE
