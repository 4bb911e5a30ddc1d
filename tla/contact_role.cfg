\* The role the seeds and the registration store, and nothing that fails.
CONSTANTS
  landlord = landlord
  r1 = r1
  r2 = r2
  h1 = h1
  h2 = h2
  Nobody = Nobody
  Users = {landlord, r1, r2}
  Landlord = landlord
  StoredRoles = {"landlord"}
  Handlers = {h1}
  MaxTours = 2
  MaxThreads = 0
  MaxMessages = 0
  Asks <- MCNoAsks
  MaxFaults = 0
SPECIFICATION FairSpec
PROPERTIES ApprovalArrives
CHECK_DEADLOCK FALSE
