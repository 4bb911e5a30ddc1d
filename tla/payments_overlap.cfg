\* Any two requests may overlap, one may die half way, the gateway redelivers
\* until acknowledged. A customer pays one unit less (tolerated) or two (refused).
CONSTANTS
  l1 = l1
  l2 = l2
  landlord = landlord
  h1 = h1
  h2 = h2
  NoLease = NoLease
  Leases = {l1}
  Landlords = {landlord}
  Handlers = {h1, h2}
  MaxRefs = 2
  MaxFaults = 1
  Owner <- MCOwner
  Rent <- MCRent
  Verified = {l1}
  RequireKyc = TRUE
  FeePercent = 5
  Amounts = {98, 99}
  SplitPercents = {}
  Overlap = TRUE
  ReportsAmount = TRUE
  NamesReference = TRUE
  Remembers = TRUE
SPECIFICATION FairSpec
INVARIANTS ActiveIsPaid AckedIsActive OpenIsPayable
PROPERTIES AtLeastOnce PaidActivates
CHECK_DEADLOCK FALSE
