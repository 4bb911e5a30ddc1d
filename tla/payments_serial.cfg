\* Requests in flight are serialised per reference. A customer pays the rent,
\* one unit less (tolerated), two units less (refused) or more.
CONSTANTS
  l1 = l1
  l2 = l2
  landlord = landlord
  h1 = h1
  h2 = h2
  NoLease = NoLease
  Leases = {l1}
  Landlords = {landlord}
  Handlers = {h1, h2}
  MaxRefs = 2
  MaxFaults = 1
  Owner <- MCOwner
  Rent <- MCRent
  Verified = {l1}
  RequireKyc = TRUE
  FeePercent = 5
  Amounts = {98, 99, 100, 120}
  SplitPercents = {}
  Overlap = FALSE
  ReportsAmount = TRUE
  NamesReference = TRUE
  Remembers = TRUE
SPECIFICATION Spec
INVARIANTS TypeOK DebitIsReconciled
PROPERTIES SettledStays ExactlyOnce
CHECK_DEADLOCK FALSE
