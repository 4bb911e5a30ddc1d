\* The renter clicks twice: two initialize requests overlap.
CONSTANTS
  l1 = l1
  l2 = l2
  landlord = landlord
  h1 = h1
  h2 = h2
  NoLease = NoLease
  Leases = {l1}
  Landlords = {landlord}
  Handlers = {h1, h2}
  MaxRefs = 2
  MaxFaults = 0
  Owner <- MCOwner
  Rent <- MCRent
  Verified = {l1}
  RequireKyc = TRUE
  FeePercent = 5
  Amounts = {100}
  SplitPercents = {}
  Overlap = TRUE
  ReportsAmount = TRUE
  NamesReference = TRUE
  Remembers = TRUE
SPECIFICATION Spec
INVARIANTS OneOpenTransaction
CHECK_DEADLOCK FALSE
