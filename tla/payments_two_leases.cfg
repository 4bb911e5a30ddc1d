\* Two leases of one landlord behind the mock gateway, with bare events, and
\* administrators who split transactions: any two requests may overlap, a double
\* click on initialize among them. The renter of l2 is not verified. What was
\* paid is never reported, so one amount is enough.
CONSTANTS
  l1 = l1
  l2 = l2
  landlord = landlord
  h1 = h1
  h2 = h2
  NoLease = NoLease
  Leases = {l1, l2}
  Landlords = {landlord}
  Handlers = {h1, h2}
  MaxRefs = 2
  MaxFaults = 0
  Owner <- MCOwner
  Rent <- MCRent
  Verified = {l1}
  RequireKyc = FALSE
  FeePercent = 5
  Amounts = {100}
  SplitPercents = {95}
  Overlap = TRUE
  ReportsAmount = FALSE
  NamesReference = FALSE
  Remembers = FALSE
SPECIFICATION Spec
INVARIANTS OpenPerRequest WalletMatchesLedger DebitIsOfLease
CHECK_DEADLOCK FALSE
