\* One listing, two queries and the front page over a store of two entries.
CONSTANTS
  p1 = p1
  q1 = q1
  q2 = q2
  f = f
  h1 = h1
  h2 = h2
  Nothing = Nothing
  NoVector = NoVector
  None = None
  Keep = Keep
  Properties = {p1}
  Texts = {0, 1}
  Handlers = {h1, h2}
  Queries = {q1, q2}
  Featured = f
  Keys <- MCKeys
  Values <- MCValues
  Patches <- MCPatches
  MaxEntries = 2
  Backends = {"memory", "redis"}
  MaxWrites = 2
  MaxFaults = 1
SPECIFICATION Spec
SYMMETRY Symmetry
CONSTRAINT Apart
INVARIANTS TypeOK CachedIsFresh FeaturedWasOpen VectorIsCurrent KeptWhileRecent
PROPERTIES IsLossyMap
CHECK_DEADLOCK FALSE
