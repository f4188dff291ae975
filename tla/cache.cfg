SPECIFICATION FairSpec
CONSTANTS
  Keys = {k1}
  Callers = {c1, c2}
  Admins = {a1}
  Bundles = {b1, b2}
  Capacity = 1
  MaxPurges = 2
  None = None
INVARIANTS
  TypeOK CachedIsCurrent DedupedBuilds PurgeErrorIsOwn
PROPERTIES
  EveryCallReturns ClosedDrains
