SPECIFICATION CloneSpec
CONSTANTS
  Keys = {k1}
  Callers = {c1, c2}
  Admins = {a1}
  Bundles = {b1, b2}
  Capacity = 1
  MaxPurges = 1
  None = None
INVARIANTS
  CachedHasClone
CHECK_DEADLOCK FALSE
