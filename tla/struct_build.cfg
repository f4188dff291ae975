SPECIFICATION FairSpec
CONSTANTS
  Files = {f1, f2}
  Callers = {c1, c2}
  MaxEdits = 1
  MaxBuilds = 2
  None = None
INVARIANTS
  StructuralCurrent StopWaits
PROPERTIES
  WaitersAnswered
CHECK_DEADLOCK FALSE
