SPECIFICATION Spec
CONSTANTS
  Files = {f1, f2}
  Callers = {c1, c2}
  MaxEdits = 0
  MaxBuilds = 2
  None = None
SYMMETRY Symmetry
INVARIANTS
  NoBuildAfterStop
CHECK_DEADLOCK FALSE
