SPECIFICATION Spec
CONSTANTS
  Files = {f1, f2}
  DbChunks = {}
  Deferrals = {"none"}
  Watching = {FALSE}
  Refreshers = {r1}
  MayCrash = FALSE
  MaxEdits = 2
  MaxOpens = 2
  None = None
SYMMETRY Symmetry
INVARIANTS
  OpenServesTree
CHECK_DEADLOCK FALSE
