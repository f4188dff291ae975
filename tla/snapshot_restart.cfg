SPECIFICATION Spec
CONSTANTS
  Files = {f1, f2}
  DbChunks = {}
  Deferrals = {"none", "lazy", "staged"}
  Watching = {TRUE, FALSE}
  Refreshers = {r1}
  MayCrash = TRUE
  MaxEdits = 2
  MaxOpens = 2
  None = None
SYMMETRY Symmetry
INVARIANTS
  TypeOK
  CloseLeavesCurrent
  RestartServesTree
CHECK_DEADLOCK FALSE
