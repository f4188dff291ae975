SPECIFICATION Spec
CONSTANTS
  Files = {f1, f2}
  DbChunks = {d1}
  Deferrals = {"none"}
  Watching = {TRUE}
  Refreshers = {r1}
  MayCrash = FALSE
  MaxEdits = 2
  MaxOpens = 2
  None = None
PROPERTIES
  ReplacedWholesale
CHECK_DEADLOCK FALSE
