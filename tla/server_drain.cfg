SPECIFICATION ServerSpec
CONSTANTS
  Keys = {dflt, other}
  Callers = {a1, fetcher, refresher}
  Admins = {purger, main}
  Agents = {a1}
  Fetcher = fetcher
  Refresher = refresher
  Purger = purger
  Main = main
  Default = dflt
  Bundles = {b1, b2, b3}
  Capacity = 1
  MaxPurges = 1
  MaxSchema = 2
  None = None
CHECK_DEADLOCK FALSE
INVARIANTS
  CleanExitDrained
