SPECIFICATION ScenarioSpec
CONSTANTS
  m1 = m1  m2 = m2  d1 = d1
  v1 = v1  v2 = v2  x1 = x1  r1 = r1
  Files = {m1, m2}
  Dirs = {d1}
  In <- OneDir
  SqlDirs = {d1}
  Contents = {v1, v2}
  Oversized = {}
  Kept = {}
  ExtraSets = {x1}
  Rerankers = {r1}
  RefreshSet = {m1}
  HasModel = TRUE
  Staged = TRUE
  MayClose = TRUE
  MaxEdits = 4
  QueueMax = 1
  FewEdits = 2
  Root = Root  None = None
INVARIANTS
  Converged NoStrandedBatch PublishedIsCorpus DenseFollowsChunks ClosedIsQuiet
PROPERTIES
  RefreshServes
CHECK_DEADLOCK FALSE
