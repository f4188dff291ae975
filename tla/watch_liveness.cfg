SPECIFICATION FairSpec
CONSTANTS
  a = a  m1 = m1  m2 = m2  d1 = d1
  Files = {a, m1}
  Dirs = {d1}
  In <- OneFile
  SqlDirs = {}
  Contents = {v1, big}
  Oversized = {big}
  Kept = {a}
  ExtraSets = {}
  Rerankers = {}
  RefreshSet = {}
  HasModel = TRUE
  Staged = TRUE
  MayClose = TRUE
  MaxEdits = 2
  QueueMax = 1
  Root = Root  None = None
PROPERTIES
  EventuallySettled WarmingEnds
CHECK_DEADLOCK FALSE
