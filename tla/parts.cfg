SPECIFICATION Spec
CONSTANTS
  NoValue = NoValue
  Sources = {"tick", "hup", "notify", "tool"}
  Tick = "tick"
  Notify = "notify"
  Tool = "tool"
  MaxSchema = 3
  MaxBackoff = 1
  Fetchers = {"p", "q"}
  ModelFiles <- FeFiles
  MaxTemps = 1
  Builders = {"p", "q"}
  Modes = {"bm25", "hybrid"}
  Chunkers = {"regex", "line"}
  Trees = {"t", "u"}
  Extras = {{}, {"x"}}
  MaxBuilds = 2
  MaxKills = 1
  Processes = {"p", "q"}
  Models = {"m1", "m2"}
  Texts = {"a", "b", "c"}
  FlushBatch = 2
  MaxEntries = 2
  Queries = {"p", "q"}
  Scopes = {"m1", "m2"}
  Capacity = 2
  MaxSaved = 3
  Files <- IbFiles
  DirOrder <- IbOrder
  Folds <- IbFolds
  Migration = {"m", "s"}
  Workers = {"v", "w"}
  SerialBelow = 6
  Builds <- IbBuilds
  ChunkNames = {"a", "b"}
  SizeOf <- IfSizes
  RowBytes = 8
  MinChunkBytes = 17
  Wrap = 80
  StoreKinds = {"flat", "flat-i8", "flat-binary-i8"}
  FormatVersion = 2
  Versions = {1, 2}
  MaxChunks = 3
  LoadOptions <- IfWanted
  Entries <- WkEntries
  Contents = {"text", "minified"}
  Disks <- WkDisks
  Ignores <- WkIgnores
  Configs <- WkConfigs
  MaxTouches = 1
  Catalogs <- DsCatalogs
  Filters <- DsFilters
  Samplers = 2
  TextLines <- MdAllLines
  Documents <- MdSources
  NewLines <- MdNewLines
  MaxLines = 3
INVARIANTS
  ListenerIsFresh SymbolsAgree  DoneIsWhole SearchIsSound SectionsAgree 
   SchemaIsWhole WalkAgrees BuildIsSerial  AnswersAddUp 
CHECK_DEADLOCK FALSE
