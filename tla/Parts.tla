-------------------------------- MODULE Parts --------------------------------
(* Components that run beside the cache, the watched index and the snapshot,   *)
(* each on its own: `part` says which one a behaviour is of.  Each has its     *)
(* variables; those of the components that do not run are off, and stay so.    *)
EXTENDS Naturals, Sequences, FiniteSets

CONSTANTS
  Sources, Tick, Notify, Tool, MaxSchema, MaxBackoff, NoValue,           \* DbRefresh
  Fetchers, ModelFiles, MaxTemps,                                        \* ModelFetch
  Builders, Modes, Chunkers, Trees, Extras, MaxBuilds, MaxKills,         \* Prebuilt
  Processes, Models, Texts, FlushBatch, MaxEntries,                      \* EmbedCache
  Queries, Scopes, Capacity, MaxSaved,                                   \* RerankCache
  Files, DirOrder, Folds, Migration, Workers, SerialBelow, Builds,       \* IndexBuild
  ChunkNames, SizeOf, RowBytes, MinChunkBytes, Wrap, StoreKinds,
  FormatVersion, Versions, MaxChunks, LoadOptions,                       \* IndexFile
  Entries, Contents, Disks, Ignores, Configs, MaxTouches,                \* RepoWalk
  Catalogs, Filters, Samplers,                                           \* DbSchema
  TextLines, Documents, NewLines, MaxLines                               \* Markdown

VARIABLES
  part,
  schema, trigger, interval, phase, swapped, holder, at, seen, conn, alive,
  queue, backoff, missed,
  target, fileAt, fetching, body, force, left, blind,
  tree, out, job, temps, server, served, last, built, begun, kills, told,
  tableScope, table, open, buffer, mixed, vector,
  scope, loader, lru, saved, pc, misses, scored,
  build, migDirs, ctx, next, jobs, closed, worker, errs, results, chunks,
  vecs, dirs, docs, stage,
  kind, mode, names, tombs, rows, codes, file, written, harmed, loaded,
  disk, unlisted, ignore, config, walker, visit, stack, collected, listed, touched,
  database, allowed, queries, reading, sampled, emitted, ddl, warnings,
  document, indexed, hit

Db     == INSTANCE DbRefresh WITH None <- NoValue
Fetch  == INSTANCE ModelFetch WITH at <- fileAt, pc <- fetching, temps <- left
Boot   == INSTANCE Prebuilt
Embed  == INSTANCE EmbedCache WITH scope <- tableScope, rows <- table, served <- vector,
                                 None <- NoValue
Rerank == INSTANCE RerankCache WITH file <- saved, None <- NoValue
Build  == INSTANCE IndexBuild WITH phase <- stage
File   == INSTANCE IndexFile WITH chunks <- names
Walk   == INSTANCE RepoWalk WITH at <- visit, scopes <- stack, files <- listed
Ds     == INSTANCE DbSchema WITH Workers <- Samplers, db <- database, filter <- allowed,
                                 step <- queries, snap <- reading, sampling <- sampled,
                                 result <- emitted, changed <- ddl, warned <- warnings
Md     == INSTANCE Markdown WITH Lines <- TextLines, Sources <- Documents,
                                 disk <- document, answer <- hit

ASSUME PartsAssumption ==
  /\ Db!SourcesAssumption /\ Fetch!FilesGiven
  /\ Embed!EmbedAssumption /\ Rerank!RerankAssumption /\ Build!BuildAssumption
  /\ File!FileAssumption /\ Walk!EntriesAssumption /\ Ds!CatalogsAssumption
  /\ Md!LinesAssumption

dbVars == <<schema, trigger, interval, phase, swapped, holder, at, seen, conn, alive, queue,
            backoff, missed>>
fetchVars == <<target, fileAt, fetching, body, force, left, blind>>
bootVars == <<tree, out, job, temps, server, served, last, built, begun, kills, told>>
embedVars == <<tableScope, table, open, buffer, mixed, vector>>
rerankVars == <<scope, loader, lru, saved, pc, misses, scored>>
buildVars == <<build, migDirs, ctx, next, jobs, closed, worker, errs, results, chunks, vecs,
               dirs, docs, stage>>
fileVars == <<kind, mode, names, tombs, rows, codes, file, written, harmed, loaded>>
walkVars == <<disk, unlisted, ignore, config, walker, visit, stack, collected, listed, touched>>
schemaVars == <<database, allowed, queries, reading, sampled, emitted, ddl, warnings>>
headingVars == <<document, indexed, hit>>
partsVars == <<dbVars, fetchVars, bootVars, embedVars, rerankVars, buildVars, fileVars, walkVars,
               schemaVars, headingVars>>

-----------------------------------------------------------------------------
\* What is off is 0.
DbOff ==
  /\ schema = 0 /\ trigger = 0 /\ interval = 0 /\ phase = 0 /\ swapped = 0 /\ holder = 0
  /\ at = 0 /\ seen = 0 /\ conn = 0 /\ alive = 0 /\ queue = 0 /\ backoff = 0 /\ missed = 0
FetchOff ==
  /\ target = 0 /\ fileAt = 0 /\ fetching = 0 /\ body = 0 /\ force = 0 /\ left = 0 /\ blind = 0
BootOff ==
  /\ tree = 0 /\ out = 0 /\ job = 0 /\ temps = 0 /\ server = 0 /\ served = 0 /\ last = 0
  /\ built = 0 /\ begun = 0 /\ kills = 0 /\ told = 0
EmbedOff ==
  /\ tableScope = 0 /\ table = 0 /\ open = 0 /\ buffer = 0 /\ mixed = 0 /\ vector = 0
RerankOff ==
  /\ scope = 0 /\ loader = 0 /\ lru = 0 /\ saved = 0 /\ pc = 0 /\ misses = 0 /\ scored = 0
BuildOff ==
  /\ build = 0 /\ migDirs = 0 /\ ctx = 0 /\ next = 0 /\ jobs = 0 /\ closed = 0 /\ worker = 0
  /\ errs = 0 /\ results = 0 /\ chunks = 0 /\ vecs = 0 /\ dirs = 0 /\ docs = 0 /\ stage = 0
FileOff ==
  /\ kind = 0 /\ mode = 0 /\ names = 0 /\ tombs = 0 /\ rows = 0 /\ codes = 0 /\ file = 0
  /\ written = 0 /\ harmed = 0 /\ loaded = 0
WalkOff ==
  /\ disk = 0 /\ unlisted = 0 /\ ignore = 0 /\ config = 0 /\ walker = 0 /\ visit = 0
  /\ stack = 0 /\ collected = 0 /\ listed = 0 /\ touched = 0
SchemaOff ==
  /\ database = 0 /\ allowed = 0 /\ queries = 0 /\ reading = 0 /\ sampled = 0 /\ emitted = 0
  /\ ddl = 0 /\ warnings = 0
HeadingsOff == document = 0 /\ indexed = 0 /\ hit = 0
PartsOff ==
  /\ DbOff /\ FetchOff /\ BootOff /\ EmbedOff /\ RerankOff /\ BuildOff /\ FileOff /\ WalkOff /\ SchemaOff
  /\ HeadingsOff

PartsInit ==
  \/ /\ part = "refresh" /\ Db!Init
     /\ FetchOff /\ BootOff /\ EmbedOff /\ RerankOff /\ BuildOff /\ FileOff /\ WalkOff /\ SchemaOff
     /\ HeadingsOff
  \/ /\ part = "fetch" /\ Fetch!Init
     /\ DbOff /\ BootOff /\ EmbedOff /\ RerankOff /\ BuildOff /\ FileOff /\ WalkOff /\ SchemaOff
     /\ HeadingsOff
  \/ /\ part = "prebuilt" /\ Boot!Init
     /\ DbOff /\ FetchOff /\ EmbedOff /\ RerankOff /\ BuildOff /\ FileOff /\ WalkOff /\ SchemaOff
     /\ HeadingsOff
  \/ /\ part = "embed" /\ Embed!Init
     /\ DbOff /\ FetchOff /\ BootOff /\ RerankOff /\ BuildOff /\ FileOff /\ WalkOff /\ SchemaOff
     /\ HeadingsOff
  \/ /\ part = "rerank" /\ Rerank!Init
     /\ DbOff /\ FetchOff /\ BootOff /\ EmbedOff /\ BuildOff /\ FileOff /\ WalkOff /\ SchemaOff
     /\ HeadingsOff
  \/ /\ part = "build" /\ Build!Init
     /\ DbOff /\ FetchOff /\ BootOff /\ EmbedOff /\ RerankOff /\ FileOff /\ WalkOff /\ SchemaOff
     /\ HeadingsOff
  \/ /\ part = "file" /\ File!Init
     /\ DbOff /\ FetchOff /\ BootOff /\ EmbedOff /\ RerankOff /\ BuildOff /\ WalkOff /\ SchemaOff
     /\ HeadingsOff
  \/ /\ part = "walk" /\ Walk!Init
     /\ DbOff /\ FetchOff /\ BootOff /\ EmbedOff /\ RerankOff /\ BuildOff /\ FileOff /\ SchemaOff
     /\ HeadingsOff
  \/ /\ part = "schema" /\ Ds!Init
     /\ DbOff /\ FetchOff /\ BootOff /\ EmbedOff /\ RerankOff /\ BuildOff /\ FileOff /\ WalkOff
     /\ HeadingsOff
  \/ /\ part = "headings" /\ Md!Init
     /\ DbOff /\ FetchOff /\ BootOff /\ EmbedOff /\ RerankOff /\ BuildOff /\ FileOff /\ WalkOff
     /\ SchemaOff

PartsNext ==
  \/ /\ part = "refresh" /\ Db!Next
     /\ UNCHANGED <<part, fetchVars, bootVars, embedVars, rerankVars, buildVars, fileVars, walkVars,
                    schemaVars, headingVars>>
  \/ /\ part = "fetch" /\ Fetch!Next
     /\ UNCHANGED <<part, dbVars, bootVars, embedVars, rerankVars, buildVars, fileVars, walkVars,
                    schemaVars, headingVars>>
  \/ /\ part = "prebuilt" /\ Boot!Next
     /\ UNCHANGED <<part, dbVars, fetchVars, embedVars, rerankVars, buildVars, fileVars, walkVars,
                    schemaVars, headingVars>>
  \/ /\ part = "embed" /\ Embed!Next
     /\ UNCHANGED <<part, dbVars, fetchVars, bootVars, rerankVars, buildVars, fileVars, walkVars,
                    schemaVars, headingVars>>
  \/ /\ part = "rerank" /\ Rerank!Next
     /\ UNCHANGED <<part, dbVars, fetchVars, bootVars, embedVars, buildVars, fileVars, walkVars,
                    schemaVars, headingVars>>
  \/ /\ part = "build" /\ Build!Next
     /\ UNCHANGED <<part, dbVars, fetchVars, bootVars, embedVars, rerankVars, fileVars, walkVars,
                    schemaVars, headingVars>>
  \/ /\ part = "file" /\ File!Next
     /\ UNCHANGED <<part, dbVars, fetchVars, bootVars, embedVars, rerankVars, buildVars, walkVars,
                    schemaVars, headingVars>>
  \/ /\ part = "walk" /\ Walk!Next
     /\ UNCHANGED <<part, dbVars, fetchVars, bootVars, embedVars, rerankVars, buildVars, fileVars,
                    schemaVars, headingVars>>
  \/ /\ part = "schema" /\ Ds!Next
     /\ UNCHANGED <<part, dbVars, fetchVars, bootVars, embedVars, rerankVars, buildVars, fileVars,
                    walkVars, headingVars>>
  \/ /\ part = "headings" /\ Md!Next
     /\ UNCHANGED <<part, dbVars, fetchVars, bootVars, embedVars, rerankVars, buildVars, fileVars,
                    walkVars, schemaVars>>

PartsSpec == PartsInit /\ [][PartsNext]_<<part, partsVars>>

-----------------------------------------------------------------------------
(* The chunks served are those of the present schema while the listener has   *)
(* nothing to do, but for changes no notification told of (Listener.Run).     *)
ListenerIsFresh == part = "refresh" => Db!ListenerIsFresh

(* A vector served from the embedding cache, and one scored from the reranker's*)
(* cache, was made by the model of the process that uses it, across restarts, *)
(* crashes and changes of model (embedcache.go Open, rerank_cache.go decode). *)
ScoresOwnModel ==
  /\ part = "embed" => Embed!OwnModelServed
  /\ part = "rerank" => Rerank!OneModelScored

(* A model file is absent or whole, and who is told the model is there finds  *)
(* all of it, however fetches interleave, fail and are killed (fetch.go).     *)
DoneIsWhole == part = "fetch" => Fetch!DoneIsWhole

(* An index that is returned is the one a serial build makes, whatever the    *)
(* workers, errors and cancellation (walkAndChunkFSWithModel).                *)
BuildIsSerial == part = "build" => Build!BuildIsSerial

(* Rows and codes stay beside their chunks, and a load gives back what was    *)
(* written or refuses (dense_store.go, index_serialize.go); a server boots    *)
(* from a finished build of its mode and chunker, or indexes for itself.      *)
FileIsExact ==
  /\ part = "file" => File!FileIsExact
  /\ part = "prebuilt" => Boot!PrebuiltServes

(* The matcher of the watcher admits the files a walk lists (ShouldIndex).    *)
WalkAgrees == part = "walk" => Walk!WalkAgrees

(* An undisturbed reading shows every kept table with its keys, and every     *)
(* foreign key at both ends (introspect.go, mysql.go, sqlite.go).             *)
SchemaIsWhole == part = "schema" => Ds!SchemaIsWhole

(* A markdown file's sections partition it and carry the headings that enclose*)
(* them; a hit's heading path is its section's (engine/markdown.go).          *)
SectionsAgree == part = "headings" => Md!SectionsAgree
===============================================================================
