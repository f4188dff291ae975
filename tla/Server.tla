------------------------------- MODULE Server --------------------------------
(* The MCP server process (cmd/ken-mcp/main.go) around its repo cache: which   *)
(* mode a build takes, the background model fetch that upgrades the mode, the  *)
(* database chunks of the default repo, and the order of start-up and          *)
(* shutdown.  It extends RepoCache: a build of the cache is repoBuilder.Build, *)
(* and the goroutines below are callers and admins of the cache.               *)
(*                                                                             *)
(* main's own goroutine wires the database before it serves, and refreshes are *)
(* serialised by the refresher's mutex, so both are the one caller Refresher.  *)
(* The goroutine of autoFetchModel is the caller Fetcher when it calls Get and *)
(* the admin Purger when it calls Purge.                                       *)
EXTENDS RepoCache

CONSTANTS Agents,     \* tool calls, one goroutine each
          Fetcher, Purger, Refresher, Main,
          Default,    \* the key of KEN_MCP_DEFAULT_REPO
          MaxSchema   \* bound: versions of the database's schema

\* Every name above is a goroutine of its own.
ASSUME GoroutineAssumption ==
  /\ Callers = Agents \cup {Fetcher, Refresher}
  /\ Fetcher \notin Agents /\ Refresher \notin Agents /\ Fetcher # Refresher
  /\ Admins = {Purger, Main} /\ Purger # Main
  /\ Default \in Keys

VARIABLES
  mode,        \* buildState.mode: what the next build reads
  taken,       \* the mode a build under way has read, or "none"
  bundleMode,  \* the mode a bundle was built in
  bundleDB,    \* the schema version whose chunks a bundle serves, 0 if none
  prebuilt,    \* the mode of <default repo>/.ken/index.bin, or "none"
  extras,      \* dbExtras.chunks: the schema version stored, 0 if none
  schema,      \* the version of the database's schema
  refresh,     \* where wireDBTier2, and later a refresh, is
  chunks,      \* what the refresh has read
  fetch,       \* where autoFetchModel is
  main,        \* where main is
  transport,   \* KEN_MCP_TRANSPORT; "any" until a step depends on it
  forced,      \* the exit status is not 0
  overtaken    \* history: indexes of the default repo that had inherited their
               \* chunks, and were not yet published, when newer were stored

serverVars == <<mode, taken, bundleMode, bundleDB, prebuilt, extras, schema,
                refresh, chunks, fetch, main, transport, forced, overtaken>>
allVars == <<vars, serverVars>>

Modes == {"bm25", "want"}

-----------------------------------------------------------------------------
\* resolveStartupMode: without a model the server starts in bm25, and fetches
\* the model if KEN_MCP_AUTO_FETCH allows it.
Resolve(model, auto) ==
  /\ mode = IF model THEN "want" ELSE "bm25"
  /\ fetch = IF ~model /\ auto THEN "armed" ELSE "off"

\* A pre-built index of the default repo is loaded before anything else.
ServerInit ==
  /\ Init
  /\ \E model, auto \in BOOLEAN : Resolve(model, auto)
  /\ prebuilt \in Modes \cup {"none"}
  /\ refresh \in {"off", "prewarm"}             \* KEN_DB_DSN unset, or set
  /\ main = IF prebuilt = "none" THEN "wire" ELSE "eager"
  /\ taken = [c \in Callers |-> "none"]
  /\ bundleMode = [b \in Bundles |-> "bm25"]
  /\ bundleDB = [b \in Bundles |-> 0]
  /\ extras = 0 /\ schema = 1 /\ chunks = 0
  /\ transport = "any"
  /\ forced = FALSE /\ overtaken = {}

-----------------------------------------------------------------------------
(* repoBuilder.Build.                                                         *)

\* After the clone, if the source is a URL: the mode of this build.
TakeMode(c) ==
  /\ pc[c] = "build" /\ taken[c] = "none"
  /\ taken' = [taken EXCEPT ![c] = mode]
  /\ UNCHANGED <<vars, mode, bundleMode, bundleDB, prebuilt, extras, schema,
                 refresh, chunks, fetch, main, transport, forced, overtaken>>

\* loadOrBuildWatched: a pre-built index of another mode is an error; a
\* corrupt one, or none, is a live build.
Loads(c) == key[c] = Default => prebuilt \in {"none", taken[c]}

\* The chunks that SetExtraChunks gives a new index.
Inherited(c) == IF key[c] = Default THEN extras ELSE 0

BuildIndex(c) ==
  /\ taken[c] # "none"
  /\ Loads(c)
  /\ BuildSucceeds(c)
  /\ bundleMode' = [bundleMode EXCEPT ![held'[c]] = taken[c]]
  /\ bundleDB' = [bundleDB EXCEPT ![held'[c]] = Inherited(c)]
  /\ taken' = [taken EXCEPT ![c] = "none"]
  /\ UNCHANGED <<mode, prebuilt, extras, schema, refresh, chunks, fetch, main,
                 transport, forced, overtaken>>

\* A clone, walk or model load fails, the mode does not match, or the
\* context of the turn's leader is cancelled.
BuildErr(c) ==
  /\ BuildFails(c)
  /\ taken' = [taken EXCEPT ![c] = "none"]
  /\ UNCHANGED <<mode, bundleMode, bundleDB, prebuilt, extras, schema, refresh,
                 chunks, fetch, main, transport, forced, overtaken>>

CacheStep(c) ==
  /\ \/ Lookup(c) \/ Join(c) \/ Start(c) \/ Publish(c)
     \/ Unmark(c) \/ Finish(c) \/ Deliver(c)
  /\ UNCHANGED serverVars

ReapStep(t) == Reap(t) /\ UNCHANGED serverVars

-----------------------------------------------------------------------------
(* The database: wireDBTier2, and onExtras of each refresh.                   *)

Returned(c) == pc[c] \in {"idle", "done"}

\* wireDBTier2 pre-warms the default repo; the tier stays off if that fails.
Prewarm ==
  /\ main = "wire" /\ refresh = "prewarm" /\ Returned(Refresher)
  /\ Begin(Refresher, Default)
  /\ refresh' = "prewarmed"
  /\ UNCHANGED <<mode, taken, bundleMode, bundleDB, prebuilt, extras, schema,
                 chunks, fetch, main, transport, forced, overtaken>>

Prewarmed ==
  /\ refresh = "prewarmed" /\ pc[Refresher] = "done"
  /\ refresh' = IF out[Refresher].err = "none" THEN "introspect" ELSE "off"
  /\ UNCHANGED <<vars, mode, taken, bundleMode, bundleDB, prebuilt, extras,
                 schema, chunks, fetch, main, transport, forced, overtaken>>

Introspect ==
  /\ refresh = "introspect"
  /\ chunks' = schema
  /\ refresh' = "store"
  /\ UNCHANGED <<vars, mode, taken, bundleMode, bundleDB, prebuilt, extras,
                 schema, fetch, main, transport, forced, overtaken>>

\* IndexSchema fails: the tier stays off if it is the first, and keeps the
\* chunks it has otherwise.
IntrospectFails ==
  /\ refresh = "introspect"
  /\ refresh' = IF main = "wire" THEN "off" ELSE "idle"
  /\ UNCHANGED <<vars, mode, taken, bundleMode, bundleDB, prebuilt, extras,
                 schema, chunks, fetch, main, transport, forced, overtaken>>

\* onExtras: the holder first, then the index that the cache holds.
StoreExtras_Late ==                             \* mutant: resolve, then store
  /\ refresh = "store"
  /\ Begin(Refresher, Default)
  /\ refresh' = "resolve"
  /\ UNCHANGED <<mode, taken, bundleMode, bundleDB, prebuilt, extras, schema,
                 chunks, fetch, main, transport, forced, overtaken>>
StoreExtras ==
  /\ refresh = "store"
  /\ extras' = chunks
  /\ overtaken' = {held[c] : c \in {d \in Callers : key[d] = Default}} \ {None}
  /\ Begin(Refresher, Default)
  /\ refresh' = "resolve"
  /\ UNCHANGED <<mode, taken, bundleMode, bundleDB, prebuilt, schema, chunks,
                 fetch, main, transport, forced>>

ApplyExtras ==
  /\ refresh = "resolve" /\ pc[Refresher] = "done"
  /\ bundleDB' = [b \in Bundles |->
                    IF out[Refresher] = Ok(b) THEN chunks ELSE bundleDB[b]]
  /\ overtaken' = overtaken \ {b \in Bundles : out[Refresher] = Ok(b)}
  /\ refresh' = "idle"
  /\ UNCHANGED <<vars, mode, taken, bundleMode, prebuilt, extras, schema,
                 chunks, fetch, main, transport, forced>>

\* The ticker, SIGHUP, a notification, or the reindex_db tool.
Trigger ==
  /\ refresh = "idle" /\ main \in {"serving", "draining"}
  /\ refresh' = "introspect"
  /\ UNCHANGED <<vars, mode, taken, bundleMode, bundleDB, prebuilt, extras,
                 schema, chunks, fetch, main, transport, forced, overtaken>>

SchemaChange ==
  /\ schema < MaxSchema
  /\ schema' = schema + 1
  /\ UNCHANGED <<vars, mode, taken, bundleMode, bundleDB, prebuilt, extras,
                 refresh, chunks, fetch, main, transport, forced, overtaken>>

-----------------------------------------------------------------------------
(* autoFetchModel.                                                            *)

FetchFails ==
  /\ fetch = "fetching"
  /\ fetch' = "off"
  /\ UNCHANGED <<vars, mode, taken, bundleMode, bundleDB, prebuilt, extras,
                 schema, refresh, chunks, main, transport, forced, overtaken>>

\* The mode is set before the purge; with a database there is no purge, and a
\* restart is asked for.
FetchLands_Late ==                              \* mutant: the mode set last
  /\ fetch = "fetching"
  /\ fetch' = IF refresh = "off" THEN "purge" ELSE "off"
  /\ UNCHANGED <<vars, mode, taken, bundleMode, bundleDB, prebuilt, extras,
                 schema, refresh, chunks, main, transport, forced, overtaken>>
FetchLands ==
  /\ fetch = "fetching"
  /\ mode' = "want"
  /\ fetch' = IF refresh = "off" THEN "purge" ELSE "off"
  /\ UNCHANGED <<vars, taken, bundleMode, bundleDB, prebuilt, extras, schema,
                 refresh, chunks, main, transport, forced, overtaken>>

\* Purge returns at once on a closed cache.
PurgeCache ==
  /\ fetch = "purge"
  /\ \/ Purge(Purger)
     \/ closed /\ UNCHANGED vars
  /\ fetch' = "purged"
  /\ UNCHANGED <<mode, taken, bundleMode, bundleDB, prebuilt, extras, schema,
                 refresh, chunks, main, transport, forced, overtaken>>

Rewarm ==
  /\ fetch = "purged" /\ pending[Purger] = {}
  /\ Begin(Fetcher, Default)
  /\ fetch' = "warming"
  /\ UNCHANGED <<mode, taken, bundleMode, bundleDB, prebuilt, extras, schema,
                 refresh, chunks, main, transport, forced, overtaken>>

Rewarmed ==
  /\ fetch = "warming" /\ pc[Fetcher] = "done"
  /\ fetch' = "upgraded"
  /\ UNCHANGED <<vars, mode, taken, bundleMode, bundleDB, prebuilt, extras,
                 schema, refresh, chunks, main, transport, forced, overtaken>>

-----------------------------------------------------------------------------
(* main.                                                                      *)

\* A pre-built index that does not load ends the process at once.
EagerLoad ==
  /\ main = "eager" /\ Returned(Refresher)
  /\ Begin(Refresher, Default)
  /\ main' = "eagerly"
  /\ UNCHANGED <<mode, taken, bundleMode, bundleDB, prebuilt, extras, schema,
                 refresh, chunks, fetch, transport, forced, overtaken>>

EagerLoaded ==
  /\ main = "eagerly" /\ pc[Refresher] = "done"
  /\ IF out[Refresher].err = "none"
       THEN main' = "wire" /\ UNCHANGED forced
       ELSE main' = "exited" /\ forced' = TRUE
  /\ UNCHANGED <<vars, mode, taken, bundleMode, bundleDB, prebuilt, extras,
                 schema, refresh, chunks, fetch, transport, overtaken>>

\* Wired: fetch the model in the background and serve.
Serve ==
  /\ main = "wire" /\ refresh \in {"off", "idle"}
  /\ main' = "serving"
  /\ fetch' = IF fetch = "armed" THEN "fetching" ELSE fetch
  /\ UNCHANGED <<vars, mode, taken, bundleMode, bundleDB, prebuilt, extras,
                 schema, refresh, chunks, transport, forced, overtaken>>

Call(c, k) ==
  /\ main = "serving"
  /\ Begin(c, k)
  /\ UNCHANGED serverVars

\* The configured transport: serving and draining calls are alike over both.
Over(t) == transport \in {"any", t} /\ transport' = t

\* The client closes stdin: calls drain for as long as they take.
StdinEOF ==
  /\ main = "serving" /\ Over("stdio")
  /\ main' = "draining"
  /\ UNCHANGED <<vars, mode, taken, bundleMode, bundleDB, prebuilt, extras,
                 schema, refresh, chunks, fetch, forced, overtaken>>

\* A signal, during the drain too: the context is cancelled, the drain bounded.
Signal ==
  /\ main \in {"serving", "draining"}
  /\ main' = "grace"
  /\ Over("stdio") \/ Over("http")
  /\ UNCHANGED <<vars, mode, taken, bundleMode, bundleDB, prebuilt, extras,
                 schema, refresh, chunks, fetch, forced, overtaken>>

Drained == \A c \in Agents : Returned(c)

\* doCleanup closes the cache before the process ends, on every path.
Cleanup(force) ==
  /\ Close(Main)
  /\ main' = "cleaned"
  /\ forced' = force
  /\ UNCHANGED <<mode, taken, bundleMode, bundleDB, prebuilt, extras, schema,
                 refresh, chunks, fetch, overtaken>>

RunReturns_Early ==                             \* mutant: no drain
  /\ main \in {"draining", "grace"} /\ Over("stdio")
  /\ Cleanup(FALSE)
RunReturns ==
  /\ main \in {"draining", "grace"} /\ Over("stdio")
  /\ Drained
  /\ Cleanup(FALSE)

\* ListenAndServe returns at once: an error of the listener, or ErrServerClosed
\* as soon as Shutdown has been called, before Shutdown has drained anything.
ListenFails == main = "serving" /\ Over("http") /\ Cleanup(TRUE)
ListenReturns == main = "grace" /\ Over("http") /\ Cleanup(FALSE)

\* The grace timer, or a second signal.
ForceExit == main = "grace" /\ Cleanup(TRUE) /\ UNCHANGED transport

Exit ==
  /\ main = "cleaned" /\ pending[Main] = {}
  /\ main' = "exited"
  /\ UNCHANGED <<vars, mode, taken, bundleMode, bundleDB, prebuilt, extras,
                 schema, refresh, chunks, fetch, transport, forced, overtaken>>

-----------------------------------------------------------------------------
RefreshStep ==
  \/ Prewarm \/ Prewarmed \/ Introspect \/ IntrospectFails
  \/ StoreExtras \/ ApplyExtras
FetchStep == FetchFails \/ FetchLands \/ PurgeCache \/ Rewarm \/ Rewarmed
BuildStep(c) == TakeMode(c) \/ BuildIndex(c) \/ BuildErr(c)

\* Nothing moves once the process has ended.
ServerNext ==
  /\ main # "exited"
  /\ \/ \E c \in Callers : BuildStep(c) \/ CacheStep(c)
     \/ \E t \in Threads : ReapStep(t)
     \/ \E c \in Agents, k \in Keys : Call(c, k)
     \/ RefreshStep \/ Trigger \/ SchemaChange
     \/ FetchStep
     \/ EagerLoad \/ EagerLoaded \/ Serve
     \/ StdinEOF \/ Signal \/ RunReturns \/ ListenFails \/ ListenReturns
     \/ ForceExit \/ Exit

ServerSpec == ServerInit /\ [][ServerNext]_allVars

-----------------------------------------------------------------------------
(* Properties.                                                                *)

(* Once the model has landed and the cache is purged, no bundle built in bm25 *)
(* is cached again, by a build that was under way either: the upgrade holds   *)
(* for the life of the process (autoFetchModel and cache.go's generations).   *)
UpgradeSticks ==
  fetch \in {"purged", "warming", "upgraded"} =>
    \A k \in Keys : items[k] # None => bundleMode[items[k]] = "want"

(* Between refreshes the cached index of the default repo serves the database *)
(* chunks stored last, though it may have been evicted and rebuilt while they *)
(* were read, stored or applied (dbExtras and Build's re-apply).  Two gaps    *)
(* are the code's own: a refresh whose Get fails only warns, and an index     *)
(* built before newer chunks are stored can be published after the refresh    *)
(* has applied them to another one, since evicted.                            *)
ExtrasServed ==
  refresh = "idle" /\ out[Refresher].err = "none" /\ items[Default] # None =>
    items[Default] \in overtaken \/ bundleDB[items[Default]] = extras

(* A clean exit over stdio leaves no clone and no watcher behind, but those   *)
(* of a background goroutine: the drain has let every tool call reap what it  *)
(* built and the cache has reaped the rest.                                   *)
CleanExitReaps ==
  main = "exited" /\ ~forced /\ transport = "stdio" =>
    \A b \in built \ reaped :
      \/ b \in pending[Purger]
      \/ \E c \in {Fetcher, Refresher} : b = held[c] \/ b \in pending[c]

(* What the exit status says (README, main.go): a server that exits with 0    *)
(* has drained the tool calls in flight.                                      *)
CleanExitDrained == main \in {"cleaned", "exited"} /\ ~forced => Drained
=============================================================================
