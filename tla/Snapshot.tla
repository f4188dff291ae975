------------------------------- MODULE Snapshot -------------------------------
(* A workspace and its persisted snapshot across restarts: Open, Refresh and  *)
(* Close (engine/engine.go, refresh.go), loading (engine/snapshot.go) and     *)
(* writing (internal/search/snapshot.go) of .ken/snapshot.bin and its drift   *)
(* manifest, by the goroutines that may write: Open's and Close's caller, the *)
(* watcher's flush and the warm pass.                                         *)
(*                                                                            *)
(* A file's content is the stamp (mtime and size) of its last change, so the  *)
(* stamp of a file read into the index and the stamp in a manifest compare.   *)
(* A flush is one action here: WatchedIndex has its steps.                    *)
EXTENDS Naturals, FiniteSets

CONSTANTS Files,       \* the files of the tree
          DbChunks,    \* chunks that SetExtraChunks may inject
          Deferrals,   \* subset of Options, below: when enrichment is done
          Watching,    \* subset of BOOLEAN: values of Options.Watch
          Refreshers,  \* goroutines calling Refresh
          MayCrash,    \* whether the process may be killed
          MaxEdits,    \* bound: changes of the tree
          MaxOpens,    \* bound: sessions
          None         \* no file, no snapshot

\* A stamp; the contents of the two files.  The configuration key stands for
\* the options that change what a build serves first.
Stamps == Nat \cup {None}
Corpora == [files : [Files -> Stamps], ghosts : SUBSET DbChunks,
            mode : {"bm25", "full"}]
Options == {"none", "lazy", "staged"}
Manifests == [files : [Files -> Stamps], key : Options]

\* The program point in the hook and in WriteSnapshot, and the locals.
WriterStates == [pc : {"idle", "hook", "read", "stamp", "bin", "man"},
                 data : Corpora, stamps : [Files -> Stamps]]

ASSUME StampAssumption == MaxEdits \in Nat /\ MaxOpens \in Nat /\ None \notin Nat
ASSUME StoreAssumption == None \notin Corpora /\ None \notin Manifests
ASSUME OptionAssumption == /\ Deferrals \subseteq Options
                           /\ Watching \subseteq BOOLEAN /\ MayCrash \in BOOLEAN

\* Who calls WriteSnapshot: Open's and Close's caller, the goroutine of a
\* watcher flush, that of the warm pass.
Writers == {"main", "flush", "warm"}

\* "walk", "load", "build" and "opening" are Open, "closing" and "last" Close.
Phases == {"off", "walk", "load", "build", "opening", "open", "closing", "last",
           "closed"}

VARIABLES
  disk,      \* file -> stamp of its last change, or None
  clock,     \* the stamp given last
  bin,       \* snapshot.bin
  man,       \* snapshot.manifest
  st,        \* the session: see Phases
  deferral,  \* Options.LazyEnrichment / StagedEmbedding, part of the config key
  watch,     \* Options.Watch
  drift,     \* tryLoadSnapshot's changed and deleted
  files,     \* WatchedIndex.chunks: file -> the stamp it was read at, or None
  ghosts,    \* database chunks loaded from a snapshot as if they were files'
  mode,      \* the served mode: "bm25" while a staged index warms, else "full"
  extras,    \* WatchedIndex.extraChunks
  warm,      \* the warm pass is pending
  dirty,     \* Workspace.snapshotDirty
  due,       \* writers that have published and not yet called OnFlush
  refr,      \* refresher -> "idle", "flush", "notify", "leave"
  wr,        \* writer -> its WriteSnapshot
  opens,     \* how many sessions there have been; their name
  slipped,   \* history: a change was published and no write of it will follow
  kept,      \* history: the last session that served closed with all on disk
  since      \* history: files changed since Open last walked the tree

treeVars  == <<disk, clock>>
storeVars == <<bin, man>>
indexVars == <<files, ghosts, mode, extras>>
hookVars  == <<dirty, due, refr>>
openVars  == <<st, deferral, watch, drift, opens>>
vars == <<treeVars, storeVars, openVars, indexVars, warm, hookVars, wr,
          slipped, kept, since>>

NoFiles == [f \in Files |-> None]
NoDrift == [changed |-> {}, deleted |-> {}]
NoData  == [files |-> NoFiles, ghosts |-> {}, mode |-> "full"]
NotWriting == [pc |-> "idle", data |-> NoData, stamps |-> NoFiles]
Quiet == [w \in Writers |-> NotWriting]

Init ==
  /\ disk \in [Files -> {0, None}] /\ clock = 0
  /\ bin = None /\ man = None
  /\ st = "off" /\ deferral = "none" /\ watch = FALSE /\ drift = NoDrift
  /\ opens = 0
  /\ files = NoFiles /\ ghosts = {} /\ mode = "full" /\ extras = {}
  /\ warm = FALSE /\ dirty = FALSE /\ due = {}
  /\ refr = [r \in Refreshers |-> "idle"]
  /\ wr = Quiet
  /\ slipped = FALSE /\ kept = FALSE /\ since = {}

\* A file is written, created or deleted, by anybody, at any time.
Edit(f) ==
  /\ clock < MaxEdits
  /\ clock' = clock + 1
  /\ \/ disk' = [disk EXCEPT ![f] = clock + 1]
     \/ disk[f] # None /\ disk' = [disk EXCEPT ![f] = None]
  /\ since' = since \cup {f}
  /\ UNCHANGED <<storeVars, openVars, indexVars, warm, hookVars, wr, slipped, kept>>

-----------------------------------------------------------------------------
(* WriteSnapshot.                                                             *)

Active(w) == wr[w].pc # "idle"
Overlaps(w) == \E v \in Writers \ {w} : Active(v)

\* w is on its way to write.  Nothing keeps two writers apart, so that each may
\* overwrite one of the other's two files.
Begin(w, at) ==
  /\ wr' = [wr EXCEPT ![w].pc = at]
  /\ slipped' = (slipped \/ Overlaps(w))
Start(w) == Begin(w, "read")

\* SnapshotBytes: what is published, the database chunks among it.
Published == [files |-> files, ghosts |-> ghosts \cup extras, mode |-> mode]

Read(w) ==
  /\ wr[w].pc = "read"
  /\ wr' = [wr EXCEPT ![w].pc = "stamp", ![w].data = Published]
  /\ UNCHANGED <<treeVars, storeVars, openVars, indexVars, warm, hookVars, slipped,
                 kept, since>>

\* CurrentManifest: the tree is walked after the corpus has been serialised.
Stamp(w) ==
  /\ wr[w].pc = "stamp"
  /\ wr' = [wr EXCEPT ![w].pc = "bin", ![w].stamps = disk]
  /\ UNCHANGED <<treeVars, storeVars, openVars, indexVars, warm, hookVars, slipped,
                 kept, since>>

WriteBin(w) ==
  /\ wr[w].pc = "bin"
  /\ bin' = wr[w].data
  /\ wr' = [wr EXCEPT ![w].pc = "man"]
  /\ UNCHANGED <<treeVars, man, openVars, indexVars, warm, hookVars, slipped, kept,
                 since>>

Done(w) == wr' = [wr EXCEPT ![w] = NotWriting]

\* A write of what is published that ends alone, and whose bin has not been
\* overwritten, makes up for earlier slips.
WriteManifest(w) ==
  /\ wr[w].pc = "man"
  /\ man' = [files |-> wr[w].stamps, key |-> deferral]
  /\ slipped' = (slipped /\ ~(wr[w].data.files = files /\ bin.files = files
                            /\ ~Overlaps(w)))
  /\ Done(w)
  /\ UNCHANGED <<treeVars, bin, openVars, indexVars, warm, hookVars, kept, since>>

\* A full disk, an unreadable tree: logged, and the workspace goes on.
WriteFails(w) ==
  /\ wr[w].pc \in {"read", "stamp", "bin", "man"}
  /\ slipped' = TRUE
  /\ Done(w)
  /\ UNCHANGED <<treeVars, storeVars, openVars, indexVars, warm, hookVars, kept,
                 since>>

Write(w) ==
  Read(w) \/ Stamp(w) \/ WriteBin(w) \/ WriteManifest(w) \/ WriteFails(w)

-----------------------------------------------------------------------------
(* Open.                                                                      *)

\* Start, and read the manifest.
Open ==
  /\ st \in {"off", "closed"} /\ opens < MaxOpens
  /\ opens' = opens + 1
  /\ deferral' \in Deferrals /\ watch' \in Watching
  /\ st' = IF man # None /\ man.key = deferral' THEN "walk" ELSE "build"
  /\ files' = NoFiles /\ ghosts' = {} /\ mode' = "full" /\ extras' = {}
  /\ slipped' = FALSE
  /\ UNCHANGED <<treeVars, storeVars, drift, warm, hookVars, wr, kept, since>>

\* SnapshotManifest.Diff
Changed(m) == {f \in Files : disk[f] # None /\ m[f] # disk[f]}
Deleted_Stale(m) == {f \in Files : m[f] # None /\ disk[f] # m[f]}  \* mutant
Deleted(m) == {f \in Files : m[f] # None /\ disk[f] = None}
Drift_NoDeletions(m) ==                         \* mutant: deletions left out
  [changed |-> Changed(m), deleted |-> {}]
Drift(m) == [changed |-> Changed(m), deleted |-> Deleted(m)]
Behind(d) == d # NoDrift

\* More than half of the stored files: cheaper to build than to reconcile.
Heavy(d) ==
  /\ Behind(d)
  /\ (Cardinality(d.changed) + Cardinality(d.deleted)) * 2
       > Cardinality({f \in Files : man.files[f] # None})

Walk ==
  /\ st = "walk"
  /\ drift' = Drift(man.files)
  /\ st' = IF Heavy(drift') THEN "build" ELSE "load"
  /\ since' = {}
  /\ UNCHANGED <<treeVars, storeVars, deferral, watch, opens, indexVars, warm,
                 hookVars, wr, slipped, kept>>

\* LoadSerializedCorpus: there is a file, and in the configured mode.
Usable == bin # None /\ bin.mode = "full"

LoadMisses ==
  /\ st = "load" /\ ~Usable
  /\ st' = "build"
  /\ UNCHANGED <<treeVars, storeVars, deferral, watch, drift, opens, indexVars, warm,
                 hookVars, wr, slipped, kept, since>>

\* The corpus is seeded from the bin, and the drifted files are read again.
Reconciled(d) ==
  [f \in Files |-> IF f \in d.changed THEN disk[f]
                   ELSE IF f \in d.deleted THEN None ELSE bin.files[f]]

\* The snapshot was behind: it is written again, unless enrichment is lazy.
\* Then that is left to the warm pass.
Load ==
  /\ st = "load" /\ Usable
  /\ files' = Reconciled(drift) /\ ghosts' = bin.ghosts
  /\ warm' = (deferral = "lazy" /\ watch)
  /\ IF Behind(drift) /\ deferral # "lazy"
     THEN Start("main")
     ELSE slipped' = Behind(drift) /\ UNCHANGED wr
  /\ st' = "opening" /\ drift' = NoDrift
  /\ UNCHANGED <<treeVars, storeVars, deferral, watch, opens, mode, extras, hookVars,
                 kept, since>>

\* A live build.  A staged one serves bm25 until the warm pass; that runs
\* before Open returns if nothing is watched.
Build ==
  /\ st = "build"
  /\ files' = disk
  /\ mode' = IF deferral = "staged" /\ watch THEN "bm25" ELSE "full"
  /\ warm' = (deferral # "none" /\ watch)
  /\ Start("main")
  /\ st' = "opening" /\ drift' = NoDrift
  /\ since' = {}
  /\ UNCHANGED <<treeVars, storeVars, deferral, watch, opens, ghosts, extras,
                 hookVars, kept>>

\* SetOnFlush.  The watcher and the warm pass have been running since Load or
\* Build, and what they published before is not written.
Hook ==
  /\ st = "opening" /\ ~Active("main")
  /\ st' = "open"
  /\ kept' = FALSE
  /\ UNCHANGED <<treeVars, storeVars, deferral, watch, drift, opens, indexVars, warm,
                 hookVars, wr, slipped, since>>

-----------------------------------------------------------------------------
(* The open workspace.                                                        *)

\* corpusMu: the warm pass holds it until its OnFlush has returned.
Unlocked == "warm" \notin due /\ ~Active("warm")

\* A flush reads the files of its batch again.  Nothing is published, and no
\* OnFlush called, if the index holds none of them and gains none.
Flushed(F) == files' = [f \in Files |-> IF f \in F THEN disk[f] ELSE files[f]]
NoOp(F) == \A f \in F : files[f] = None /\ disk[f] = None

\* The watcher's flush, from its batch to the publish.  An overflow resync also
\* drops every chunk of a file that is not in the tree.
Flush(F, resync) ==
  /\ st \in {"opening", "open"} /\ watch
  /\ Unlocked /\ "flush" \notin due /\ ~Active("flush")
  /\ F # {} /\ (resync => F = Files)
  /\ ~NoOp(F)
  /\ Flushed(F)
  /\ ghosts' = IF resync THEN {} ELSE ghosts
  /\ due' = due \cup {"flush"}
  /\ UNCHANGED <<treeVars, storeVars, openVars, mode, extras, warm, dirty, refr, wr,
                 slipped, kept, since>>

\* The warm pass publishes the index at its configured mode.
WarmFinish ==
  /\ st \in {"opening", "open", "closing"} /\ warm
  /\ Unlocked
  /\ warm' = FALSE /\ mode' = "full"
  /\ due' = due \cup {"warm"}
  /\ UNCHANGED <<treeVars, storeVars, openVars, files, ghosts, extras, dirty, refr, wr,
                 slipped, kept, since>>

\* The hook that Open installs: write the snapshot, or leave that to Close if a
\* Refresh is running.
Refreshing == \E r \in Refreshers : refr[r] # "idle"

OnFlush(w) ==
  /\ w \in due
  /\ due' = due \ {w}
  /\ \/ /\ st = "opening"
        /\ slipped' = TRUE
        /\ UNCHANGED <<dirty, wr>>
     \/ /\ st # "opening" /\ Refreshing
        /\ dirty' = TRUE
        /\ UNCHANGED <<wr, slipped>>
     \/ /\ st # "opening" /\ ~Refreshing
        /\ Begin(w, "hook")
        /\ UNCHANGED dirty
  /\ UNCHANGED <<treeVars, storeVars, openVars, indexVars, warm, refr, kept, since>>

\* The hook has seen no Refresh; one may have run since.
ClearDirty(w) ==
  /\ wr[w].pc = "hook"
  /\ dirty' = FALSE
  /\ wr' = [wr EXCEPT ![w].pc = "read"]
  /\ UNCHANGED <<treeVars, storeVars, openVars, indexVars, warm, due, refr, slipped,
                 kept, since>>

RefreshStart(r) ==
  /\ st = "open" /\ refr[r] = "idle"
  /\ refr' = [refr EXCEPT ![r] = "flush"]
  /\ UNCHANGED <<treeVars, storeVars, openVars, indexVars, warm, dirty, due, wr,
                 slipped, kept, since>>

RefreshFlush(r, F) ==
  /\ refr[r] = "flush" /\ F # {}
  /\ Unlocked
  /\ Flushed(F)
  /\ refr' = [refr EXCEPT ![r] = IF NoOp(F) THEN "leave" ELSE "notify"]
  /\ UNCHANGED <<treeVars, storeVars, openVars, ghosts, mode, extras, warm, dirty, due,
                 wr, slipped, kept, since>>

\* OnFlush on Refresh's own goroutine.
RefreshNotify_Unmarked(r) ==                      \* mutant: dirty not set
  /\ refr[r] = "notify"
  /\ refr' = [refr EXCEPT ![r] = "leave"]
  /\ UNCHANGED <<treeVars, storeVars, openVars, indexVars, warm, dirty, due, wr,
                 slipped, kept, since>>
RefreshNotify(r) ==
  /\ refr[r] = "notify"
  /\ dirty' = TRUE
  /\ refr' = [refr EXCEPT ![r] = "leave"]
  /\ UNCHANGED <<treeVars, storeVars, openVars, indexVars, warm, due, wr, slipped,
                 kept, since>>

RefreshReturn(r) ==
  /\ refr[r] = "leave"
  /\ refr' = [refr EXCEPT ![r] = "idle"]
  /\ UNCHANGED <<treeVars, storeVars, openVars, indexVars, warm, dirty, due, wr,
                 slipped, kept, since>>

SetExtraChunks(x) ==
  /\ st = "open" /\ Unlocked
  /\ extras' = x
  /\ UNCHANGED <<treeVars, storeVars, openVars, files, ghosts, mode, warm, hookVars, wr,
                 slipped, kept, since>>

-----------------------------------------------------------------------------
(* Close, and a crash.                                                        *)

\* The caller does not close a workspace that it is refreshing.
CloseCall ==
  /\ st = "open" /\ ~Refreshing
  /\ st' = "closing"
  /\ UNCHANGED <<treeVars, storeVars, deferral, watch, drift, opens, indexVars, warm,
                 hookVars, wr, slipped, kept, since>>

\* index.Close has returned: flush and warm pass are over, or were cancelled.
Stopped == due = {} /\ \A w \in Writers : ~Active(w)

CloseWrites ==
  /\ st = "closing" /\ Stopped /\ dirty
  /\ dirty' = FALSE /\ warm' = FALSE
  /\ Start("main")
  /\ st' = "last"
  /\ UNCHANGED <<treeVars, storeVars, deferral, watch, drift, opens, indexVars, due,
                 refr, kept, since>>

CloseReturn ==
  /\ \/ st = "closing" /\ Stopped /\ ~dirty
     \/ st = "last" /\ ~Active("main")
  /\ st' = "closed" /\ warm' = FALSE
  /\ kept' = (~slipped /\ files = disk)
  /\ UNCHANGED <<treeVars, storeVars, deferral, watch, drift, opens, indexVars,
                 hookVars, wr, slipped, since>>

\* What is in memory goes; a rename that has happened stays.
Crash ==
  /\ MayCrash
  /\ st \notin {"off", "closed"}
  /\ st' = "off" /\ drift' = NoDrift
  /\ files' = NoFiles /\ ghosts' = {} /\ mode' = "full" /\ extras' = {}
  /\ warm' = FALSE /\ dirty' = FALSE /\ due' = {}
  /\ refr' = [r \in Refreshers |-> "idle"]
  /\ wr' = Quiet
  /\ kept' = (kept /\ st \in {"walk", "load"}) /\ slipped' = FALSE
  /\ UNCHANGED <<treeVars, storeVars, deferral, watch, opens, since>>

-----------------------------------------------------------------------------
Next ==
  \/ \E f \in Files : Edit(f)
  \/ Open \/ Walk \/ LoadMisses \/ Load \/ Build \/ Hook
  \/ \E F \in SUBSET Files, resync \in BOOLEAN : Flush(F, resync)
  \/ WarmFinish
  \/ \E w \in {"flush", "warm"} : OnFlush(w) \/ ClearDirty(w)
  \/ \E r \in Refreshers :
       \/ RefreshStart(r) \/ RefreshNotify(r) \/ RefreshReturn(r)
       \/ \E F \in SUBSET Files : RefreshFlush(r, F)
  \/ \E x \in SUBSET DbChunks : SetExtraChunks(x)
  \/ \E w \in Writers : Write(w)
  \/ CloseCall \/ CloseWrites \/ CloseReturn
  \/ Crash

Spec == Init /\ [][Next]_vars

-----------------------------------------------------------------------------
(* Properties.                                                                *)

TypeOK ==
  /\ disk \in [Files -> Stamps] /\ clock \in Nat
  /\ bin \in Corpora \cup {None}
  /\ man \in Manifests \cup {None}
  /\ st \in Phases /\ deferral \in Options /\ watch \in BOOLEAN
  /\ drift \in [changed : SUBSET Files, deleted : SUBSET Files]
  /\ drift.changed \cap drift.deleted = {}
  /\ opens \in Nat
  /\ files \in [Files -> Stamps] /\ ghosts \subseteq DbChunks
  /\ mode \in {"bm25", "full"} /\ extras \subseteq DbChunks
  /\ warm \in BOOLEAN /\ dirty \in BOOLEAN /\ due \subseteq {"flush", "warm"}
  /\ refr \in [Refreshers -> {"idle", "flush", "notify", "leave"}]
  /\ wr \in [Writers -> WriterStates]
  /\ slipped \in BOOLEAN /\ kept \in BOOLEAN /\ since \subseteq Files

(* "Close writes it if it's behind, and so does the next watcher flush"       *)
(* (engine/refresh.go:48): after Close the snapshot holds what the workspace  *)
(* served, however refreshes, flushes and the warm pass took turns with the   *)
(* flag.  Left out (slipped): a write that failed, two writers that           *)
(* overlapped, what was published before the hook was installed, and the      *)
(* drift that a lazy Open reconciles, unless a later write made up for it.    *)
CloseLeavesCurrent ==
  st = "closed" /\ ~slipped => bin # None /\ bin.files = files

(* "Reconciled on boot": a workspace that closed with the tree indexed and    *)
(* written is opened again with the tree indexed, whatever was edited in      *)
(* between, and whatever crashes, failures and stale pairs of files earlier   *)
(* sessions left.                                                             *)
RestartServesTree ==
  st = "opening" /\ kept => \A f \in Files \ since : files[f] = disk[f]

(* "A snapshot left behind is still safe to load: the next Open reconciles    *)
(* the files that changed" (engine/refresh.go:50): Open serves the tree.      *)
OpenServesTree ==
  st = "opening" => \A f \in Files \ since : files[f] = disk[f]

(* "Call again with a new set (or nil) to replace them wholesale"             *)
(* (engine/aliases.go:94): the database chunks served after SetExtraChunks    *)
(* has replaced the set are those of the new set.                             *)
ReplacedWholesale == [][extras' # extras /\ st' = "open" => ghosts' \subseteq extras']_vars
=============================================================================
