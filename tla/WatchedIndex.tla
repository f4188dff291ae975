---------------------------- MODULE WatchedIndex -----------------------------
(* A search index kept current by a file watcher (internal/search/watch.go,    *)
(* corpus.go, construct.go): the event loop with its debounce and overflow     *)
(* resync, the flush that reconciles the corpus with the disk, the cold-start  *)
(* warm pass, Refresh, the injected database chunks and the reranker, and the  *)
(* snapshots they publish.                                                    *)
(*                                                                             *)
(* A file is one chunk, its content the chunk's text; a migration directory    *)
(* also has one chunk folded from its files.  The dense store is the vectors   *)
(* it holds, each named by the text it embeds.  The kernel's event queue is a  *)
(* bounded sequence that turns into one overflow record when it is full.       *)
EXTENDS Naturals, Sequences, FiniteSets

CONSTANTS Files,      \* indexable paths
          Dirs,       \* directories that come and go
          In,         \* directory -> the files in it
          SqlDirs,    \* those whose files are named like migrations
          Contents,   \* what a file may hold
          Oversized,  \* the contents ShouldIndex rejects
          Kept,       \* files that are never deleted nor rejected
          ExtraSets,  \* the non-empty database chunk sets injected
          Rerankers,  \* the rerankers SetReranker may attach
          RefreshSet, \* files Refresh may be called for
          HasModel,   \* the configured mode embeds chunks
          Staged,     \* FSOptions.StagedEmbedding
          MayClose,   \* the index may be closed
          MaxEdits,   \* bound: edits of the tree
          QueueMax,   \* the kernel queue's length
          Root, None

Paths    == Files \cup Dirs
Slots    == Files \cup SqlDirs
Flushers == {"loop", "refresh"}
NoResync == None
NoDense  == None
\* The texts of chunks, and what the chunk slots may hold.
Texts   == Contents \cup {None} \cup UNION {[In[d] -> Contents \cup {None}] : d \in Dirs}
Corpora == [Slots -> Texts]

ASSUME TreeAssumption ==
  /\ In \in [Dirs -> SUBSET Files]
  /\ \A d, e \in Dirs : d # e => In[d] \cap In[e] = {}
  /\ SqlDirs \subseteq Dirs /\ Oversized \subseteq Contents
  /\ Kept \subseteq Files \ UNION {In[d] : d \in Dirs}
  /\ Files \cap Dirs = {} /\ Root \notin Dirs /\ RefreshSet \subseteq Files
  /\ IsFiniteSet(Files)
ASSUME BoundAssumption == MaxEdits \in Nat /\ QueueMax \in Nat \ {0}
ASSUME FlagAssumption == /\ HasModel \in BOOLEAN /\ Staged \in BOOLEAN
                         /\ MayClose \in BOOLEAN
\* nil is none of the values it stands beside.
ASSUME NoneAssumption ==
  /\ None \notin Contents \cup Dirs \cup ExtraSets \cup Rerankers
  /\ None \notin Flushers \cup {"warm", "write", "remove"} \cup {Root}
  /\ None \notin Corpora /\ \A F \in SUBSET Files : F # None
  /\ \A d \in Dirs : None \notin [In[d] -> Contents \cup {None}]

VARIABLES
  disk,      \* file -> its content, None when absent
  dirs,      \* the directories on disk
  edits,     \* how many edits there have been
  blind,     \* history: files whose last change no event or walk will show, or
             \* that a Refresh took for gone and dropped when they were back
  queue,     \* the kernel's event queue
  watched,   \* directories with a watch (the root has one while the loop runs)
  loop,      \* "off", "on", "gone"
  walking,   \* the tree the loop's handler is about to walk, or None
  dirty,     \* path -> "write", "remove" or None
  present,   \* resyncPresent: the files a resync found, or NoResync
  armed,     \* timer # nil
  fl,        \* the loop's flush goroutine and a Refresh caller
  lock,      \* who holds corpusMu
  chunks,    \* w.chunks: file or migration directory -> its chunk's text
  dense,     \* w.dense: the texts embedded, or NoDense
  migDirs,   \* w.migrationDirs, classified by the build
  mode,      \* w.mode
  pending,   \* w.stagedPending
  warm,      \* the warm pass: "off", "ready", "running", "done"
  extras,    \* w.extraChunks: a database chunk set or None
  reranker,  \* w.reranker
  pub,       \* the published snapshot
  stale,     \* history: files edited since the Refresh in progress began
  closing, closed

treeVars   == <<disk, dirs, edits, blind>>
loopVars   == <<queue, watched, loop, walking, dirty, present, armed>>
corpusVars == <<chunks, dense, migDirs, mode, pending, extras, reranker, pub>>
endVars    == <<warm, closing, closed>>
vars == <<treeVars, loopVars, fl, lock, corpusVars, stale, endVars>>

Overflow == [op |-> "overflow", path |-> Root]
Idle     == [pc |-> "idle", batch |-> [p \in Paths |-> None], resync |-> NoResync,
             todo |-> {}, changed |-> FALSE]

Holder(f) == {d \in Dirs : f \in In[d]}
\* Matcher.ShouldIndex, on the content there is.
Indexable(c) == c \in Contents \ Oversized
Seen(c) == IF Indexable(c) THEN c ELSE None

\* sql.IsMigrationDir, and FoldMigrations: one chunk for the whole directory,
\* if it has at least minMigrationFiles; the files need not be indexable.
IsMigrationDir(d) == Cardinality({f \in In[d] : disk[f] # None}) >= 2
Fold(d) == IF IsMigrationDir(d) THEN [f \in In[d] |-> disk[f]] ELSE None

-----------------------------------------------------------------------------
(* The corpus and the snapshots built from it.                                *)

Held(c) == {s \in Slots : c[s] # None}
Aligned(v, c) == Cardinality(Held(v)) = Cardinality(Held(c))

\* R5-1: a dense store that does not cover the chunks is dropped.
Healed(v, c) == IF v # NoDense /\ ~Aligned(v, c) THEN NoDense ELSE v

\* buildUnionedIndexLocked: the file chunks, then the extra ones.  Extra chunks
\* have vectors when there is a model, and are appended to the dense store.
Unioned(c, v, m, waiting, x, r) ==
  [chunks |-> c, mode |-> m, extras |-> x, reranker |-> r,
   dense |-> IF Healed(v, c) = NoDense /\ Held(c) = {} /\ x # None
                /\ HasModel /\ ~waiting
             THEN c ELSE Healed(v, c)]

\* publish(buildUnionedIndexLocked()) over the corpus after the step.
Publish == pub' = Unioned(chunks', dense', mode', pending', extras', reranker')

\* tombstoneFile: a path, or all that is under it.
Under(p) == IF p \in Dirs THEN In[p] \cup ({p} \cap SqlDirs) ELSE {p}

\* The chunks with those of S replaced, and the dense store with them: new
\* chunks are embedded unless there is no model, or the warm pass still owes
\* the vectors of all the others (audit N1).
Replaced(c, S, new) == [s \in Slots |-> IF s \in S THEN new[s] ELSE c[s]]
Embeds_Staged == HasModel                       \* mutant: N1's gate dropped
Embeds == HasModel /\ ~pending
Rows(v, S, new) ==
  IF Embeds /\ \E s \in S : new[s] # None
  THEN [s \in Slots |-> IF s \in S THEN new[s]
                        ELSE IF v = NoDense THEN None ELSE v[s]]
  ELSE IF v = NoDense THEN NoDense
  ELSE [s \in Slots |-> IF s \in S THEN None ELSE v[s]]

-----------------------------------------------------------------------------
(* The walk has read the disk; nothing is watched yet.                        *)

Walked == [s \in Slots |-> IF s \in Files THEN Seen(disk[s])
                           ELSE IF s \in migDirs THEN Fold(s) ELSE None]

Init ==
  /\ dirs \in SUBSET Dirs
  /\ disk \in [Files -> Contents \cup {None}]
  /\ \A d \in Dirs \ dirs : \A f \in In[d] : disk[f] = None
  /\ \A f \in Kept : Indexable(disk[f])
  /\ edits = 0 /\ blind = {} /\ stale = {}
  /\ queue = <<>> /\ watched = {} /\ loop = "off" /\ walking = None
  /\ dirty = [p \in Paths |-> None] /\ present = NoResync /\ armed = FALSE
  /\ fl = [x \in Flushers |-> Idle] /\ lock = None
  /\ migDirs = {d \in SqlDirs : IsMigrationDir(d) /\ \E f \in In[d] : Indexable(disk[f])}
  /\ chunks = Walked
  /\ dense = IF HasModel /\ ~Staged /\ Held(chunks) # {} THEN chunks ELSE NoDense
  /\ mode = IF HasModel /\ ~Staged THEN "hybrid" ELSE "bm25"
  /\ pending = (HasModel /\ Staged)
  /\ warm = IF pending THEN "ready" ELSE "off"
  /\ extras = None /\ reranker = None
  /\ pub = Unioned(chunks, dense, mode, pending, extras, reranker)
  /\ closing = FALSE /\ closed = FALSE

\* addRecursiveWatch, then the loop starts.
StartWatch ==
  /\ loop = "off"
  /\ loop' = "on"
  /\ watched' = dirs
  /\ UNCHANGED <<treeVars, queue, walking, dirty, present, armed, fl, lock,
                 corpusVars, stale, endVars>>

-----------------------------------------------------------------------------
(* The tree changes.  The kernel queues an event for what is watched; a full  *)
(* queue keeps one overflow record and drops the rest.                        *)

Queued(e) == IF Len(queue) < QueueMax THEN Append(queue, e)
             ELSE IF \E i \in 1..Len(queue) : queue[i] = Overflow THEN queue
             ELSE Append(queue, Overflow)

Watching(f) == loop = "on" /\ Holder(f) \subseteq watched

\* A record that makes the loop look at the file again; one that makes it drop
\* the file; and a file it would drop last, because the records of its return
\* were dropped while an overflow record was still ahead of its removal.
Shows(e, f) == \/ e = Overflow
               \/ e.op = "write" /\ e.path = f
               \/ e.op = "create" /\ e.path \in Holder(f)
Drops(e, f) == e.op = "remove" /\ e.path \in {f} \cup Holder(f)
Late(f, q) == \E i \in 1..Len(q) :
                Drops(q[i], f) /\ \A j \in (i + 1)..Len(q) : ~Shows(q[j], f)

Edited(F) ==
  /\ edits < MaxEdits
  /\ edits' = edits + 1
  /\ stale' = stale \cup F
  /\ UNCHANGED <<watched, loop, walking, dirty, present, armed, fl, lock,
                 corpusVars, endVars>>

EditFile(f, c) ==
  /\ Holder(f) \subseteq dirs
  /\ c # disk[f]
  /\ f \in Kept => Indexable(c)
  /\ Edited({f})
  /\ disk' = [disk EXCEPT ![f] = c]
  /\ queue' = IF Watching(f)
              THEN Queued([op |-> IF c = None THEN "remove" ELSE "write", path |-> f])
              ELSE queue
  /\ blind' = IF loop = "off" \/ (IF c = None THEN ~Watching(f) ELSE Late(f, queue'))
              THEN blind \cup {f} ELSE blind \ {f}
  /\ UNCHANGED dirs

\* A directory is removed or renamed away: one event, from its parent's watch.
DirOut(d) ==
  /\ d \in dirs
  /\ edits < MaxEdits /\ edits' = edits + 1
  /\ stale' = stale \cup In[d]
  /\ dirs' = dirs \ {d}
  /\ disk' = [f \in Files |-> IF f \in In[d] THEN None ELSE disk[f]]
  /\ watched' = watched \ {d}
  /\ queue' = IF loop = "on" THEN Queued([op |-> "remove", path |-> d]) ELSE queue
  /\ blind' = IF loop = "off" THEN blind \cup In[d] ELSE blind \ In[d]
  /\ UNCHANGED <<loop, walking, dirty, present, armed, fl, lock, corpusVars, endVars>>

\* A directory is made or moved in, with or without files in it.
DirIn(d) ==
  /\ d \notin dirs
  /\ \E c \in Contents \cup {None} :
       disk' = [f \in Files |-> IF f \in In[d] THEN c ELSE disk[f]]
  /\ Edited(In[d])
  /\ dirs' = dirs \cup {d}
  /\ queue' = IF loop = "on" THEN Queued([op |-> "create", path |-> d]) ELSE queue
  /\ blind' = IF loop = "off" THEN blind \cup In[d]
              ELSE LET back == {f \in In[d] : disk'[f] # None} IN
                   (blind \ back) \cup {f \in back : Late(f, queue')}

-----------------------------------------------------------------------------
(* The loop.                                                                  *)

Running == loop = "on" /\ walking = None

Take == queue # <<>> /\ queue' = Tail(queue)
Mark(F, op) == dirty' = [p \in Paths |-> IF p \in F THEN op ELSE dirty[p]]

\* REMOVE / RENAME is accepted whatever is indexed (audit N2).  mergeOp keeps
\* the latest of the two kinds of operation.
HandleRemove ==
  /\ Running /\ Take
  /\ Head(queue).op = "remove"
  /\ Mark({Head(queue).path}, "remove")
  /\ armed' = TRUE
  /\ UNCHANGED <<watched, walking, present>>

\* A new directory is watched first and walked second; one that is gone again
\* is not indexable.
HandleDir_NoWatch ==                            \* mutant: not watched
  /\ Running /\ Take
  /\ Head(queue).op = "create"
  /\ IF Head(queue).path \in dirs THEN walking' = Head(queue).path
                                  ELSE UNCHANGED walking
  /\ UNCHANGED <<watched, dirty, present, armed>>
HandleDir ==
  /\ Running /\ Take
  /\ Head(queue).op = "create"
  /\ IF Head(queue).path \in dirs
     THEN /\ walking' = Head(queue).path
          /\ watched' = watched \cup {Head(queue).path}
     ELSE UNCHANGED <<walking, watched>>
  /\ UNCHANGED <<dirty, present, armed>>

HandleWrite ==
  /\ Running /\ Take
  /\ Head(queue).op = "write"
  /\ IF Indexable(disk[Head(queue).path])
     THEN Mark({Head(queue).path}, "write") /\ armed' = TRUE
     ELSE UNCHANGED <<dirty, armed>>
  /\ UNCHANGED <<watched, walking, present>>

HandleOverflow ==
  /\ Running /\ Take
  /\ Head(queue).op = "overflow"
  /\ walking' = Root
  /\ watched' = watched \cup dirs
  /\ UNCHANGED <<dirty, present, armed>>

\* enqueueDirFiles: the timer is armed only if there is a file to index.
WalkDir_Unarmed ==                              \* mutant: no resetTimer
  /\ loop = "on" /\ walking \in Dirs
  /\ Mark({f \in In[walking] : Indexable(disk[f])}, "write")
  /\ walking' = None
  /\ UNCHANGED <<queue, watched, present, armed>>
WalkDir ==
  /\ loop = "on" /\ walking \in Dirs
  /\ LET found == {f \in In[walking] : Indexable(disk[f])} IN
       /\ Mark(found, "write")
       /\ armed' = (armed \/ found # {})
  /\ walking' = None
  /\ UNCHANGED <<queue, watched, present>>

\* enqueueFullResync.
WalkRoot ==
  /\ loop = "on" /\ walking = Root
  /\ LET found == {f \in Files : Indexable(disk[f])} IN
       /\ Mark(found, "write")
       /\ present' = found
  /\ armed' = TRUE
  /\ walking' = None
  /\ UNCHANGED <<queue, watched>>

HandleEvent ==
  /\ \/ HandleRemove \/ HandleDir \/ HandleWrite \/ HandleOverflow
     \/ WalkDir \/ WalkRoot
  /\ UNCHANGED <<treeVars, loop, fl, lock, corpusVars, stale, endVars>>

Dirty == {p \in Paths : dirty[p] # None}

\* The timer fires: disarm while a flush runs or nothing is dirty, else hand
\* the batch to a flush goroutine.
FireIdle ==
  /\ fl["loop"].pc # "idle" \/ Dirty = {}
  /\ UNCHANGED <<dirty, present, fl>>

FireFlush ==
  /\ fl["loop"].pc = "idle"
  /\ Dirty # {}
  /\ fl' = [fl EXCEPT !["loop"] =
              [pc |-> "lock", batch |-> dirty, resync |-> present,
               todo |-> Dirty, changed |-> FALSE]]
  /\ dirty' = [p \in Paths |-> None]
  /\ present' = NoResync

TimerFires ==
  /\ Running /\ armed
  /\ FireIdle \/ FireFlush
  /\ armed' = FALSE
  /\ UNCHANGED <<treeVars, queue, watched, loop, walking, lock, corpusVars,
                 stale, endVars>>

\* <-flushDone: re-arm if events landed while the flush ran.
FlushDone_NoRearm ==                            \* mutant: R1's re-arm dropped
  /\ Running
  /\ fl["loop"].pc = "done"
  /\ fl' = [fl EXCEPT !["loop"] = Idle]
  /\ UNCHANGED <<treeVars, loopVars, lock, corpusVars, stale, endVars>>
FlushDone ==
  /\ Running
  /\ fl["loop"].pc = "done"
  /\ fl' = [fl EXCEPT !["loop"] = Idle]
  /\ armed' = (armed \/ Dirty # {})
  /\ UNCHANGED <<treeVars, queue, watched, loop, walking, dirty, present, lock,
                 corpusVars, stale, endVars>>

LoopExit ==
  /\ Running
  /\ closing
  /\ loop' = "gone"
  /\ UNCHANGED <<treeVars, queue, watched, walking, dirty, present, armed, fl,
                 lock, corpusVars, stale, endVars>>

-----------------------------------------------------------------------------
(* A flush, on the loop's goroutine or on Refresh's caller's.                 *)

\* Workspace.Refresh / ReconcileFiles for one path, statted by the caller.
Refresh(f) ==
  /\ fl["refresh"].pc = "idle"
  /\ fl' = [fl EXCEPT !["refresh"] =
              [pc |-> "lock", resync |-> NoResync, todo |-> {f}, changed |-> FALSE,
               batch |-> [p \in Paths |-> IF p # f THEN None
                                          ELSE IF disk[f] = None THEN "remove"
                                          ELSE "write"]]]
  /\ stale' = {}
  /\ UNCHANGED <<treeVars, loopVars, lock, corpusVars, endVars>>

Acquire(x) ==
  /\ fl[x].pc = "lock"
  /\ lock = None
  /\ lock' = x
  /\ fl' = [fl EXCEPT ![x].pc = "apply"]
  /\ UNCHANGED <<treeVars, loopVars, corpusVars, stale, endVars>>

\* reconcileCorpusLocked's loop, one path of the batch.  Paths are sorted, so a
\* directory comes before the files in it.  appendFile reads the disk, and
\* admits the file, again.
First(x, p) == p \in fl[x].todo /\ Holder(p) \cap fl[x].todo = {}

\* Refresh's caller looked at the file before the lock, and it is there again.
Overtaken(x, p) == {f \in Files : /\ x = "refresh" /\ f = p /\ disk[f] # None
                                  /\ fl[x].batch[p] = "remove"}

Apply_OldOnly(x, p) ==                          \* mutant: appends not counted
  /\ fl[x].pc = "apply"
  /\ First(x, p)
  /\ LET new == [s \in Slots |-> IF s = p /\ s \in Files /\ fl[x].batch[p] = "write"
                                 THEN Seen(disk[s]) ELSE None]
     IN /\ chunks' = Replaced(chunks, Under(p), new)
        /\ dense' = Rows(dense, Under(p), new)
        /\ fl' = [fl EXCEPT ![x].todo = @ \ {p},
                            ![x].changed = @ \/ \E s \in Under(p) : chunks[s] # None]
  /\ blind' = blind \cup Overtaken(x, p)
  /\ UNCHANGED <<disk, dirs, edits, loopVars, lock, migDirs, mode, pending,
                 extras, reranker, pub, stale, endVars>>
Apply(x, p) ==
  /\ fl[x].pc = "apply"
  /\ First(x, p)
  /\ LET new == [s \in Slots |-> IF s = p /\ s \in Files /\ fl[x].batch[p] = "write"
                                 THEN Seen(disk[s]) ELSE None]
     IN /\ chunks' = Replaced(chunks, Under(p), new)
        /\ dense' = Rows(dense, Under(p), new)
        /\ fl' = [fl EXCEPT ![x].todo = @ \ {p},
                            ![x].changed = @ \/ \E s \in Under(p) :
                                                  chunks[s] # None \/ new[s] # None]
  /\ blind' = blind \cup Overtaken(x, p)
  /\ UNCHANGED <<disk, dirs, edits, loopVars, lock, migDirs, mode, pending,
                 extras, reranker, pub, stale, endVars>>

\* Touched migration directories are folded again.
Touched(x) == {d \in migDirs : \E f \in In[d] : fl[x].batch[f] # None}

\* A resync drops every chunk of a file that it did not find and that the batch
\* does not hold (audit R4-6), folded chunks included: they carry the name of
\* the file that creates their table, so one just folded goes too if it carries
\* the name of a file the resync did not find.
Missed(x) == IF fl[x].resync = NoResync THEN {}
             ELSE {f \in Files \ fl[x].resync : fl[x].batch[f] = None}
Vanished(x) == Missed(x)
               \cup {d \in SqlDirs : In[d] # {} /\ In[d] \subseteq Missed(x)}
Misnamed(x) == {d \in Touched(x) : \E f \in In[d] \cap Missed(x) : disk[f] # None}

\* The rest of reconcileCorpusLocked, the build and the publish.
Finish(x) ==
  /\ fl[x].pc = "apply"
  /\ fl[x].todo = {}
  /\ UNCHANGED <<migDirs, mode, pending, extras, reranker>>
  /\ \E lost \in SUBSET Misnamed(x) :
       LET S == Touched(x) \cup Vanished(x)
           new == [s \in Slots |-> IF s \in Touched(x) \ lost THEN Fold(s) ELSE None]
       IN /\ chunks' = Replaced(chunks, S, new)
          /\ IF fl[x].changed \/ \E s \in S : chunks[s] # None \/ new[s] # None
             THEN /\ dense' = Healed(Rows(dense, S, new), chunks')
                  /\ Publish
             ELSE UNCHANGED <<dense, pub>>     \* a no-op batch (audit R4-3)
  /\ lock' = None
  /\ fl' = [fl EXCEPT ![x] = IF x = "loop" THEN [Idle EXCEPT !.pc = "done"] ELSE Idle]
  /\ UNCHANGED <<treeVars, loopVars, stale, endVars>>

-----------------------------------------------------------------------------
(* The warm pass, the database chunks and the reranker.                       *)

WarmStart ==
  /\ warm = "ready" /\ loop # "off"
  /\ lock = None
  /\ lock' = "warm" /\ warm' = "running"
  /\ UNCHANGED <<treeVars, loopVars, fl, corpusVars, stale, closing, closed>>

\* All chunks are embedded, and the served mode becomes the configured one.
WarmFinish_KeepsMode ==                         \* mutant: w.mode not raised
  /\ warm = "running"
  /\ dense' = chunks /\ pending' = FALSE
  /\ UNCHANGED <<chunks, migDirs, mode, extras, reranker>>
  /\ Publish
  /\ lock' = None /\ warm' = "done"
  /\ UNCHANGED <<treeVars, loopVars, fl, stale, closing, closed>>
WarmFinish ==
  /\ warm = "running"
  /\ dense' = chunks /\ mode' = "hybrid" /\ pending' = FALSE
  /\ UNCHANGED <<chunks, migDirs, extras, reranker>>
  /\ Publish
  /\ lock' = None /\ warm' = "done"
  /\ UNCHANGED <<treeVars, loopVars, fl, stale, closing, closed>>

\* Close cancels the pass between two files: the partial index stays.
WarmAbort ==
  /\ warm = "running" /\ closing
  /\ lock' = None /\ warm' = "done"
  /\ UNCHANGED <<treeVars, loopVars, fl, corpusVars, stale, closing, closed>>

SetExtraChunks(x) ==
  /\ lock = None
  /\ extras' = x
  /\ dense' = Healed(dense, chunks)
  /\ UNCHANGED <<chunks, migDirs, mode, pending, reranker>>
  /\ Publish
  /\ UNCHANGED <<treeVars, loopVars, fl, lock, stale, endVars>>

\* A copy of the published snapshot with the reranker replaced.
SetReranker_Unkept(r) ==                        \* mutant: w.reranker not set
  /\ lock = None
  /\ pub' = [pub EXCEPT !.reranker = r]
  /\ UNCHANGED <<treeVars, loopVars, fl, lock, chunks, dense, migDirs, mode, pending,
                 extras, reranker, stale, endVars>>
SetReranker(r) ==
  /\ lock = None
  /\ reranker' = r
  /\ pub' = [pub EXCEPT !.reranker = r]
  /\ UNCHANGED <<treeVars, loopVars, fl, lock, chunks, dense, migDirs, mode, pending,
                 extras, stale, endVars>>

-----------------------------------------------------------------------------
(* Close: cancel, wait for the loop, then for the tracked goroutines.         *)

CloseCall ==
  /\ MayClose /\ ~closing /\ loop = "on"
  /\ closing' = TRUE
  /\ UNCHANGED <<treeVars, loopVars, fl, lock, corpusVars, stale, warm, closed>>

BackgroundDone_LoopOnly == TRUE                 \* mutant: no bgWG.Wait
BackgroundDone == fl["loop"].pc \in {"idle", "done"} /\ warm \in {"off", "done"}

CloseReturn ==
  /\ closing /\ ~closed
  /\ loop = "gone"
  /\ BackgroundDone
  /\ closed' = TRUE
  /\ UNCHANGED <<treeVars, loopVars, fl, lock, corpusVars, stale, warm, closing>>

-----------------------------------------------------------------------------
Edit == \/ \E f \in Files, c \in Contents \cup {None} : EditFile(f, c)
        \/ \E d \in Dirs : DirOut(d) \/ DirIn(d)

Flush(x) == Acquire(x) \/ (\E p \in Paths : Apply(x, p)) \/ Finish(x)

Next ==
  \/ Edit \/ StartWatch
  \/ HandleEvent \/ TimerFires \/ FlushDone \/ LoopExit
  \/ \E f \in RefreshSet : Refresh(f)
  \/ \E x \in Flushers : Flush(x)
  \/ WarmStart \/ WarmFinish \/ WarmAbort
  \/ \E x \in ExtraSets \cup {None} : SetExtraChunks(x)
  \/ \E r \in Rerankers \cup {None} : SetReranker(r)
  \/ CloseCall \/ CloseReturn

\* The loop, the goroutines and the timer run.  The mutex is starvation-free,
\* and the debounce's ceiling (5 x debounce) makes the timer fire even under a
\* stream of events, so a timer that is armed fires.
Fairness ==
  /\ WF_vars(StartWatch) /\ WF_vars(HandleEvent) /\ SF_vars(TimerFires)
  /\ SF_vars(FlushDone) /\ SF_vars(LoopExit)
  /\ \A x \in Flushers : SF_vars(Flush(x))
  /\ SF_vars(WarmStart) /\ WF_vars(WarmFinish) /\ WF_vars(CloseReturn)

Spec == Init /\ [][Next]_vars
FairSpec == Spec /\ Fairness

-----------------------------------------------------------------------------
(* Properties.                                                                *)

\* The kernel's records.
Records == [op : {"write"}, path : Files] \cup [op : {"remove"}, path : Paths]
           \cup [op : {"create"}, path : Dirs] \cup {Overflow}
Batches == [Paths -> {"write", "remove", None}]
Snapshots == [chunks : Corpora, dense : Corpora \cup {NoDense}, mode : {"bm25", "hybrid"},
              extras : ExtraSets \cup {None}, reranker : Rerankers \cup {None}]

\* A flush: where it is, what of its batch is left, what it has changed.
FlushStates == [pc : {"idle", "lock", "apply", "done"}, todo : SUBSET Paths, batch : Batches,
                resync : (SUBSET Files) \cup {NoResync}, changed : BOOLEAN]

TreeTypes ==
  /\ disk \in [Files -> Contents \cup {None}] /\ dirs \subseteq Dirs
  /\ edits \in Nat /\ blind \subseteq Files /\ stale \subseteq Files
LoopTypes ==
  /\ queue \in Seq(Records)
  /\ watched \subseteq Dirs /\ loop \in {"off", "on", "gone"}
  /\ walking \in Dirs \cup {Root, None}
  /\ dirty \in Batches
  /\ present \in (SUBSET Files) \cup {NoResync} /\ armed \in BOOLEAN
FlushTypes == lock \in Flushers \cup {"warm", None} /\ fl \in [Flushers -> FlushStates]
CorpusTypes ==
  /\ chunks \in Corpora /\ dense \in Corpora \cup {NoDense}
  /\ migDirs \subseteq SqlDirs
  /\ mode \in {"bm25", "hybrid"} /\ pending \in BOOLEAN
  /\ extras \in ExtraSets \cup {None} /\ reranker \in Rerankers \cup {None}
  /\ pub \in Snapshots
EndTypes == /\ warm \in {"off", "ready", "running", "done"}
            /\ closing \in BOOLEAN /\ closed \in BOOLEAN
TypeOK == TreeTypes /\ LoopTypes /\ FlushTypes /\ CorpusTypes /\ EndTypes

(* Outside corpusMu nothing is unpublished: the served snapshot is the union  *)
(* of the corpus, the database chunks and the reranker, whoever wrote last,   *)
(* so no flush undoes SetExtraChunks or SetReranker and none is lost.         *)
PublishedIsCorpus ==
  lock = None => pub = Unioned(chunks, dense, mode, pending, extras, reranker)

(* R5-1, N1, R4-1: vectors stay one to one with chunks through every order of *)
(* flush, Refresh, fold, resync and warm pass, and a snapshot that claims to  *)
(* be hybrid has vectors for every chunk: semantic search never silently      *)
(* loses its tail or falls back to bm25.                                      *)
DenseFollowsChunks ==
  /\ dense # NoDense => dense = chunks
  /\ pub.dense # NoDense => pub.dense = pub.chunks
  /\ pub.mode = "hybrid" /\ (Held(pub.chunks) # {} \/ pub.extras # None)
       => pub.dense # NoDense

\* Nothing is left for the loop to do.
Settled ==
  /\ loop = "on" /\ walking = None /\ queue = <<>> /\ Dirty = {}
  /\ present = NoResync
  /\ \A x \in Flushers : fl[x].pc = "idle"

(* Convergence: when the loop has nothing left to do the snapshot holds what  *)
(* the disk holds, after any interleaving of edits, directory moves, dropped  *)
(* events, resyncs and flushes.  Left out, because the code misses them:      *)
(* files whose last change was made before the watches, or was a deletion in  *)
(* a directory that had no watch yet, or that came back while a Refresh took  *)
(* them for gone, or while the full queue dropped their record behind an      *)
(* overflow record and their removal; files that have become unindexable in   *)
(* place, whose event HandleWrite ignores; a directory that has become a      *)
(* migration directory since the build; and, not Settled, a resync that found *)
(* no file, whose present set is kept and not flushed.                        *)
Converged ==
  Settled =>
    /\ \A f \in Files \ blind :
         disk[f] \in Oversized \/ pub.chunks[f] = Seen(disk[f])
    /\ \A d \in migDirs :
         \/ In[d] \cap blind # {}
         \/ \E f \in In[d] : disk[f] \in Oversized
         \/ pub.chunks[d] = Fold(d)

(* R1, N8: a dirty path always has a timer or a flush in front of it, so no   *)
(* batch is stranded by a timer that fired during a flush.                    *)
NoStrandedBatch ==
  loop = "on" /\ walking = None /\ Dirty # {} => armed \/ fl["loop"].pc # "idle"

(* "When Refresh returns, Search serves the new content": unless the file was *)
(* edited again meanwhile, and whatever the watcher was doing.                *)
RefreshServes ==
  [][\A f \in RefreshSet :
       fl["refresh"].pc = "apply" /\ fl'["refresh"].pc = "idle"
         /\ fl["refresh"].batch[f] # None /\ f \notin stale
       => pub'.chunks[f] = Seen(disk[f])]_vars

(* After Close has returned no tracked goroutine is left to read the tree or  *)
(* publish: the temp clone may be deleted.                                    *)
ClosedIsQuiet ==
  closed => /\ loop = "gone" /\ fl["loop"].pc \in {"idle", "done"}
            /\ warm \in {"off", "done"} /\ lock \notin {"loop", "warm"}

(* The loop catches up for good once edits stop.                              *)
EventuallySettled ==
  <>[](\/ closing
       \/ /\ loop = "on" /\ walking = None /\ queue = <<>> /\ Dirty = {}
          /\ present = NoResync /\ fl["loop"].pc = "idle")

(* A staged index reaches its configured mode (Warming() becomes false).      *)
WarmingEnds == warm = "ready" ~> (pub.mode = "hybrid" \/ closing)
=============================================================================
