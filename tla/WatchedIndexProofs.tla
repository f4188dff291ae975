-------------------------- MODULE WatchedIndexProofs -------------------------
(* Safety of the watched index for any tree, contents, queue length and edits: *)
(* types, who holds corpusMu, vectors one to one with chunks, the snapshot the *)
(* union of what was written, no stranded batch, Refresh and Close.            *)
EXTENDS WatchedIndex, TLAPS

USE TreeAssumption, BoundAssumption, FlagAssumption, NoneAssumption

-----------------------------------------------------------------------------
(* The operators of the corpus.                                               *)

\* Folded chunks and file chunks are texts.
LEMMA FoldType ==
  ASSUME TypeOK, NEW d \in Dirs
  PROVE  Fold(d) \in Texts
<1>1. [f \in In[d] |-> disk[f]] \in [In[d] -> Contents \cup {None}]
  BY DEF TypeOK, TreeTypes
<1> QED BY <1>1 DEF Fold, Texts

\* What the disk shows of a file is a text.
LEMMA SeenType == \A c \in Contents \cup {None} : Seen(c) \in Contents \cup {None}
BY DEF Seen, Indexable

\* Replacing chunks gives chunks.
LEMMA ReplacedType ==
  ASSUME NEW c \in Corpora, NEW S, NEW new \in Corpora
  PROVE  Replaced(c, S, new) \in Corpora
BY DEF Replaced, Corpora

\* The dense store stays one.
LEMMA RowsType ==
  ASSUME NEW v \in Corpora \cup {NoDense}, NEW S, NEW new \in Corpora
  PROVE  Rows(v, S, new) \in Corpora \cup {NoDense}
<1>1. None \in Texts
  BY DEF Texts
<1>2. CASE v = NoDense
  BY <1>1, <1>2 DEF Rows, Corpora
<1>3. CASE v # NoDense
  BY <1>1, <1>3 DEF Rows, Corpora
<1> QED BY <1>2, <1>3

\* A snapshot is built from chunks, vectors, database chunks and a reranker.
LEMMA UnionedType ==
  ASSUME NEW c \in Corpora, NEW v \in Corpora \cup {NoDense},
         NEW m \in {"bm25", "hybrid"}, NEW w, NEW x \in ExtraSets \cup {None},
         NEW r \in Rerankers \cup {None}
  PROVE  Unioned(c, v, m, w, x, r) \in Snapshots
BY DEF Unioned, Snapshots, Healed

\* What a flush puts in the place of a path's chunks.
LEMMA NewType ==
  ASSUME TypeOK, NEW x \in Flushers, NEW p \in Paths
  PROVE  [s \in Slots |-> IF s = p /\ s \in Files /\ fl[x].batch[p] = "write"
                          THEN Seen(disk[s]) ELSE None] \in Corpora
<1>1. \A s \in Files : Seen(disk[s]) \in Texts
  BY SeenType DEF TypeOK, TreeTypes, Texts
<1>2. None \in Texts
  BY DEF Texts
<1> QED BY <1>1, <1>2 DEF Corpora

\* What the end of a flush puts in the place of the directories it folds.
LEMMA FoldedType ==
  ASSUME TypeOK, NEW T \in SUBSET SqlDirs
  PROVE  [s \in Slots |-> IF s \in T THEN Fold(s) ELSE None] \in Corpora
<1>1. None \in Texts
  BY DEF Texts
<1>2. \A s \in T : Fold(s) \in Texts
  BY FoldType
<1> QED BY <1>1, <1>2 DEF Corpora

-----------------------------------------------------------------------------
(* Types.                                                                     *)

\* No resync is one of the values of the set a resync found.
LEMMA NoResyncType == NoResync \in (SUBSET Files) \cup {NoResync}
OBVIOUS

\* A flush at rest is a flush state.
LEMMA IdleType == Idle \in FlushStates
<1>1. [p \in Paths |-> None] \in Batches
  BY DEF Batches
<1>2. {} \in SUBSET Paths
  OBVIOUS
<1> QED BY <1>1, <1>2, NoResyncType DEF Idle, FlushStates

\* The built index has the types.
LEMMA TypeInit == Init => TypeOK
<1> SUFFICES ASSUME Init PROVE TypeOK
  OBVIOUS
<1>1. \A f \in Files : Seen(disk[f]) \in Texts
  BY SeenType DEF Init, Texts
<1>2. \A d \in Dirs : Fold(d) \in Texts
  <2> TAKE d \in Dirs
  <2>1. [f \in In[d] |-> disk[f]] \in [In[d] -> Contents \cup {None}]
    BY DEF Init
  <2> QED BY <2>1 DEF Fold, Texts
<1>3. migDirs \subseteq SqlDirs /\ None \in Texts
  BY DEF Init, Texts
<1>4. chunks \in Corpora
  BY <1>1, <1>2, <1>3 DEF Init, Walked, Corpora, Slots
<1>5. /\ dense \in Corpora \cup {NoDense} /\ mode \in {"bm25", "hybrid"}
      /\ extras \in ExtraSets \cup {None} /\ reranker \in Rerankers \cup {None}
  BY <1>4 DEF Init
<1>6. pub \in Snapshots
  BY <1>4, <1>5, UnionedType DEF Init
<1>7. LoopTypes
  <2>1. queue \in Seq(Records) /\ dirty \in Batches
    BY DEF Init, Batches
  <2>2. watched \subseteq Dirs /\ present = NoResync
    BY DEF Init
  <2> QED BY <2>1, <2>2, NoResyncType DEF Init, LoopTypes
<1>8. FlushTypes
  BY IdleType DEF Init, FlushTypes
<1>9. TreeTypes /\ EndTypes
  BY DEF Init, TreeTypes, EndTypes
<1>10. pending \in BOOLEAN
  BY DEF Init
<1> QED BY <1>3, <1>4, <1>5, <1>6, <1>7, <1>8, <1>9, <1>10 DEF TypeOK, CorpusTypes

\* The kernel's queue holds its records.
LEMMA QueuedType ==
  ASSUME TypeOK, NEW e \in Records
  PROVE  Queued(e) \in Seq(Records)
BY DEF Queued, TypeOK, LoopTypes, Records

\* What stands still keeps its types.
LEMMA TypesStand ==
  /\ TreeTypes /\ UNCHANGED <<treeVars, stale>> => TreeTypes'
  /\ LoopTypes /\ UNCHANGED loopVars => LoopTypes'
  /\ FlushTypes /\ UNCHANGED <<fl, lock>> => FlushTypes'
  /\ CorpusTypes /\ UNCHANGED corpusVars => CorpusTypes'
  /\ EndTypes /\ UNCHANGED endVars => EndTypes'
BY DEF TreeTypes, LoopTypes, FlushTypes, CorpusTypes, EndTypes, treeVars, loopVars,
       corpusVars, endVars

\* Edits of the tree.
LEMMA EditType == TypeOK /\ Edit => TypeOK'
<1> SUFFICES ASSUME TypeOK, Edit PROVE TypeOK'
  OBVIOUS
<1>1. ASSUME UNCHANGED <<loop, walking, dirty, present, armed, fl, lock, corpusVars, endVars>>,
             TreeTypes', queue' \in Seq(Records), watched' \subseteq Dirs
      PROVE  TypeOK'
  <2>1. LoopTypes'
    BY <1>1 DEF TypeOK, LoopTypes
  <2> QED BY <1>1, <2>1, TypesStand DEF TypeOK
<1>2. ASSUME NEW f \in Files, NEW c \in Contents \cup {None}, EditFile(f, c) PROVE TypeOK'
  <2>1. [op |-> IF c = None THEN "remove" ELSE "write", path |-> f] \in Records
    BY DEF Records, Paths
  <2>2. queue' \in Seq(Records) /\ watched' \subseteq Dirs
    BY <1>2, <2>1, QueuedType DEF EditFile, Edited, TypeOK, LoopTypes
  <2>3. TreeTypes'
    BY <1>2 DEF EditFile, Edited, TypeOK, TreeTypes
  <2> QED BY <1>1, <1>2, <2>2, <2>3 DEF EditFile, Edited
<1>3. ASSUME NEW d \in Dirs, DirOut(d) PROVE TypeOK'
  <2>1. [op |-> "remove", path |-> d] \in Records
    BY DEF Records, Paths
  <2>2. queue' \in Seq(Records) /\ watched' \subseteq Dirs
    BY <1>3, <2>1, QueuedType DEF DirOut, TypeOK, LoopTypes
  <2>3. TreeTypes'
    BY <1>3 DEF DirOut, TypeOK, TreeTypes
  <2> QED BY <1>1, <1>3, <2>2, <2>3 DEF DirOut
<1>4. ASSUME NEW d \in Dirs, DirIn(d) PROVE TypeOK'
  <2>1. [op |-> "create", path |-> d] \in Records
    BY DEF Records
  <2>2. queue' \in Seq(Records) /\ watched' \subseteq Dirs
    BY <1>4, <2>1, QueuedType DEF DirIn, Edited, TypeOK, LoopTypes
  <2>3. TreeTypes'
    BY <1>4 DEF DirIn, Edited, TypeOK, TreeTypes
  <2> QED BY <1>1, <1>4, <2>2, <2>3 DEF DirIn, Edited
<1> QED BY <1>2, <1>3, <1>4 DEF Edit

\* The loop's own steps.
LEMMA LoopType ==
  TypeOK /\ (StartWatch \/ HandleEvent \/ TimerFires \/ FlushDone \/ LoopExit) => TypeOK'
<1> SUFFICES ASSUME TypeOK, StartWatch \/ HandleEvent \/ TimerFires \/ FlushDone \/ LoopExit
             PROVE  TypeOK'
  OBVIOUS
<1>1. TreeTypes' /\ CorpusTypes' /\ EndTypes'
  BY TypesStand DEF TypeOK, StartWatch, HandleEvent, TimerFires, FlushDone, LoopExit
<1>2. CASE StartWatch \/ LoopExit
  <2>1. LoopTypes' /\ FlushTypes'
    BY <1>2 DEF TypeOK, StartWatch, LoopExit, TreeTypes, LoopTypes, FlushTypes, loopVars
  <2> QED BY <1>1, <2>1 DEF TypeOK
<1>3. CASE FlushDone
  <2>1. FlushTypes'
    BY <1>3, IdleType DEF TypeOK, FlushDone, FlushTypes, Flushers
  <2>2. armed' \in BOOLEAN
    BY <1>3 DEF FlushDone
  <2>3. LoopTypes'
    BY <1>3, <2>2 DEF TypeOK, FlushDone, LoopTypes
  <2> QED BY <1>1, <2>1, <2>3 DEF TypeOK
<1>4. CASE TimerFires
  <2>1. armed' = FALSE /\ UNCHANGED <<queue, watched, loop, walking, lock>>
    BY <1>4 DEF TimerFires
  <2>2. CASE FireIdle
    BY <1>1, <2>1, <2>2 DEF TypeOK, FireIdle, LoopTypes, FlushTypes
  <2>3. CASE FireFlush
    <3>1. dirty' \in Batches /\ present' \in (SUBSET Files) \cup {NoResync}
      <4>1. dirty' \in Batches
        BY <2>3 DEF FireFlush, Batches
      <4>2. present' = NoResync
        BY <2>3 DEF FireFlush
      <4> QED BY <4>1, <4>2, NoResyncType
    <3>2. [pc |-> "lock", batch |-> dirty, resync |-> present, todo |-> Dirty,
           changed |-> FALSE] \in FlushStates
      BY DEF TypeOK, LoopTypes, FlushStates, Dirty
    <3>3. FlushTypes'
      BY <2>1, <2>3, <3>2 DEF FireFlush, TypeOK, FlushTypes, Flushers
    <3>4. LoopTypes'
      BY <2>1, <3>1 DEF TypeOK, LoopTypes
    <3> QED BY <1>1, <3>3, <3>4 DEF TypeOK
  <2> QED BY <1>4, <2>2, <2>3 DEF TimerFires
<1>5. CASE HandleEvent
  <2>1. queue # <<>> => Head(queue) \in Records /\ Tail(queue) \in Seq(Records)
    BY DEF TypeOK, LoopTypes
  <2>2. queue' \in Seq(Records)
    BY <1>5, <2>1 DEF HandleEvent, HandleRemove, HandleDir, HandleWrite, HandleOverflow,
                      Take, WalkDir, WalkRoot, TypeOK, LoopTypes
  <2>3. ASSUME NEW F, NEW op \in {"write", "remove"}, Mark(F, op) PROVE dirty' \in Batches
    BY <2>3 DEF Mark, TypeOK, LoopTypes, Batches
  <2>4. FlushTypes' /\ loop' \in {"off", "on", "gone"}
    BY <1>5, TypesStand DEF HandleEvent, TypeOK, LoopTypes
  <2>5. dirty' \in Batches
    <3>1. dirty \in Batches
      BY DEF TypeOK, LoopTypes
    <3> QED BY <1>5, <2>3, <3>1 DEF HandleEvent, HandleRemove, HandleDir, HandleWrite,
                                HandleOverflow, WalkDir, WalkRoot
  <2>6. watched' \subseteq Dirs /\ walking' \in Dirs \cup {Root, None}
    <3>1. CASE HandleDir
      <4>1. Head(queue).path \in Dirs
        BY <2>1, <3>1 DEF HandleDir, Take, Records, Overflow
      <4> QED BY <3>1, <4>1 DEF HandleDir, TypeOK, LoopTypes
    <3>2. CASE ~HandleDir
      BY <1>5, <3>2 DEF HandleEvent, HandleRemove, HandleWrite, HandleOverflow, WalkDir,
                        WalkRoot, TypeOK, LoopTypes, TreeTypes
    <3> QED BY <3>1, <3>2
  <2>7. present' \in (SUBSET Files) \cup {NoResync}
    BY <1>5 DEF HandleEvent, HandleRemove, HandleDir, HandleWrite, HandleOverflow, WalkDir,
                WalkRoot, TypeOK, LoopTypes
  <2>8. armed' \in BOOLEAN
    BY <1>5 DEF HandleEvent, HandleRemove, HandleDir, HandleWrite, HandleOverflow, WalkDir,
                WalkRoot, TypeOK, LoopTypes
  <2>9. LoopTypes'
    BY <2>2, <2>4, <2>5, <2>6, <2>7, <2>8 DEF LoopTypes
  <2> QED BY <1>1, <2>4, <2>9 DEF TypeOK
<1> QED BY <1>2, <1>3, <1>4, <1>5

\* A flush.
LEMMA FlushType ==
  ASSUME TypeOK, NEW x \in Flushers, Flush(x) \/ \E f \in RefreshSet : Refresh(f)
  PROVE  TypeOK'
<1>1. LoopTypes' /\ EndTypes'
  BY TypesStand DEF TypeOK, Flush, Acquire, Apply, Finish, Refresh
<1>2. ASSUME NEW f \in RefreshSet, Refresh(f) PROVE TypeOK'
  <2>1. [p \in Paths |-> IF p # f THEN None ELSE IF disk[f] = None THEN "remove"
                         ELSE "write"] \in Batches
    BY DEF Batches
  <2>2. [pc |-> "lock", resync |-> NoResync, todo |-> {f}, changed |-> FALSE,
         batch |-> [p \in Paths |-> IF p # f THEN None ELSE IF disk[f] = None
                                   THEN "remove" ELSE "write"]] \in FlushStates
    <3>1. {f} \in SUBSET Paths
      BY DEF Paths
    <3> QED BY <2>1, <3>1, NoResyncType DEF FlushStates
  <2>3. fl' \in [Flushers -> FlushStates]
    BY <1>2, <2>2 DEF Refresh, TypeOK, FlushTypes
  <2>4. CorpusTypes' /\ FlushTypes' /\ TreeTypes'
    BY <1>2, <2>3, TypesStand DEF Refresh, TypeOK, FlushTypes, TreeTypes, treeVars
  <2> QED BY <1>1, <2>4 DEF TypeOK
<1>3. CASE Acquire(x)
  <2>1. FlushTypes'
    BY <1>3 DEF Acquire, TypeOK, FlushTypes, FlushStates
  <2> QED BY <1>1, <1>3, <2>1, TypesStand DEF TypeOK, Acquire
<1>4. ASSUME NEW p \in Paths, Apply(x, p) PROVE TypeOK'
  <2> DEFINE new == [s \in Slots |-> IF s = p /\ s \in Files /\ fl[x].batch[p] = "write"
                                     THEN Seen(disk[s]) ELSE None]
  <2>1. new \in Corpora
    BY NewType
  <2>2. chunks' = Replaced(chunks, Under(p), new) /\ dense' = Rows(dense, Under(p), new)
    BY <1>4 DEF Apply
  <2>3. chunks' \in Corpora /\ dense' \in Corpora \cup {NoDense}
    BY <2>1, <2>2, ReplacedType, RowsType DEF TypeOK, CorpusTypes
  <2>4. CorpusTypes'
    BY <1>4, <2>3 DEF Apply, TypeOK, CorpusTypes
  <2>5. PICK b \in BOOLEAN : fl' = [fl EXCEPT ![x].todo = @ \ {p}, ![x].changed = b]
    <3>1. PICK t : fl' = [fl EXCEPT ![x].todo = @ \ {p}, ![x].changed = @ \/ t]
      BY <1>4 DEF Apply
    <3>2. (fl[x].changed \/ t) \in BOOLEAN
      OBVIOUS
    <3> QED BY <3>1, <3>2
  <2>6. [fl[x] EXCEPT !.todo = @ \ {p}, !.changed = b] \in FlushStates
    <3>1. fl[x] \in FlushStates
      BY DEF TypeOK, FlushTypes
    <3>2. fl[x].todo \ {p} \in SUBSET Paths
      BY <3>1 DEF FlushStates
    <3> QED BY <3>1, <3>2 DEF FlushStates
  <2>7. fl' = [fl EXCEPT ![x] = [fl[x] EXCEPT !.todo = @ \ {p}, !.changed = b]]
    BY <2>5 DEF TypeOK, FlushTypes
  <2>8. FlushTypes' /\ TreeTypes'
    <3>1. fl' \in [Flushers -> FlushStates]
      BY <2>6, <2>7 DEF TypeOK, FlushTypes
    <3>2. blind' \subseteq Files
      BY <1>4 DEF Apply, TypeOK, TreeTypes, Overtaken
    <3> QED BY <1>4, <3>1, <3>2 DEF Apply, TypeOK, FlushTypes, TreeTypes
  <2> QED BY <1>1, <2>4, <2>8 DEF TypeOK
<1>5. CASE Finish(x)
  <2>1. PICK lost \in SUBSET Misnamed(x) :
          LET S == Touched(x) \cup Vanished(x)
              new == [s \in Slots |-> IF s \in Touched(x) \ lost THEN Fold(s) ELSE None]
          IN /\ chunks' = Replaced(chunks, S, new)
             /\ IF fl[x].changed \/ \E s \in S : chunks[s] # None \/ new[s] # None
                THEN dense' = Healed(Rows(dense, S, new), chunks') /\ Publish
                ELSE UNCHANGED <<dense, pub>>
    BY <1>5 DEF Finish
  <2> DEFINE S == Touched(x) \cup Vanished(x)
             new == [s \in Slots |-> IF s \in Touched(x) \ lost THEN Fold(s) ELSE None]
  <2>2. new \in Corpora
    BY FoldedType DEF Touched, TypeOK, CorpusTypes
  <2>3. chunks' \in Corpora
    BY <2>1, <2>2, ReplacedType DEF TypeOK, CorpusTypes
  <2>4. dense' \in Corpora \cup {NoDense}
    BY <2>1, <2>2, RowsType DEF TypeOK, CorpusTypes, Healed
  <2>5. UNCHANGED <<migDirs, mode, pending, extras, reranker>>
    BY <1>5 DEF Finish
  <2>6. pub' \in Snapshots
    <3>1. pub' = pub \/ pub' = Unioned(chunks', dense', mode, pending, extras, reranker)
      BY <2>1, <2>5 DEF Publish
    <3>2. /\ mode \in {"bm25", "hybrid"} /\ extras \in ExtraSets \cup {None}
          /\ reranker \in Rerankers \cup {None} /\ pub \in Snapshots
      BY DEF TypeOK, CorpusTypes
    <3> QED BY <2>3, <2>4, <3>1, <3>2, UnionedType
  <2>7. CorpusTypes'
    BY <2>3, <2>4, <2>5, <2>6 DEF TypeOK, CorpusTypes
  <2>8. [Idle EXCEPT !.pc = "done"] \in FlushStates
    BY IdleType DEF FlushStates
  <2>9. FlushTypes'
    BY <1>5, <2>8, IdleType DEF Finish, TypeOK, FlushTypes
  <2> QED BY <1>1, <1>5, <2>7, <2>9, TypesStand DEF TypeOK, Finish
<1> QED BY <1>2, <1>3, <1>4, <1>5 DEF Flush

\* The warm pass, the database chunks, the reranker and Close.
LEMMA ServeType ==
  ASSUME TypeOK,
         \/ WarmStart \/ WarmFinish \/ WarmAbort \/ CloseCall \/ CloseReturn
         \/ \E x \in ExtraSets \cup {None} : SetExtraChunks(x)
         \/ \E r \in Rerankers \cup {None} : SetReranker(r)
  PROVE  TypeOK'
<1>1. TreeTypes' /\ LoopTypes'
  BY TypesStand DEF TypeOK, WarmStart, WarmFinish, WarmAbort, CloseCall, CloseReturn,
                    SetExtraChunks, SetReranker
<1>2. FlushTypes' /\ EndTypes'
  BY DEF TypeOK, FlushTypes, EndTypes, WarmStart, WarmFinish, WarmAbort, CloseCall,
         CloseReturn, SetExtraChunks, SetReranker, endVars
<1>3. CASE WarmStart \/ WarmAbort \/ CloseCall \/ CloseReturn
  BY <1>1, <1>2, <1>3, TypesStand DEF TypeOK, WarmStart, WarmAbort, CloseCall, CloseReturn
<1>4. CASE WarmFinish
  <2>1. pub' \in Snapshots
    BY <1>4, UnionedType DEF WarmFinish, Publish, TypeOK, CorpusTypes
  <2>2. CorpusTypes'
    BY <1>4, <2>1 DEF TypeOK, CorpusTypes, WarmFinish
  <2> QED BY <1>1, <1>2, <2>2 DEF TypeOK
<1>5. ASSUME NEW x \in ExtraSets \cup {None}, SetExtraChunks(x) PROVE TypeOK'
  <2>1. dense' \in Corpora \cup {NoDense}
    BY <1>5 DEF SetExtraChunks, Healed, TypeOK, CorpusTypes
  <2>2. pub' \in Snapshots
    BY <1>5, <2>1, UnionedType DEF SetExtraChunks, Publish, TypeOK, CorpusTypes
  <2>3. CorpusTypes'
    BY <1>5, <2>1, <2>2 DEF TypeOK, CorpusTypes, SetExtraChunks
  <2> QED BY <1>1, <1>2, <2>3 DEF TypeOK
<1>6. ASSUME NEW r \in Rerankers \cup {None}, SetReranker(r) PROVE TypeOK'
  <2>1. CorpusTypes'
    BY <1>6 DEF TypeOK, CorpusTypes, SetReranker, Snapshots
  <2> QED BY <1>1, <1>2, <2>1 DEF TypeOK
<1> QED BY <1>3, <1>4, <1>5, <1>6

\* Every step keeps the types.
LEMMA TypeNext == TypeOK /\ [Next]_vars => TypeOK'
<1> SUFFICES ASSUME TypeOK, [Next]_vars PROVE TypeOK'
  OBVIOUS
<1>1. CASE UNCHANGED vars
  BY <1>1, TypesStand DEF vars, TypeOK
<1>2. "loop" \in Flushers
  BY DEF Flushers
<1> QED BY <1>1, <1>2, EditType, LoopType, FlushType, ServeType DEF Next

(* The types of the index's state, for any tree and any queue.                *)
THEOREM WatchTypes == Spec => []TypeOK
BY TypeInit, TypeNext, PTL DEF Spec

-----------------------------------------------------------------------------
(* Control: who holds corpusMu, the timer, and Close.                         *)

\* corpusMu is held by the flush that applies its batch or by the running warm
\* pass, and by nobody else; Refresh's caller leaves nothing to collect.
LockOwned ==
  /\ \A x \in Flushers : lock = x <=> fl[x].pc = "apply"
  /\ lock = "warm" <=> warm = "running"
  /\ fl["refresh"].pc # "done"

\* NoStrandedBatch, while a handler walks the tree too and before the loop runs.
Carried == loop # "gone" /\ Dirty # {} => armed \/ fl["loop"].pc # "idle"

\* Once Close has returned the loop and what it waited for stay ended.
Quiet == closed => /\ loop = "gone" /\ fl["loop"].pc \in {"idle", "done"}
                   /\ warm \in {"off", "done"}

Control == LockOwned /\ Carried /\ Quiet

\* Nothing is marked, locked or closed when the index has been built.
LEMMA ControlInit == Init => Control
<1> SUFFICES ASSUME Init PROVE Control
  OBVIOUS
<1>1. Dirty = {} /\ closed = FALSE /\ lock = None /\ warm \in {"off", "ready"}
  BY DEF Init, Dirty
<1>2. \A x \in Flushers : fl[x].pc = "idle"
  BY DEF Init, Idle
<1>3. None \notin Flushers /\ None # "warm" /\ "refresh" \in Flushers
  BY DEF Flushers
<1> QED BY <1>1, <1>2, <1>3 DEF Control, LockOwned, Carried, Quiet

\* The steps that move no flush and mark no path.
LEMMA ControlStands ==
  ASSUME Control, UNCHANGED <<fl, lock, warm, dirty>>,
         loop' = loop \/ (loop # "gone" /\ ~closed') \/ (loop' = "gone" /\ closed' = closed),
         armed => armed',
         closed' = closed \/ (/\ loop = "gone" /\ loop' = loop /\ BackgroundDone)
  PROVE  Control'
<1>1. Dirty' = Dirty
  BY DEF Dirty
<1> QED BY <1>1 DEF Control, LockOwned, Carried, Quiet, BackgroundDone

\* The loop's handlers: whoever marks a path arms the timer.
LEMMA ControlHandle == Control /\ HandleEvent => Control'
<1> SUFFICES ASSUME Control, HandleEvent PROVE Control'
  OBVIOUS
<1>1. UNCHANGED <<fl, lock, warm, closed, loop>>
  BY DEF HandleEvent, endVars
<1>2. LockOwned' /\ Quiet'
  BY <1>1 DEF Control, LockOwned, Quiet
<1>3. CASE HandleRemove \/ WalkRoot
  BY <1>1, <1>2, <1>3 DEF Control, Carried, HandleRemove, WalkRoot
<1>4. CASE HandleDir \/ HandleOverflow
  <2>1. Dirty' = Dirty /\ armed' = armed
    BY <1>4 DEF HandleDir, HandleOverflow, Dirty
  <2> QED BY <1>1, <1>2, <2>1 DEF Control, Carried
<1>5. CASE HandleWrite
  <2>1. armed' = TRUE \/ (Dirty' = Dirty /\ armed' = armed)
    BY <1>5 DEF HandleWrite, Dirty
  <2> QED BY <1>1, <1>2, <2>1 DEF Control, Carried
<1>6. CASE WalkDir
  <2> DEFINE found == {f \in In[walking] : Indexable(disk[f])}
  <2>1. Mark(found, "write") /\ armed' = (armed \/ found # {})
    BY <1>6 DEF WalkDir
  <2>2. CASE found = {}
    <3>1. Dirty' = Dirty
      BY <2>1, <2>2 DEF Mark, Dirty
    <3> QED BY <1>1, <1>2, <2>1, <2>2, <3>1 DEF Control, Carried
  <2>3. CASE found # {}
    BY <1>1, <1>2, <2>1, <2>3 DEF Control, Carried
  <2> QED BY <2>2, <2>3
<1> QED BY <1>3, <1>4, <1>5, <1>6 DEF HandleEvent

\* The timer and the flush's end.
LEMMA ControlTimer == TypeOK /\ Control /\ (TimerFires \/ FlushDone) => Control'
<1> SUFFICES ASSUME TypeOK, Control, TimerFires \/ FlushDone PROVE Control'
  OBVIOUS
<1>1. fl \in [Flushers -> FlushStates] /\ "loop" \in Flushers /\ "refresh" \in Flushers
  BY DEF TypeOK, FlushTypes, Flushers
<1>2. UNCHANGED <<lock, warm, closed, loop>> /\ loop = "on"
  BY DEF TimerFires, FlushDone, Running, endVars
<1>3. Quiet'
  BY <1>2 DEF Control, Quiet
<1>4. CASE FlushDone
  <2>1. fl' = [fl EXCEPT !["loop"] = Idle] /\ fl["loop"].pc = "done"
    BY <1>4 DEF FlushDone
  <2>2. \A x \in Flushers : fl'[x] = IF x = "loop" THEN Idle ELSE fl[x]
    BY <1>1, <2>1
  <2>3. LockOwned'
    BY <1>1, <1>2, <2>1, <2>2 DEF Control, LockOwned, Idle
  <2>4. Dirty' = Dirty /\ armed' = (armed \/ Dirty # {})
    BY <1>4 DEF FlushDone, Dirty
  <2> QED BY <1>3, <2>3, <2>4 DEF Control, Carried
<1>5. CASE TimerFires /\ FireIdle
  <2>1. Dirty' = Dirty /\ fl' = fl
    BY <1>5 DEF FireIdle, Dirty
  <2> QED BY <1>2, <1>3, <1>5, <2>1 DEF Control, Carried, LockOwned, FireIdle
<1>6. CASE TimerFires /\ FireFlush
  <2>1. /\ fl' = [fl EXCEPT !["loop"] = [pc |-> "lock", batch |-> dirty, resync |-> present,
                                          todo |-> Dirty, changed |-> FALSE]]
        /\ fl["loop"].pc = "idle"
    BY <1>6 DEF FireFlush
  <2>2. fl'["loop"].pc = "lock" /\ fl'["refresh"] = fl["refresh"]
    BY <1>1, <2>1
  <2>3. LockOwned'
    BY <1>2, <2>1, <2>2 DEF Control, LockOwned, Flushers
  <2> QED BY <1>3, <2>2, <2>3 DEF Control, Carried
<1> QED BY <1>4, <1>5, <1>6 DEF TimerFires

\* A flush takes the lock only when it is free, and gives it back.
LEMMA ControlFlush ==
  ASSUME TypeOK, Control, NEW x \in Flushers, Flush(x) \/ \E f \in RefreshSet : Refresh(f)
  PROVE  Control'
<1>1. /\ fl \in [Flushers -> FlushStates] /\ "loop" \in Flushers /\ "refresh" \in Flushers
      /\ None \notin Flushers /\ "warm" \notin Flushers /\ None # "warm"
  BY DEF TypeOK, FlushTypes, Flushers
<1>2. UNCHANGED <<loopVars, warm, closed>>
  BY DEF Flush, Acquire, Apply, Finish, Refresh, endVars
<1>3. Dirty' = Dirty /\ loop' = loop /\ armed' = armed
  BY <1>2 DEF Dirty, loopVars
<1>4. ASSUME NEW f \in RefreshSet, Refresh(f) PROVE Control'
  <2>1. fl["refresh"].pc = "idle" /\ fl'["refresh"].pc = "lock" /\ fl'["loop"] = fl["loop"]
    BY <1>1, <1>4 DEF Refresh
  <2>2. lock' = lock
    BY <1>4 DEF Refresh
  <2> QED BY <1>2, <1>3, <2>1, <2>2 DEF Control, LockOwned, Carried, Quiet, Flushers
<1>5. CASE Acquire(x)
  <2>1. /\ fl[x].pc = "lock" /\ lock = None /\ lock' = x
        /\ \A y \in Flushers : fl'[y].pc = IF y = x THEN "apply" ELSE fl[y].pc
    BY <1>1, <1>5 DEF Acquire, FlushStates
  <2> QED BY <1>1, <1>2, <1>3, <2>1 DEF Control, LockOwned, Carried, Quiet
<1>6. ASSUME NEW p \in Paths, Apply(x, p) PROVE Control'
  <2>1. PICK b : fl' = [fl EXCEPT ![x].todo = @ \ {p}, ![x].changed = b]
    BY <1>6 DEF Apply
  <2>2. \A y \in Flushers : fl'[y].pc = fl[y].pc
    BY <1>1, <2>1 DEF FlushStates
  <2>3. lock' = lock
    BY <1>6 DEF Apply
  <2> QED BY <1>1, <1>2, <1>3, <2>2, <2>3 DEF Control, LockOwned, Carried, Quiet
<1>7. CASE Finish(x)
  <2>1. /\ fl[x].pc = "apply" /\ lock' = None
        /\ fl' = [fl EXCEPT ![x] = IF x = "loop" THEN [Idle EXCEPT !.pc = "done"] ELSE Idle]
    BY <1>7 DEF Finish
  <2>2. \A y \in Flushers : fl'[y].pc = IF y # x THEN fl[y].pc
                                         ELSE IF x = "loop" THEN "done" ELSE "idle"
    BY <1>1, <2>1 DEF Idle
  <2>3. lock = x
    BY <2>1 DEF Control, LockOwned
  <2> QED BY <1>1, <1>2, <1>3, <2>1, <2>2, <2>3 DEF Control, LockOwned, Carried, Quiet
<1> QED BY <1>4, <1>5, <1>6, <1>7 DEF Flush

\* The warm pass takes the lock when it is free and gives it back.
LEMMA ControlWarm ==
  Control /\ (WarmStart \/ WarmFinish \/ WarmAbort) => Control'
<1> SUFFICES ASSUME Control, WarmStart \/ WarmFinish \/ WarmAbort PROVE Control'
  OBVIOUS
<1>1. None \notin Flushers /\ "warm" \notin Flushers /\ None # "warm"
  BY DEF Flushers
<1>2. UNCHANGED <<fl, loopVars, closed>> /\ Dirty' = Dirty
  BY DEF WarmStart, WarmFinish, WarmAbort, loopVars, Dirty
<1>3. \/ warm = "ready" /\ lock = None /\ lock' = "warm" /\ warm' = "running"
      \/ warm = "running" /\ lock' = None /\ warm' = "done"
  BY DEF WarmStart, WarmFinish, WarmAbort
<1> QED BY <1>1, <1>2, <1>3 DEF Control, LockOwned, Carried, Quiet, loopVars

\* Every step keeps the lock owned, the marks carried and Close quiet.
LEMMA ControlNext == TypeOK /\ Control /\ [Next]_vars => Control'
<1> SUFFICES ASSUME TypeOK, Control, [Next]_vars PROVE Control'
  OBVIOUS
<1>1. CASE UNCHANGED vars
  BY <1>1, ControlStands DEF vars, loopVars, endVars
<1>2. CASE Edit \/ StartWatch \/ LoopExit \/ CloseCall \/ CloseReturn
  <2>1. CASE Edit
    <3>1. UNCHANGED <<loop, dirty, armed, fl, lock, endVars>>
      BY <2>1 DEF Edit, EditFile, DirOut, DirIn, Edited
    <3> QED BY <3>1, ControlStands DEF endVars
  <2>2. CASE StartWatch
    <3>1. loop = "off" /\ UNCHANGED <<fl, lock, warm, dirty, armed, closed>>
      BY <2>2 DEF StartWatch, endVars
    <3>2. ~closed
      BY <3>1 DEF Control, Quiet
    <3> QED BY <3>1, <3>2, ControlStands
  <2>3. CASE LoopExit
    BY <2>3, ControlStands DEF LoopExit, endVars
  <2>4. CASE CloseCall \/ CloseReturn
    BY <2>4, ControlStands DEF CloseCall, CloseReturn, loopVars
  <2> QED BY <1>2, <2>1, <2>2, <2>3, <2>4
<1>3. CASE (\E x \in ExtraSets \cup {None} : SetExtraChunks(x))
           \/ (\E r \in Rerankers \cup {None} : SetReranker(r))
  BY <1>3, ControlStands DEF SetExtraChunks, SetReranker, loopVars, endVars
<1>4. "loop" \in Flushers
  BY DEF Flushers
<1> QED BY <1>1, <1>2, <1>3, <1>4, ControlHandle, ControlTimer, ControlFlush, ControlWarm
        DEF Next

(* R1, N8: with any tree, contents and queue, a dirty path always has a timer *)
(* or a flush in front of it.                                                 *)
THEOREM WatchCarried == Spec => []NoStrandedBatch
<1>1. TypeOK /\ Control => NoStrandedBatch
  BY DEF Control, Carried, NoStrandedBatch
<1> QED BY <1>1, TypeInit, TypeNext, ControlInit, ControlNext, PTL DEF Spec

(* Close waits for all that reads the tree or publishes.                      *)
THEOREM WatchQuiet == Spec => []ClosedIsQuiet
<1>1. TypeOK /\ Control => ClosedIsQuiet
  BY DEF Control, LockOwned, Quiet, ClosedIsQuiet, Flushers
<1> QED BY <1>1, TypeInit, TypeNext, ControlInit, ControlNext, PTL DEF Spec

-----------------------------------------------------------------------------
(* The corpus: vectors and chunks, and what has been published of them.       *)

\* A dense store is the chunks' own, and where there is none although chunks
\* are embedded there is no chunk.
Covered(c, v, waiting) ==
  /\ v # NoDense => v = c /\ HasModel /\ ~waiting
  /\ HasModel /\ ~waiting /\ v = NoDense => Held(c) = {}

Vectors ==
  /\ pending \/ warm \in {"ready", "running"} => HasModel
  /\ mode = "hybrid" => HasModel /\ ~pending
  /\ Covered(chunks, dense, pending)

\* The part of DenseFollowsChunks about a snapshot.
Dense(P) ==
  /\ P.dense # NoDense => P.dense = P.chunks
  /\ P.mode = "hybrid" /\ (Held(P.chunks) # {} \/ P.extras # None) => P.dense # NoDense

\* What is written and not published is a flush's, under the lock, and its
\* "changed" flag says so.
Written ==
  (\A x \in Flushers : ~(lock = x /\ fl[x].changed))
    => pub = Unioned(chunks, dense, mode, pending, extras, reranker)

CorpusInv == Vectors /\ Dense(pub) /\ Written

\* A covered store is left as it is by the repair.
LEMMA HealedCovered ==
  ASSUME NEW c, NEW v, NEW w, Covered(c, v, w)
  PROVE  Healed(v, c) = v
BY DEF Healed, Aligned, Covered

\* A snapshot of covered chunks has vectors where hybrid search needs them.
LEMMA UnionedDense ==
  ASSUME NEW c \in Corpora, NEW v, NEW m, NEW w \in BOOLEAN, NEW x, NEW r,
         Covered(c, v, w), m = "hybrid" => HasModel /\ ~w
  PROVE  Dense(Unioned(c, v, m, w, x, r))
<1>1. Healed(v, c) = v
  BY HealedCovered
<1>2. c # NoDense
  BY DEF NoDense
<1> QED BY <1>1, <1>2 DEF Dense, Unioned, Covered

\* Replacing chunks and their vectors keeps the two together.
LEMMA RowsCovered ==
  ASSUME NEW c \in Corpora, NEW v \in Corpora \cup {NoDense}, NEW S, NEW new \in Corpora,
         Covered(c, v, pending)
  PROVE  Covered(Replaced(c, S, new), Rows(v, S, new), pending)
<1> DEFINE c2 == Replaced(c, S, new)
           v2 == Rows(v, S, new)
<1>1. v2 # NoDense => v2 = c2 /\ HasModel /\ ~pending
  <2>1. CASE Embeds /\ \E s \in S : new[s] # None
    <3>1. v2 = [s \in Slots |-> IF s \in S THEN new[s]
                                ELSE IF v = NoDense THEN None ELSE v[s]]
      BY <2>1 DEF Rows
    <3>2. \A s \in Slots : v = NoDense => c[s] = None
      BY <2>1 DEF Covered, Embeds, Held
    <3>3. v2 = c2
      BY <3>1, <3>2 DEF Replaced, Covered
    <3> QED BY <2>1, <3>3 DEF Embeds
  <2>2. CASE ~(Embeds /\ \E s \in S : new[s] # None) /\ v = NoDense
    BY <2>2 DEF Rows
  <2>3. CASE ~(Embeds /\ \E s \in S : new[s] # None) /\ v # NoDense
    <3>1. v = c /\ HasModel /\ ~pending
      BY <2>3 DEF Covered
    <3>2. v2 = [s \in Slots |-> IF s \in S THEN None ELSE v[s]]
      BY <2>3 DEF Rows
    <3>3. \A s \in S : new[s] = None
      BY <2>3, <3>1 DEF Embeds
    <3> QED BY <3>1, <3>2, <3>3 DEF Replaced
  <2> QED BY <2>1, <2>2, <2>3
<1>2. HasModel /\ ~pending /\ v2 = NoDense => Held(c2) = {}
  <2> SUFFICES ASSUME HasModel, ~pending, v2 = NoDense PROVE Held(c2) = {}
    OBVIOUS
  <2>1. v2 \notin Corpora
    BY DEF NoDense
  <2>2. ~(\E s \in S : new[s] # None) /\ v = NoDense
    <3>1. None \in Texts
      BY DEF Texts
    <3>2. \A T : [s \in Slots |-> IF s \in T THEN new[s]
                                 ELSE IF v = NoDense THEN None ELSE v[s]] \in Corpora
      BY <3>1 DEF Corpora
    <3>3. v # NoDense => [s \in Slots |-> IF s \in S THEN None ELSE v[s]] \in Corpora
      BY <3>1 DEF Corpora
    <3> QED BY <2>1, <3>2, <3>3 DEF Rows, Embeds
  <2>3. Held(c) = {}
    BY <2>2 DEF Covered
  <2> QED BY <2>2, <2>3 DEF Held, Replaced
<1> QED BY <1>1, <1>2 DEF Covered

\* Replacing nothing by nothing changes nothing.
LEMMA NothingReplaced ==
  ASSUME NEW c \in Corpora, NEW v \in Corpora \cup {NoDense}, NEW S, NEW new \in Corpora,
         Covered(c, v, pending), \A s \in S : c[s] = None /\ new[s] = None
  PROVE  Replaced(c, S, new) = c /\ Rows(v, S, new) = v
<1>1. Replaced(c, S, new) = c
  BY DEF Replaced, Corpora
<1>2. Rows(v, S, new) = v
  <2>1. CASE v = NoDense
    BY <2>1 DEF Rows
  <2>2. CASE v # NoDense
    <3>1. Rows(v, S, new) = [s \in Slots |-> IF s \in S THEN None ELSE v[s]]
      BY <2>2 DEF Rows
    <3>2. v = c
      BY <2>2 DEF Covered
    <3> QED BY <3>1, <3>2 DEF Corpora
  <2> QED BY <2>1, <2>2
<1> QED BY <1>1, <1>2

\* The build's vectors cover its chunks and both are published.
LEMMA CorpusInit == Init => CorpusInv
<1> SUFFICES ASSUME Init PROVE CorpusInv
  OBVIOUS
<1>1. TypeOK
  BY TypeInit
<1>2. chunks \in Corpora /\ pending \in BOOLEAN
  BY <1>1 DEF TypeOK, CorpusTypes
<1>3. /\ pending = (HasModel /\ Staged)
      /\ dense = IF HasModel /\ ~Staged /\ Held(chunks) # {} THEN chunks ELSE NoDense
      /\ mode = IF HasModel /\ ~Staged THEN "hybrid" ELSE "bm25"
      /\ warm = IF pending THEN "ready" ELSE "off"
      /\ pub = Unioned(chunks, dense, mode, pending, extras, reranker)
  BY DEF Init
<1>4. Vectors
  BY <1>2, <1>3 DEF Vectors, Covered, NoDense
<1>5. Dense(pub)
  BY <1>2, <1>3, <1>4, UnionedDense DEF Vectors
<1> QED BY <1>3, <1>4, <1>5 DEF CorpusInv, Written

\* A publish of covered chunks.
LEMMA CorpusPublish ==
  ASSUME TypeOK', Vectors', Publish
  PROVE  CorpusInv'
<1>1. Dense(pub')
  BY UnionedDense DEF Publish, Vectors, TypeOK, CorpusTypes
<1>2. Dense(pub)'
  BY <1>1 DEF Dense
<1> QED BY <1>2 DEF CorpusInv, Written, Publish

\* Where the corpus stands still, only the lock and the flags matter.
LEMMA CorpusStands ==
  ASSUME CorpusInv, UNCHANGED corpusVars, warm' = warm \/ warm' = "done" \/ warm = "ready",
         (\A x \in Flushers : ~(lock' = x /\ fl'[x].changed))
           => \A x \in Flushers : ~(lock = x /\ fl[x].changed)
  PROVE  CorpusInv'
<1>1. Vectors'
  BY DEF CorpusInv, Vectors, corpusVars
<1>2. Dense(pub)'
  BY DEF CorpusInv, Dense, corpusVars
<1>3. Written'
  BY DEF CorpusInv, Written, corpusVars
<1> QED BY <1>1, <1>2, <1>3 DEF CorpusInv

\* The loop and the timer write nothing.
LEMMA CorpusLoop ==
  ASSUME TypeOK, Control, CorpusInv,
         \/ Edit \/ StartWatch \/ HandleEvent \/ TimerFires \/ FlushDone \/ LoopExit
         \/ CloseCall \/ CloseReturn \/ UNCHANGED vars
  PROVE  CorpusInv'
<1>1. UNCHANGED <<corpusVars, warm, lock>>
  <2>1. CASE Edit
    BY <2>1 DEF Edit, EditFile, DirOut, DirIn, Edited, endVars
  <2>2. CASE StartWatch \/ HandleEvent \/ TimerFires \/ FlushDone \/ LoopExit
    BY <2>2 DEF StartWatch, HandleEvent, TimerFires, FlushDone, LoopExit, endVars
  <2>3. CASE CloseCall \/ CloseReturn \/ UNCHANGED vars
    BY <2>3 DEF CloseCall, CloseReturn, vars, endVars
  <2> QED BY <2>1, <2>2, <2>3
<1>2. lock = "loop" => fl' = fl
  <2>1. lock = "loop" => fl["loop"].pc = "apply"
    BY DEF Control, LockOwned, Flushers
  <2>2. TimerFires \/ FlushDone => fl' = fl \/ fl["loop"].pc # "apply"
    BY DEF TimerFires, FireIdle, FireFlush, FlushDone
  <2>3. Edit \/ StartWatch \/ HandleEvent \/ LoopExit \/ CloseCall \/ CloseReturn
          \/ UNCHANGED vars => fl' = fl
    BY DEF Edit, EditFile, DirOut, DirIn, Edited, StartWatch, HandleEvent, LoopExit,
           CloseCall, CloseReturn, vars
  <2> QED BY <2>1, <2>2, <2>3
<1>3. fl'["refresh"] = fl["refresh"]
  BY DEF Edit, EditFile, DirOut, DirIn, Edited, StartWatch, HandleEvent, LoopExit,
         TimerFires, FireIdle, FireFlush, FlushDone, CloseCall, CloseReturn, vars,
         TypeOK, FlushTypes, Flushers
<1>4. \A x \in Flushers : lock = x => fl'[x] = fl[x]
  BY <1>2, <1>3 DEF Flushers
<1> QED BY <1>1, <1>4, CorpusStands

\* A flush keeps vectors with chunks, and publishes whatever it changed.
LEMMA CorpusFlush ==
  ASSUME TypeOK, TypeOK', Control, CorpusInv, NEW x \in Flushers,
         Flush(x) \/ \E f \in RefreshSet : Refresh(f)
  PROVE  CorpusInv'
<1>1. fl \in [Flushers -> FlushStates] /\ "refresh" \in Flushers /\ None \notin Flushers
  BY DEF TypeOK, FlushTypes, Flushers
<1>2. /\ chunks \in Corpora /\ dense \in Corpora \cup {NoDense} /\ pending \in BOOLEAN
      /\ Covered(chunks, dense, pending) /\ Dense(pub)
  BY DEF TypeOK, CorpusTypes, CorpusInv, Vectors
<1>3. ASSUME NEW f \in RefreshSet, Refresh(f) PROVE CorpusInv'
  <2>1. UNCHANGED <<corpusVars, warm, lock>> /\ fl'["loop"] = fl["loop"]
    BY <1>1, <1>3 DEF Refresh, endVars
  <2>2. lock # "refresh"
    BY <1>1, <1>3 DEF Refresh, Control, LockOwned
  <2> QED BY <2>1, <2>2, CorpusStands DEF Flushers
<1>4. CASE Acquire(x)
  <2>1. UNCHANGED <<corpusVars, warm>> /\ lock = None
    BY <1>4 DEF Acquire, endVars
  <2> QED BY <1>1, <2>1, CorpusStands
<1>5. ASSUME NEW p \in Paths, Apply(x, p) PROVE CorpusInv'
  <2> DEFINE new == [s \in Slots |-> IF s = p /\ s \in Files /\ fl[x].batch[p] = "write"
                                     THEN Seen(disk[s]) ELSE None]
             hit == \E s \in Under(p) : chunks[s] # None \/ new[s] # None
  <2>1. /\ chunks' = Replaced(chunks, Under(p), new) /\ dense' = Rows(dense, Under(p), new)
        /\ fl' = [fl EXCEPT ![x].todo = @ \ {p}, ![x].changed = @ \/ hit]
        /\ UNCHANGED <<lock, mode, pending, extras, reranker, pub, warm>>
    BY <1>5 DEF Apply, endVars
  <2>2. new \in Corpora
    BY NewType
  <2>3. Covered(chunks, dense, pending)'
    <3>1. Covered(chunks', dense', pending')
      BY <1>2, <2>1, <2>2, RowsCovered
    <3> QED BY <3>1 DEF Covered, Held
  <2>4. Vectors'
    BY <2>1, <2>3 DEF CorpusInv, Vectors
  <2>5. lock = x
    BY <1>5 DEF Apply, Control, LockOwned
  <2>6. ASSUME ~fl'[x].changed PROVE ~fl[x].changed /\ ~hit
    <3>1. fl'[x].changed = (fl[x].changed \/ hit)
      BY <1>1, <2>1 DEF FlushStates
    <3> QED BY <2>6, <3>1
  <2>7. ASSUME \A y \in Flushers : ~(lock' = y /\ fl'[y].changed)
        PROVE  pub = Unioned(chunks', dense', mode, pending, extras, reranker)
    <3>1. ~fl[x].changed /\ ~hit
      BY <2>1, <2>5, <2>6, <2>7
    <3>2. chunks' = chunks /\ dense' = dense
      <4>1. \A s \in Under(p) : chunks[s] = None /\ new[s] = None
        BY <3>1
      <4> HIDE DEF new
      <4> QED BY <1>2, <2>1, <2>2, <4>1, NothingReplaced
    <3>3. pub = Unioned(chunks, dense, mode, pending, extras, reranker)
      BY <2>5, <3>1 DEF CorpusInv, Written
    <3> QED BY <3>2, <3>3
  <2>8. Written'
    BY <2>1, <2>7 DEF Written
  <2>9. Dense(pub)'
    BY <1>2, <2>1 DEF Dense
  <2> QED BY <2>4, <2>8, <2>9 DEF CorpusInv
<1>6. CASE Finish(x)
  <2>1. PICK lost \in SUBSET Misnamed(x) :
          LET S == Touched(x) \cup Vanished(x)
              new == [s \in Slots |-> IF s \in Touched(x) \ lost THEN Fold(s) ELSE None]
          IN /\ chunks' = Replaced(chunks, S, new)
             /\ IF fl[x].changed \/ \E s \in S : chunks[s] # None \/ new[s] # None
                THEN dense' = Healed(Rows(dense, S, new), chunks') /\ Publish
                ELSE UNCHANGED <<dense, pub>>
    BY <1>6 DEF Finish
  <2> DEFINE S == Touched(x) \cup Vanished(x)
             new == [s \in Slots |-> IF s \in Touched(x) \ lost THEN Fold(s) ELSE None]
  <2>2. new \in Corpora
    <3>1. Touched(x) \ lost \in SUBSET SqlDirs
      BY DEF Touched, TypeOK, CorpusTypes
    <3> QED BY <3>1, FoldedType
  <2>3. UNCHANGED <<mode, pending, extras, reranker, warm>> /\ lock = x /\ lock' = None
    BY <1>6 DEF Finish, Control, LockOwned, endVars
  <2>4. chunks' = Replaced(chunks, S, new)
    BY <2>1
  <2>5. Covered(chunks', Rows(dense, S, new), pending)
    BY <1>2, <2>2, <2>4, RowsCovered
  <2>6. CASE fl[x].changed \/ \E s \in S : chunks[s] # None \/ new[s] # None
    <3>1. dense' = Healed(Rows(dense, S, new), chunks') /\ Publish
      BY <2>1, <2>6
    <3>2. dense' = Rows(dense, S, new)
      BY <2>5, <3>1, HealedCovered
    <3>3. Covered(chunks, dense, pending)'
      BY <2>3, <2>5, <3>2 DEF Covered, Held
    <3>4. Vectors'
      BY <2>3, <3>3 DEF CorpusInv, Vectors
    <3> QED BY <3>1, <3>4, CorpusPublish
  <2>7. CASE ~(fl[x].changed \/ \E s \in S : chunks[s] # None \/ new[s] # None)
    <3>1. UNCHANGED <<dense, pub>>
      BY <2>1, <2>7
    <3>2. chunks' = chunks
      BY <1>2, <2>2, <2>4, <2>7, NothingReplaced
    <3>3. UNCHANGED corpusVars
      BY <1>6, <2>3, <3>1, <3>2 DEF corpusVars, Finish
    <3>4. \A y \in Flushers : ~(lock = y /\ fl[y].changed)
      BY <2>3, <2>7
    <3> QED BY <2>3, <3>3, <3>4, CorpusStands
  <2> QED BY <2>6, <2>7
<1> QED BY <1>3, <1>4, <1>5, <1>6 DEF Flush

\* The warm pass and the setters publish what they write.
LEMMA CorpusServe ==
  ASSUME TypeOK, TypeOK', Control, CorpusInv,
         \/ WarmStart \/ WarmFinish \/ WarmAbort
         \/ \E x \in ExtraSets \cup {None} : SetExtraChunks(x)
         \/ \E r \in Rerankers \cup {None} : SetReranker(r)
  PROVE  CorpusInv'
<1>1. None \notin Flushers /\ "warm" \notin Flushers /\ chunks \in Corpora
  BY DEF Flushers, TypeOK, CorpusTypes
<1>2. CASE WarmStart
  BY <1>1, <1>2, CorpusStands DEF WarmStart
<1>3. CASE WarmAbort
  <2>1. lock = "warm"
    BY <1>3 DEF WarmAbort, Control, LockOwned
  <2> QED BY <1>1, <1>3, <2>1, CorpusStands DEF WarmAbort
<1>4. CASE WarmFinish
  <2>1. Vectors'
    BY <1>1, <1>4 DEF WarmFinish, CorpusInv, Vectors, Covered, NoDense
  <2> QED BY <1>4, <2>1, CorpusPublish DEF WarmFinish
<1>5. ASSUME NEW x \in ExtraSets \cup {None}, SetExtraChunks(x) PROVE CorpusInv'
  <2>1. dense' = dense /\ UNCHANGED <<chunks, mode, pending, warm>>
    BY <1>5, HealedCovered DEF SetExtraChunks, CorpusInv, Vectors, endVars
  <2>2. Vectors'
    BY <2>1 DEF CorpusInv, Vectors
  <2> QED BY <1>5, <2>2, CorpusPublish DEF SetExtraChunks
<1>6. ASSUME NEW r \in Rerankers \cup {None}, SetReranker(r) PROVE CorpusInv'
  <2>1. /\ UNCHANGED <<lock, fl, chunks, dense, mode, pending, extras, warm>>
        /\ reranker' = r /\ pub' = [pub EXCEPT !.reranker = r] /\ lock = None
    BY <1>6 DEF SetReranker, endVars
  <2>2. pub = Unioned(chunks, dense, mode, pending, extras, reranker)
    BY <1>1, <2>1 DEF CorpusInv, Written
  <2>3. pub' = Unioned(chunks, dense, mode, pending, extras, r)
    BY <2>1, <2>2 DEF Unioned
  <2>4. Vectors' /\ Written'
    BY <2>1, <2>3 DEF CorpusInv, Vectors, Written
  <2>5. Dense(pub')
    <3>1. /\ pub'.dense = pub.dense /\ pub'.chunks = pub.chunks
          /\ pub'.mode = pub.mode /\ pub'.extras = pub.extras
      BY <2>2, <2>3 DEF Unioned
    <3> QED BY <3>1 DEF CorpusInv, Dense
  <2>6. Dense(pub)'
    BY <2>5 DEF Dense
  <2> QED BY <2>4, <2>6 DEF CorpusInv
<1> QED BY <1>2, <1>3, <1>4, <1>5, <1>6

\* Every step keeps the corpus covered and written out.
LEMMA CorpusNext == TypeOK /\ Control /\ CorpusInv /\ [Next]_vars => CorpusInv'
<1> SUFFICES ASSUME TypeOK, Control, CorpusInv, [Next]_vars PROVE CorpusInv'
  OBVIOUS
<1>1. TypeOK' /\ "loop" \in Flushers
  BY TypeNext DEF Flushers
<1> QED BY <1>1, CorpusLoop, CorpusFlush, CorpusServe DEF Next

(* R5-1, N1, R4-1: through every order of flush, Refresh, fold, resync and    *)
(* warm pass vectors stay one to one with chunks, in every snapshot.          *)
THEOREM WatchDense == Spec => []DenseFollowsChunks
<1>1. CorpusInv => DenseFollowsChunks
  BY DEF CorpusInv, Vectors, Covered, Dense, DenseFollowsChunks
<1> QED BY <1>1, TypeInit, TypeNext, ControlInit, ControlNext, CorpusInit, CorpusNext, PTL
        DEF Spec

(* No flush undoes SetExtraChunks or SetReranker and none of what is written  *)
(* is lost: outside corpusMu the snapshot is the union of it all.             *)
THEOREM WatchPublished == Spec => []PublishedIsCorpus
<1>1. CorpusInv => PublishedIsCorpus
  BY DEF CorpusInv, Written, PublishedIsCorpus, Flushers
<1> QED BY <1>1, TypeInit, TypeNext, ControlInit, ControlNext, CorpusInit, CorpusNext, PTL
        DEF Spec

-----------------------------------------------------------------------------
(* Refresh.                                                                   *)

\* Refresh's batch holds files only, and no resync.  A file that has not been
\* edited since the caller looked at it is as it was then, and once it has been
\* applied the chunks show it.
Refreshed ==
  /\ fl["refresh"].todo \subseteq Files /\ fl["refresh"].resync = NoResync
  /\ fl["refresh"].pc \in {"lock", "apply"} =>
       \A f \in Files : fl["refresh"].batch[f] # None =>
         /\ f \notin stale /\ fl["refresh"].batch[f] = "remove" => disk[f] = None
         /\ f \notin fl["refresh"].todo =>
              /\ fl["refresh"].pc = "apply"
              /\ f \notin stale => chunks[f] = Seen(disk[f])

\* Others' steps: they edit files that they note, and change no chunk while
\* Refresh's caller holds the lock.
LEMMA RefreshedStands ==
  ASSUME Refreshed, fl'["refresh"] = fl["refresh"], stale \subseteq stale',
         \A f \in Files : f \notin stale' => disk'[f] = disk[f],
         fl["refresh"].pc = "apply" => chunks' = chunks
  PROVE  Refreshed'
BY DEF Refreshed, Seen, Indexable

\* A flush leaves the other flusher's state alone.
LEMMA FlushOwn ==
  ASSUME TypeOK, NEW x \in Flushers, NEW y \in Flushers, x # y, Flush(x)
  PROVE  fl'[y] = fl[y]
<1>1. fl \in [Flushers -> FlushStates]
  BY DEF TypeOK, FlushTypes
<1>2. CASE Acquire(x)
  BY <1>1, <1>2 DEF Acquire
<1>3. ASSUME NEW p \in Paths, Apply(x, p) PROVE fl'[y] = fl[y]
  BY <1>1, <1>3 DEF Apply
<1>4. CASE Finish(x)
  BY <1>1, <1>4 DEF Finish
<1> QED BY <1>2, <1>3, <1>4 DEF Flush

\* Refresh's caller has nothing to do at first.
LEMMA RefreshedInit == Init => Refreshed
BY DEF Init, Refreshed, Idle, Flushers

\* An edit notes the files it touches.
LEMMA RefreshedEdit == TypeOK /\ Refreshed /\ Edit => Refreshed'
<1> SUFFICES ASSUME TypeOK, Refreshed, Edit PROVE Refreshed'
  OBVIOUS
<1>1. disk \in [Files -> Contents \cup {None}]
  BY DEF TypeOK, TreeTypes
<1>2. fl' = fl /\ chunks' = chunks
  BY DEF Edit, EditFile, DirOut, DirIn, Edited, corpusVars
<1>3. stale \subseteq stale' /\ \A f \in Files : f \notin stale' => disk'[f] = disk[f]
  <2>1. ASSUME NEW f \in Files, NEW c, EditFile(f, c)
        PROVE  stale' = stale \cup {f} /\ disk' = [disk EXCEPT ![f] = c]
    BY <2>1 DEF EditFile, Edited
  <2>2. ASSUME NEW d \in Dirs, DirOut(d)
        PROVE  /\ stale' = stale \cup In[d]
               /\ disk' = [f \in Files |-> IF f \in In[d] THEN None ELSE disk[f]]
    BY <2>2 DEF DirOut
  <2>3. ASSUME NEW d \in Dirs, DirIn(d)
        PROVE  /\ stale' = stale \cup In[d]
               /\ \E c : disk' = [f \in Files |-> IF f \in In[d] THEN c ELSE disk[f]]
    BY <2>3 DEF DirIn, Edited
  <2> QED BY <1>1, <2>1, <2>2, <2>3 DEF Edit
<1> QED BY <1>2, <1>3, RefreshedStands

\* The caller looks at the file.
LEMMA RefreshedCall ==
  ASSUME TypeOK, NEW f \in RefreshSet, Refresh(f)
  PROVE  Refreshed'
<1> DEFINE b == [p \in Paths |-> IF p # f THEN None
                                 ELSE IF disk[f] = None THEN "remove" ELSE "write"]
<1>1. /\ fl'["refresh"] = [pc |-> "lock", resync |-> NoResync, todo |-> {f},
                           changed |-> FALSE, batch |-> b]
      /\ stale' = {} /\ disk' = disk
  BY DEF Refresh, TypeOK, FlushTypes, Flushers, treeVars
<1>2. \A g \in Files : b[g] # None => g = f /\ (b[g] = "remove" => disk[g] = None)
  BY DEF Paths
<1>3. f \in Files
  OBVIOUS
<1> HIDE DEF b
<1> QED BY <1>1, <1>2, <1>3 DEF Refreshed

\* Refresh's caller applies what it saw; the loop's flush cannot come between.
LEMMA RefreshedFlush ==
  ASSUME TypeOK, Control, Refreshed, NEW x \in Flushers, Flush(x)
  PROVE  Refreshed'
<1>1. /\ fl \in [Flushers -> FlushStates] /\ "refresh" \in Flushers /\ "loop" \in Flushers
      /\ disk \in [Files -> Contents \cup {None}] /\ chunks \in Corpora
  BY DEF TypeOK, FlushTypes, Flushers, TreeTypes, CorpusTypes
<1>2. stale' = stale /\ disk' = disk
  BY DEF Flush, Acquire, Apply, Finish, treeVars
<1>3. CASE x = "loop"
  <2>1. fl'["refresh"] = fl["refresh"]
    BY <1>1, <1>3, FlushOwn
  <2>2. fl["refresh"].pc = "apply" => chunks' = chunks
    <3>1. fl["refresh"].pc = "apply" => lock = "refresh"
      BY <1>1 DEF Control, LockOwned
    <3>2. chunks' = chunks \/ lock = "loop"
      BY <1>1, <1>3 DEF Flush, Acquire, Apply, Finish, corpusVars, Control, LockOwned
    <3> QED BY <3>1, <3>2
  <2> QED BY <1>2, <2>1, <2>2, RefreshedStands
<1>4. CASE x = "refresh" /\ Acquire(x)
  <2>1. /\ fl["refresh"].pc = "lock"
        /\ fl'["refresh"] = [fl["refresh"] EXCEPT !.pc = "apply"]
    BY <1>1, <1>4 DEF Acquire
  <2>2. /\ fl'["refresh"].pc = "apply" /\ fl'["refresh"].todo = fl["refresh"].todo
        /\ fl'["refresh"].batch = fl["refresh"].batch
        /\ fl'["refresh"].resync = fl["refresh"].resync
    BY <1>1, <2>1 DEF FlushStates
  <2> QED BY <1>2, <2>1, <2>2 DEF Refreshed
<1>5. ASSUME x = "refresh", NEW p \in Paths, Apply(x, p) PROVE Refreshed'
  <2> DEFINE new == [s \in Slots |-> IF s = p /\ s \in Files /\ fl[x].batch[p] = "write"
                                     THEN Seen(disk[s]) ELSE None]
  <2>1. p \in fl["refresh"].todo /\ fl["refresh"].pc = "apply" /\ p \in Files
    BY <1>5 DEF Apply, First, Refreshed
  <2>2. Under(p) = {p}
    BY <2>1 DEF Under
  <2>3. chunks' = Replaced(chunks, {p}, new)
    BY <1>5, <2>2 DEF Apply
  <2>4. \A f \in Files : chunks'[f] = IF f = p THEN new[p] ELSE chunks[f]
    BY <2>1, <2>3 DEF Replaced, Slots
  <2>5. PICK b : fl' = [fl EXCEPT ![x].todo = @ \ {p}, ![x].changed = b]
    BY <1>5 DEF Apply
  <2>6. /\ fl'["refresh"].todo = fl["refresh"].todo \ {p}
        /\ fl'["refresh"].pc = fl["refresh"].pc
        /\ fl'["refresh"].batch = fl["refresh"].batch
        /\ fl'["refresh"].resync = fl["refresh"].resync
    BY <1>1, <1>5, <2>5 DEF FlushStates
  <2>7. fl["refresh"].batch[p] \in {"write", "remove", None}
    BY <1>1, <2>1 DEF FlushStates, Batches, Paths
  <2>8. new[p] = IF fl["refresh"].batch[p] = "write" THEN Seen(disk[p]) ELSE None
    BY <1>5, <2>1 DEF Slots
  <2>9. ASSUME p \notin stale, fl["refresh"].batch[p] # None
        PROVE  new[p] = Seen(disk[p])
    <3>1. CASE fl["refresh"].batch[p] = "write"
      BY <2>8, <3>1
    <3>2. CASE fl["refresh"].batch[p] = "remove"
      <4>1. disk[p] = None
        BY <2>1, <2>9, <3>2 DEF Refreshed
      <4> QED BY <2>8, <3>2, <4>1 DEF Seen, Indexable
    <3> QED BY <2>7, <2>9, <3>1, <3>2
  <2> HIDE DEF new
  <2>10. \A f \in Files : (Seen(disk[f]))' = Seen(disk[f])
    BY <1>2 DEF Seen, Indexable
  <2> QED BY <1>2, <2>1, <2>4, <2>6, <2>9, <2>10 DEF Refreshed
<1>6. CASE x = "refresh" /\ Finish(x)
  <2>1. fl'["refresh"] = Idle
    BY <1>1, <1>6 DEF Finish
  <2> QED BY <2>1 DEF Refreshed, Idle
<1> QED BY <1>3, <1>4, <1>5, <1>6 DEF Flush, Flushers

\* Every step keeps what Refresh's caller knows.
LEMMA RefreshedNext == TypeOK /\ Control /\ Refreshed /\ [Next]_vars => Refreshed'
<1> SUFFICES ASSUME TypeOK, Control, Refreshed, [Next]_vars PROVE Refreshed'
  OBVIOUS
<1>1. CASE \/ StartWatch \/ HandleEvent \/ LoopExit \/ WarmStart \/ WarmFinish \/ WarmAbort
           \/ (\E x \in ExtraSets \cup {None} : SetExtraChunks(x))
           \/ (\E r \in Rerankers \cup {None} : SetReranker(r))
           \/ CloseCall \/ CloseReturn \/ UNCHANGED vars
  <2>1. fl' = fl /\ stale' = stale /\ disk' = disk /\ chunks' = chunks
    BY <1>1 DEF StartWatch, HandleEvent, LoopExit, WarmStart, WarmFinish, WarmAbort,
                SetExtraChunks, SetReranker, CloseCall, CloseReturn, vars, treeVars, corpusVars
  <2> QED BY <2>1, RefreshedStands
<1>2. CASE TimerFires \/ FlushDone
  <2>1. stale' = stale /\ disk' = disk /\ chunks' = chunks /\ fl'["refresh"] = fl["refresh"]
    BY <1>2 DEF TimerFires, FireIdle, FireFlush, FlushDone, treeVars, corpusVars, TypeOK,
                FlushTypes, Flushers
  <2> QED BY <2>1, RefreshedStands
<1> QED BY <1>1, <1>2, RefreshedEdit, RefreshedCall, RefreshedFlush DEF Next

\* What Refresh's last step publishes.
LEMMA RefreshEnds ==
  ASSUME TypeOK, TypeOK', CorpusInv', Refreshed, [Next]_vars, NEW f \in RefreshSet,
         fl["refresh"].pc = "apply", fl'["refresh"].pc = "idle",
         fl["refresh"].batch[f] # None, f \notin stale
  PROVE  pub'.chunks[f] = Seen(disk[f])
<1> DEFINE x == "refresh"
<1>1. fl \in [Flushers -> FlushStates] /\ x \in Flushers /\ f \in Files
  BY DEF TypeOK, FlushTypes, Flushers
<1>2. Finish(x)
  <2>1. ~ UNCHANGED fl
    OBVIOUS
  <2>2. TimerFires \/ FlushDone => fl'["refresh"] = fl["refresh"]
    BY <1>1 DEF TimerFires, FireIdle, FireFlush, FlushDone
  <2>3. \A g \in RefreshSet : ~Refresh(g)
    BY DEF Refresh
  <2>4. ~Acquire("refresh")
    BY DEF Acquire
  <2>5. ASSUME NEW p \in Paths, Apply("refresh", p) PROVE FALSE
    <3>1. PICK b : fl' = [fl EXCEPT !["refresh"].todo = @ \ {p}, !["refresh"].changed = b]
      BY <2>5 DEF Apply
    <3> QED BY <1>1, <3>1 DEF FlushStates
  <2>6. ~Flush("loop")
    BY FlushOwn DEF Flushers
  <2>7. /\ ~Edit /\ ~StartWatch /\ ~HandleEvent /\ ~LoopExit /\ ~WarmStart /\ ~WarmFinish
        /\ ~WarmAbort /\ ~CloseCall /\ ~CloseReturn /\ ~UNCHANGED vars
        /\ \A y : ~SetExtraChunks(y) /\ ~SetReranker(y)
    BY <2>1 DEF Edit, EditFile, DirOut, DirIn, Edited, StartWatch, HandleEvent, LoopExit,
                WarmStart, WarmFinish, WarmAbort, CloseCall, CloseReturn, SetExtraChunks,
                SetReranker, vars
  <2> QED BY <2>2, <2>3, <2>4, <2>5, <2>6, <2>7 DEF Next, Flush, Flushers
<1>3. chunks[f] = Seen(disk[f])
  <2>1. f \notin fl["refresh"].todo
    BY <1>2 DEF Finish
  <2> QED BY <1>1, <2>1 DEF Refreshed
<1>4. Touched(x) \cup Vanished(x) \subseteq Dirs
  BY DEF Touched, Vanished, Missed, Refreshed, TypeOK, CorpusTypes
<1>5. chunks'[f] = chunks[f]
  BY <1>1, <1>2, <1>4 DEF Finish, Replaced, Slots
<1>6. pub'.chunks = chunks'
  <2>1. lock' = None /\ None \notin Flushers
    BY <1>2 DEF Finish, Flushers
  <2>2. pub' = Unioned(chunks', dense', mode', pending', extras', reranker')
    BY <2>1 DEF CorpusInv, Written
  <2> QED BY <2>2 DEF Unioned
<1> QED BY <1>3, <1>5, <1>6

(* "When Refresh returns, Search serves the new content": for any tree, and   *)
(* whatever the watcher, the warm pass and other writers do meanwhile.        *)
THEOREM WatchRefresh == Spec => RefreshServes
<1>1. TypeOK /\ TypeOK' /\ CorpusInv' /\ Refreshed /\ [Next]_vars
        => [\A f \in RefreshSet :
              fl["refresh"].pc = "apply" /\ fl'["refresh"].pc = "idle"
                /\ fl["refresh"].batch[f] # None /\ f \notin stale
              => pub'.chunks[f] = Seen(disk[f])]_vars
  BY RefreshEnds
<1> QED BY <1>1, TypeInit, TypeNext, ControlInit, ControlNext, CorpusInit, CorpusNext,
           RefreshedInit, RefreshedNext, PTL DEF Spec, RefreshServes
=============================================================================
