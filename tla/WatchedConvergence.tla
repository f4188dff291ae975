-------------------------- MODULE WatchedConvergence -------------------------
(* Convergence of the watched index, for any tree, contents, queue length and  *)
(* number of edits: the invariant that says, of each file and each migration   *)
(* directory whose chunk is not what the disk shows, which record, walk, mark  *)
(* or batch will still make it so.                                             *)
EXTENDS WatchedIndexProofs, FiniteSetTheorems

USE TreeAssumption, BoundAssumption, FlagAssumption, NoneAssumption

-----------------------------------------------------------------------------
(* The kernel's queue, as the set of the records ahead of the loop.           *)

Ahead == {queue[i] : i \in 1..Len(queue)}

\* A removal of the file is ahead that no record behind it makes good.
Overdue(f) == \E i \in 1..Len(queue) :
                Drops(queue[i], f) /\ \A j \in (i + 1)..Len(queue) : ~Shows(queue[j], f)

\* Queueing a record keeps the others, and the record or an overflow record is
\* there; only a record that drops the file can make it overdue.
LEMMA QueuedAhead ==
  ASSUME TypeOK, NEW e \in Records, queue' = Queued(e)
  PROVE  /\ Ahead \subseteq Ahead' /\ (e \in Ahead' \/ Overflow \in Ahead')
         /\ \A f \in Files : ~Drops(e, f) /\ Overdue(f)' => Overdue(f)
<1>1. queue \in Seq(Records) /\ Overflow \in Records
  BY DEF TypeOK, LoopTypes, Records
<1>2. \A f \in Files : ~Drops(Overflow, f)
  BY DEF Drops, Overflow
<1>3. ASSUME NEW r \in Records, queue' = Append(queue, r)
      PROVE  /\ Ahead \subseteq Ahead' /\ r \in Ahead'
             /\ \A f \in Files : ~Drops(r, f) /\ Overdue(f)' => Overdue(f)
  <2>1. /\ Len(queue') = Len(queue) + 1 /\ queue'[Len(queue) + 1] = r
        /\ \A i \in 1..Len(queue) : queue'[i] = queue[i]
        /\ Len(queue) \in Nat
    BY <1>1, <1>3
  <2>2. Ahead \subseteq Ahead' /\ r \in Ahead'
    BY <2>1 DEF Ahead
  <2>3. ASSUME NEW f \in Files, ~Drops(r, f), Overdue(f)' PROVE Overdue(f)
    <3>1. PICK i \in 1..Len(queue') :
            Drops(queue'[i], f) /\ \A j \in (i + 1)..Len(queue') : ~Shows(queue'[j], f)
      BY <2>3 DEF Overdue, Drops, Shows
    <3>2. i \in 1..Len(queue)
      BY <2>1, <2>3, <3>1
    <3>3. \A j \in (i + 1)..Len(queue) : ~Shows(queue[j], f)
      BY <2>1, <3>1, <3>2
    <3>4. Drops(queue[i], f)
      BY <2>1, <3>1, <3>2
    <3> QED BY <3>2, <3>3, <3>4 DEF Overdue
  <2> QED BY <2>2, <2>3
<1>4. CASE queue' = queue
  <2>1. Ahead' = Ahead /\ \A f \in Files : Overdue(f)' <=> Overdue(f)
    BY <1>4 DEF Ahead, Overdue, Drops, Shows
  <2>2. queue' = Append(queue, e) \/ \E i \in 1..Len(queue) : queue[i] = Overflow
    BY <1>4 DEF Queued
  <2> QED BY <1>3, <2>1, <2>2 DEF Ahead
<1> QED BY <1>1, <1>2, <1>3, <1>4 DEF Queued

\* Taking the first record leaves the others; a record that drops the file has
\* one behind it that makes it good, unless the file is overdue.
LEMMA TakeAhead ==
  ASSUME TypeOK, Take
  PROVE  /\ Head(queue) \in Records /\ Ahead \subseteq {Head(queue)} \cup Ahead'
         /\ \A f \in Files : ~Overdue(f) => /\ ~Overdue(f)'
                                            /\ Drops(Head(queue), f) => \E e \in Ahead' : Shows(e, f)
<1>1. /\ queue \in Seq(Records) /\ queue # <<>> /\ queue' = Tail(queue)
  BY DEF TypeOK, LoopTypes, Take
<1>2. /\ Len(queue) \in Nat \ {0} /\ Len(queue') = Len(queue) - 1 /\ Head(queue) = queue[1]
      /\ \A i \in 1..Len(queue') : queue'[i] = queue[i + 1]
      /\ Head(queue) \in Records
  BY <1>1
<1>3. ASSUME NEW i \in 1..Len(queue) PROVE i = 1 \/ (i - 1 \in 1..Len(queue') /\ queue'[i - 1] = queue[i])
  BY <1>2
<1>4. Ahead \subseteq {Head(queue)} \cup Ahead'
  BY <1>2, <1>3 DEF Ahead
<1>5. ASSUME NEW f \in Files, ~Overdue(f), Overdue(f)' PROVE FALSE
  <2>1. PICK i \in 1..Len(queue') :
          Drops(queue'[i], f) /\ \A j \in (i + 1)..Len(queue') : ~Shows(queue'[j], f)
    BY <1>5 DEF Overdue, Drops, Shows
  <2>2. Drops(queue[i + 1], f) /\ i + 1 \in 1..Len(queue)
    BY <1>2, <2>1
  <2>3. ASSUME NEW j \in ((i + 1) + 1)..Len(queue) PROVE ~Shows(queue[j], f)
    <3>1. j - 1 \in (i + 1)..Len(queue') /\ queue'[j - 1] = queue[j]
      BY <1>2
    <3> QED BY <2>1, <3>1
  <2> QED BY <1>5, <2>2, <2>3 DEF Overdue
<1>6. ASSUME NEW f \in Files, ~Overdue(f), Drops(Head(queue), f)
      PROVE  \E e \in Ahead' : Shows(e, f)
  <2>1. 1 \in 1..Len(queue) /\ Drops(queue[1], f)
    BY <1>2, <1>6
  <2>2. PICK j \in (1 + 1)..Len(queue) : Shows(queue[j], f)
    BY <1>6, <2>1 DEF Overdue
  <2>3. j - 1 \in 1..Len(queue') /\ queue'[j - 1] = queue[j]
    BY <1>2
  <2> QED BY <2>2, <2>3 DEF Ahead
<1> QED BY <1>2, <1>4, <1>5, <1>6

\* Whose queue stands still.
LEMMA AheadStands ==
  ASSUME queue' = queue
  PROVE  Ahead' = Ahead /\ \A f \in Files : Overdue(f)' <=> Overdue(f)
BY DEF Ahead, Overdue, Drops, Shows

-----------------------------------------------------------------------------
(* The ground the two invariants stand on.                                    *)

\* The tree and its watches: a directory without a watch has a record ahead that
\* will add one.
Ground ==
  /\ \A d \in Dirs \ dirs : \A f \in In[d] : disk[f] = None
  /\ \A d \in migDirs : In[d] # {}
  /\ watched \subseteq dirs
  /\ loop = "on" => \A d \in dirs \ watched :
       \E e \in Ahead : e = Overflow \/ (e.op = "create" /\ e.path = d)

\* Marks and batches: only files are to be written, a batch names what is left
\* of it, and a flush that is over has nothing left.
Rest ==
  /\ fl["loop"].pc \in {"idle", "done"} => fl["loop"].todo = {} /\ fl["loop"].resync = NoResync
  /\ \A x \in Flushers : \A p \in fl[x].todo : fl[x].batch[p] # None
  /\ \A p \in Paths : dirty[p] = "write" => p \in Files
  /\ \A p \in Paths : fl["loop"].batch[p] = "write" => p \in Files

\* The build leaves the ground in order.
LEMMA GroundInit == Init => Ground /\ Rest
<1> SUFFICES ASSUME Init PROVE Ground /\ Rest
  OBVIOUS
<1>1. Ground
  BY DEF Init, Ground
<1>2. \A x \in Flushers : fl[x] = Idle
  BY DEF Init
<1>3. Rest
  BY <1>2 DEF Init, Rest, Idle, Flushers
<1> QED BY <1>1, <1>3

\* Edits of the tree.
LEMMA GroundEdit == TypeOK /\ Ground /\ Edit => Ground'
<1> SUFFICES ASSUME TypeOK, Ground, Edit PROVE Ground'
  OBVIOUS
<1>1. disk \in [Files -> Contents \cup {None}]
  BY DEF TypeOK, TreeTypes
<1>2. ASSUME NEW f \in Files, NEW c \in Contents \cup {None}, EditFile(f, c) PROVE Ground'
  <2>1. /\ dirs' = dirs /\ watched' = watched /\ migDirs' = migDirs /\ loop' = loop
        /\ disk' = [disk EXCEPT ![f] = c] /\ Holder(f) \subseteq dirs
    BY <1>2 DEF EditFile, Edited, corpusVars
  <2>2. Ahead \subseteq Ahead'
    <3>1. [op |-> IF c = None THEN "remove" ELSE "write", path |-> f] \in Records
      BY DEF Records, Paths
    <3> QED BY <1>2, <3>1, QueuedAhead, AheadStands DEF EditFile
  <2>3. \A d \in Dirs \ dirs : f \notin In[d]
    BY <2>1 DEF Holder
  <2> QED BY <1>1, <2>1, <2>2, <2>3 DEF Ground
<1>3. ASSUME NEW d \in Dirs, DirOut(d) PROVE Ground'
  <2>1. /\ dirs' = dirs \ {d} /\ watched' = watched \ {d} /\ migDirs' = migDirs /\ loop' = loop
        /\ disk' = [f \in Files |-> IF f \in In[d] THEN None ELSE disk[f]]
    BY <1>3 DEF DirOut, corpusVars
  <2>2. Ahead \subseteq Ahead'
    <3>1. [op |-> "remove", path |-> d] \in Records
      BY DEF Records, Paths
    <3> QED BY <1>3, <3>1, QueuedAhead, AheadStands DEF DirOut
  <2> QED BY <1>1, <2>1, <2>2 DEF Ground
<1>4. ASSUME NEW d \in Dirs, DirIn(d) PROVE Ground'
  <2> DEFINE e == [op |-> "create", path |-> d]
  <2>1. /\ dirs' = dirs \cup {d} /\ watched' = watched /\ migDirs' = migDirs /\ loop' = loop
    BY <1>4 DEF DirIn, Edited, corpusVars
  <2>2. PICK c : disk' = [f \in Files |-> IF f \in In[d] THEN c ELSE disk[f]]
    BY <1>4 DEF DirIn
  <2>3. Ahead \subseteq Ahead' /\ (loop = "on" => e \in Ahead' \/ Overflow \in Ahead')
    <3>1. e \in Records
      BY DEF Records
    <3> QED BY <1>4, <3>1, QueuedAhead, AheadStands DEF DirIn
  <2>4. \A g \in Dirs \ dirs' : \A f \in In[g] : disk'[f] = None
    BY <1>1, <2>1, <2>2 DEF Ground
  <2> QED BY <2>1, <2>3, <2>4 DEF Ground
<1> QED BY <1>2, <1>3, <1>4 DEF Edit

\* The loop's steps.
LEMMA GroundLoop == TypeOK /\ Ground /\ (StartWatch \/ HandleEvent) => Ground'
<1> SUFFICES ASSUME TypeOK, Ground, StartWatch \/ HandleEvent PROVE Ground'
  OBVIOUS
<1>1. disk' = disk /\ dirs' = dirs /\ migDirs' = migDirs
  BY DEF StartWatch, HandleEvent, treeVars, corpusVars
<1>2. CASE StartWatch
  BY <1>1, <1>2 DEF StartWatch, Ground
<1>3. CASE HandleEvent /\ Take
  <2>1. /\ Head(queue) \in Records /\ Ahead \subseteq {Head(queue)} \cup Ahead'
        /\ loop' = loop
    BY <1>3, TakeAhead DEF HandleEvent
  <2>2. CASE HandleRemove \/ HandleWrite
    <3>1. watched' = watched /\ Head(queue).op \in {"remove", "write"}
      BY <2>2 DEF HandleRemove, HandleWrite
    <3> QED BY <1>1, <2>1, <3>1 DEF Ground, Overflow
  <2>3. CASE HandleDir
    <3>1. /\ Head(queue).op = "create"
          /\ watched' = IF Head(queue).path \in dirs THEN watched \cup {Head(queue).path} ELSE watched
      BY <2>3 DEF HandleDir
    <3> QED BY <1>1, <2>1, <3>1 DEF Ground, Overflow
  <2>4. CASE HandleOverflow
    BY <1>1, <2>1, <2>4 DEF Ground, HandleOverflow
  <2>5. CASE WalkDir \/ WalkRoot
    BY <1>1, <2>1, <2>5, AheadStands DEF Ground, WalkDir, WalkRoot
  <2> QED BY <1>3, <2>2, <2>3, <2>4, <2>5 DEF HandleEvent
<1>4. CASE HandleEvent /\ ~Take
  <2>1. (WalkDir \/ WalkRoot) /\ loop' = loop
    BY <1>4 DEF HandleEvent, HandleRemove, HandleDir, HandleWrite, HandleOverflow
  <2> QED BY <1>1, <2>1, AheadStands DEF Ground, WalkDir, WalkRoot
<1> QED BY <1>2, <1>3, <1>4

\* Every step keeps the tree and its watches in order.
LEMMA GroundNext == TypeOK /\ Ground /\ [Next]_vars => Ground'
<1> SUFFICES ASSUME TypeOK, Ground, [Next]_vars PROVE Ground'
  OBVIOUS
<1>1. ASSUME UNCHANGED <<disk, dirs, migDirs, watched, queue>>, loop' = loop \/ loop' = "gone"
      PROVE  Ground'
  BY <1>1, AheadStands DEF Ground
<1>2. CASE \/ TimerFires \/ FlushDone \/ LoopExit \/ (\E f \in RefreshSet : Refresh(f))
           \/ \E x \in Flushers : Flush(x)
  <2>1. CASE TimerFires \/ FlushDone \/ LoopExit
    BY <1>1, <2>1 DEF TimerFires, FlushDone, LoopExit, treeVars, corpusVars
  <2>2. ASSUME NEW f \in RefreshSet, Refresh(f) PROVE Ground'
    BY <1>1, <2>2 DEF Refresh, treeVars, loopVars, corpusVars
  <2>3. ASSUME NEW x \in Flushers, Flush(x) PROVE Ground'
    <3>1. UNCHANGED <<disk, dirs, migDirs, loopVars>>
      BY <2>3 DEF Flush, Acquire, Apply, Finish, treeVars, corpusVars
    <3> QED BY <1>1, <3>1 DEF loopVars
  <2> QED BY <1>2, <2>1, <2>2, <2>3
<1>3. CASE \/ WarmStart \/ WarmFinish \/ WarmAbort \/ CloseCall \/ CloseReturn
           \/ (\E x \in ExtraSets \cup {None} : SetExtraChunks(x))
           \/ (\E r \in Rerankers \cup {None} : SetReranker(r)) \/ UNCHANGED vars
  BY <1>1, <1>3 DEF WarmStart, WarmFinish, WarmAbort, CloseCall, CloseReturn, SetExtraChunks,
                    SetReranker, vars, treeVars, loopVars, corpusVars
<1> QED BY <1>2, <1>3, GroundEdit, GroundLoop DEF Next

\* Whom the loop's and the flushes' own variables stand still for.
LEMMA RestStands ==
  ASSUME Rest, UNCHANGED <<fl, dirty>>
  PROVE  Rest'
BY DEF Rest

\* The loop marks only files to be written, and hands over what is marked.
LEMMA RestLoop == TypeOK /\ Rest /\ (HandleEvent \/ TimerFires \/ FlushDone) => Rest'
<1> SUFFICES ASSUME TypeOK, Rest, HandleEvent \/ TimerFires \/ FlushDone PROVE Rest'
  OBVIOUS
<1>1. /\ fl \in [Flushers -> FlushStates] /\ "loop" \in Flushers /\ dirty \in Batches
      /\ In \in [Dirs -> SUBSET Files]
  BY DEF TypeOK, FlushTypes, LoopTypes, Flushers
<1>2. CASE HandleEvent
  <2>1. ASSUME NEW F, NEW op, Mark(F, op), op = "write" => F \subseteq Files
        PROVE  \A p \in Paths : dirty'[p] = "write" => p \in Files
    BY <2>1 DEF Mark, Rest
  <2>2. \A p \in Paths : dirty'[p] = "write" => p \in Files
    <3>1. CASE HandleRemove
      BY <2>1, <3>1 DEF HandleRemove
    <3>2. CASE HandleDir \/ HandleOverflow
      BY <3>2 DEF HandleDir, HandleOverflow, Rest
    <3>3. CASE HandleWrite
      <4>1. Head(queue).path \in Files
        BY <3>3, TakeAhead DEF HandleWrite, Records, Overflow
      <4> QED BY <2>1, <3>3, <4>1 DEF HandleWrite, Rest
    <3>4. CASE WalkDir
      BY <1>1, <2>1, <3>4 DEF WalkDir
    <3>5. CASE WalkRoot
      BY <2>1, <3>5 DEF WalkRoot
    <3> QED BY <1>2, <3>1, <3>2, <3>3, <3>4, <3>5 DEF HandleEvent
  <2> QED BY <1>2, <2>2 DEF HandleEvent, Rest
<1>3. CASE FlushDone
  <2>1. dirty' = dirty /\ fl' = [fl EXCEPT !["loop"] = Idle]
    BY <1>3 DEF FlushDone
  <2>2. \A x \in Flushers : fl'[x] = IF x = "loop" THEN Idle ELSE fl[x]
    BY <1>1, <2>1
  <2> QED BY <1>1, <2>1, <2>2 DEF Rest, Idle
<1>4. CASE TimerFires /\ FireIdle
  BY <1>4, RestStands DEF FireIdle
<1>5. CASE TimerFires /\ FireFlush
  <2>1. /\ fl' = [fl EXCEPT !["loop"] = [pc |-> "lock", batch |-> dirty, resync |-> present,
                                         todo |-> Dirty, changed |-> FALSE]]
        /\ dirty' = [p \in Paths |-> None]
    BY <1>5 DEF FireFlush
  <2>2. \A x \in Flushers \ {"loop"} : fl'[x] = fl[x]
    BY <1>1, <2>1
  <2>3. /\ fl'["loop"].pc = "lock" /\ fl'["loop"].batch = dirty /\ fl'["loop"].todo = Dirty
    BY <1>1, <2>1
  <2> QED BY <2>1, <2>2, <2>3 DEF Rest, Dirty
<1> QED BY <1>2, <1>3, <1>4, <1>5 DEF TimerFires

\* A flush works its batch off and leaves nothing at its end.
LEMMA RestFlush ==
  ASSUME TypeOK, Rest, NEW x \in Flushers, Flush(x) \/ \E f \in RefreshSet : Refresh(f)
  PROVE  Rest'
<1>1. fl \in [Flushers -> FlushStates] /\ "loop" \in Flushers /\ "refresh" \in Flushers
  BY DEF TypeOK, FlushTypes, Flushers
<1>2. dirty' = dirty
  BY DEF Flush, Acquire, Apply, Finish, Refresh, loopVars
<1>3. ASSUME NEW f \in RefreshSet, Refresh(f) PROVE Rest'
  <2>1. /\ fl'["loop"] = fl["loop"] /\ fl'["refresh"].todo = {f} /\ f \in Paths
        /\ fl'["refresh"].batch[f] # None
    BY <1>1, <1>3 DEF Refresh, Paths
  <2> QED BY <1>2, <2>1 DEF Rest, Flushers
<1>4. CASE Acquire(x)
  <2>1. \A y \in Flushers : /\ fl'[y].todo = fl[y].todo /\ fl'[y].batch = fl[y].batch
                            /\ fl'[y].resync = fl[y].resync
                            /\ fl'[y].pc = IF y = x THEN "apply" ELSE fl[y].pc
    BY <1>1, <1>4 DEF Acquire, FlushStates
  <2> QED BY <1>1, <1>2, <2>1 DEF Rest
<1>5. ASSUME NEW p \in Paths, Apply(x, p) PROVE Rest'
  <2>1. PICK b : fl' = [fl EXCEPT ![x].todo = @ \ {p}, ![x].changed = b]
    BY <1>5 DEF Apply
  <2>2. \A y \in Flushers : /\ fl'[y].todo \subseteq fl[y].todo /\ fl'[y].batch = fl[y].batch
                            /\ fl'[y].resync = fl[y].resync /\ fl'[y].pc = fl[y].pc
    BY <1>1, <2>1 DEF FlushStates
  <2> QED BY <1>1, <1>2, <2>2 DEF Rest
<1>6. CASE Finish(x)
  <2>1. fl' = [fl EXCEPT ![x] = IF x = "loop" THEN [Idle EXCEPT !.pc = "done"] ELSE Idle]
    BY <1>6 DEF Finish
  <2>2. \A y \in Flushers \ {x} : fl'[y] = fl[y]
    BY <1>1, <2>1
  <2>3. /\ fl'[x].todo = {} /\ fl'[x].resync = NoResync
        /\ fl'[x].batch = [p \in Paths |-> None]
    BY <1>1, <2>1 DEF Idle
  <2> QED BY <1>1, <1>2, <2>2, <2>3 DEF Rest
<1> QED BY <1>3, <1>4, <1>5, <1>6 DEF Flush

\* Every step keeps marks and batches in order.
LEMMA RestNext == TypeOK /\ Rest /\ [Next]_vars => Rest'
<1> SUFFICES ASSUME TypeOK, Rest, [Next]_vars PROVE Rest'
  OBVIOUS
<1>1. CASE \/ Edit \/ StartWatch \/ LoopExit \/ UNCHANGED vars
  <2>1. UNCHANGED <<fl, dirty>>
    BY <1>1 DEF Edit, EditFile, DirOut, DirIn, Edited, StartWatch, LoopExit, vars, loopVars
  <2> QED BY <2>1, RestStands
<1>2. CASE \/ WarmStart \/ WarmFinish \/ WarmAbort \/ CloseCall \/ CloseReturn
           \/ (\E x \in ExtraSets \cup {None} : SetExtraChunks(x))
           \/ (\E r \in Rerankers \cup {None} : SetReranker(r))
  BY <1>2, RestStands DEF WarmStart, WarmFinish, WarmAbort, CloseCall, CloseReturn,
                          SetExtraChunks, SetReranker, loopVars
<1>3. "loop" \in Flushers
  BY DEF Flushers
<1> QED BY <1>1, <1>2, <1>3, RestLoop, RestFlush DEF Next

-----------------------------------------------------------------------------
(* Files.                                                                     *)

LoopFl == fl["loop"]

\* A record ahead makes the loop look at the file.
Shown(f) == \E e \in Ahead : Shows(e, f)

\* No mark and no resync will drop the file.
Spared(f) ==
  /\ \A p \in {f} \cup Holder(f) : dirty[p] # "remove"
  /\ present = NoResync \/ f \in present \/ dirty[f] # None

\* The running flush will read the file, or its chunk is the content on disk
\* and the flush will leave it.
InBatch(f) == f \in LoopFl.todo /\ LoopFl.batch[f] = "write" /\ Spared(f)
InChunk(f) ==
  /\ chunks[f] = disk[f] /\ Spared(f)
  /\ \A p \in {f} \cup Holder(f) : p \in LoopFl.todo => LoopFl.batch[p] # "remove"
  /\ LoopFl.resync = NoResync \/ f \in LoopFl.resync \/ LoopFl.batch[f] # None

\* What is still to be done for a file that is there, and for one that is not.
Reads(f) == \/ Shown(f) \/ walking \in Holder(f) \cup {Root} \/ dirty[f] = "write"
            \/ InBatch(f) \/ InChunk(f)
Forgets(f) ==
  \/ \E e \in Ahead : e = Overflow \/ Drops(e, f)
  \/ walking = Root
  \/ \E p \in {f} \cup Holder(f) : dirty[p] # None \/ p \in LoopFl.todo
  \/ present # NoResync /\ f \notin present
  \/ LoopFl.resync # NoResync /\ f \notin LoopFl.resync /\ LoopFl.batch[f] = None
  \/ chunks[f] = None

FileFollows(f) ==
  loop # "gone" /\ f \notin blind =>
    /\ disk[f] \in Contents \ Oversized => ~Overdue(f) /\ Reads(f)
    /\ disk[f] = None => Forgets(f)

FilesFollow == \A f \in Files : FileFollows(f)

\* A step that is not about the file.
FileStill(f) ==
  /\ loop # "gone" \/ loop' = "gone"
  /\ f \in blind => f \in blind'
  /\ disk'[f] = disk[f] /\ chunks'[f] = chunks[f]
  /\ Ahead \subseteq Ahead' /\ (~Overdue(f) => ~Overdue(f)')
  /\ UNCHANGED <<walking, dirty, present>>
  /\ fl'["loop"].todo = fl["loop"].todo /\ fl'["loop"].batch = fl["loop"].batch
  /\ fl'["loop"].resync = fl["loop"].resync

\* A step that is not about a file leaves it followed.
LEMMA FileStands ==
  ASSUME NEW f \in Files, FileFollows(f), FileStill(f)
  PROVE  FileFollows(f)'
<1>1. Shown(f) => Shown(f)'
  BY DEF FileStill, Shown
<1>2. Spared(f) => Spared(f)'
  BY DEF FileStill, Spared
<1>3. (InBatch(f) => InBatch(f)') /\ (InChunk(f) => InChunk(f)')
  BY <1>2 DEF FileStill, InBatch, InChunk, LoopFl
<1>4. Reads(f) => Reads(f)'
  BY <1>1, <1>3 DEF FileStill, Reads
<1>5. Forgets(f) => Forgets(f)'
  BY DEF FileStill, Forgets, LoopFl
<1> QED BY <1>4, <1>5 DEF FileFollows, FileStill

\* The build has read every file.
LEMMA FilesInit == Init => FilesFollow
<1> SUFFICES ASSUME Init, NEW f \in Files PROVE FileFollows(f)
  BY DEF FilesFollow
<1>1. chunks[f] = Seen(disk[f])
  BY DEF Init, Walked, Slots
<1>2. disk[f] \in Contents \ Oversized => ~Overdue(f) /\ Reads(f)
  <2>1. disk[f] \in Contents \ Oversized => chunks[f] = disk[f]
    BY <1>1 DEF Seen, Indexable
  <2>2. Spared(f) /\ LoopFl.todo = {} /\ LoopFl.resync = NoResync
    BY DEF Init, Spared, LoopFl, Idle, Flushers, Holder, Paths
  <2>3. ~Overdue(f)
    BY DEF Init, Overdue
  <2> QED BY <2>1, <2>2, <2>3 DEF Reads, InChunk
<1>3. disk[f] = None => Forgets(f)
  BY <1>1 DEF Seen, Indexable, Forgets
<1> QED BY <1>2, <1>3 DEF FileFollows

\* A file is edited: what is watched is seen, and what is not has a record of
\* its directory ahead.
LEMMA FileEdited ==
  ASSUME TypeOK, Ground, NEW f \in Files, FileFollows(f), NEW g \in Files,
         NEW c \in Contents \cup {None}, EditFile(g, c)
  PROVE  FileFollows(f)'
<1> DEFINE e == [op |-> IF c = None THEN "remove" ELSE "write", path |-> g]
<1>1. /\ e \in Records /\ disk' = [disk EXCEPT ![g] = c] /\ Holder(g) \subseteq dirs
      /\ UNCHANGED <<watched, loop, walking, dirty, present, fl, chunks>>
      /\ disk \in [Files -> Contents \cup {None}]
  BY DEF EditFile, Edited, Records, Paths, corpusVars, TypeOK, TreeTypes
<1>2. /\ Ahead \subseteq Ahead'
      /\ Watching(g) => e \in Ahead' \/ Overflow \in Ahead'
      /\ \A h \in Files : ~Drops(e, h) /\ Overdue(h)' => Overdue(h)
  BY <1>1, QueuedAhead, AheadStands DEF EditFile
<1>3. CASE g # f
  <2>1. ~Drops(e, f)
    BY <1>3 DEF Drops, Holder
  <2>2. f \in blind => f \in blind'
    BY <1>3 DEF EditFile
  <2> QED BY <1>1, <1>2, <1>3, <2>1, <2>2, FileStands DEF FileStill
<1>4. CASE g = f
  <2> SUFFICES ASSUME loop # "gone", f \notin blind'
               PROVE  /\ c \in Contents \ Oversized => ~Overdue(f)' /\ Reads(f)'
                      /\ c = None => Forgets(f)'
    BY <1>1, <1>4 DEF FileFollows
  <2>1. loop = "on" /\ (IF c = None THEN Watching(f) ELSE ~Late(f, queue'))
    BY <1>4 DEF EditFile, TypeOK, LoopTypes
  <2>2. ASSUME c # None PROVE ~Overdue(f)' /\ Reads(f)'
    <3>1. ~Overdue(f)'
      BY <2>1, <2>2 DEF Late, Overdue, Drops, Shows
    <3>2. CASE Watching(f)
      <4>1. Shows(e, f) /\ Shows(Overflow, f)
        BY <1>4, <2>2 DEF Shows
      <4> QED BY <1>2, <1>4, <3>1, <3>2, <4>1 DEF Reads, Shown
    <3>3. CASE ~Watching(f)
      <4>1. PICK d \in Holder(f) : d \in dirs \ watched
        BY <1>1, <1>4, <2>1, <3>3 DEF Watching
      <4>2. PICK r \in Ahead : r = Overflow \/ (r.op = "create" /\ r.path = d)
        BY <2>1, <4>1 DEF Ground
      <4>3. Shows(r, f)
        BY <4>1, <4>2 DEF Shows
      <4> QED BY <1>2, <3>1, <4>3 DEF Reads, Shown
    <3> QED BY <3>2, <3>3
  <2>3. ASSUME c = None PROVE Forgets(f)'
    <3>1. Drops(e, f)
      BY <1>4, <2>3 DEF Drops
    <3> QED BY <1>2, <1>4, <2>1, <2>3, <3>1 DEF Forgets
  <2> QED BY <2>2, <2>3
<1> QED BY <1>3, <1>4

\* A directory goes.
LEMMA FileOut ==
  ASSUME TypeOK, NEW f \in Files, FileFollows(f), NEW d \in Dirs, DirOut(d)
  PROVE  FileFollows(f)'
<1> DEFINE e == [op |-> "remove", path |-> d]
<1>1. /\ e \in Records /\ disk' = [g \in Files |-> IF g \in In[d] THEN None ELSE disk[g]]
      /\ UNCHANGED <<loop, walking, dirty, present, fl, chunks>>
      /\ blind' = IF loop = "off" THEN blind \cup In[d] ELSE blind \ In[d]
  BY DEF DirOut, Records, Paths, corpusVars
<1>2. /\ Ahead \subseteq Ahead'
      /\ loop = "on" => e \in Ahead' \/ Overflow \in Ahead'
      /\ \A h \in Files : ~Drops(e, h) /\ Overdue(h)' => Overdue(h)
  BY <1>1, QueuedAhead, AheadStands DEF DirOut
<1>3. CASE f \notin In[d]
  <2>1. ~Drops(e, f)
    BY <1>3 DEF Drops, Holder
  <2> QED BY <1>1, <1>2, <1>3, <2>1, FileStands DEF FileStill
<1>4. CASE f \in In[d]
  <2> SUFFICES ASSUME loop # "gone", f \notin blind' PROVE Forgets(f)'
    BY <1>1, <1>4 DEF FileFollows
  <2>1. loop = "on"
    BY <1>1, <1>4 DEF TypeOK, LoopTypes
  <2>2. Drops(e, f)
    BY <1>4 DEF Drops, Holder
  <2> QED BY <1>2, <2>1, <2>2 DEF Forgets
<1> QED BY <1>3, <1>4

\* A directory comes, with or without files.
LEMMA FileIn ==
  ASSUME TypeOK, Ground, NEW f \in Files, FileFollows(f), NEW d \in Dirs, DirIn(d)
  PROVE  FileFollows(f)'
<1> DEFINE e == [op |-> "create", path |-> d]
<1>1. /\ e \in Records /\ d \notin dirs
      /\ UNCHANGED <<loop, walking, dirty, present, fl, chunks>>
  BY DEF DirIn, Edited, Records, corpusVars
<1>2. PICK c \in Contents \cup {None} : disk' = [g \in Files |-> IF g \in In[d] THEN c ELSE disk[g]]
  BY DEF DirIn
<1>3. /\ Ahead \subseteq Ahead'
      /\ loop = "on" => e \in Ahead' \/ Overflow \in Ahead'
      /\ \A h \in Files : ~Drops(e, h) /\ Overdue(h)' => Overdue(h)
  BY <1>1, QueuedAhead, AheadStands DEF DirIn
<1>4. ~Drops(e, f)
  BY DEF Drops
<1>5. blind' = IF loop = "off" THEN blind \cup In[d]
               ELSE (blind \ {g \in In[d] : disk'[g] # None})
                    \cup {g \in {h \in In[d] : disk'[h] # None} : Late(g, queue')}
  BY DEF DirIn
<1>6. CASE f \notin In[d] \/ c = None
  <2>1. disk'[f] = disk[f]
    BY <1>1, <1>2, <1>6 DEF Ground
  <2>2. f \in blind => f \in blind'
    BY <1>2, <1>5, <1>6
  <2> QED BY <1>1, <1>3, <1>4, <2>1, <2>2, FileStands DEF FileStill
<1>7. CASE f \in In[d] /\ c # None
  <2> SUFFICES ASSUME loop # "gone", f \notin blind' PROVE ~Overdue(f)' /\ Reads(f)'
    BY <1>1, <1>2, <1>7 DEF FileFollows
  <2>1. loop = "on" /\ ~Late(f, queue')
    BY <1>2, <1>5, <1>7 DEF TypeOK, LoopTypes
  <2>2. ~Overdue(f)'
    BY <2>1 DEF Late, Overdue, Drops, Shows
  <2>3. Shows(e, f) /\ Shows(Overflow, f)
    BY <1>7 DEF Shows, Holder
  <2> QED BY <1>3, <2>1, <2>2, <2>3 DEF Reads, Shown
<1> QED BY <1>6, <1>7

\* The loop takes a record, and the file's state is what the handler made of it.
LEMMA FileHandled ==
  ASSUME TypeOK, Ground, Rest, NEW f \in Files, FileFollows(f), HandleEvent, Take
  PROVE  FileFollows(f)'
<1> DEFINE h == Head(queue)
<1>1. /\ h \in Records /\ Ahead \subseteq {h} \cup Ahead'
      /\ ~Overdue(f) => ~Overdue(f)' /\ (Drops(h, f) => Shown(f)')
  BY TakeAhead DEF Shown
<1>2. /\ UNCHANGED <<disk, dirs, blind, loop, fl, chunks>>
      /\ disk \in [Files -> Contents \cup {None}] /\ f \in Paths
  BY DEF HandleEvent, treeVars, corpusVars, TypeOK, TreeTypes, Paths
<1> HIDE DEF h
<1> SUFFICES ASSUME loop # "gone", f \notin blind
             PROVE  /\ disk[f] \in Contents \ Oversized => ~Overdue(f)' /\ Reads(f)'
                    /\ disk[f] = None => Forgets(f)'
  BY <1>2 DEF FileFollows
<1>3. /\ disk[f] \in Contents \ Oversized => ~Overdue(f) /\ Reads(f)
      /\ disk[f] = None => Forgets(f)
  BY DEF FileFollows
<1>4. ~Shows(h, f) /\ Shown(f) => Shown(f)'
  BY <1>1 DEF Shown
<1>5. CASE HandleRemove
  <2>1. /\ walking = None /\ walking' = walking /\ present' = present /\ h.op = "remove"
        /\ dirty' = [p \in Paths |-> IF p = h.path THEN "remove" ELSE dirty[p]]
    BY <1>5 DEF HandleRemove, Running, Mark, h
  <2>2. ~Shows(h, f) /\ h # Overflow
    BY <2>1 DEF Shows, Overflow
  <2>3. h.path \in {f} \cup Holder(f) <=> Drops(h, f)
    BY <2>1 DEF Drops
  <2>4. {f} \cup Holder(f) \subseteq Paths
    BY DEF Holder, Paths
  <2>5. CASE Drops(h, f)
    <3>1. dirty'[h.path] # None
      BY <2>1, <2>3, <2>4, <2>5
    <3>2. Forgets(f)'
      BY <2>3, <2>5, <3>1 DEF Forgets
    <3> QED BY <1>1, <1>3, <2>5, <3>2 DEF Reads
  <2>6. CASE ~Drops(h, f)
    <3>1. \A p \in {f} \cup Holder(f) : dirty'[p] = dirty[p]
      BY <2>1, <2>3, <2>4, <2>6
    <3>2. Spared(f) => Spared(f)'
      BY <2>1, <3>1 DEF Spared
    <3>3. Reads(f) => Reads(f)'
      BY <1>2, <1>4, <2>1, <2>2, <3>1, <3>2 DEF Reads, InBatch, InChunk, LoopFl
    <3>4. Forgets(f) => Forgets(f)'
      BY <1>1, <1>2, <2>1, <2>2, <2>6, <3>1 DEF Forgets, LoopFl
    <3> QED BY <1>1, <1>3, <3>3, <3>4
  <2> QED BY <2>5, <2>6
<1>6. CASE HandleDir
  <2>1. /\ walking = None /\ UNCHANGED <<dirty, present>> /\ h.op = "create"
        /\ h.path \in dirs => walking' = h.path
        /\ h.path \notin dirs => walking' = walking
    BY <1>6 DEF HandleDir, Running, h
  <2>2. ~Drops(h, f) /\ h # Overflow
    BY <2>1 DEF Drops, Overflow
  <2>3. Spared(f) => Spared(f)'
    BY <2>1 DEF Spared
  <2>4. ASSUME disk[f] \in Contents, Shows(h, f) PROVE walking' \in Holder(f)
    <3>1. h.path \in Holder(f)
      BY <2>1, <2>4 DEF Shows, Overflow
    <3>2. h.path \in dirs
      BY <2>4, <3>1 DEF Ground, Holder
    <3> QED BY <2>1, <3>1, <3>2
  <2>5. disk[f] \in Contents /\ Reads(f) => Reads(f)'
    <3>1. walking \notin Holder(f) \cup {Root}
      BY <2>1 DEF Holder
    <3> QED BY <1>2, <1>4, <2>1, <2>3, <2>4, <3>1 DEF Reads, InBatch, InChunk, LoopFl
  <2>6. Forgets(f) => Forgets(f)'
    BY <1>1, <1>2, <2>1, <2>2 DEF Forgets, LoopFl
  <2> QED BY <1>1, <1>3, <2>5, <2>6
<1>7. CASE HandleWrite
  <2>1. /\ walking = None /\ walking' = walking /\ present' = present /\ h.op = "write"
        /\ dirty' = IF Indexable(disk[h.path])
                    THEN [p \in Paths |-> IF p = h.path THEN "write" ELSE dirty[p]] ELSE dirty
    BY <1>7 DEF HandleWrite, Running, Mark, h
  <2>2. ~Drops(h, f) /\ h # Overflow /\ h.path \in Files
    BY <1>1, <2>1 DEF Drops, Overflow, Records
  <2>3. dirty \in [Paths -> {"write", "remove", None}]
    BY DEF TypeOK, LoopTypes, Batches
  <2>4. \A p \in {f} \cup Holder(f) : dirty'[p] \in {dirty[p], "write"}
    BY <2>1, <2>3 DEF Holder, Paths
  <2>5. Spared(f) => Spared(f)'
    BY <2>1, <2>4 DEF Spared
  <2>6. disk[f] \in Contents \ Oversized /\ Shows(h, f) => dirty'[f] = "write"
    <3>1. Shows(h, f) => h.path = f
      BY <2>1 DEF Shows, Overflow
    <3> QED BY <1>2, <2>1, <3>1 DEF Indexable
  <2>7. disk[f] \in Contents \ Oversized /\ Reads(f) => Reads(f)'
    BY <1>2, <1>4, <2>1, <2>4, <2>5, <2>6 DEF Reads, InBatch, InChunk, LoopFl
  <2>8. Forgets(f) => Forgets(f)'
    <3>1. \A p \in {f} \cup Holder(f) : dirty[p] # None => dirty'[p] # None
      BY <2>4
    <3> QED BY <1>1, <1>2, <2>1, <2>2, <3>1 DEF Forgets, LoopFl
  <2> QED BY <1>1, <1>3, <2>7, <2>8
<1>8. CASE HandleOverflow
  <2>1. walking' = Root
    BY <1>8 DEF HandleOverflow
  <2> QED BY <1>1, <1>3, <2>1 DEF Reads, Forgets
<1>9. ~WalkDir /\ ~WalkRoot
  <2>1. queue' # queue
    BY DEF Take, TypeOK, LoopTypes
  <2> QED BY <2>1 DEF WalkDir, WalkRoot
<1> QED BY <1>5, <1>6, <1>7, <1>8, <1>9 DEF HandleEvent

\* A walk marks what it finds, and the resync remembers it.
LEMMA FileWalked ==
  ASSUME TypeOK, Ground, NEW f \in Files, FileFollows(f), HandleEvent, WalkDir \/ WalkRoot
  PROVE  FileFollows(f)'
<1>1. /\ UNCHANGED <<disk, blind, loop, fl, chunks, queue>> /\ walking' = None
      /\ disk \in [Files -> Contents \cup {None}]
      /\ dirty \in [Paths -> {"write", "remove", None}] /\ f \in Paths
  BY DEF HandleEvent, WalkDir, WalkRoot, treeVars, corpusVars, TypeOK, TreeTypes, LoopTypes,
         Batches, Paths
<1>2. Ahead' = Ahead /\ (Overdue(f)' <=> Overdue(f))
  BY <1>1, AheadStands
<1> SUFFICES ASSUME loop # "gone", f \notin blind
             PROVE  /\ disk[f] \in Contents \ Oversized => ~Overdue(f)' /\ Reads(f)'
                    /\ disk[f] = None => Forgets(f)'
  BY <1>1 DEF FileFollows
<1>3. /\ disk[f] \in Contents \ Oversized => ~Overdue(f) /\ Reads(f)
      /\ disk[f] = None => Forgets(f)
  BY DEF FileFollows
<1>4. CASE WalkDir
  <2> DEFINE found == {g \in In[walking] : Indexable(disk[g])}
  <2>1. /\ walking \in Dirs /\ present' = present
        /\ dirty' = [p \in Paths |-> IF p \in found THEN "write" ELSE dirty[p]]
    BY <1>4 DEF WalkDir, Mark
  <2>2. \A p \in {f} \cup Holder(f) : dirty'[p] \in {dirty[p], "write"}
    BY <1>1, <2>1 DEF Holder, Paths
  <2>3. Spared(f) => Spared(f)'
    BY <2>1, <2>2 DEF Spared
  <2>4. disk[f] \in Contents \ Oversized /\ walking \in Holder(f) \cup {Root} => dirty'[f] = "write"
    BY <1>1, <2>1 DEF Indexable, Holder
  <2>5. Shown(f) => Shown(f)'
    BY <1>2 DEF Shown
  <2>6. disk[f] \in Contents \ Oversized /\ Reads(f) => Reads(f)'
    BY <1>1, <2>2, <2>3, <2>4, <2>5 DEF Reads, InBatch, InChunk, LoopFl
  <2>7. Forgets(f) => Forgets(f)'
    <3>1. \A p \in {f} \cup Holder(f) : dirty[p] # None => dirty'[p] # None
      BY <2>2
    <3> QED BY <1>1, <1>2, <2>1, <3>1 DEF Forgets, LoopFl
  <2> QED BY <1>2, <1>3, <2>6, <2>7
<1>5. CASE WalkRoot
  <2> DEFINE found == {g \in Files : Indexable(disk[g])}
  <2>1. /\ present' = found
        /\ dirty' = [p \in Paths |-> IF p \in found THEN "write" ELSE dirty[p]]
    BY <1>5 DEF WalkRoot, Mark
  <2>2. disk[f] \in Contents \ Oversized => dirty'[f] = "write"
    BY <1>1, <2>1 DEF Indexable
  <2>3. disk[f] = None => f \notin present' /\ present' # NoResync
    <3>1. found \in SUBSET Files
      OBVIOUS
    <3>2. found # NoResync
      BY <3>1 DEF NoResync
    <3> QED BY <2>1, <3>2 DEF Indexable
  <2> QED BY <1>2, <1>3, <2>2, <2>3 DEF Reads, Forgets
<1> QED BY <1>4, <1>5

\* The timer hands the marks to a flush, and the loop collects it when it is over.
LEMMA FileTimer ==
  ASSUME TypeOK, Rest, NEW f \in Files, FileFollows(f), TimerFires \/ FlushDone
  PROVE  FileFollows(f)'
<1>1. /\ UNCHANGED <<disk, blind, loop, chunks, queue, walking>>
      /\ fl \in [Flushers -> FlushStates] /\ "loop" \in Flushers
  BY DEF TimerFires, FlushDone, treeVars, corpusVars, TypeOK, FlushTypes, Flushers
<1>2. Ahead' = Ahead /\ (Overdue(f)' <=> Overdue(f))
  BY <1>1, AheadStands
<1>3. CASE TimerFires /\ FireIdle
  BY <1>1, <1>2, <1>3, FileStands DEF FileStill, FireIdle
<1>4. CASE TimerFires /\ FireFlush
  <2>1. /\ fl["loop"].pc = "idle" /\ dirty' = [p \in Paths |-> None] /\ present' = NoResync
        /\ fl' = [fl EXCEPT !["loop"] = [pc |-> "lock", batch |-> dirty, resync |-> present,
                                         todo |-> Dirty, changed |-> FALSE]]
    BY <1>4 DEF FireFlush
  <2>2. /\ fl'["loop"].batch = dirty /\ fl'["loop"].resync = present /\ fl'["loop"].todo = Dirty
        /\ fl["loop"].todo = {} /\ fl["loop"].resync = NoResync
    BY <1>1, <2>1 DEF Rest
  <2>3. /\ {f} \cup Holder(f) \subseteq Paths
        /\ \A p \in {f} \cup Holder(f) : dirty'[p] = None /\ (p \in Dirty <=> dirty[p] # None)
    BY <2>1 DEF Holder, Paths, Dirty
  <2>4. Spared(f)'
    BY <2>1, <2>3 DEF Spared
  <2>5. Reads(f) => Reads(f)'
    <3>1. Shown(f) => Shown(f)'
      BY <1>2 DEF Shown
    <3>2. dirty[f] = "write" => InBatch(f)'
      BY <2>2, <2>3, <2>4 DEF InBatch, LoopFl
    <3>3. InChunk(f) => InChunk(f)'
      BY <1>1, <2>2, <2>4 DEF InChunk, LoopFl, Spared
    <3>4. ~InBatch(f)
      BY <2>2 DEF InBatch, LoopFl
    <3> QED BY <1>1, <3>1, <3>2, <3>3, <3>4 DEF Reads
  <2>6. Forgets(f) => Forgets(f)'
    BY <1>1, <1>2, <2>2, <2>3 DEF Forgets, LoopFl
  <2> QED BY <1>1, <1>2, <2>5, <2>6 DEF FileFollows
<1>5. CASE FlushDone
  <2>1. /\ fl["loop"].pc = "done" /\ UNCHANGED <<dirty, present>>
        /\ fl' = [fl EXCEPT !["loop"] = Idle]
    BY <1>5 DEF FlushDone
  <2>2. /\ fl'["loop"].todo = {} /\ fl'["loop"].resync = NoResync
        /\ fl["loop"].todo = {} /\ fl["loop"].resync = NoResync
    BY <1>1, <2>1 DEF Rest, Idle
  <2>3. Spared(f) => Spared(f)'
    BY <2>1 DEF Spared
  <2>4. Reads(f) => Reads(f)'
    <3>1. Shown(f) => Shown(f)'
      BY <1>2 DEF Shown
    <3>2. InChunk(f) => InChunk(f)'
      BY <1>1, <2>2, <2>3 DEF InChunk, LoopFl
    <3>3. ~InBatch(f)
      BY <2>2 DEF InBatch, LoopFl
    <3> QED BY <1>1, <2>1, <3>1, <3>2, <3>3 DEF Reads
  <2>5. Forgets(f) => Forgets(f)'
    BY <1>1, <1>2, <2>1, <2>2 DEF Forgets, LoopFl
  <2> QED BY <1>1, <1>2, <2>4, <2>5 DEF FileFollows
<1> QED BY <1>3, <1>4, <1>5 DEF TimerFires

\* One path of a batch.  The directory that drops the file comes before it.
LEMMA FileApplied ==
  ASSUME TypeOK, Rest, Control, Refreshed, NEW f \in Files, FileFollows(f),
         NEW x \in Flushers, NEW p \in Paths, Apply(x, p)
  PROVE  FileFollows(f)'
<1> DEFINE new == [s \in Slots |-> IF s = p /\ s \in Files /\ fl[x].batch[p] = "write"
                                   THEN Seen(disk[s]) ELSE None]
<1>1. /\ UNCHANGED <<disk, loop, queue, walking, dirty, present>> /\ f \in Paths /\ f \in Slots
      /\ blind \subseteq blind' /\ p \in fl[x].todo /\ Holder(p) \cap fl[x].todo = {}
      /\ disk \in [Files -> Contents \cup {None}] /\ Holder(f) \subseteq Dirs
      /\ fl \in [Flushers -> FlushStates] /\ "loop" \in Flushers
  BY DEF Apply, First, loopVars, TypeOK, TreeTypes, FlushTypes, Flushers, Paths, Slots, Holder
<1>2. Ahead' = Ahead /\ (Overdue(f)' <=> Overdue(f))
  BY <1>1, AheadStands
<1>3. PICK b : fl' = [fl EXCEPT ![x].todo = @ \ {p}, ![x].changed = b]
  BY DEF Apply
<1>4. /\ fl'["loop"].todo = IF x = "loop" THEN fl["loop"].todo \ {p} ELSE fl["loop"].todo
      /\ fl'["loop"].batch = fl["loop"].batch /\ fl'["loop"].resync = fl["loop"].resync
  <2>1. CASE x = "loop"
    <3>1. fl'[x] = [fl[x] EXCEPT !.todo = @ \ {p}, !.changed = b]
      BY <1>1, <1>3
    <3>2. fl[x] \in FlushStates
      BY <1>1
    <3> QED BY <2>1, <3>1, <3>2 DEF FlushStates
  <2>2. CASE x # "loop"
    BY <1>1, <1>3, <2>2
  <2> QED BY <2>1, <2>2
<1>5. f \in Under(p) <=> p \in {f} \cup Holder(f)
  BY <1>1 DEF Under, Holder
<1>6. chunks'[f] = IF p = f THEN (IF fl[x].batch[f] = "write" THEN Seen(disk[f]) ELSE None)
                   ELSE IF p \in Holder(f) THEN None ELSE chunks[f]
  <2>1. chunks' = Replaced(chunks, Under(p), new)
    BY DEF Apply
  <2> QED BY <1>1, <1>5, <2>1 DEF Replaced
<1>7. disk[f] = None => Seen(disk[f]) = None
  BY DEF Seen, Indexable
<1>8. disk[f] \in Contents \ Oversized => Seen(disk[f]) = disk[f]
  BY DEF Seen, Indexable
<1>9. Shown(f)' <=> Shown(f)
  BY <1>2 DEF Shown
<1>10. Spared(f)' <=> Spared(f)
  BY <1>1 DEF Spared
<1> SUFFICES ASSUME loop # "gone", f \notin blind'
             PROVE  /\ disk[f] \in Contents \ Oversized => ~Overdue(f)' /\ Reads(f)'
                    /\ disk[f] = None => Forgets(f)'
  BY <1>1 DEF FileFollows
<1>11. /\ disk[f] \in Contents \ Oversized => ~Overdue(f) /\ Reads(f)
       /\ disk[f] = None => Forgets(f)
  BY <1>1 DEF FileFollows
<1>12. CASE p \in {f} \cup Holder(f) /\ disk[f] = None
  <2>1. chunks'[f] = None
    BY <1>6, <1>7, <1>12
  <2> QED BY <1>12, <2>1 DEF Forgets
<1>13. CASE p \notin {f} \cup Holder(f)
  <2>1. chunks'[f] = chunks[f]
    BY <1>6, <1>13
  <2>2. \A q \in {f} \cup Holder(f) : q \in fl'["loop"].todo <=> q \in fl["loop"].todo
    BY <1>4, <1>13
  <2>3. Reads(f) => Reads(f)'
    BY <1>1, <1>4, <1>9, <1>10, <2>1, <2>2 DEF Reads, InBatch, InChunk, LoopFl
  <2>4. Forgets(f) => Forgets(f)'
    BY <1>1, <1>2, <1>4, <2>1, <2>2 DEF Forgets, LoopFl
  <2> QED BY <1>2, <1>11, <2>3, <2>4
<1>14. CASE p \in {f} \cup Holder(f) /\ disk[f] \in Contents \ Oversized
  <2>1. fl[x].batch[p] # None /\ fl[x].batch[p] \in {"write", "remove", None}
    BY <1>1 DEF Rest, FlushStates, Batches
  <2>2. Shown(f) \/ walking \in Holder(f) \cup {Root} \/ dirty[f] = "write" => Reads(f)'
    BY <1>1, <1>9 DEF Reads
  <2>3. CASE x = "loop" /\ p = f
    <3>1. ASSUME InBatch(f) \/ InChunk(f) PROVE InChunk(f)'
      <4>1. Spared(f) /\ fl["loop"].batch[f] = "write"
        BY <1>1, <2>1, <2>3, <3>1 DEF InBatch, InChunk, LoopFl
      <4>2. chunks'[f] = disk[f]
        BY <1>6, <1>8, <1>14, <2>3, <4>1
      <4>3. \A q \in {f} \cup Holder(f) : q \notin fl'["loop"].todo
        BY <1>1, <1>4, <2>3 DEF Holder
      <4> QED BY <1>1, <1>4, <1>10, <4>1, <4>2, <4>3 DEF InChunk, LoopFl
    <3> QED BY <1>2, <1>11, <1>14, <2>2, <3>1 DEF Reads
  <2>4. CASE x = "loop" /\ p \in Holder(f)
    <3>1. p # f /\ p \notin Files
      BY <1>1, <2>4
    <3>2. fl["loop"].batch[p] = "remove"
      BY <2>1, <2>4, <3>1 DEF Rest
    <3>3. ~InChunk(f)
      BY <1>1, <2>4, <3>2 DEF InChunk, LoopFl
    <3>4. InBatch(f) => InBatch(f)'
      BY <1>1, <1>4, <1>10, <3>1 DEF InBatch, LoopFl
    <3> QED BY <1>2, <1>11, <1>14, <2>2, <3>3, <3>4 DEF Reads
  <2>5. CASE x = "refresh"
    <3>1. p = f
      BY <1>1, <1>14, <2>5 DEF Refreshed
    <3>2. fl[x].batch[f] = "write"
      <4>1. f \notin Overtaken(x, p)
        BY DEF Apply
      <4> QED BY <1>14, <2>1, <2>5, <3>1, <4>1 DEF Overtaken
    <3>3. chunks'[f] = disk[f]
      BY <1>6, <1>8, <1>14, <3>1, <3>2
    <3>4. fl'["loop"].todo = fl["loop"].todo
      BY <1>1, <1>4, <2>5
    <3>5. (InBatch(f) => InBatch(f)') /\ (InChunk(f) => InChunk(f)')
      BY <1>1, <1>4, <1>10, <3>3, <3>4 DEF InBatch, InChunk, LoopFl
    <3> QED BY <1>2, <1>11, <1>14, <2>2, <3>5 DEF Reads
  <2> QED BY <1>14, <2>3, <2>4, <2>5 DEF Flushers
<1> QED BY <1>1, <1>12, <1>13, <1>14

\* What the end of a flush does to the chunks of files.
LEMMA FileMissed ==
  ASSUME TypeOK, NEW x \in Flushers, Finish(x), NEW f \in Files
  PROVE  chunks'[f] = IF f \in Missed(x) THEN None ELSE chunks[f]
<1>1. f \notin Touched(x) /\ (f \in Vanished(x) <=> f \in Missed(x)) /\ f \in Slots
  BY DEF Touched, Vanished, TypeOK, CorpusTypes, Slots
<1>2. PICK lost \in SUBSET Misnamed(x) :
        chunks' = Replaced(chunks, Touched(x) \cup Vanished(x),
                           [s \in Slots |-> IF s \in Touched(x) \ lost THEN Fold(s) ELSE None])
  BY DEF Finish
<1> QED BY <1>1, <1>2 DEF Replaced

\* The end of a flush: only what the resync missed is dropped.
LEMMA FileFinished ==
  ASSUME TypeOK, Refreshed, NEW f \in Files, FileFollows(f), NEW x \in Flushers, Finish(x)
  PROVE  FileFollows(f)'
<1>1. /\ UNCHANGED <<disk, blind, loop, queue, walking, dirty, present>>
      /\ fl \in [Flushers -> FlushStates] /\ "loop" \in Flushers /\ fl[x].todo = {}
      /\ fl' = [fl EXCEPT ![x] = IF x = "loop" THEN [Idle EXCEPT !.pc = "done"] ELSE Idle]
  BY DEF Finish, treeVars, loopVars, TypeOK, FlushTypes, Flushers
<1>2. Ahead' = Ahead /\ (Overdue(f)' <=> Overdue(f))
  BY <1>1, AheadStands
<1>3. chunks'[f] = IF f \in Missed(x) THEN None ELSE chunks[f]
  BY FileMissed
<1>4. CASE x = "refresh"
  <2>1. Missed(x) = {} /\ fl'["loop"] = fl["loop"]
    BY <1>1, <1>4 DEF Missed, Refreshed
  <2> QED BY <1>1, <1>2, <1>3, <2>1, FileStands DEF FileStill
<1>5. CASE x = "loop"
  <2>1. fl'["loop"].todo = {} /\ fl'["loop"].resync = NoResync
    BY <1>1, <1>5 DEF Idle
  <2>2. Spared(f) => Spared(f)'
    BY <1>1 DEF Spared
  <2>3. Reads(f) => Reads(f)'
    <3>1. Shown(f) => Shown(f)'
      BY <1>2 DEF Shown
    <3>2. ~InBatch(f)
      BY <1>1, <1>5 DEF InBatch, LoopFl
    <3>3. ASSUME InChunk(f) PROVE InChunk(f)'
      <4>1. f \notin Missed(x)
        BY <1>5, <3>3 DEF InChunk, Missed, LoopFl
      <4> QED BY <1>1, <1>3, <2>1, <2>2, <3>3, <4>1 DEF InChunk, LoopFl
    <3> QED BY <1>1, <3>1, <3>2, <3>3 DEF Reads
  <2>4. Forgets(f) => Forgets(f)'
    <3>1. ASSUME LoopFl.resync # NoResync, f \notin LoopFl.resync, LoopFl.batch[f] = None
          PROVE  chunks'[f] = None
      <4>1. f \in Missed(x)
        BY <1>5, <3>1 DEF Missed, LoopFl
      <4> QED BY <1>3, <4>1
    <3>2. chunks[f] = None => chunks'[f] = None
      BY <1>3
    <3> QED BY <1>1, <1>2, <1>5, <3>1, <3>2 DEF Forgets, LoopFl
  <2> QED BY <1>1, <1>2, <2>3, <2>4 DEF FileFollows
<1> QED BY <1>4, <1>5 DEF Flushers

\* The steps that mark no path, hand over no batch and change no chunk.
Aside == \/ StartWatch \/ LoopExit \/ (\E g \in RefreshSet : Refresh(g))
         \/ (\E x \in Flushers : Acquire(x))
         \/ WarmStart \/ WarmFinish \/ WarmAbort \/ CloseCall \/ CloseReturn
         \/ (\E x \in ExtraSets \cup {None} : SetExtraChunks(x))
         \/ (\E r \in Rerankers \cup {None} : SetReranker(r)) \/ UNCHANGED vars

\* They leave the tree, the loop's state and the batch alone.
LEMMA AsideStill ==
  ASSUME TypeOK, Aside
  PROVE  /\ UNCHANGED <<disk, blind, queue, walking, dirty, present, chunks>>
         /\ loop # "gone" \/ loop' = "gone"
         /\ fl'["loop"].todo = fl["loop"].todo /\ fl'["loop"].batch = fl["loop"].batch
         /\ fl'["loop"].resync = fl["loop"].resync
         /\ fl["loop"].pc \in {"lock", "apply"} => fl'["loop"].pc \in {"lock", "apply"}
<1>1. UNCHANGED <<disk, blind, queue, walking, dirty, present, chunks>>
  <2>1. CASE StartWatch \/ LoopExit
    BY <2>1 DEF StartWatch, LoopExit, treeVars, corpusVars
  <2>2. CASE (\E g \in RefreshSet : Refresh(g)) \/ \E x \in Flushers : Acquire(x)
    BY <2>2 DEF Refresh, Acquire, treeVars, loopVars, corpusVars
  <2>3. CASE \/ WarmStart \/ WarmFinish \/ WarmAbort \/ CloseCall \/ CloseReturn
             \/ (\E x \in ExtraSets \cup {None} : SetExtraChunks(x))
             \/ (\E r \in Rerankers \cup {None} : SetReranker(r)) \/ UNCHANGED vars
    BY <2>3 DEF WarmStart, WarmFinish, WarmAbort, CloseCall, CloseReturn, SetExtraChunks,
                SetReranker, vars, treeVars, loopVars, corpusVars
  <2> QED BY <2>1, <2>2, <2>3 DEF Aside
<1>2. loop # "gone" \/ loop' = "gone"
  <2>1. CASE StartWatch \/ LoopExit
    BY <2>1 DEF StartWatch, LoopExit
  <2>2. CASE ~(StartWatch \/ LoopExit)
    BY <2>2 DEF Aside, Refresh, Acquire, WarmStart, WarmFinish, WarmAbort, CloseCall, CloseReturn,
                SetExtraChunks, SetReranker, vars, loopVars
  <2> QED BY <2>1, <2>2 DEF Aside
<1>3. /\ fl'["loop"].todo = fl["loop"].todo /\ fl'["loop"].batch = fl["loop"].batch
      /\ fl'["loop"].resync = fl["loop"].resync
      /\ fl["loop"].pc \in {"lock", "apply"} => fl'["loop"].pc \in {"lock", "apply"}
  <2>1. fl \in [Flushers -> FlushStates] /\ "loop" \in Flushers
    BY DEF TypeOK, FlushTypes, Flushers
  <2>2. CASE \E g \in RefreshSet : Refresh(g)
    BY <2>1, <2>2 DEF Refresh
  <2>3. ASSUME NEW x \in Flushers, Acquire(x)
        PROVE  /\ fl'["loop"].todo = fl["loop"].todo /\ fl'["loop"].batch = fl["loop"].batch
               /\ fl'["loop"].resync = fl["loop"].resync
               /\ fl["loop"].pc \in {"lock", "apply"} => fl'["loop"].pc \in {"lock", "apply"}
    BY <2>1, <2>3 DEF Acquire, FlushStates
  <2>4. CASE fl' = fl
    BY <2>4
  <2> QED BY <2>2, <2>3, <2>4 DEF Aside, StartWatch, LoopExit, WarmStart, WarmFinish, WarmAbort,
             CloseCall, CloseReturn, SetExtraChunks, SetReranker, vars
<1> QED BY <1>1, <1>2, <1>3

\* The other steps are not about files.
LEMMA FileOthers ==
  ASSUME TypeOK, NEW f \in Files, FileFollows(f), Aside
  PROVE  FileFollows(f)'
<1>1. Ahead' = Ahead /\ (Overdue(f)' <=> Overdue(f))
  BY AsideStill, AheadStands
<1> QED BY <1>1, AsideStill, FileStands DEF FileStill

\* Every step keeps every file followed.
LEMMA FilesNext ==
  ASSUME TypeOK, Control, Refreshed, Ground, Rest, FilesFollow, [Next]_vars
  PROVE  FilesFollow'
<1> SUFFICES ASSUME NEW f \in Files PROVE FileFollows(f)'
  BY DEF FilesFollow
<1>1. FileFollows(f)
  BY DEF FilesFollow
<1>2. CASE Edit
  BY <1>1, <1>2, FileEdited, FileOut, FileIn DEF Edit
<1>3. CASE HandleEvent
  <2>1. Take \/ WalkDir \/ WalkRoot
    BY <1>3 DEF HandleEvent, HandleRemove, HandleDir, HandleWrite, HandleOverflow
  <2> QED BY <1>1, <1>3, <2>1, FileHandled, FileWalked
<1>4. CASE TimerFires \/ FlushDone
  BY <1>1, <1>4, FileTimer
<1>5. ASSUME NEW x \in Flushers, Flush(x), ~Acquire(x) PROVE FileFollows(f)'
  BY <1>1, <1>5, FileApplied, FileFinished DEF Flush
<1> QED BY <1>1, <1>2, <1>3, <1>4, <1>5, FileOthers DEF Next, Aside

-----------------------------------------------------------------------------
(* Migration directories.                                                     *)

\* What is still to be done for a directory's folded chunk: a file of it will be
\* marked or is in a batch, so that it is folded again; or it is empty, and a
\* removal or a resync will drop it.
Refolds(d) ==
  \E f \in In[d] :
    \/ \E e \in Ahead : e.op = "remove" /\ e.path = f
    \/ disk[f] # None /\ (Shown(f) \/ walking \in {d, Root})
    \/ dirty[f] # None
    \/ LoopFl.pc \in {"lock", "apply"} /\ LoopFl.batch[f] # None
Empties(d) ==
  /\ \A f \in In[d] : disk[f] = None
  /\ \/ \E e \in Ahead : e = Overflow \/ (e.op = "remove" /\ e.path = d)
     \/ walking = Root
     \/ dirty[d] # None \/ d \in LoopFl.todo
     \/ present # NoResync /\ In[d] \cap present = {}
     \/ LoopFl.resync # NoResync /\ In[d] \cap LoopFl.resync = {}

\* The files of the directory are all ones the loop can follow.
Followed(d) == /\ loop # "gone" /\ In[d] \cap blind = {}
               /\ \A f \in In[d] : disk[f] \notin Oversized

DirFollows(d) == Followed(d) => chunks[d] = Fold(d) \/ Refolds(d) \/ Empties(d)
DirsFollow == \A d \in migDirs : DirFollows(d)

\* An empty directory folds to nothing.
LEMMA FoldEmpty ==
  ASSUME NEW d \in Dirs, \A f \in In[d] : disk[f] = None
  PROVE  Fold(d) = None
<1>1. {f \in In[d] : disk[f] # None} = {}
  OBVIOUS
<1>2. Cardinality({}) = 0
  BY FS_EmptySet
<1> QED BY <1>1, <1>2 DEF Fold, IsMigrationDir

\* A fold depends on the directory's files only.
LEMMA FoldStands ==
  ASSUME NEW d \in Dirs, \A f \in In[d] : disk'[f] = disk[f]
  PROVE  Fold(d)' = Fold(d)
<1>1. {f \in In[d] : disk'[f] # None} = {f \in In[d] : disk[f] # None}
  OBVIOUS
<1>2. [f \in In[d] |-> disk'[f]] = [f \in In[d] |-> disk[f]]
  OBVIOUS
<1> QED BY <1>1, <1>2 DEF Fold, IsMigrationDir

\* A step that is not about the directory.
DirStill(d) ==
  /\ Followed(d)' => Followed(d)
  /\ \A f \in In[d] : disk'[f] = disk[f]
  /\ chunks'[d] = chunks[d]
  /\ Ahead \subseteq Ahead'
  /\ UNCHANGED <<walking, dirty, present>>
  /\ fl'["loop"].todo = fl["loop"].todo /\ fl'["loop"].batch = fl["loop"].batch
  /\ fl'["loop"].resync = fl["loop"].resync
  /\ fl["loop"].pc \in {"lock", "apply"} => fl'["loop"].pc \in {"lock", "apply"}

\* A step that is not about a directory leaves it followed.
LEMMA DirStands ==
  ASSUME NEW d \in Dirs, DirFollows(d), DirStill(d)
  PROVE  DirFollows(d)'
<1>1. \A f : Shown(f) => Shown(f)'
  BY DEF DirStill, Shown
<1>2. Refolds(d) => Refolds(d)'
  BY <1>1 DEF DirStill, Refolds, LoopFl
<1>3. Empties(d) => Empties(d)'
  BY DEF DirStill, Empties, LoopFl
<1>4. Fold(d)' = Fold(d)
  BY FoldStands DEF DirStill
<1> QED BY <1>2, <1>3, <1>4 DEF DirFollows, DirStill

\* The build has folded every migration directory it knows.
LEMMA DirsInit == Init => DirsFollow
<1> SUFFICES ASSUME Init, NEW d \in migDirs PROVE chunks[d] = Fold(d)
  BY DEF DirsFollow, DirFollows
<1>1. d \in SqlDirs /\ d \in Slots /\ d \notin Files
  BY DEF Init, Slots
<1> QED BY <1>1 DEF Init, Walked

\* A file is edited.
LEMMA DirEdited ==
  ASSUME TypeOK, Ground, NEW d \in migDirs, DirFollows(d), NEW g \in Files,
         NEW c \in Contents \cup {None}, EditFile(g, c)
  PROVE  DirFollows(d)'
<1> DEFINE e == [op |-> IF c = None THEN "remove" ELSE "write", path |-> g]
<1>1. /\ e \in Records /\ disk' = [disk EXCEPT ![g] = c] /\ Holder(g) \subseteq dirs /\ d \in Dirs
      /\ UNCHANGED <<watched, loop, walking, dirty, present, fl, chunks>>
      /\ disk \in [Files -> Contents \cup {None}]
      /\ \A f \in Files \ {g} : f \in blind' <=> f \in blind
  BY DEF EditFile, Edited, Records, Paths, corpusVars, TypeOK, TreeTypes, CorpusTypes
<1>2. /\ Ahead \subseteq Ahead'
      /\ Watching(g) => e \in Ahead' \/ Overflow \in Ahead'
  BY <1>1, QueuedAhead, AheadStands DEF EditFile
<1>3. CASE g \notin In[d]
  <2>1. \A f \in In[d] : f \in Files \ {g}
    BY <1>1, <1>3
  <2>2. \A f \in In[d] : disk'[f] = disk[f]
    BY <1>1, <2>1
  <2>3. Followed(d)' => Followed(d)
    BY <1>1, <2>1, <2>2 DEF Followed
  <2> QED BY <1>1, <1>2, <2>2, <2>3, DirStands DEF DirStill
<1>4. CASE g \in In[d]
  <2> SUFFICES ASSUME Followed(d)' PROVE Refolds(d)' \/ Empties(d)'
    BY DEF DirFollows
  <2>1. loop = "on" /\ (c = None => Watching(g))
    BY <1>1, <1>4 DEF EditFile, Followed, TypeOK, LoopTypes
  <2>2. CASE c # None
    <3>1. disk'[g] # None
      BY <1>1, <2>2
    <3>2. \E r \in Ahead' : Shows(r, g)
      <4>1. CASE Watching(g)
        BY <1>2, <2>2, <4>1 DEF Shows
      <4>2. CASE ~Watching(g)
        <5>1. PICK h \in Holder(g) : h \in dirs \ watched
          BY <1>1, <2>1, <4>2 DEF Watching
        <5>2. PICK r \in Ahead : r = Overflow \/ (r.op = "create" /\ r.path = h)
          BY <2>1, <5>1 DEF Ground, Holder
        <5> QED BY <1>2, <5>1, <5>2 DEF Shows
      <4> QED BY <4>1, <4>2
    <3> QED BY <1>4, <3>1, <3>2 DEF Refolds, Shown
  <2>3. CASE c = None
    <3>1. CASE e \in Ahead'
      BY <1>4, <2>3, <3>1 DEF Refolds
    <3>2. CASE Overflow \in Ahead' /\ \E f \in In[d] : disk'[f] # None
      BY <3>2 DEF Refolds, Shown, Shows
    <3>3. CASE Overflow \in Ahead' /\ \A f \in In[d] : disk'[f] = None
      BY <3>3 DEF Empties
    <3> QED BY <1>2, <2>1, <2>3, <3>1, <3>2, <3>3
  <2> QED BY <2>2, <2>3
<1> QED BY <1>3, <1>4

\* A directory goes, with all its files.
LEMMA DirGone ==
  ASSUME TypeOK, Ground, NEW d \in migDirs, DirFollows(d), NEW h \in Dirs, DirOut(h)
  PROVE  DirFollows(d)'
<1> DEFINE e == [op |-> "remove", path |-> h]
<1>1. /\ e \in Records /\ disk' = [g \in Files |-> IF g \in In[h] THEN None ELSE disk[g]]
      /\ UNCHANGED <<loop, walking, dirty, present, fl, chunks>> /\ d \in Dirs
      /\ blind' = IF loop = "off" THEN blind \cup In[h] ELSE blind \ In[h]
  BY DEF DirOut, Records, Paths, corpusVars, TypeOK, CorpusTypes
<1>2. /\ Ahead \subseteq Ahead'
      /\ loop = "on" => e \in Ahead' \/ Overflow \in Ahead'
  BY <1>1, QueuedAhead, AheadStands DEF DirOut
<1>3. CASE h # d
  <2>1. \A f \in In[d] : f \notin In[h] /\ f \in Files
    BY <1>1, <1>3
  <2>2. \A f \in In[d] : disk'[f] = disk[f] /\ (f \in blind' <=> f \in blind)
    BY <1>1, <2>1
  <2>3. Followed(d)' => Followed(d)
    BY <1>1, <2>2 DEF Followed
  <2> QED BY <1>1, <1>2, <2>2, <2>3, DirStands DEF DirStill
<1>4. CASE h = d
  <2> SUFFICES ASSUME Followed(d)' PROVE Empties(d)'
    BY DEF DirFollows
  <2>1. loop = "on"
    BY <1>1, <1>4 DEF Followed, Ground, TypeOK, LoopTypes
  <2>2. \A f \in In[d] : disk'[f] = None
    BY <1>1, <1>4
  <2> QED BY <1>2, <1>4, <2>1, <2>2 DEF Empties
<1> QED BY <1>3, <1>4

\* A directory comes.
LEMMA DirCame ==
  ASSUME TypeOK, Ground, NEW d \in migDirs, DirFollows(d), NEW h \in Dirs, DirIn(h)
  PROVE  DirFollows(d)'
<1> DEFINE e == [op |-> "create", path |-> h]
<1>1. /\ e \in Records /\ h \notin dirs /\ d \in Dirs
      /\ UNCHANGED <<loop, walking, dirty, present, fl, chunks>>
  BY DEF DirIn, Edited, Records, corpusVars, TypeOK, CorpusTypes
<1>2. PICK c \in Contents \cup {None} : disk' = [g \in Files |-> IF g \in In[h] THEN c ELSE disk[g]]
  BY DEF DirIn
<1>3. /\ Ahead \subseteq Ahead'
      /\ loop = "on" => e \in Ahead' \/ Overflow \in Ahead'
  BY <1>1, QueuedAhead, AheadStands DEF DirIn
<1>4. blind' = IF loop = "off" THEN blind \cup In[h]
               ELSE (blind \ {g \in In[h] : disk'[g] # None})
                    \cup {g \in {x \in In[h] : disk'[x] # None} : Late(g, queue')}
  BY DEF DirIn
<1>5. CASE h # d \/ c = None
  <2>1. \A f \in In[d] : f \in Files /\ (h # d => f \notin In[h])
    BY <1>1
  <2>2. \A f \in In[d] : disk'[f] = disk[f]
    BY <1>1, <1>2, <1>5, <2>1 DEF Ground
  <2>3. \A f \in In[d] : f \in blind => f \in blind'
    BY <1>2, <1>4, <1>5, <2>1
  <2>4. Followed(d)' => Followed(d)
    BY <1>1, <2>2, <2>3 DEF Followed
  <2> QED BY <1>1, <1>3, <2>2, <2>4, DirStands DEF DirStill
<1>6. CASE h = d /\ c # None
  <2> SUFFICES ASSUME Followed(d)' PROVE Refolds(d)'
    BY DEF DirFollows
  <2>1. PICK f \in In[d] : f \in Files
    BY <1>1 DEF Ground
  <2>2. disk'[f] # None
    BY <1>2, <1>6, <2>1
  <2>3. loop = "on"
    BY <1>1, <1>4, <1>6, <2>1 DEF Followed, TypeOK, LoopTypes
  <2>4. Shows(e, f) /\ Shows(Overflow, f)
    BY <1>6, <2>1 DEF Shows, Holder
  <2> QED BY <1>3, <2>2, <2>3, <2>4 DEF Refolds, Shown
<1> QED BY <1>5, <1>6

\* A handler takes a record.
LEMMA DirHandled ==
  ASSUME TypeOK, Ground, NEW d \in migDirs, DirFollows(d), HandleEvent, Take
  PROVE  DirFollows(d)'
<1> DEFINE h == Head(queue)
<1>1. h \in Records /\ Ahead \subseteq {h} \cup Ahead'
  BY TakeAhead
<1>2. /\ UNCHANGED <<disk, dirs, blind, loop, fl, chunks>> /\ d \in Dirs /\ d \in Paths
      /\ disk \in [Files -> Contents \cup {None}] /\ In[d] \subseteq Files /\ In[d] \subseteq Paths
  BY DEF HandleEvent, treeVars, corpusVars, TypeOK, TreeTypes, CorpusTypes, Paths
<1> HIDE DEF h
<1>3. Fold(d)' = Fold(d) /\ (Followed(d)' <=> Followed(d))
  BY <1>2, FoldStands DEF Followed
<1> SUFFICES ASSUME Followed(d)
             PROVE  /\ Refolds(d) => Refolds(d)' \/ Empties(d)'
                    /\ Empties(d) => Refolds(d)' \/ Empties(d)'
  BY <1>2, <1>3 DEF DirFollows
<1>4. \A f \in In[d] : ~Shows(h, f) /\ Shown(f) => Shown(f)'
  BY <1>1 DEF Shown
<1>5. CASE HandleRemove
  <2>1. /\ walking' = walking /\ present' = present /\ h.op = "remove"
        /\ dirty' = [p \in Paths |-> IF p = h.path THEN "remove" ELSE dirty[p]]
    BY <1>5 DEF HandleRemove, Mark, h
  <2>2. h # Overflow /\ \A f \in In[d] : ~Shows(h, f)
    BY <2>1 DEF Shows, Overflow
  <2>3. \A p \in Paths : dirty[p] # None \/ p = h.path => dirty'[p] # None
    BY <2>1
  <2>4. Refolds(d) => Refolds(d)'
    BY <1>1, <1>2, <1>4, <2>1, <2>2, <2>3 DEF Refolds, LoopFl
  <2>5. Empties(d) => Empties(d)'
    BY <1>1, <1>2, <2>1, <2>2, <2>3 DEF Empties, LoopFl
  <2> QED BY <2>4, <2>5
<1>6. CASE HandleDir
  <2>1. /\ walking = None /\ UNCHANGED <<dirty, present>> /\ h.op = "create"
        /\ h.path \in dirs => walking' = h.path
        /\ h.path \notin dirs => walking' = walking
    BY <1>6 DEF HandleDir, Running, h
  <2>2. h # Overflow
    BY <2>1 DEF Overflow
  <2>3. ASSUME NEW f \in In[d], disk[f] # None, Shows(h, f) PROVE walking' = d
    <3>1. h.path \in Dirs /\ f \in In[h.path]
      BY <2>1, <2>3 DEF Shows, Overflow, Holder
    <3>2. h.path = d
      BY <1>2, <3>1
    <3>3. d \in dirs
      BY <1>2, <2>3 DEF Ground
    <3> QED BY <2>1, <3>2, <3>3
  <2>4. walking # d /\ walking # Root
    BY <1>2, <2>1
  <2>5. Refolds(d) => Refolds(d)'
    BY <1>1, <1>2, <1>4, <2>1, <2>3, <2>4 DEF Refolds, LoopFl
  <2>6. Empties(d) => Empties(d)'
    BY <1>1, <1>2, <2>1, <2>2, <2>4 DEF Empties, LoopFl
  <2> QED BY <2>5, <2>6
<1>7. CASE HandleWrite
  <2>1. /\ walking' = walking /\ present' = present /\ h.op = "write"
        /\ dirty' = IF Indexable(disk[h.path])
                    THEN [p \in Paths |-> IF p = h.path THEN "write" ELSE dirty[p]] ELSE dirty
    BY <1>7 DEF HandleWrite, Mark, h
  <2>2. h # Overflow
    BY <2>1 DEF Overflow
  <2>3. \A p \in Paths : dirty[p] # None => dirty'[p] # None
    BY <2>1
  <2>4. ASSUME NEW f \in In[d], disk[f] # None, Shows(h, f) PROVE dirty'[f] # None
    <3>1. h.path = f
      BY <2>1, <2>4 DEF Shows, Overflow
    <3>2. Indexable(disk[f])
      BY <1>2, <2>4 DEF Indexable, Followed
    <3> QED BY <1>2, <2>1, <3>1, <3>2
  <2>5. Refolds(d) => Refolds(d)'
    BY <1>1, <1>2, <1>4, <2>1, <2>3, <2>4 DEF Refolds, LoopFl
  <2>6. Empties(d) => Empties(d)'
    BY <1>1, <1>2, <2>1, <2>2, <2>3 DEF Empties, LoopFl
  <2> QED BY <2>5, <2>6
<1>8. CASE HandleOverflow
  <2>1. walking' = Root /\ UNCHANGED <<dirty, present>> /\ h.op = "overflow"
    BY <1>8 DEF HandleOverflow, h
  <2>2. Empties(d) => Empties(d)'
    BY <1>2, <2>1 DEF Empties
  <2>3. Refolds(d) => Refolds(d)'
    BY <1>1, <1>2, <2>1 DEF Refolds, LoopFl
  <2> QED BY <2>2, <2>3
<1>9. ~WalkDir /\ ~WalkRoot
  <2>1. queue' # queue
    BY DEF Take, TypeOK, LoopTypes
  <2> QED BY <2>1 DEF WalkDir, WalkRoot
<1> QED BY <1>5, <1>6, <1>7, <1>8, <1>9 DEF HandleEvent

\* A walk marks the files it finds, or finds the directory empty.
LEMMA DirWalked ==
  ASSUME TypeOK, NEW d \in migDirs, DirFollows(d), HandleEvent, WalkDir \/ WalkRoot
  PROVE  DirFollows(d)'
<1> DEFINE found == {g \in IF walking = Root THEN Files ELSE In[walking] : Indexable(disk[g])}
<1>1. /\ UNCHANGED <<disk, blind, loop, fl, chunks, queue>> /\ walking' = None
      /\ walking \in Dirs \cup {Root}
      /\ present' = IF walking = Root THEN found ELSE present
      /\ dirty' = [p \in Paths |-> IF p \in found THEN "write" ELSE dirty[p]]
  BY DEF HandleEvent, WalkDir, WalkRoot, Mark, treeVars, corpusVars
<1>2. /\ d \in Dirs /\ d \in Paths /\ disk \in [Files -> Contents \cup {None}]
      /\ In[d] \subseteq Files /\ In[d] \subseteq Paths
  BY DEF TypeOK, TreeTypes, CorpusTypes, Paths
<1>3. Ahead' = Ahead
  BY <1>1, AheadStands
<1>4. Fold(d)' = Fold(d) /\ (Followed(d)' <=> Followed(d))
  BY <1>1, <1>2, FoldStands DEF Followed
<1> SUFFICES ASSUME Followed(d)
             PROVE  (Refolds(d) => Refolds(d)') /\ (Empties(d) => Empties(d)')
  BY <1>1, <1>4 DEF DirFollows
<1>5. \A p \in Paths : dirty[p] # None => dirty'[p] # None
  BY <1>1
<1>6. \A f \in In[d] : Shown(f) => Shown(f)'
  BY <1>3 DEF Shown
<1>7. ASSUME NEW f \in In[d], disk[f] # None, walking \in {d, Root} PROVE dirty'[f] # None
  <2>1. Indexable(disk[f])
    BY <1>2, <1>7 DEF Indexable, Followed
  <2> QED BY <1>1, <1>2, <1>7, <2>1
<1>8. Refolds(d) => Refolds(d)'
  BY <1>1, <1>2, <1>3, <1>5, <1>6, <1>7 DEF Refolds, LoopFl
<1>9. ASSUME Empties(d) PROVE Empties(d)'
  <2>1. CASE walking = Root
    <3>1. In[d] \cap found = {}
      BY <1>9 DEF Empties, Indexable
    <3>2. found \in SUBSET Files
      BY <2>1
    <3>3. present' # NoResync /\ In[d] \cap present' = {}
      BY <1>1, <2>1, <3>1, <3>2 DEF NoResync
    <3> QED BY <1>1, <1>9, <3>3 DEF Empties
  <2>2. CASE walking # Root
    BY <1>1, <1>2, <1>3, <1>5, <1>9, <2>2 DEF Empties, LoopFl
  <2> QED BY <2>1, <2>2
<1> QED BY <1>8, <1>9

\* The timer hands the marks over, and the loop collects a flush that is over.
LEMMA DirTimer ==
  ASSUME TypeOK, Rest, NEW d \in migDirs, DirFollows(d), TimerFires \/ FlushDone
  PROVE  DirFollows(d)'
<1>1. /\ UNCHANGED <<disk, blind, loop, chunks, queue, walking>>
      /\ fl \in [Flushers -> FlushStates] /\ "loop" \in Flushers
      /\ d \in Dirs /\ d \in Paths /\ In[d] \subseteq Paths
  BY DEF TimerFires, FlushDone, treeVars, corpusVars, TypeOK, FlushTypes, CorpusTypes, Flushers,
         Paths
<1>2. Ahead' = Ahead /\ \A f \in In[d] : Shown(f)' <=> Shown(f)
  BY <1>1, AheadStands DEF Shown
<1>3. Fold(d)' = Fold(d) /\ (Followed(d)' <=> Followed(d))
  BY <1>1, FoldStands DEF Followed
<1>4. CASE TimerFires /\ FireIdle
  BY <1>1, <1>2, <1>3, <1>4, DirStands DEF DirStill, FireIdle
<1>5. CASE TimerFires /\ FireFlush
  <2>1. /\ fl["loop"].pc = "idle" /\ dirty' = [p \in Paths |-> None] /\ present' = NoResync
        /\ fl' = [fl EXCEPT !["loop"] = [pc |-> "lock", batch |-> dirty, resync |-> present,
                                         todo |-> Dirty, changed |-> FALSE]]
    BY <1>5 DEF FireFlush
  <2>2. /\ fl'["loop"].batch = dirty /\ fl'["loop"].resync = present /\ fl'["loop"].todo = Dirty
        /\ fl'["loop"].pc = "lock"
        /\ fl["loop"].todo = {} /\ fl["loop"].resync = NoResync
    BY <1>1, <2>1 DEF Rest
  <2>3. Refolds(d) => Refolds(d)'
    BY <1>1, <1>2, <2>1, <2>2 DEF Refolds, LoopFl
  <2>4. dirty[d] # None => d \in fl'["loop"].todo
    BY <1>1, <2>2 DEF Dirty
  <2>5. Empties(d) => Empties(d)'
    BY <1>1, <1>2, <2>2, <2>4 DEF Empties, LoopFl
  <2> QED BY <1>1, <1>3, <2>3, <2>5 DEF DirFollows
<1>6. CASE FlushDone
  <2>1. /\ fl["loop"].pc = "done" /\ UNCHANGED <<dirty, present>>
        /\ fl' = [fl EXCEPT !["loop"] = Idle]
    BY <1>6 DEF FlushDone
  <2>2. fl["loop"].todo = {} /\ fl["loop"].resync = NoResync
    BY <2>1 DEF Rest
  <2>3. Refolds(d) => Refolds(d)'
    BY <1>1, <1>2, <2>1 DEF Refolds, LoopFl
  <2>4. Empties(d) => Empties(d)'
    BY <1>1, <1>2, <2>1, <2>2 DEF Empties, LoopFl
  <2> QED BY <1>1, <1>3, <2>3, <2>4 DEF DirFollows
<1> QED BY <1>4, <1>5, <1>6 DEF TimerFires

\* A file that is there and whose chunk a flush drops has a record, a walk or a
\* mark to come: the directory will be folded again.
LEMMA FileOwed ==
  ASSUME TypeOK, FilesFollow, NEW d \in migDirs, Followed(d), NEW g \in In[d], disk[g] # None,
         ~InBatch(g), ~InChunk(g)
  PROVE  \/ disk[g] # None /\ (Shown(g) \/ walking \in {d, Root})
         \/ dirty[g] # None
<1>1. d \in Dirs /\ g \in Files /\ disk[g] \in Contents \ Oversized /\ g \notin blind
  BY DEF Followed, TypeOK, TreeTypes, CorpusTypes
<1>2. Reads(g)
  BY <1>1 DEF FilesFollow, FileFollows, Followed
<1>3. Holder(g) = {d}
  BY <1>1 DEF Holder
<1> QED BY <1>2, <1>3 DEF Reads

\* One path of a batch.
LEMMA DirApplied ==
  ASSUME TypeOK, Rest, Control, Refreshed, FilesFollow, NEW d \in migDirs, DirFollows(d),
         NEW x \in Flushers, NEW p \in Paths, Apply(x, p)
  PROVE  DirFollows(d)'
<1> DEFINE new == [s \in Slots |-> IF s = p /\ s \in Files /\ fl[x].batch[p] = "write"
                                   THEN Seen(disk[s]) ELSE None]
<1>1. /\ UNCHANGED <<disk, loop, queue, walking, dirty, present>> /\ blind \subseteq blind'
      /\ p \in fl[x].todo /\ fl[x].pc = "apply"
      /\ d \in Dirs /\ d \in SqlDirs /\ d \in Slots /\ d \notin Files
      /\ fl \in [Flushers -> FlushStates] /\ "loop" \in Flushers
  BY DEF Apply, First, loopVars, TypeOK, CorpusTypes, FlushTypes, Flushers, Slots
<1>2. Ahead' = Ahead /\ \A f \in In[d] : Shown(f)' <=> Shown(f)
  BY <1>1, AheadStands DEF Shown
<1>3. PICK b : fl' = [fl EXCEPT ![x].todo = @ \ {p}, ![x].changed = b]
  BY DEF Apply
<1>4. /\ fl'["loop"].todo = IF x = "loop" THEN fl["loop"].todo \ {p} ELSE fl["loop"].todo
      /\ fl'["loop"].batch = fl["loop"].batch /\ fl'["loop"].resync = fl["loop"].resync
      /\ fl'["loop"].pc = fl["loop"].pc
  <2>1. CASE x = "loop"
    <3>1. fl'[x] = [fl[x] EXCEPT !.todo = @ \ {p}, !.changed = b]
      BY <1>1, <1>3
    <3>2. fl[x] \in FlushStates
      BY <1>1
    <3> QED BY <2>1, <3>1, <3>2 DEF FlushStates
  <2>2. CASE x # "loop"
    BY <1>1, <1>3, <2>2
  <2> QED BY <2>1, <2>2
<1>5. chunks'[d] = IF p = d THEN None ELSE chunks[d]
  <2>1. chunks' = Replaced(chunks, Under(p), new)
    BY DEF Apply
  <2>2. d \in Under(p) <=> p = d
    BY <1>1 DEF Under
  <2> QED BY <1>1, <2>1, <2>2 DEF Replaced
<1>6. Fold(d)' = Fold(d) /\ (Followed(d)' => Followed(d))
  BY <1>1, FoldStands DEF Followed
<1> SUFFICES ASSUME Followed(d)' PROVE chunks'[d] = Fold(d) \/ Refolds(d)' \/ Empties(d)'
  BY <1>6 DEF DirFollows
<1>7. Followed(d) /\ (chunks[d] = Fold(d) \/ Refolds(d) \/ Empties(d))
  BY <1>6 DEF DirFollows
<1>8. Refolds(d) => Refolds(d)'
  BY <1>1, <1>2, <1>4 DEF Refolds, LoopFl
<1>9. CASE p # d
  <2>1. Empties(d) => Empties(d)'
    BY <1>1, <1>2, <1>4, <1>9 DEF Empties, LoopFl
  <2> QED BY <1>5, <1>7, <1>8, <1>9, <2>1
<1>10. CASE p = d /\ \A f \in In[d] : disk[f] = None
  BY <1>1, <1>5, <1>10, FoldEmpty
<1>11. CASE p = d /\ \E f \in In[d] : disk[f] # None
  <2>1. PICK g \in In[d] : disk[g] # None
    BY <1>11
  <2>2. x = "loop"
    BY <1>1, <1>11 DEF Refreshed, Flushers
  <2>3. fl["loop"].batch[d] = "remove"
    <3>1. fl[x].batch[p] # None /\ fl[x].batch[p] \in {"write", "remove", None}
      BY <1>1 DEF Rest, FlushStates, Batches
    <3> QED BY <1>1, <1>11, <2>2, <3>1 DEF Rest
  <2>4. ~InChunk(g)
    <3>1. d \in Holder(g)
      BY <1>1 DEF Holder
    <3> QED BY <1>1, <1>11, <2>2, <2>3, <3>1 DEF InChunk, LoopFl
  <2>5. Refolds(d)
    <3>1. CASE InBatch(g)
      BY <1>1, <2>2, <3>1 DEF Refolds, InBatch, LoopFl
    <3>2. CASE ~InBatch(g)
      BY <1>7, <2>1, <2>4, <3>2, FileOwed DEF Refolds
    <3> QED BY <3>1, <3>2
  <2> QED BY <1>8, <2>5
<1> QED BY <1>9, <1>10, <1>11

\* The end of a flush: touched directories are folded, vanished ones dropped, and
\* a fold that a resync drops for its name has a file that is to be read again.
LEMMA DirFinished ==
  ASSUME TypeOK, Refreshed, FilesFollow, Ground, NEW d \in migDirs, DirFollows(d),
         NEW x \in Flushers, Finish(x)
  PROVE  DirFollows(d)'
<1>1. /\ UNCHANGED <<disk, blind, loop, queue, walking, dirty, present>>
      /\ fl \in [Flushers -> FlushStates] /\ "loop" \in Flushers /\ fl[x].todo = {}
      /\ fl' = [fl EXCEPT ![x] = IF x = "loop" THEN [Idle EXCEPT !.pc = "done"] ELSE Idle]
      /\ d \in Dirs /\ d \in SqlDirs /\ d \in Slots /\ In[d] \subseteq Files
  BY DEF Finish, treeVars, loopVars, TypeOK, FlushTypes, CorpusTypes, Flushers, Slots
<1>2. Ahead' = Ahead /\ \A f \in In[d] : Shown(f)' <=> Shown(f)
  BY <1>1, AheadStands DEF Shown
<1>3. Fold(d)' = Fold(d) /\ (Followed(d)' <=> Followed(d))
  BY <1>1, FoldStands DEF Followed
<1>4. PICK lost \in SUBSET Misnamed(x) :
        chunks'[d] = IF d \in Touched(x) \ lost THEN Fold(d)
                     ELSE IF d \in Touched(x) \cup Vanished(x) THEN None ELSE chunks[d]
  <2>1. PICK lost \in SUBSET Misnamed(x) :
          chunks' = Replaced(chunks, Touched(x) \cup Vanished(x),
                             [s \in Slots |-> IF s \in Touched(x) \ lost THEN Fold(s) ELSE None])
    BY DEF Finish
  <2> QED BY <1>1, <2>1 DEF Replaced
<1>5. d \in Vanished(x) <=> In[d] \subseteq Missed(x)
  BY <1>1 DEF Vanished, Missed, Ground
<1>6. d \in Touched(x) <=> \E f \in In[d] : fl[x].batch[f] # None
  BY DEF Touched
<1> SUFFICES ASSUME Followed(d) PROVE chunks'[d] = Fold(d) \/ Refolds(d)' \/ Empties(d)'
  BY <1>3 DEF DirFollows
<1>7. chunks[d] = Fold(d) \/ Refolds(d) \/ Empties(d)
  BY DEF DirFollows
<1>8. CASE x = "refresh"
  <2>1. Missed(x) = {} /\ fl'["loop"] = fl["loop"]
    BY <1>1, <1>8 DEF Missed, Refreshed
  <2>2. lost = {} /\ d \notin Vanished(x)
    BY <1>5, <2>1 DEF Misnamed, Ground
  <2>3. (Refolds(d) => Refolds(d)') /\ (Empties(d) => Empties(d)')
    BY <1>1, <1>2, <2>1 DEF Refolds, Empties, LoopFl
  <2> QED BY <1>4, <1>7, <2>2, <2>3
<1>9. CASE x = "loop"
  <2>1. ASSUME NEW g \in In[d], g \in Missed(x), disk[g] # None PROVE Refolds(d)'
    <3>1. ~InBatch(g) /\ ~InChunk(g)
      BY <1>1, <1>9, <2>1 DEF InBatch, InChunk, Missed, LoopFl
    <3> QED BY <1>1, <1>2, <2>1, <3>1, FileOwed DEF Refolds
  <2>2. CASE d \in Touched(x) \ lost
    BY <1>4, <2>2
  <2>3. CASE d \in lost
    BY <2>1, <2>3 DEF Misnamed
  <2>4. CASE d \notin Touched(x) /\ d \in Vanished(x)
    <3>1. CASE \A f \in In[d] : disk[f] = None
      BY <1>1, <1>4, <2>4, <3>1, FoldEmpty
    <3>2. CASE \E f \in In[d] : disk[f] # None
      BY <1>5, <2>1, <2>4, <3>2
    <3> QED BY <3>1, <3>2
  <2>5. CASE d \notin Touched(x) /\ d \notin Vanished(x)
    <3>1. chunks'[d] = chunks[d]
      BY <1>4, <2>5
    <3>2. Refolds(d) => Refolds(d)'
      BY <1>1, <1>2, <1>6, <1>9, <2>5 DEF Refolds, LoopFl
    <3>3. ~(LoopFl.resync # NoResync /\ In[d] \cap LoopFl.resync = {})
      BY <1>1, <1>5, <1>6, <1>9, <2>5 DEF Missed, LoopFl
    <3>4. Empties(d) => Empties(d)'
      BY <1>1, <1>2, <1>9, <3>3 DEF Empties, LoopFl
    <3> QED BY <1>7, <3>1, <3>2, <3>4
  <2> QED BY <2>2, <2>3, <2>4, <2>5
<1> QED BY <1>8, <1>9 DEF Flushers

\* The other steps are not about directories.
LEMMA DirOthers ==
  ASSUME TypeOK, NEW d \in migDirs, DirFollows(d), Aside
  PROVE  DirFollows(d)'
<1>1. Ahead' = Ahead
  BY AsideStill, AheadStands
<1>2. (Followed(d)' => Followed(d)) /\ d \in Dirs
  BY AsideStill DEF Followed, TypeOK, CorpusTypes
<1> QED BY <1>1, <1>2, AsideStill, DirStands DEF DirStill

\* Every step keeps every migration directory followed.
LEMMA DirsNext ==
  ASSUME TypeOK, Control, Refreshed, Ground, Rest, FilesFollow, DirsFollow, [Next]_vars
  PROVE  DirsFollow'
<1>1. migDirs' = migDirs
  BY DEF Next, Edit, EditFile, DirOut, DirIn, Edited, StartWatch, HandleEvent, TimerFires,
         FlushDone, LoopExit, Refresh, Flush, Acquire, Apply, Finish, WarmStart, WarmFinish,
         WarmAbort, SetExtraChunks, SetReranker, CloseCall, CloseReturn, vars, corpusVars
<1> SUFFICES ASSUME NEW d \in migDirs PROVE DirFollows(d)'
  BY <1>1 DEF DirsFollow
<1>2. DirFollows(d)
  BY DEF DirsFollow
<1>3. CASE Edit
  BY <1>2, <1>3, DirEdited, DirGone, DirCame DEF Edit
<1>4. CASE HandleEvent
  <2>1. Take \/ WalkDir \/ WalkRoot
    BY <1>4 DEF HandleEvent, HandleRemove, HandleDir, HandleWrite, HandleOverflow
  <2> QED BY <1>2, <1>4, <2>1, DirHandled, DirWalked
<1>5. CASE TimerFires \/ FlushDone
  BY <1>2, <1>5, DirTimer
<1>6. ASSUME NEW x \in Flushers, Flush(x), ~Acquire(x) PROVE DirFollows(d)'
  BY <1>2, <1>6, DirApplied, DirFinished DEF Flush
<1> QED BY <1>2, <1>3, <1>4, <1>5, <1>6, DirOthers DEF Next, Aside

-----------------------------------------------------------------------------
(* Convergence.                                                               *)

Invariant == /\ TypeOK /\ Control /\ CorpusInv /\ Refreshed
             /\ Ground /\ Rest /\ FilesFollow /\ DirsFollow

\* With nothing left to do, all that is owed is in the chunks, and they are
\* published.
LEMMA SettledConverged == Invariant => Converged
<1> SUFFICES ASSUME Invariant, Settled PROVE Converged
  BY DEF Converged
<1>1. /\ loop = "on" /\ walking = None /\ queue = <<>> /\ Dirty = {} /\ present = NoResync
      /\ \A x \in Flushers : fl[x].pc = "idle"
  BY DEF Settled
<1>2. /\ Ahead = {} /\ "loop" \in Flushers /\ \A p \in Paths : dirty[p] = None
      /\ fl["loop"].todo = {} /\ fl["loop"].resync = NoResync
  BY <1>1 DEF Ahead, Dirty, Flushers, Invariant, Rest
<1>3. pub.chunks = chunks
  <2>1. \A x \in Flushers : lock # x
    BY <1>1 DEF Invariant, Control, LockOwned
  <2>2. pub = Unioned(chunks, dense, mode, pending, extras, reranker)
    BY <2>1 DEF Invariant, CorpusInv, Written
  <2> QED BY <2>2 DEF Unioned
<1>4. ASSUME NEW f \in Files \ blind, disk[f] \notin Oversized
      PROVE  chunks[f] = Seen(disk[f])
  <2>1. FileFollows(f) /\ disk[f] \in Contents \cup {None}
    BY DEF Invariant, FilesFollow, TypeOK, TreeTypes
  <2>2. {f} \cup Holder(f) \subseteq Paths /\ Holder(f) \subseteq Dirs
    BY DEF Paths, Holder
  <2>3. CASE disk[f] # None
    <3>1. Reads(f)
      BY <1>1, <1>4, <2>1, <2>3 DEF FileFollows
    <3>2. InChunk(f)
      BY <1>1, <1>2, <2>2, <3>1 DEF Reads, Shown, InBatch, LoopFl
    <3> QED BY <1>4, <2>1, <2>3, <3>2 DEF InChunk, Seen, Indexable
  <2>4. CASE disk[f] = None
    <3>1. Forgets(f)
      BY <1>1, <1>4, <2>1, <2>4 DEF FileFollows
    <3>2. chunks[f] = None
      BY <1>1, <1>2, <2>2, <3>1 DEF Forgets, LoopFl
    <3> QED BY <2>4, <3>2 DEF Seen, Indexable
  <2> QED BY <2>3, <2>4
<1>5. ASSUME NEW d \in migDirs, In[d] \cap blind = {}, \A f \in In[d] : disk[f] \notin Oversized
      PROVE  chunks[d] = Fold(d)
  <2>1. /\ DirFollows(d) /\ Followed(d) /\ d \in Dirs /\ d \in Paths /\ In[d] \subseteq Paths
    BY <1>1, <1>5 DEF Invariant, DirsFollow, Followed, TypeOK, CorpusTypes, Paths
  <2>2. ~Refolds(d)
    BY <1>1, <1>2, <2>1 DEF Refolds, Shown, LoopFl
  <2>3. ~Empties(d)
    BY <1>1, <1>2, <2>1 DEF Empties, LoopFl
  <2> QED BY <2>1, <2>2, <2>3 DEF DirFollows
<1> QED BY <1>3, <1>4, <1>5 DEF Converged

(* Convergence, for any tree, contents, queue length and number of edits: when *)
(* the loop has nothing left to do the snapshot holds what the disk holds,     *)
(* but for what Converged leaves out.                                         *)
THEOREM WatchConverges == Spec => []Converged
<1>1. Init => Invariant
  BY TypeInit, ControlInit, CorpusInit, RefreshedInit, GroundInit, FilesInit, DirsInit
     DEF Invariant
<1>2. Invariant /\ [Next]_vars => Invariant'
  <2> SUFFICES ASSUME Invariant, [Next]_vars PROVE Invariant'
    OBVIOUS
  <2>1. /\ TypeOK /\ Control /\ CorpusInv /\ Refreshed
        /\ Ground /\ Rest /\ FilesFollow /\ DirsFollow
    BY DEF Invariant
  <2> QED BY <2>1, TypeNext, ControlNext, CorpusNext, RefreshedNext, GroundNext, RestNext,
             FilesNext, DirsNext DEF Invariant
<1> QED BY <1>1, <1>2, SettledConverged, PTL DEF Spec
=============================================================================
