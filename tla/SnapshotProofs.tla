---------------------------- MODULE SnapshotProofs ----------------------------
(* Proofs about Snapshot, for any files, refreshers, bounds and options: what *)
(* Close leaves on disk, and that the next Open serves the tree from it.      *)
EXTENDS Snapshot, TLAPS

-----------------------------------------------------------------------------
(* The inductive invariant.                                                   *)

\* The phases of a session in which it has an index.
Serving == {"opening", "open", "closing", "last", "closed"}

\* What runs in which phase.
Calm ==
  /\ st \in {"off", "walk", "load", "build", "closed"} =>
       ~warm /\ (\A w \in Writers : wr[w].pc = "idle")
  /\ st \notin {"opening", "open", "closing"} =>
       due = {} /\ ~dirty /\ (\A w \in {"flush", "warm"} : wr[w].pc = "idle")
  /\ st = "opening" => ~dirty
  /\ st # "open" => \A r \in Refreshers : refr[r] = "idle"
  /\ st \notin {"opening", "last"} => wr["main"].pc = "idle"
  /\ st \in {"walk", "load"} => man # None

\* No stamp is later than the clock.
UpTo(m) == \A f \in Files : m[f] # None => m[f] <= clock
Bounded ==
  /\ UpTo(disk) /\ UpTo(files)
  /\ bin # None => UpTo(bin.files)
  /\ man # None => UpTo(man.files)
  /\ \A w \in Writers : UpTo(wr[w].data.files) /\ UpTo(wr[w].stamps)

\* A file that the corpus c holds as it is on disk has that stamp in m too.
Fresh(c, m) == \A f \in Files : c[f] = disk[f] /\ disk[f] # None => m[f] = disk[f]

\* Unless the code has let a change slip, writers do not overlap, ...
Alone == ~slipped => \A v, w \in Writers : Active(v) /\ Active(w) => v = w

\* ... the two files belong together when no write is under way, ...
Paired ==
  /\ \A w \in Writers :
       /\ wr[w].pc \in {"bin", "man"} => Fresh(wr[w].data.files, wr[w].stamps)
       /\ wr[w].pc = "man" => bin # None /\ (~slipped => bin = wr[w].data)
  /\ st \in Serving /\ ~slipped /\ (\A w \in Writers : ~Active(w)) =>
       bin # None /\ man # None /\ Fresh(bin.files, man.files)
  /\ st = "load" /\ drift = NoDrift /\ bin # None => Fresh(bin.files, man.files)

\* ... and what is not on disk is about to be read, or is being written.
Owed ==
  \/ due # {} \/ dirty
  \/ \E r \in Refreshers : refr[r] = "notify"
  \/ \E w \in Writers : wr[w].pc \in {"hook", "read"}
Scheduled ==
  st \in Serving /\ ~slipped =>
    \/ Owed
    \/ \E w \in Writers : Active(w) /\ wr[w].data.files = files
    \/ bin # None /\ bin.files = files /\ \A w \in Writers : ~Active(w)

\* After a session that closed in order the manifest vouches for the bin.
Vouched ==
  /\ kept => st \in {"off", "closed", "walk", "load", "build", "opening"}
  /\ kept /\ st \in {"off", "closed", "walk", "load"} =>
       /\ bin # None /\ man # None
       /\ \A f \in Files : /\ man.files[f] = disk[f] => bin.files[f] = disk[f]
                           /\ man.files[f] = None => bin.files[f] = None

\* The drift is that of the walk.
Walked ==
  st = "load" =>
    \A f \in Files \ since :
      /\ f \in drift.changed <=> disk[f] # None /\ man.files[f] # disk[f]
      /\ f \in drift.deleted <=> man.files[f] # None /\ disk[f] = None

IInv == /\ TypeOK /\ Calm /\ Bounded /\ Alone /\ Paired /\ Scheduled
        /\ Vouched /\ Walked /\ RestartServesTree

-----------------------------------------------------------------------------
(* One lemma per action.                                                      *)

USE StampAssumption, StoreAssumption, OptionAssumption
USE DEF Options, Stamps, Corpora, Manifests, WriterStates, Phases, Writers,
        Serving, treeVars, storeVars, indexVars, hookVars, openVars

\* What beginning and ending a write do to the writers.
LEMMA BeginFacts ==
  ASSUME wr \in [Writers -> WriterStates], NEW w \in Writers,
         NEW at \in {"hook", "read"}, Begin(w, at)
  PROVE  /\ wr' \in [Writers -> WriterStates]
         /\ wr'[w].pc = at
         /\ \A v \in Writers : /\ wr'[v].data = wr[v].data
                               /\ wr'[v].stamps = wr[v].stamps
                               /\ v # w => wr'[v].pc = wr[v].pc
         /\ slipped' \in BOOLEAN
         /\ ~slipped' <=> ~slipped /\ ~Overlaps(w)
BY DEF Begin

LEMMA StartFacts ==
  ASSUME wr \in [Writers -> WriterStates], NEW w \in Writers, Start(w)
  PROVE  /\ wr' \in [Writers -> WriterStates]
         /\ wr'[w].pc = "read"
         /\ \A v \in Writers : /\ wr'[v].data = wr[v].data
                               /\ wr'[v].stamps = wr[v].stamps
                               /\ v # w => wr'[v].pc = wr[v].pc
         /\ slipped' \in BOOLEAN
         /\ ~slipped' <=> ~slipped /\ ~Overlaps(w)
BY BeginFacts DEF Start

LEMMA DoneFacts ==
  ASSUME wr \in [Writers -> WriterStates], NEW w \in Writers, Done(w)
  PROVE  /\ wr' \in [Writers -> WriterStates]
         /\ wr'[w].pc = "idle"
         /\ wr'[w].data.files = NoFiles /\ wr'[w].stamps = NoFiles
         /\ \A v \in Writers : v # w => wr'[v] = wr[v]
<1>1. NotWriting \in WriterStates
  BY DEF NotWriting, NoData, NoFiles
<1> QED
  BY <1>1 DEF Done, NotWriting, NoData

\* A new stamp is none of those stored.
LEMMA EditInv ==
  ASSUME IInv, NEW f \in Files, Edit(f)
  PROVE  IInv'
<1> USE DEF IInv, TypeOK
<1>0. /\ disk' \in [Files -> Stamps] /\ disk'[f] \in {clock + 1, None}
      /\ \A g \in Files \ {f} : disk'[g] = disk[g]
      /\ clock' = clock + 1 /\ since' = since \cup {f}
      /\ UNCHANGED <<storeVars, openVars, indexVars, warm, hookVars, wr, slipped, kept>>
  BY DEF Edit
<1>1. TypeOK'
  BY <1>0
<1>2. Calm'
  BY <1>0 DEF Calm
<1>3. Bounded'
  BY <1>0 DEF Bounded, UpTo
<1>4. Alone'
  BY <1>0 DEF Alone, Active
<1>5. Paired'
  <2>1. ASSUME NEW c \in [Files -> Stamps], NEW m, UpTo(c), Fresh(c, m)
        PROVE  \A g \in Files :
                 c[g] = disk'[g] /\ disk'[g] # None => m[g] = disk'[g]
    BY <1>0, <2>1 DEF UpTo, Fresh
  <2>2. \A w \in Writers : wr[w].pc \in {"bin", "man"} =>
          \A g \in Files : wr[w].data.files[g] = disk'[g] /\ disk'[g] # None
                             => wr[w].stamps[g] = disk'[g]
    BY <2>1 DEF Paired, Bounded
  <2>3. bin # None /\ Fresh(bin.files, man.files) =>
          \A g \in Files : bin.files[g] = disk'[g] /\ disk'[g] # None
                             => man.files[g] = disk'[g]
    BY <2>1 DEF Bounded
  <2> QED
    BY <1>0, <2>2, <2>3 DEF Paired, Fresh, Active
<1>6. Scheduled'
  BY <1>0 DEF Scheduled, Owed, Active
<1>7. Vouched'
  <2>1. ASSUME kept, st \in {"off", "closed", "walk", "load"}, NEW g \in Files
        PROVE  /\ man.files[g] = disk'[g] => bin.files[g] = disk'[g]
               /\ man.files[g] = None => bin.files[g] = None
    BY <1>0, <2>1 DEF Vouched, Bounded, UpTo
  <2> QED
    BY <1>0, <2>1 DEF Vouched
<1>8. Walked' /\ RestartServesTree'
  BY <1>0 DEF Walked, RestartServesTree
<1> QED
  BY <1>1, <1>2, <1>3, <1>4, <1>5, <1>6, <1>7, <1>8

LEMMA OpenInv ==
  ASSUME IInv, Open
  PROVE  IInv'
<1> USE DEF IInv, TypeOK
<1>0. /\ st \in {"off", "closed"} /\ st' \in {"walk", "build"}
      /\ deferral' \in Options /\ watch' \in BOOLEAN /\ slipped' = FALSE
      /\ files' = NoFiles /\ ghosts' = {} /\ mode' = "full" /\ extras' = {}
      /\ opens' \in Nat /\ (man = None => st' = "build")
      /\ UNCHANGED <<treeVars, storeVars, drift, warm, hookVars, wr, kept, since>>
  BY DEF Open
<1>1. TypeOK'
  <2>1. /\ disk' \in [Files -> Stamps] /\ clock' \in Nat
        /\ bin' \in Corpora \cup {None} /\ man' \in Manifests \cup {None}
        /\ drift' \in [changed : SUBSET Files, deleted : SUBSET Files]
        /\ drift'.changed \cap drift'.deleted = {}
        /\ refr' \in [Refreshers -> {"idle", "flush", "notify", "leave"}]
        /\ wr' \in [Writers -> WriterStates]
    BY <1>0
  <2>2. files' \in [Files -> Stamps]
    BY <1>0 DEF NoFiles
  <2>3. /\ ghosts' \subseteq DbChunks /\ extras' \subseteq DbChunks
        /\ mode' \in {"bm25", "full"} /\ st' \in Phases
        /\ warm' \in BOOLEAN /\ dirty' \in BOOLEAN /\ due' \subseteq {"flush", "warm"}
        /\ slipped' \in BOOLEAN /\ kept' \in BOOLEAN /\ since' \subseteq Files
    BY <1>0
  <2> QED
    BY <1>0, <2>1, <2>2, <2>3
<1>2. Calm'
  BY <1>0 DEF Calm
<1>3. Bounded'
  <2>1. UpTo(files)'
    BY <1>0 DEF UpTo, NoFiles
  <2> QED
    BY <1>0, <2>1 DEF Bounded, UpTo
<1>4. Alone'
  BY <1>0 DEF Alone, Active, Calm
<1>5. Paired'
  <2>1. \A w \in Writers : wr'[w].pc = "idle"
    BY <1>0 DEF Calm
  <2> QED
    BY <1>0, <2>1 DEF Paired
<1>6. Scheduled'
  BY <1>0 DEF Scheduled
<1>7. Vouched' /\ Walked' /\ RestartServesTree'
  BY <1>0 DEF Vouched, Walked, RestartServesTree
<1> QED
  BY <1>1, <1>2, <1>3, <1>4, <1>5, <1>6, <1>7

\* No drift means that the manifest agrees with the tree.
LEMMA WalkInv ==
  ASSUME IInv, Walk
  PROVE  IInv'
<1> USE DEF IInv, TypeOK
<1>1. TypeOK'
  BY DEF Walk, Drift, Changed, Deleted
<1>2. Calm'
  BY DEF Walk, Calm
<1>3. Bounded'
  BY DEF Walk, Bounded, UpTo
<1>4. Alone' /\ Paired'
  <2>1. ASSUME drift' = NoDrift
        PROVE  Fresh(bin.files, man.files)
    <3>1. Changed(man.files) = {}
      BY <2>1 DEF Walk, Drift, NoDrift
    <3> QED
      BY <3>1 DEF Changed, Fresh
  <2> QED
    BY <2>1 DEF Walk, Alone, Active, Paired, Fresh
<1>5. Scheduled'
  BY DEF Walk, Scheduled
<1>6. Vouched' /\ Walked' /\ RestartServesTree'
  BY DEF Walk, Drift, Changed, Deleted, Vouched, Walked, RestartServesTree
<1> QED
  BY <1>1, <1>2, <1>3, <1>4, <1>5, <1>6

LEMMA LoadMissesInv ==
  ASSUME IInv, LoadMisses
  PROVE  IInv'
<1> USE DEF IInv, TypeOK
<1>1. TypeOK'
  BY DEF LoadMisses
<1>2. Calm'
  BY DEF LoadMisses, Calm
<1>3. Bounded'
  BY DEF LoadMisses, Bounded, UpTo
<1>4. Alone' /\ Paired'
  BY DEF LoadMisses, Alone, Active, Paired, Fresh
<1>5. Scheduled'
  BY DEF LoadMisses, Scheduled
<1>6. Vouched' /\ Walked' /\ RestartServesTree'
  BY DEF LoadMisses, Vouched, Walked, RestartServesTree
<1> QED
  BY <1>1, <1>2, <1>3, <1>4, <1>5, <1>6

\* The drift of the walk and the vouched pair give the tree.
LEMMA LoadInv ==
  ASSUME IInv, Load
  PROVE  IInv'
<1> USE DEF IInv, TypeOK
<1>0. /\ st = "load" /\ st' = "opening" /\ bin # None /\ drift' = NoDrift
      /\ files' = Reconciled(drift) /\ ghosts' = bin.ghosts /\ warm' \in BOOLEAN
      /\ UNCHANGED <<treeVars, storeVars, deferral, watch, opens, mode, extras, hookVars,
                 kept, since>>
  BY DEF Load, Usable
<1>w. \/ Start("main")
      \/ drift = NoDrift /\ slipped' = FALSE /\ UNCHANGED wr
      \/ slipped' = TRUE /\ UNCHANGED wr
  BY DEF Load, Behind
<1>i. \A w \in Writers : wr[w].pc = "idle"
  BY <1>0 DEF Calm
<1>t. wr' \in [Writers -> WriterStates] /\ slipped' \in BOOLEAN
  <2>1. CASE Start("main")
    BY <2>1, StartFacts
  <2> QED
    BY <1>w, <2>1
<1>c. \/ wr'["main"].pc = "read" /\ \A w \in Writers : w # "main" => wr'[w].pc = "idle"
      \/ /\ \A w \in Writers : wr'[w].pc = "idle"
         /\ drift = NoDrift \/ slipped'
  BY <1>w, <1>i, StartFacts
<1>1. TypeOK'
  <2>1. /\ files' \in [Files -> Stamps] /\ ghosts' \subseteq DbChunks
        /\ drift' \in [changed : SUBSET Files, deleted : SUBSET Files]
        /\ drift'.changed \cap drift'.deleted = {}
    BY <1>0 DEF Reconciled, NoDrift
  <2> QED
    BY <1>0, <1>t, <2>1
<1>2. Calm'
  BY <1>0, <1>c DEF Calm
<1>3. Bounded'
  <2>1. UpTo(files)'
    BY <1>0 DEF Bounded, UpTo, Reconciled
  <2>2. \A w \in Writers : wr'[w].data = wr[w].data /\ wr'[w].stamps = wr[w].stamps
    BY <1>w, StartFacts
  <2> QED
    BY <1>0, <2>1, <2>2 DEF Bounded, UpTo
<1>4. Alone'
  BY <1>c DEF Alone, Active
<1>5. Paired'
  BY <1>0, <1>c DEF Paired, Fresh, Active, Calm
<1>6. Scheduled'
  <2>1. drift = NoDrift => files' = bin.files
    BY <1>0 DEF Reconciled, NoDrift
  <2> QED
    BY <1>0, <1>c, <2>1 DEF Scheduled, Owed, Active
<1>7. Vouched'
  BY <1>0 DEF Vouched
<1>8. Walked'
  BY <1>0 DEF Walked
<1>9. RestartServesTree'
  BY <1>0 DEF RestartServesTree, Reconciled, Walked, Vouched
<1> QED
  BY <1>1, <1>2, <1>3, <1>4, <1>5, <1>6, <1>7, <1>8, <1>9

LEMMA BuildInv ==
  ASSUME IInv, Build
  PROVE  IInv'
<1> USE DEF IInv, TypeOK
<1>1. TypeOK'
  BY DEF Build, Start, Begin, NoDrift
<1>2. Calm'
  BY DEF Build, Begin, Calm
<1>3. Bounded'
  BY DEF Build, Start, Begin, Bounded, UpTo
<1>4. Alone' /\ Paired'
  BY DEF Build, Start, Begin, Alone, Active, Paired, Calm
<1>5. Scheduled'
  BY DEF Build, Start, Begin, Scheduled, Owed
<1>6. Vouched' /\ Walked' /\ RestartServesTree'
  BY DEF Build, Begin, Vouched, Walked, RestartServesTree
<1> QED
  BY <1>1, <1>2, <1>3, <1>4, <1>5, <1>6

LEMMA HookInv ==
  ASSUME IInv, Hook
  PROVE  IInv'
<1> USE DEF IInv, TypeOK
<1>1. TypeOK'
  BY DEF Hook
<1>2. Calm'
  BY DEF Hook, Active, Calm
<1>3. Bounded'
  BY DEF Hook, Bounded, UpTo
<1>4. Alone' /\ Paired'
  BY DEF Hook, Alone, Active, Paired, Fresh
<1>5. Scheduled'
  BY DEF Hook, Scheduled, Owed, Active
<1>6. Vouched' /\ Walked' /\ RestartServesTree'
  BY DEF Hook, Vouched, Walked, RestartServesTree
<1> QED
  BY <1>1, <1>2, <1>3, <1>4, <1>5, <1>6

LEMMA FlushInv ==
  ASSUME IInv, NEW F \in SUBSET Files, NEW resync \in BOOLEAN, Flush(F, resync)
  PROVE  IInv'
<1> USE DEF IInv, TypeOK
<1>1. TypeOK'
  BY DEF Flush, Flushed
<1>2. Calm'
  BY DEF Flush, Calm
<1>3. Bounded'
  BY DEF Flush, Flushed, Bounded, UpTo
<1>4. Alone' /\ Paired'
  BY DEF Flush, Alone, Active, Paired, Fresh
<1>5. Scheduled'
  BY DEF Flush, Scheduled, Owed
<1>6. Vouched' /\ Walked' /\ RestartServesTree'
  BY DEF Flush, Flushed, Vouched, Walked, RestartServesTree
<1> QED
  BY <1>1, <1>2, <1>3, <1>4, <1>5, <1>6

LEMMA WarmFinishInv ==
  ASSUME IInv, WarmFinish
  PROVE  IInv'
<1> USE DEF IInv, TypeOK
<1>1. TypeOK'
  BY DEF WarmFinish
<1>2. Calm'
  BY DEF WarmFinish, Calm
<1>3. Bounded'
  BY DEF WarmFinish, Bounded, UpTo
<1>4. Alone' /\ Paired'
  BY DEF WarmFinish, Alone, Active, Paired, Fresh
<1>5. Scheduled'
  BY DEF WarmFinish, Scheduled, Owed
<1>6. Vouched' /\ Walked' /\ RestartServesTree'
  BY DEF WarmFinish, Vouched, Walked, RestartServesTree
<1> QED
  BY <1>1, <1>2, <1>3, <1>4, <1>5, <1>6

LEMMA OnFlushInv ==
  ASSUME IInv, NEW w \in {"flush", "warm"}, OnFlush(w)
  PROVE  IInv'
<1> USE DEF IInv, TypeOK
<1>0. /\ UNCHANGED <<treeVars, storeVars, openVars, indexVars, warm, refr, kept, since>>
      /\ due' = due \ {w} /\ w \in due /\ dirty' \in BOOLEAN /\ w \in Writers
  BY DEF OnFlush
<1>w. \/ slipped' = TRUE /\ wr' = wr
      \/ slipped' = slipped /\ wr' = wr
      \/ Begin(w, "hook")
  BY DEF OnFlush
<1>1. TypeOK'
  <2>1. wr' \in [Writers -> WriterStates] /\ slipped' \in BOOLEAN
    BY <1>0, <1>w, BeginFacts
  <2> QED
    BY <1>0, <2>1
<1>2. Calm'
  BY DEF OnFlush, Begin, Calm
<1>3. Bounded'
  BY DEF OnFlush, Begin, Bounded, UpTo
<1>4. Alone'
  <2>1. CASE Begin(w, "hook")
    BY <1>0, <2>1, BeginFacts DEF Alone, Active, Begin, Overlaps
  <2> QED
    BY <1>w, <2>1 DEF Alone, Active
<1>5. Paired'
  BY DEF OnFlush, Begin, Paired, Fresh, Active
<1>6. Scheduled'
  BY DEF OnFlush, Begin, Scheduled, Owed
<1>7. Vouched' /\ Walked' /\ RestartServesTree'
  BY DEF OnFlush, Begin, Vouched, Walked, RestartServesTree
<1> QED
  BY <1>1, <1>2, <1>3, <1>4, <1>5, <1>6, <1>7

LEMMA ClearDirtyInv ==
  ASSUME IInv, NEW w \in {"flush", "warm"}, ClearDirty(w)
  PROVE  IInv'
<1> USE DEF IInv, TypeOK
<1>1. TypeOK'
  <2>1. wr' \in [Writers -> WriterStates]
    BY DEF ClearDirty
  <2>2. /\ dirty' = FALSE
        /\ UNCHANGED <<treeVars, storeVars, openVars, indexVars, warm, due, refr,
                       slipped, kept, since>>
    BY DEF ClearDirty
  <2>3. /\ disk' \in [Files -> Stamps] /\ files' \in [Files -> Stamps]
        /\ bin' \in Corpora \cup {None} /\ man' \in Manifests \cup {None}
        /\ drift' \in [changed : SUBSET Files, deleted : SUBSET Files]
        /\ drift'.changed \cap drift'.deleted = {}
        /\ refr' \in [Refreshers -> {"idle", "flush", "notify", "leave"}]
    BY <2>2
  <2> QED
    BY <2>1, <2>2, <2>3
<1>2. Calm'
  BY DEF ClearDirty, Calm
<1>3. Bounded'
  BY DEF ClearDirty, Bounded, UpTo
<1>4. Alone' /\ Paired'
  BY DEF ClearDirty, Alone, Active, Paired, Fresh
<1>5. Scheduled'
  BY DEF ClearDirty, Scheduled, Owed
<1>6. Vouched' /\ Walked' /\ RestartServesTree'
  BY DEF ClearDirty, Vouched, Walked, RestartServesTree
<1> QED
  BY <1>1, <1>2, <1>3, <1>4, <1>5, <1>6

LEMMA RefreshStartInv ==
  ASSUME IInv, NEW r \in Refreshers, RefreshStart(r)
  PROVE  IInv'
<1> USE DEF IInv, TypeOK
<1>1. TypeOK'
  BY DEF RefreshStart
<1>2. Calm'
  BY DEF RefreshStart, Calm
<1>3. Bounded'
  BY DEF RefreshStart, Bounded, UpTo
<1>4. Alone' /\ Paired'
  BY DEF RefreshStart, Alone, Active, Paired, Fresh
<1>5. Scheduled'
  BY DEF RefreshStart, Scheduled, Owed, Active
<1>6. Vouched' /\ Walked' /\ RestartServesTree'
  BY DEF RefreshStart, Vouched, Walked, RestartServesTree
<1> QED
  BY <1>1, <1>2, <1>3, <1>4, <1>5, <1>6

LEMMA RefreshFlushInv ==
  ASSUME IInv, NEW r \in Refreshers, NEW F \in SUBSET Files, RefreshFlush(r, F)
  PROVE  IInv'
<1> USE DEF IInv, TypeOK
<1>1. TypeOK'
  BY DEF RefreshFlush, Flushed
<1>2. Calm'
  BY DEF RefreshFlush, Calm
<1>3. Bounded'
  BY DEF RefreshFlush, Flushed, Bounded, UpTo
<1>4. Alone' /\ Paired'
  BY DEF RefreshFlush, Alone, Active, Paired, Fresh
<1>5. Scheduled'
  BY DEF RefreshFlush, Flushed, NoOp, Scheduled, Owed, Active
<1>6. Vouched' /\ Walked' /\ RestartServesTree'
  BY DEF RefreshFlush, Flushed, Vouched, Walked, RestartServesTree
<1> QED
  BY <1>1, <1>2, <1>3, <1>4, <1>5, <1>6

LEMMA RefreshNotifyInv ==
  ASSUME IInv, NEW r \in Refreshers, RefreshNotify(r)
  PROVE  IInv'
<1> USE DEF IInv, TypeOK
<1>1. TypeOK'
  BY DEF RefreshNotify
<1>2. Calm'
  BY DEF RefreshNotify, Calm
<1>3. Bounded'
  BY DEF RefreshNotify, Bounded, UpTo
<1>4. Alone' /\ Paired'
  BY DEF RefreshNotify, Alone, Active, Paired, Fresh
<1>5. Scheduled'
  BY DEF RefreshNotify, Scheduled, Owed
<1>6. Vouched' /\ Walked' /\ RestartServesTree'
  BY DEF RefreshNotify, Vouched, Walked, RestartServesTree
<1> QED
  BY <1>1, <1>2, <1>3, <1>4, <1>5, <1>6

LEMMA RefreshReturnInv ==
  ASSUME IInv, NEW r \in Refreshers, RefreshReturn(r)
  PROVE  IInv'
<1> USE DEF IInv, TypeOK
<1>1. TypeOK'
  BY DEF RefreshReturn
<1>2. Calm'
  BY DEF RefreshReturn, Calm
<1>3. Bounded'
  BY DEF RefreshReturn, Bounded, UpTo
<1>4. Alone' /\ Paired'
  BY DEF RefreshReturn, Alone, Active, Paired, Fresh
<1>5. Scheduled'
  BY DEF RefreshReturn, Scheduled, Owed, Active
<1>6. Vouched' /\ Walked' /\ RestartServesTree'
  BY DEF RefreshReturn, Vouched, Walked, RestartServesTree
<1> QED
  BY <1>1, <1>2, <1>3, <1>4, <1>5, <1>6

LEMMA SetExtraChunksInv ==
  ASSUME IInv, NEW x \in SUBSET DbChunks, SetExtraChunks(x)
  PROVE  IInv'
<1> USE DEF IInv, TypeOK
<1>1. TypeOK'
  BY DEF SetExtraChunks
<1>2. Calm'
  BY DEF SetExtraChunks, Calm
<1>3. Bounded'
  BY DEF SetExtraChunks, Bounded, UpTo
<1>4. Alone' /\ Paired'
  BY DEF SetExtraChunks, Alone, Active, Paired, Fresh
<1>5. Scheduled'
  BY DEF SetExtraChunks, Scheduled, Owed, Active
<1>6. Vouched' /\ Walked' /\ RestartServesTree'
  BY DEF SetExtraChunks, Vouched, Walked, RestartServesTree
<1> QED
  BY <1>1, <1>2, <1>3, <1>4, <1>5, <1>6

LEMMA ReadInv ==
  ASSUME IInv, NEW w \in Writers, Read(w)
  PROVE  IInv'
<1> USE DEF IInv, TypeOK
<1>1. TypeOK'
  <2>1. Published \in Corpora
    BY DEF Published
  <2>2. wr' \in [Writers -> WriterStates]
    BY <2>1 DEF Read
  <2>3. UNCHANGED <<treeVars, storeVars, openVars, indexVars, warm, hookVars,
                    slipped, kept, since>>
    BY DEF Read
  <2>4. /\ disk' \in [Files -> Stamps] /\ files' \in [Files -> Stamps]
        /\ bin' \in Corpora \cup {None} /\ man' \in Manifests \cup {None}
        /\ drift' \in [changed : SUBSET Files, deleted : SUBSET Files]
        /\ drift'.changed \cap drift'.deleted = {}
        /\ refr' \in [Refreshers -> {"idle", "flush", "notify", "leave"}]
    BY <2>3
  <2> QED
    BY <2>2, <2>3, <2>4
<1>2. Calm'
  BY DEF Read, Calm
<1>3. Bounded'
  BY DEF Read, Bounded, UpTo
<1>4. Alone' /\ Paired'
  BY DEF Read, Alone, Active, Paired, Fresh
<1>5. Scheduled'
  BY DEF Read, Scheduled, Published, Active
<1>6. Vouched' /\ Walked' /\ RestartServesTree'
  BY DEF Read, Vouched, Walked, RestartServesTree
<1> QED
  BY <1>1, <1>2, <1>3, <1>4, <1>5, <1>6

LEMMA StampInv ==
  ASSUME IInv, NEW w \in Writers, Stamp(w)
  PROVE  IInv'
<1> USE DEF IInv, TypeOK
<1>1. TypeOK'
  BY DEF Stamp
<1>2. Calm'
  BY DEF Stamp, Calm
<1>3. Bounded'
  BY DEF Stamp, Bounded, UpTo
<1>4. Alone' /\ Paired'
  BY DEF Stamp, Alone, Active, Paired, Fresh
<1>5. Scheduled'
  BY DEF Stamp, Scheduled, Owed, Active
<1>6. Vouched' /\ Walked' /\ RestartServesTree'
  BY DEF Stamp, Vouched, Walked, RestartServesTree
<1> QED
  BY <1>1, <1>2, <1>3, <1>4, <1>5, <1>6

\* The writer is the only one, or the change has slipped.
LEMMA WriteBinInv ==
  ASSUME IInv, NEW w \in Writers, WriteBin(w)
  PROVE  IInv'
<1> USE DEF IInv, TypeOK
<1>0. /\ wr[w].pc = "bin" /\ bin' = wr[w].data
      /\ wr' = [wr EXCEPT ![w].pc = "man"]
      /\ UNCHANGED <<treeVars, man, openVars, indexVars, warm, hookVars, slipped, kept,
                 since>>
  BY DEF WriteBin
<1>w. /\ wr' \in [Writers -> WriterStates] /\ wr'[w].pc = "man"
      /\ \A v \in Writers : /\ v # w => wr'[v].pc = wr[v].pc
                            /\ wr'[v].data = wr[v].data /\ wr'[v].stamps = wr[v].stamps
  BY <1>0
<1>b. bin' \in Corpora /\ bin' # None
  BY <1>0
<1>p. st \in {"opening", "open", "closing", "last"}
  BY <1>0 DEF Calm
<1>1. TypeOK'
  BY DEF WriteBin
<1>2. Calm'
  BY DEF WriteBin, Calm
<1>3. Bounded'
  BY DEF WriteBin, Bounded, UpTo
<1>4. Paired'
  <2>1. ASSUME NEW v \in Writers
        PROVE  /\ wr'[v].pc \in {"bin", "man"} => Fresh(wr'[v].data.files, wr'[v].stamps)
               /\ wr'[v].pc = "man" /\ ~slipped => bin' = wr'[v].data
    <3>1. CASE v = w
      BY <1>0, <1>w, <3>1 DEF Paired
    <3>2. CASE v # w
      BY <1>0, <1>w, <3>2 DEF Paired, Alone, Active
    <3> QED
      BY <3>1, <3>2
  <2>2. Active(w)'
    BY <1>w DEF Active
  <2> QED
    BY <1>0, <1>w, <1>b, <1>p, <2>1, <2>2 DEF Paired, Fresh
<1>5. Alone'
  BY DEF WriteBin, Alone, Active
<1>6. Scheduled'
  <2>1. CASE Owed
    BY <1>0, <1>w, <2>1 DEF Scheduled, Owed
  <2>2. CASE slipped
    BY <1>0, <2>2 DEF Scheduled
  <2>3. CASE ~Owed /\ ~slipped
    <3>1. wr[w].data.files = files
      BY <1>0, <1>p, <2>3 DEF Alone, Scheduled, Active
    <3> QED
      BY <1>0, <1>w, <3>1 DEF Active, Scheduled
  <2> QED
    BY <2>1, <2>2, <2>3
<1>7. Vouched'
  BY <1>0, <1>p DEF Vouched
<1>8. Walked' /\ RestartServesTree'
  BY DEF WriteBin, Walked, RestartServesTree
<1> QED
  BY <1>1, <1>2, <1>3, <1>4, <1>5, <1>6, <1>7, <1>8

\* The pair is complete, and may make up for earlier slips.
LEMMA WriteManifestInv ==
  ASSUME IInv, NEW w \in Writers, WriteManifest(w)
  PROVE  IInv'
<1> USE DEF IInv, TypeOK
<1>0. /\ wr[w].pc = "man" /\ Done(w)
      /\ man' = [files |-> wr[w].stamps, key |-> deferral]
      /\ slipped' = (slipped /\ ~(wr[w].data.files = files /\ bin.files = files
                            /\ ~Overlaps(w)))
      /\ UNCHANGED <<treeVars, bin, openVars, indexVars, warm, hookVars, kept, since>>
  BY DEF WriteManifest
<1>w. /\ wr' \in [Writers -> WriterStates] /\ wr'[w].pc = "idle"
      /\ \A v \in Writers : v # w => wr'[v] = wr[v]
  BY <1>0, DoneFacts
<1>p. st \in {"opening", "open", "closing", "last"}
  BY <1>0 DEF Calm
<1>m. man' \in Manifests /\ man' # None /\ man'.files = wr[w].stamps
  BY <1>0
<1>b. bin # None
  BY <1>0 DEF Paired
<1>s. ~slipped' => /\ ~slipped \/ (wr[w].data.files = files /\ bin.files = files)
                   /\ \A v \in Writers : v # w => ~Active(v)
  BY <1>0 DEF Alone, Active, Overlaps
<1>1. TypeOK'
  BY <1>0, <1>w, <1>m
<1>2. Calm'
  BY <1>0, <1>w, <1>m, <1>p DEF Calm
<1>3. Bounded'
  <2>1. UpTo(NoFiles)
    BY DEF UpTo, NoFiles
  <2>2. \A v \in Writers : UpTo(wr'[v].data.files) /\ UpTo(wr'[v].stamps)
    BY <1>0, <1>w, <2>1, DoneFacts DEF Bounded
  <2>3. UpTo(man'.files)
    BY <1>m DEF Bounded
  <2> QED
    BY <1>0, <2>2, <2>3 DEF Bounded, UpTo
<1>4. Paired'
  <2>1. ~slipped' => bin.files = wr[w].data.files
    BY <1>0, <1>s DEF Paired
  <2>2. ~slipped' => Fresh(bin.files, man'.files)
    BY <1>0, <1>m, <2>1 DEF Paired
  <2>3. \A v \in Writers : wr'[v].pc # "idle" => v # w /\ wr'[v] = wr[v]
    BY <1>w
  <2>5. \A v \in Writers : wr'[v].pc # "idle" =>
          /\ wr'[v].pc \in {"bin", "man"} => Fresh(wr'[v].data.files, wr'[v].stamps)
          /\ wr'[v].pc = "man" => bin # None /\ (~slipped' => bin = wr'[v].data)
    BY <2>3, <1>s DEF Paired, Active
  <2>4. slipped' \/ slipped \/ \A v \in Writers : wr'[v].pc = "idle"
    BY <1>0, <1>s, <1>w DEF Active
  <2> QED
    BY <1>0, <1>b, <1>m, <1>p, <1>s, <2>2, <2>3, <2>4, <2>5 DEF Paired, Fresh
<1>5. Alone'
  BY <1>s, <1>w DEF Alone, Active
<1>6. Scheduled'
  BY <1>0, <1>p, <1>b, <1>s, <1>w DEF Scheduled, Owed, Active, Paired
<1>7. Vouched'
  BY <1>0, <1>p DEF Vouched
<1>8. Walked'
  BY <1>0, <1>p DEF Walked
<1>9. RestartServesTree'
  BY DEF WriteManifest, RestartServesTree
<1> QED
  BY <1>1, <1>2, <1>3, <1>4, <1>5, <1>6, <1>7, <1>8, <1>9

LEMMA WriteFailsInv ==
  ASSUME IInv, NEW w \in Writers, WriteFails(w)
  PROVE  IInv'
<1> USE DEF IInv, TypeOK
<1>1. TypeOK'
  BY DEF WriteFails, Done, NotWriting, NoData, NoFiles
<1>2. Calm'
  BY DEF WriteFails, Done, Calm
<1>3. Bounded'
  BY DEF WriteFails, Done, NotWriting, NoData, NoFiles, Bounded, UpTo
<1>4. Alone' /\ Paired'
  BY DEF WriteFails, Done, NotWriting, Alone, Paired, Fresh
<1>5. Scheduled'
  BY DEF WriteFails, Scheduled
<1>6. Vouched' /\ Walked' /\ RestartServesTree'
  BY DEF WriteFails, Vouched, Walked, RestartServesTree
<1> QED
  BY <1>1, <1>2, <1>3, <1>4, <1>5, <1>6

LEMMA CloseCallInv ==
  ASSUME IInv, CloseCall
  PROVE  IInv'
<1> USE DEF IInv, TypeOK
<1>1. TypeOK'
  BY DEF CloseCall
<1>2. Calm'
  BY DEF CloseCall, Refreshing, Calm
<1>3. Bounded'
  BY DEF CloseCall, Bounded, UpTo
<1>4. Alone' /\ Paired'
  BY DEF CloseCall, Alone, Active, Paired, Fresh
<1>5. Scheduled'
  BY DEF CloseCall, Scheduled, Owed, Active
<1>6. Vouched' /\ Walked' /\ RestartServesTree'
  BY DEF CloseCall, Vouched, Walked, RestartServesTree
<1> QED
  BY <1>1, <1>2, <1>3, <1>4, <1>5, <1>6

LEMMA CloseWritesInv ==
  ASSUME IInv, CloseWrites
  PROVE  IInv'
<1> USE DEF IInv, TypeOK
<1>0. /\ Start("main") /\ dirty' = FALSE /\ warm' = FALSE /\ st' = "last"
      /\ UNCHANGED <<treeVars, storeVars, deferral, watch, drift, opens, indexVars,
                     due, refr, kept, since>>
  BY DEF CloseWrites
<1>1. TypeOK'
  <2>1. wr' \in [Writers -> WriterStates] /\ slipped' \in BOOLEAN
    BY <1>0, StartFacts
  <2> QED
    BY <1>0, <2>1
<1>2. Calm'
  <2>1. /\ st = "closing" /\ due = {} /\ \A w \in Writers : wr[w].pc = "idle"
    BY DEF CloseWrites, Stopped, Active
  <2>2. \A w \in {"flush", "warm"} : wr'[w].pc = "idle"
    BY <1>0, <2>1, StartFacts
  <2> QED
    BY <1>0, <2>1, <2>2 DEF Calm
<1>3. Bounded'
  BY DEF CloseWrites, Start, Begin, Bounded, UpTo
<1>4. Alone' /\ Paired'
  BY DEF CloseWrites, Start, Begin, Stopped, Alone, Active, Paired
<1>5. Scheduled'
  BY DEF CloseWrites, Start, Begin, Scheduled, Owed
<1>6. Vouched' /\ Walked' /\ RestartServesTree'
  BY DEF CloseWrites, Begin, Vouched, Walked, RestartServesTree
<1> QED
  BY <1>1, <1>2, <1>3, <1>4, <1>5, <1>6

\* Nothing is owed at the end, so the bin is what was served.
LEMMA CloseReturnInv ==
  ASSUME IInv, CloseReturn
  PROVE  IInv'
<1> USE DEF IInv, TypeOK
<1>0. /\ st' = "closed" /\ warm' = FALSE /\ kept' = (~slipped /\ files = disk)
      /\ st \in Serving
      /\ due = {} /\ ~dirty
      /\ \A w \in Writers : ~Active(w)
      /\ \A r \in Refreshers : refr[r] = "idle"
      /\ UNCHANGED <<treeVars, storeVars, deferral, watch, drift, opens, indexVars,
                 hookVars, wr, slipped, since>>
  BY DEF CloseReturn, Stopped, Calm, Active
<1>1. TypeOK'
  BY DEF CloseReturn
<1>2. Calm'
  BY <1>0 DEF Calm, Active
<1>3. Bounded'
  BY DEF CloseReturn, Bounded, UpTo
<1>4. Alone' /\ Paired'
  BY DEF CloseReturn, Alone, Active, Paired, Fresh
<1>5. Scheduled'
  BY DEF CloseReturn, Scheduled, Owed, Active
<1>6. Vouched'
  <2>1. ASSUME kept'
        PROVE  bin # None /\ man # None /\ bin.files = disk /\ Fresh(bin.files, man.files)
    <3>1. ~slipped /\ files = disk
      BY <2>1, <1>0
    <3>2. ~Owed
      BY <1>0 DEF Owed, Active
    <3> QED
      BY <1>0, <3>1, <3>2 DEF Paired, Scheduled
  <2>2. ASSUME kept', NEW f \in Files
        PROVE  /\ man.files[f] = disk[f] => bin.files[f] = disk[f]
               /\ man.files[f] = None => bin.files[f] = None
    BY <2>1, <2>2 DEF Fresh
  <2> QED
    BY <1>0, <2>1, <2>2 DEF Vouched
<1>7. Walked' /\ RestartServesTree'
  BY DEF CloseReturn, Walked, RestartServesTree
<1> QED
  BY <1>1, <1>2, <1>3, <1>4, <1>5, <1>6, <1>7

LEMMA CrashInv ==
  ASSUME IInv, Crash
  PROVE  IInv'
<1> USE DEF IInv, TypeOK
<1>1. TypeOK'
  BY DEF Crash, Quiet, NotWriting, NoData, NoFiles, NoDrift
<1>2. Calm'
  BY DEF Crash, Quiet, NotWriting, Calm
<1>3. Bounded'
  BY DEF Crash, Quiet, NotWriting, NoData, NoFiles, Bounded, UpTo
<1>4. Alone' /\ Paired'
  BY DEF Crash, Quiet, NotWriting, Alone, Active, Paired
<1>5. Scheduled'
  BY DEF Crash, Scheduled
<1>6. Vouched' /\ Walked' /\ RestartServesTree'
  BY DEF Crash, Vouched, Walked, RestartServesTree
<1> QED
  BY <1>1, <1>2, <1>3, <1>4, <1>5, <1>6

-----------------------------------------------------------------------------
(* The theorems.                                                              *)

LEMMA InitInv == Init => IInv
<1> SUFFICES ASSUME Init PROVE IInv
  OBVIOUS
<1> USE DEF Init, NoFiles, NoData, NoDrift, Quiet, NotWriting
<1>1. TypeOK
  <2>1. NoFiles \in [Files -> Stamps] /\ disk \in [Files -> Stamps]
    OBVIOUS
  <2>2. NotWriting \in WriterStates
    BY <2>1
  <2>3. wr \in [Writers -> WriterStates]
    BY <2>2
  <2>4. drift \in [changed : SUBSET Files, deleted : SUBSET Files]
    OBVIOUS
  <2> QED
    BY <2>1, <2>3, <2>4 DEF TypeOK
<1>2. Calm /\ Bounded /\ Alone
  BY DEF Calm, Bounded, UpTo, Alone, Active
<1>3. Paired /\ Scheduled /\ Vouched /\ Walked /\ RestartServesTree
  BY DEF Paired, Scheduled, Vouched, Walked, RestartServesTree
<1> QED
  BY <1>1, <1>2, <1>3 DEF IInv

LEMMA StutterInv ==
  ASSUME IInv, UNCHANGED vars
  PROVE  IInv'
BY DEF IInv, vars, TypeOK, Calm, Bounded, UpTo, Alone, Active, Paired, Fresh,
       Scheduled, Owed, Vouched, Walked, RestartServesTree

LEMMA NextInv ==
  ASSUME IInv, Next
  PROVE  IInv'
<1>1. CASE \E f \in Files : Edit(f)
  BY <1>1, EditInv
<1>2. CASE Open \/ Walk \/ LoadMisses \/ Load \/ Build \/ Hook
  BY <1>2, OpenInv, WalkInv, LoadMissesInv, LoadInv, BuildInv, HookInv
<1>3. CASE \E F \in SUBSET Files, resync \in BOOLEAN : Flush(F, resync)
  BY <1>3, FlushInv
<1>4. CASE WarmFinish \/ \E w \in {"flush", "warm"} : OnFlush(w) \/ ClearDirty(w)
  BY <1>4, WarmFinishInv, OnFlushInv, ClearDirtyInv
<1>5. CASE \E r \in Refreshers :
             \/ RefreshStart(r) \/ RefreshNotify(r) \/ RefreshReturn(r)
             \/ \E F \in SUBSET Files : RefreshFlush(r, F)
  BY <1>5, RefreshStartInv, RefreshNotifyInv, RefreshReturnInv, RefreshFlushInv
<1>6. CASE \E x \in SUBSET DbChunks : SetExtraChunks(x)
  BY <1>6, SetExtraChunksInv
<1>7. CASE \E w \in Writers : Write(w)
  BY <1>7, ReadInv, StampInv, WriteBinInv, WriteManifestInv, WriteFailsInv DEF Write
<1>8. CASE CloseCall \/ CloseWrites \/ CloseReturn \/ Crash
  BY <1>8, CloseCallInv, CloseWritesInv, CloseReturnInv, CrashInv
<1> QED
  BY <1>1, <1>2, <1>3, <1>4, <1>5, <1>6, <1>7, <1>8 DEF Next

(* The inductive invariant holds in every reachable state.                    *)
THEOREM SnapshotInv == Spec => []IInv
<1>1. Init => IInv
  BY InitInv
<1>2. IInv /\ [Next]_vars => IInv'
  BY NextInv, StutterInv
<1> QED
  BY <1>1, <1>2, PTL DEF Spec

(* The state of a workspace, of its writers and of the two files is well      *)
(* typed; no file is both changed and deleted in the drift of tryLoadSnapshot. *)
THEOREM SnapshotTypes == Spec => []TypeOK
<1>1. IInv => TypeOK
  BY DEF IInv
<1> QED
  BY <1>1, SnapshotInv, PTL

(* What Close leaves in snapshot.bin is what the workspace served, whatever   *)
(* refreshes, flushes and the warm pass did to snapshotDirty, for any number  *)
(* of them: every change of the index is owed, being written or on disk.      *)
THEOREM CloseIsCurrent == Spec => []CloseLeavesCurrent
<1>1. IInv => CloseLeavesCurrent
  <2> SUFFICES ASSUME IInv, st = "closed", ~slipped
               PROVE  bin # None /\ bin.files = files
    BY DEF CloseLeavesCurrent
  <2>1. ~Owed /\ \A w \in Writers : ~Active(w)
    BY DEF IInv, Calm, Owed, Active
  <2> QED
    BY <2>1 DEF IInv, Scheduled
<1> QED
  BY <1>1, SnapshotInv, PTL

(* The next Open serves the tree from what an orderly session left, whatever  *)
(* was edited in between and whatever crashed before it.                      *)
THEOREM RestartIsReconciled == Spec => []RestartServesTree
<1>1. IInv => RestartServesTree
  BY DEF IInv
<1> QED
  BY <1>1, SnapshotInv, PTL
=============================================================================
