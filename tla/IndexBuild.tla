------------------------------- MODULE IndexBuild -------------------------------
(* One build of an index from a file list (internal/search/index.go): a feeder *)
(* and a pool of workers over a bounded channel, the fold of the migration     *)
(* directories, and the parallel tokenizer, under a context that may be        *)
(* cancelled at any point.                                                     *)
EXTENDS Naturals, Sequences, FiniteSets, SequencesExt, Subsequences

CONSTANTS
  Files,     \* WalkFS's result: seq of [dir, sql, plain, extras], the last two
             \* the chunks of the chunker and of sql.ParseFile
  DirOrder,  \* the directories, sorted
  Folds,     \* directory -> chunks of FoldMigrations, <<>> if it fails
  Migration, \* the directories IsMigrationDir holds for
  Workers,
  SerialBelow,   \* parallelTokenize runs inline under this many (64)
  Builds     \* [mode, hasModel, disableFold, disableEnrichment, lazy, staged]

Listed(s) == s \in Seq(Range(s))
BuildAssumption ==
  /\ Listed(Files) /\ \A f \in DOMAIN Files : Listed(Files[f].plain) /\ Listed(Files[f].extras)
  /\ Listed(DirOrder) /\ \A i \in DOMAIN DirOrder : Listed(Folds[DirOrder[i]])
  /\ IsFiniteSet(Workers)

VARIABLES
  build,     \* the options of this build
  migDirs,
  ctx,       \* "live" or "cancelled"
  next,      \* feeder: index of the next file
  jobs, closed,
  worker,    \* worker -> [step, job]
  errs,      \* errCh
  results,   \* index -> [chunks, vecs], for those that were processed
  chunks, vecs, dirs, docs,
  phase      \* "start", "pool", "fold", "tokenize", "built", "failed"

vars == <<build, migDirs, ctx, next, jobs, closed, worker, errs, results, chunks, vecs, dirs, docs, phase>>

NumWorkers == Cardinality(Workers)
Blank == <<>>
Idle == [step |-> "idle", job |-> 0]
NeedsModel(mode) == mode # "bm25"
Indexes == 1..Len(Files)
Pool == <<next, jobs, closed, worker, errs, results>>
Product == <<chunks, vecs, dirs, docs>>

\* A chunk is its identity and whether the label is in its text; a vector is
\* that of one text.
Labelled(cs, label) == [i \in DOMAIN cs |-> [id |-> cs[i], label |-> label]]
Vec(c) == <<"vec", c>>
VecsOf(cs) == [i \in DOMAIN cs |-> Vec(cs[i])]
Embeds == build.hasModel /\ ~build.staged
Labels == ~build.disableEnrichment /\ ~build.lazy /\ ~build.staged

\* chunkOneFile: SQL structure is extra, unless the directory is folded.
ChunkOneFile(f) ==
  Files[f].plain \o (IF Files[f].sql /\ Files[f].dir \notin migDirs THEN Files[f].extras ELSE <<>>)

Init ==
  /\ build \in Builds /\ migDirs = {} /\ ctx = "live"
  /\ next = 1 /\ jobs = <<>> /\ closed = FALSE /\ worker = [w \in Workers |-> Idle]
  /\ errs = <<>> /\ results = <<>>
  /\ chunks = <<>> /\ vecs = <<>> /\ dirs = <<>> /\ docs = <<>> /\ phase = "start"

Cancel == ctx = "live" /\ phase \notin {"built", "failed"} /\ ctx' = "cancelled"
          /\ UNCHANGED <<build, migDirs, Pool, Product, phase>>

Fail == phase' = "failed" /\ UNCHANGED <<build, migDirs, ctx, Pool, Product>>

\* The walk is done; the migration directories are classified once.
Start ==
  /\ phase = "start"
  /\ IF NeedsModel(build.mode) /\ ~build.hasModel THEN Fail
     ELSE /\ phase' = "pool"
          /\ migDirs' = IF build.disableFold THEN {}
                        ELSE {Files[f].dir : f \in {g \in Indexes : Files[g].sql}} \cap Migration
          /\ UNCHANGED <<build, ctx, Pool, Product>>

-----------------------------------------------------------------------------
(* The pool.                                                                  *)

\* select: a send while there is room, or the cancellation.
Feed ==
  /\ phase = "pool" /\ ~closed /\ next <= Len(Files) /\ Len(jobs) < 2 * NumWorkers
  /\ jobs' = Append(jobs, next) /\ next' = next + 1
  /\ UNCHANGED <<build, migDirs, ctx, closed, worker, errs, results, Product, phase>>
CloseJobs ==
  /\ phase = "pool" /\ ~closed /\ (next > Len(Files) \/ ctx = "cancelled")
  /\ closed' = TRUE
  /\ UNCHANGED <<build, migDirs, ctx, next, jobs, worker, errs, results, Product, phase>>

Take(w) ==
  /\ phase = "pool" /\ worker[w] = Idle /\ jobs # <<>>
  /\ worker' = [worker EXCEPT ![w] = [step |-> "taken", job |-> Head(jobs)]]
  /\ jobs' = Tail(jobs)
  /\ UNCHANGED <<build, migDirs, ctx, next, closed, errs, results, Product, phase>>

\* A cancelled build's jobs are drained, not read.
CheckCtx(w) ==
  /\ worker[w].step = "taken"
  /\ worker' = [worker EXCEPT ![w] = IF ctx = "cancelled" THEN Idle ELSE [@ EXCEPT !.step = "work"]]
  /\ UNCHANGED <<build, migDirs, ctx, next, jobs, closed, errs, results, Product, phase>>

Process(w) ==
  /\ worker[w].step = "work"
  /\ LET cs == Labelled(ChunkOneFile(worker[w].job), Labels)
         r == [chunks |-> cs, vecs |-> IF Embeds THEN VecsOf(cs) ELSE <<>>]
     IN results' = [i \in DOMAIN results \cup {worker[w].job} |->
                      IF i = worker[w].job THEN r ELSE results[i]]
  /\ worker' = [worker EXCEPT ![w] = Idle]
  /\ UNCHANGED <<build, migDirs, ctx, next, jobs, closed, errs, Product, phase>>

\* The file cannot be read or chunked: errCh takes one error per worker, more
\* are dropped.
ProcessFails(w) ==
  /\ worker[w].step = "work"
  /\ errs' = IF Len(errs) < NumWorkers THEN Append(errs, worker[w].job) ELSE errs
  /\ worker' = [worker EXCEPT ![w] = Idle]
  /\ UNCHANGED <<build, migDirs, ctx, next, jobs, closed, results, Product, phase>>

Drained == phase = "pool" /\ closed /\ jobs = <<>> /\ \A w \in Workers : worker[w] = Idle

\* The migration directories, sorted.
Folded == Select(DirOrder, {i \in DOMAIN DirOrder : DirOrder[i] \in migDirs})

\* wg.Wait: the context, then the errors, then the results by file index.
Result(i) == IF i \in DOMAIN results THEN results[i] ELSE [chunks |-> <<>>, vecs |-> <<>>]
Gathered ==
  /\ chunks' = FlattenSeq([i \in Indexes |-> Result(i).chunks])
  /\ vecs' = IF build.hasModel THEN FlattenSeq([i \in Indexes |-> Result(i).vecs]) ELSE <<>>
  /\ dirs' = Folded
  /\ phase' = "fold" /\ UNCHANGED <<build, migDirs, ctx, Pool, docs>>
Gather_Hasty == Drained /\ IF errs # <<>> THEN Fail ELSE Gathered   \* mutant: no look at the context
Gather == Drained /\ IF ctx = "cancelled" \/ errs # <<>> THEN Fail ELSE Gathered

-----------------------------------------------------------------------------
(* The fold and the tokenizer.                                                *)

\* One directory; one that cannot be folded is passed over.
FoldDir ==
  /\ phase = "fold" /\ dirs # <<>>
  /\ IF ctx = "cancelled" THEN Fail
     ELSE /\ LET cs == Labelled(Folds[Head(dirs)], FALSE)
             IN /\ chunks' = chunks \o cs
                /\ vecs' = IF Embeds THEN vecs \o VecsOf(cs) ELSE vecs
          /\ dirs' = Tail(dirs)
          /\ UNCHANGED <<build, migDirs, ctx, Pool, docs, phase>>

\* The parity check, and the workers of parallelTokenize.
StartTokenize ==
  /\ phase = "fold" /\ dirs = <<>>
  /\ IF vecs # <<>> /\ Len(vecs) # Len(chunks) THEN Fail
     ELSE /\ phase' = "tokenize" /\ next' = 1
          /\ docs' = [i \in DOMAIN chunks |-> Blank]
          /\ UNCHANGED <<build, migDirs, ctx, jobs, closed, worker, errs, results, chunks, vecs, dirs>>

Tokens(c) == <<"tokens", c>>
TokenizeInline ==
  /\ phase = "tokenize" /\ Len(chunks) < SerialBelow /\ next = 1
  /\ docs' = [i \in DOMAIN chunks |-> Tokens(chunks[i])] /\ next' = Len(chunks) + 1
  /\ UNCHANGED <<build, migDirs, ctx, jobs, closed, worker, errs, results, chunks, vecs, dirs, phase>>
\* next.Add: a worker claims an index, then fills it.
Claim(w) ==
  /\ phase = "tokenize" /\ Len(chunks) >= SerialBelow /\ worker[w] = Idle /\ next <= Len(chunks)
  /\ worker' = [worker EXCEPT ![w] = [step |-> "tokenize", job |-> next]] /\ next' = next + 1
  /\ UNCHANGED <<build, migDirs, ctx, jobs, closed, errs, results, Product, phase>>
Tokenize(w) ==
  /\ worker[w].step = "tokenize"
  /\ docs' = [docs EXCEPT ![worker[w].job] = Tokens(chunks[worker[w].job])]
  /\ worker' = [worker EXCEPT ![w] = Idle]
  /\ UNCHANGED <<build, migDirs, ctx, next, jobs, closed, errs, results, chunks, vecs, dirs, phase>>

\* buildIndexFromDocs: the context is not looked at any more.
BuildIndex ==
  /\ phase = "tokenize" /\ next > Len(chunks) /\ \A w \in Workers : worker[w] = Idle
  /\ phase' = "built"
  /\ UNCHANGED <<build, migDirs, ctx, Pool, Product>>

Next ==
  \/ Start \/ Feed \/ CloseJobs \/ Gather \/ FoldDir \/ StartTokenize \/ TokenizeInline \/ BuildIndex \/ Cancel
  \/ \E w \in Workers : Take(w) \/ CheckCtx(w) \/ Process(w) \/ ProcessFails(w) \/ Claim(w) \/ Tokenize(w)
Spec == Init /\ [][Next]_vars

-----------------------------------------------------------------------------
\* Every file's chunks in the order of the walk, every folded directory's.
Whole ==
  FlattenSeq([f \in Indexes |-> Labelled(ChunkOneFile(f), Labels)])
  \o FlattenSeq([i \in DOMAIN Folded |-> Labelled(Folds[Folded[i]], FALSE)])

(* Whatever the order of the workers, the errors that were dropped and the    *)
(* moment of the cancellation, an index that is returned is the serial one:   *)
(* every file's chunks in the order of the walk, then every folded            *)
(* directory's in sorted order, each with the vector of the text it was given *)
(* and the tokens of its own (walkAndChunkFSWithModel, tokenizeDocs).  A       *)
(* cancelled or failed build returns none of a part of them.                  *)
BuildIsSerial ==
  phase = "built" =>
    /\ chunks = Whole
    /\ vecs = IF Embeds THEN VecsOf(Whole) ELSE <<>>
    /\ docs = [i \in DOMAIN Whole |-> Tokens(Whole[i])]
================================================================================
