-------------------------------- MODULE Bench --------------------------------
(* The retrieval benchmark (bench/contextbench): arms answer tasks, answers are*)
(* packed into token budgets, an outside evaluator scores them, and records are*)
(* appended to a results file task by task, so that an interrupted run, killed *)
(* or cut short by a full disk, is resumed by the next one on the same file.   *)
EXTENDS Integers, Sequences, FiniteSets, SequencesExt, FiniteSetsExt

CONSTANTS Lists,     \* task lists: sequences of instance ids
          Setups,    \* [arms, budgets: sequences, evaluate: BOOLEAN]
          Answers,   \* what an arm may retrieve: sequences of [file, start, end, tokens]
          Gold,      \* task -> set of [file, start, end]
          MaxRuns, MaxKills, MaxFails   \* bounds

VARIABLES file,     \* the results file: sequence of [rec, whole]
          run,      \* the running process, or NoRun
          runs, kills, fails,
          synced,   \* history: task -> [setup, recs] of its last synced run, or NoRun
          answer    \* what the last run returned, or NoRun

vars == <<file, run, runs, kills, fails, synced, answer>>
NoRun == <<>>
Tasks == UNION {Range(l) : l \in Lists}

-----------------------------------------------------------------------------
(* Packing, and what a record says of it.                                     *)

\* PackBudget: the first hit whatever its size, then each that still fits.
Fits(used, hit, max) == used + hit.tokens <= max
Pack(hits, max) ==
  IF hits = <<>> THEN [kept |-> <<>>, used |-> 0] ELSE
  FoldLeft(LAMBDA p, h : IF Fits(p.used, h, max)
                         THEN [kept |-> Append(p.kept, h), used |-> p.used + h.tokens] ELSE p,
           [kept |-> <<hits[1]>>, used |-> hits[1].tokens], Tail(hits))

\* MergeSpans, and the same merge in BuildTrajRecord: sorted, and joined when
\* they touch.
Before(s, t) == \/ s.file < t.file
                \/ s.file = t.file /\ s.start < t.start
                \/ s.file = t.file /\ s.start = t.start /\ s.end < t.end
Touches(s, t) == s.file = t.file /\ t.start <= s.end + 1
Joined(s, t) == [s EXCEPT !.end = Max({@, t.end})]
Merged(spans) ==
  FoldLeft(LAMBDA out, s : IF out # <<>> /\ Touches(Last(out), s)
                           THEN Front(out) \o <<Joined(Last(out), s)>> ELSE Append(out, s),
           <<>>, SetToSortSeq(spans, Before))

Span(h) == [file |-> h.file, start |-> h.start, end |-> h.end]
Overlap(s, t) == s.file = t.file /\ s.start <= t.end /\ t.start <= s.end
Clamped(s) == [s EXCEPT !.start = Max({1, @}), !.end = Max({1, s.start, @})]
Traj(kept) == Merged({Clamped(Span(h)) : h \in Range(kept)})
OverlapsGold(h, gold) == \E g \in Range(gold) : Overlap(h, g)
Tokens(hits) == FoldLeft(LAMBDA n, h : n + h.tokens, 0, hits)
ToFirstGold(hits, spans) ==
  LET at == SelectInSeq(hits, LAMBDA h : OverlapsGold(h, Merged(spans)))
  IN  IF at = 0 THEN -1 ELSE Tokens(SubSeq(hits, 1, at - 1))

-----------------------------------------------------------------------------
(* RunTaskOnArm and RunBatch.  An arm's answer is scored by the spans sent.   *)

Result(id, arm, budget, hits) ==
  LET p == Pack(hits, budget) IN
  [id |-> id, arm |-> arm, budget |-> budget, used |-> p.used, chunks |-> Len(p.kept),
   first |-> ToFirstGold(p.kept, Gold[id]), hits |-> hits, score |-> NoRun]
OnArm(id, arm, budgets, hits) ==
  [i \in DOMAIN budgets |-> Result(id, arm, budgets[i], hits)]

\* got: task -> arm -> the answer.
AllResults(ids, setup, got) ==
  FlattenSeq([t \in DOMAIN ids |->
    FlattenSeq([a \in DOMAIN setup.arms |->
      OnArm(ids[t], setup.arms[a], setup.budgets, got[ids[t]][setup.arms[a]])])])

\* evaluate.py on the records of one arm and budget: a metric for each, in an
\* order of its own; when it does not, the batch fails in AttachEvaluatedMetrics.
Slice(rs, arm, budget) == {i \in DOMAIN rs : rs[i].arm = arm /\ rs[i].budget = budget}
Evaluated(rs, idxs) ==
  {[id |-> rs[i].id, cov |-> Traj(Pack(rs[i].hits, rs[i].budget).kept)] : i \in idxs}
Attached(rs, idxs, metrics) ==
  [i \in DOMAIN rs |->
     IF i \in idxs THEN [rs[i] EXCEPT !.score = (CHOOSE m \in metrics : m.id = rs[i].id).cov]
     ELSE rs[i]]
Pairs(setup) == Range(setup.arms) \X Range(setup.budgets)
Batch(ids, setup, got) ==
  LET rs == AllResults(ids, setup, got) IN
  IF ~setup.evaluate THEN rs ELSE
  FoldSet(LAMBDA ab, acc : Attached(acc, Slice(acc, ab[1], ab[2]),
                                    Evaluated(acc, Slice(acc, ab[1], ab[2]))), rs, Pairs(setup))

-----------------------------------------------------------------------------
(* RunResumable.                                                              *)

Lines(rs) == [i \in DOMAIN rs |-> [rec |-> rs[i], whole |-> TRUE]]
Records == [i \in DOMAIN file |-> file[i].rec]          \* LoadResults
Parses == \A i \in DOMAIN file : file[i].whole
Has(rs, id, arm, budget) ==
  \E i \in DOMAIN rs : rs[i].id = id /\ rs[i].arm = arm /\ rs[i].budget = budget
Complete(rs, setup) ==
  {id \in Tasks : /\ \E i \in DOMAIN rs : rs[i].id = id
                  /\ \A ab \in Pairs(setup) : Has(rs, id, ab[1], ab[2])}

Init ==
  /\ file = <<>> /\ run = NoRun /\ runs = 0 /\ kills = 0 /\ fails = 0
  /\ synced = [t \in Tasks |-> NoRun] /\ answer = NoRun

Ends(error, sel) ==
  /\ run' = NoRun
  /\ answer' = [error |-> error, sel |-> sel, list |-> run.list, setup |-> run.setup,
                failed |-> run.failed]

\* The file is read; a line that does not parse refuses the run.
Launch(list, setup) ==
  /\ run = NoRun /\ runs < MaxRuns /\ Parses /\ runs' = runs + 1
  /\ run' = [list |-> list, setup |-> setup, at |-> "rewrite", task |-> 1, new |-> <<>>,
             done |-> Complete(Records, setup), failed |-> {}]
  /\ answer' = NoRun /\ UNCHANGED <<file, kills, fails, synced>>
Refuse(list, setup) ==
  /\ run = NoRun /\ runs < MaxRuns /\ ~Parses /\ runs' = runs + 1
  /\ answer' = [error |-> "parse", sel |-> <<>>, list |-> list, setup |-> setup, failed |-> {}]
  /\ UNCHANGED <<file, run, kills, fails, synced>>

\* The records of tasks that are not complete are dropped, with a rename: also
\* of those that a run for other arms or budgets completed.
Widens(t) == synced[t] # NoRun /\ ~(Pairs(run.setup) \subseteq Pairs(synced[t].setup))
Rewrite ==
  /\ run # NoRun /\ run.at = "rewrite"
  /\ file' = SelectSeq(file, LAMBDA l : l.rec.id \in run.done)
  /\ synced' = [t \in Tasks |-> IF t \in run.done \/ ~Widens(t) THEN synced[t] ELSE NoRun]
  /\ run' = [run EXCEPT !.at = "tasks"]
  /\ UNCHANGED <<runs, kills, fails, answer>>

\* The next task of the list that is not done.
Pending == run # NoRun /\ run.at = "tasks" /\ run.task <= Len(run.list)
Now == run.list[run.task]
Skip ==
  /\ Pending /\ Now \in run.done
  /\ run' = [run EXCEPT !.task = @ + 1]
  /\ UNCHANGED <<file, runs, kills, fails, synced, answer>>

\* Its repository, checkout, arm or evaluation fails: it is logged and skipped.
TaskFails ==
  /\ Pending /\ Now \notin run.done /\ fails < MaxFails /\ fails' = fails + 1
  /\ run' = [run EXCEPT !.task = @ + 1, !.failed = @ \cup {Now}]
  /\ UNCHANGED <<file, runs, kills, synced, answer>>

\* Its records are written in one call, and synced before it counts as done.
TaskWritten ==
  /\ Pending /\ Now \notin run.done
  /\ \E hits \in [Range(run.setup.arms) -> Answers] :
       LET rs == Batch(<<Now>>, run.setup, [t \in {Now} |-> hits]) IN
       /\ file' = file \o Lines(rs)
       /\ run' = [run EXCEPT !.at = "sync", !.new = rs]
  /\ UNCHANGED <<runs, kills, fails, synced, answer>>

Sync ==
  /\ run # NoRun /\ run.at = "sync"
  /\ run' = [run EXCEPT !.at = "tasks", !.task = @ + 1, !.done = @ \cup {Now}, !.new = <<>>]
  /\ synced' = [synced EXCEPT ![Now] = [setup |-> run.setup, recs |-> Range(run.new)]]
  /\ UNCHANGED <<file, runs, kills, fails, answer>>

\* What the disk has of a buffer that was not written out: its first lines, and
\* perhaps a part of the next.
Written == SubSeq(file, 1, Len(file) - Len(run.new))
CutShort(part) ==
  \E n \in 0..(Len(run.new) - 1) :
    file' = Written \o Lines(SubSeq(run.new, 1, n))
            \o IF part THEN <<[rec |-> run.new[n + 1], whole |-> FALSE]>> ELSE <<>>

\* The write or the sync fails, or the process or the machine goes down.
WriteFails ==
  /\ run # NoRun /\ run.at = "sync" /\ fails < MaxFails /\ fails' = fails + 1
  /\ \E part \in BOOLEAN : CutShort(part)
  /\ Ends("write", <<>>)
  /\ UNCHANGED <<runs, kills, synced>>
Kill ==
  /\ run # NoRun /\ kills < MaxKills /\ kills' = kills + 1
  /\ IF run.at = "sync" THEN UNCHANGED file \/ \E part \in BOOLEAN : CutShort(part)
                        ELSE UNCHANGED file
  /\ run' = NoRun /\ UNCHANGED <<runs, fails, synced, answer>>
\* An interrupt ends the run at the task it is in.
Cancel ==
  /\ Pending /\ Ends("cancelled", <<>>)
  /\ UNCHANGED <<file, runs, kills, fails, synced>>

\* The records of the listed tasks, in the order of the list.
Selected ==
  FlattenSeq([i \in DOMAIN run.list |-> SelectSeq(Records, LAMBDA r : r.id = run.list[i])])
Finish ==
  /\ run # NoRun /\ run.at = "tasks" /\ run.task > Len(run.list)
  /\ Ends(IF run.failed = {} THEN "none" ELSE "failed", Selected)
  /\ UNCHANGED <<file, runs, kills, fails, synced>>

\* Without -resume: all tasks in one batch, and the file is written over.
RunBatch(list, setup) ==
  /\ run = NoRun /\ runs < MaxRuns /\ runs' = runs + 1
  /\ \E got \in [Range(list) -> [Range(setup.arms) -> Answers]] :
       LET rs == Batch(list, setup, got) IN
       /\ file' = Lines(rs)
       /\ answer' = [error |-> "none", sel |-> rs, list |-> list, setup |-> setup, failed |-> {}]
       /\ synced' = [t \in Tasks |-> NoRun]
  /\ UNCHANGED <<run, kills, fails>>

Next ==
  \/ \E l \in Lists, s \in Setups : Launch(l, s) \/ Refuse(l, s) \/ RunBatch(l, s)
  \/ Rewrite \/ Skip \/ TaskFails \/ TaskWritten \/ Sync
  \/ WriteFails \/ Kill \/ Cancel \/ Finish
Spec == Init /\ [][Next]_vars

-----------------------------------------------------------------------------
(* ComputePairComparison: the difference of two arms over the tasks that have *)
(* both, by task and not by position.                                         *)
OfArm(rs, arm, budget) == SelectSeq(rs, LAMBDA r : r.arm = arm /\ r.budget = budget)
Paired(rs, a, b, budget) ==
  LET other == OfArm(rs, b, budget) IN
  [i \in DOMAIN OfArm(rs, a, budget) |->
     LET ra == OfArm(rs, a, budget)[i] IN
     <<ra, SelectSeq(other, LAMBDA r : r.id = ra.id)>>]

-----------------------------------------------------------------------------
(* Properties.                                                                *)

\* A reference for the packing: the first hit, and of the others exactly those
\* that fit beside the kept ones before them.
Sum(hits, K) == FoldSet(LAMBDA i, n : hits[i].tokens + n, 0, K)
PackedWell(r) ==
  \E K \in SUBSET DOMAIN r.hits :
    /\ \A i \in DOMAIN r.hits :
         i \in K <=> i = 1 \/ Sum(r.hits, K \cap 1..(i - 1)) + r.hits[i].tokens <= r.budget
    /\ r.chunks = Cardinality(K) /\ r.used = Sum(r.hits, K)
    /\ LET gold == {i \in K : \E g \in Gold[r.id] : Overlap(r.hits[i], g)} IN
       r.first = IF gold = {} THEN -1 ELSE Sum(r.hits, K \cap 1..(Min(gold) - 1))
LinesOf(spans) == UNION {{<<s.file, l>> : l \in s.start..s.end} : s \in spans}
Apart(spans) == \A i, j \in DOMAIN spans :
  i < j => spans[i].file # spans[j].file \/ spans[i].end + 1 < spans[j].start
OwnScore(r) ==
  LET kept == Range(Pack(r.hits, r.budget).kept) IN
  r.score # NoRun => /\ LinesOf(Range(r.score)) = LinesOf({Span(h) : h \in kept})
                     /\ Apart(r.score)

(* However runs are cut short and resumed, the file never holds two records   *)
(* for one task, arm and budget, a task whose records were synced keeps them  *)
(* until a run asks for more arms or budgets, a run that ends well returns    *)
(* each of its tasks' records once and in order, each with the score of its   *)
(* own answer, and two arms are compared task by task (resume.go, runner.go,  *)
(* bootstrap.go).  A line cut short makes every later run refuse the file.    *)
ResultsResume ==
  /\ \A i, j \in DOMAIN file :
       i < j => \/ file[i].rec.id # file[j].rec.id \/ file[i].rec.arm # file[j].rec.arm
                \/ file[i].rec.budget # file[j].rec.budget
  /\ \A t \in Tasks : synced[t] # NoRun => synced[t].recs \subseteq Range(Records)
  /\ \A i \in DOMAIN file : PackedWell(file[i].rec) /\ OwnScore(file[i].rec)
  /\ answer # NoRun /\ answer.error \in {"none", "failed"} =>
       \A t \in Range(answer.list) \ answer.failed, ab \in Pairs(answer.setup) :
         Cardinality({i \in DOMAIN answer.sel : /\ answer.sel[i].id = t
                        /\ answer.sel[i].arm = ab[1] /\ answer.sel[i].budget = ab[2]}) = 1
  /\ answer # NoRun /\ answer.error = "none" =>
       \A a, b \in Range(answer.setup.arms), n \in Range(answer.setup.budgets) :
         LET ps == Paired(answer.sel, a, b, n) IN
         /\ Len(ps) = Cardinality(Range(answer.list))
         /\ \A i \in DOMAIN ps : Len(ps[i][2]) = 1
=============================================================================
