------------------------------- MODULE Ranking -------------------------------
(* A search over one published index (internal/search: index.go, hybrid.go,    *)
(* rerank.go, penalties.go, adaptive.go, reranker.go): the mode it falls back  *)
(* to, rank fusion, the boosts, the greedy selection with its early exit, the  *)
(* tombstone filter and the reranker's blend.  Scores are integers on the      *)
(* scale Unit.  The two retrievers and the model are inputs: an order of the   *)
(* chunks, and a number per chunk.                                             *)
EXTENDS Integers, Sequences, FiniteSets, SequencesExt, FiniteSetsExt

CONSTANTS Chunks,    \* sequence of [file, start, end, defines]
          Penalty,   \* file -> filePathPenalty in tenths of tenths (0..100)
          Stem,      \* file -> the name its stem matches
          Parts,     \* file -> words of its stem and directory
          ArmMin, ArmFactor, \* armOverfetch: at least, and per hit asked for
          FilesCap,          \* searchFilesOverfetchCap
          RerankN, MinN, Threshold,  \* rerankerConfig; Threshold in tenths, 0 off
          Requests   \* the searches to try

Unit == 1000000
RrfK == 60            \* fuse.DefaultK
Overfetch == 5        \* candidateOverfetch
Ids == 1..Len(Chunks)
FileOf(i) == Chunks[i].file

VARIABLES request, answer
vars == <<request, answer>>

-----------------------------------------------------------------------------
\* resolveMode: downgrade rather than fail.
ResolveMode(mode, model, reranker) ==
  IF mode # "bm25" /\ ~model THEN "bm25"
  ELSE IF mode = "rerank" /\ ~reranker THEN "hybrid"
  ELSE mode

\* resolveAlpha, in tenths: the weight of the semantic order.
Alpha(q) == IF q.symbol THEN 3 ELSE 5

Prefix(s, n) == SubSeq(s, 1, IF n < Len(s) THEN n ELSE Len(s))
Best(scores) == Max({scores[i] : i \in DOMAIN scores})

\* hybridSearch: weighted reciprocal ranks, summed.
Reciprocal(order, weight, i) ==
  LET at == {r \in 1..Len(order) : order[r] = i}
  IN IF at = {} THEN 0 ELSE (weight * Unit) \div (10 * (RrfK + Min(at)))
Fused(q, sem, bm) ==
  [i \in ToSet(sem) \cup ToSet(bm) |->
     Reciprocal(sem, Alpha(q), i) + Reciprocal(bm, 10 - Alpha(q), i)]

\* boostMultiChunkFiles: a file's best chunk gains by the file's share.
FileSum(scores, f) == FoldSet(LAMBDA i, t : scores[i] + t, 0,
                                           {i \in DOMAIN scores : FileOf(i) = f})
BestOf(scores, f) ==
  LET of == {i \in DOMAIN scores : FileOf(i) = f}
  IN Min({i \in of : \A j \in of : scores[j] <= scores[i]})
BoostFiles(scores) ==
  IF DOMAIN scores = {} \/ Best(scores) = 0 THEN scores
  ELSE LET files == {FileOf(i) : i \in DOMAIN scores}
           top == Max({FileSum(scores, f) : f \in files})
       IN [i \in DOMAIN scores |->
             IF i = BestOf(scores, FileOf(i))
               THEN scores[i] + ((Best(scores) \div 5) * FileSum(scores, FileOf(i))) \div top
               ELSE scores[i]]

\* definitionTier: half as much again if the file is named for it.
Tier(i, names, unit) ==
  IF names \cap Chunks[i].defines = {} THEN 0
  ELSE IF Stem[FileOf(i)] \in names THEN unit + unit \div 2 ELSE unit

\* Candidates that define a name gain; other chunks that do, in files named
\* for it, become candidates.
BoostDefinitions(scores, names, unit) ==
  LET found == {i \in Ids \ DOMAIN scores : Stem[FileOf(i)] \in names /\ Tier(i, names, unit) > 0}
  IN [i \in DOMAIN scores \cup found |->
        (IF i \in found THEN 0 ELSE scores[i]) + Tier(i, names, unit)]

\* boostStemMatches: the share of the query's words that the path has.
BoostStems(scores, words, unit) ==
  IF words = {} THEN scores
  ELSE [i \in DOMAIN scores |->
          scores[i] + (unit * Cardinality(words \cap Parts[FileOf(i)])) \div Cardinality(words)]

QueryBoost(scores, q) ==
  IF DOMAIN scores = {} THEN scores
  ELSE LET ms == Best(scores) IN
       IF q.symbol
         THEN BoostDefinitions(scores, q.names, 3 * ms)
         ELSE LET stems == BoostStems(scores, q.words, ms)
              IN IF q.names = {} THEN stems
                 ELSE BoostDefinitions(stems, q.names, (3 * ms) \div 2)

-----------------------------------------------------------------------------
(* rerankTopK.                                                                *)

Penalised(scores, paths) ==
  [i \in DOMAIN scores |-> IF paths THEN (scores[i] * Penalty[FileOf(i)]) \div 100 ELSE scores[i]]

\* Best first; ties by line, file (the order of Chunks), index.
Before(s, i, j) ==
  \/ s[i] > s[j]
  \/ s[i] = s[j] /\ (Chunks[i].start < Chunks[j].start \/ (Chunks[i].start = Chunks[j].start /\ i < j))
Ranked(s) == SetToSortSeq(DOMAIN s, LAMBDA i, j : Before(s, i, j))

\* Each further chunk of a file counts half as much as the one before.
Decayed(score, already) == score \div (2 ^ already)
SoFar(sel, f) == Cardinality({k \in 1..Len(sel) : FileOf(sel[k].id) = f})

Selected(s, order) ==
  LET take[n \in 0..Len(order)] ==
        IF n = 0 THEN <<>>
        ELSE LET i == order[n] IN
             Append(take[n - 1], [id |-> i, score |-> Decayed(s[i], SoFar(take[n - 1], FileOf(i)))])
  IN take[Len(order)]

\* The loop stops when enough are selected and the next cannot beat the least.
Stops_Early(sel, score, k) == Len(sel) >= k     \* mutant: before decay is known
Stops(sel, score, k) ==
  Len(sel) >= k /\ score <= Min({sel[n].score : n \in 1..Len(sel)})

Greedy(s, k) ==
  LET order == Ranked(s)
      all == Selected(s, order)
      stop == {n \in 1..Len(order) : Stops(SubSeq(all, 1, n - 1), s[order[n]], k)}
  IN IF stop = {} \/ k = 0 THEN all ELSE SubSeq(all, 1, Min(stop) - 1)

ByScore(sel) ==
  SetToSortSeq(ToSet(sel), LAMBDA a, b : a.score > b.score \/ (a.score = b.score /\ a.id < b.id))

RerankTopK(scores, k, paths) ==
  IF DOMAIN scores = {} THEN <<>> ELSE Prefix(ByScore(Greedy(Penalised(scores, paths), k)), k)

HybridSearch(q, sem, bm, k) ==
  LET n == k * Overfetch
      fused == QueryBoost(BoostFiles(Fused(q, Prefix(sem, n), Prefix(bm, n))), q)
  IN RerankTopK(fused, k, TRUE)

-----------------------------------------------------------------------------
(* The reranker's blend.                                                      *)

\* minmaxNormalize, in thousandths.
Normal(xs) ==
  LET lo == Min(Range(xs)) hi == Max(Range(xs))
  IN [i \in DOMAIN xs |-> IF hi <= lo THEN 500 ELSE ((xs[i] - lo) * 1000) \div (hi - lo)]

\* How many of the head are reranked: fewer when stage one is sure.
HeadSize(ranked) ==
  LET n == IF RerankN < Len(ranked) THEN RerankN ELSE Len(ranked)
      sure == /\ Threshold > 0 /\ Len(ranked) >= 2 /\ ranked[1].score > 0
              /\ (ranked[1].score - ranked[2].score) * 10 >= Threshold * ranked[1].score
  IN IF sure /\ MinN < n THEN MinN ELSE n

\* A quarter of the model's cosine, three of the fused score; the tail follows
\* in its order.  A reranker that fails leaves all as it was.
ApplyReranker(ranked, cosine, fails) ==
  IF ranked = <<>> \/ fails THEN ranked
  ELSE LET n == HeadSize(ranked)
           cos == Normal([i \in 1..n |-> cosine[ranked[i].id]])
           fus == Normal([i \in 1..n |-> ranked[i].score])
           final == [i \in 1..n |-> cos[i] + 3 * fus[i]]
           order == SetToSortSeq(1..n, LAMBDA i, j : final[i] > final[j] \/ (final[i] = final[j] /\ i < j))
       IN [i \in 1..n |-> [id |-> ranked[order[i]].id, score |-> final[order[i]]]]
          \o SubSeq(ranked, n + 1, Len(ranked))

-----------------------------------------------------------------------------
(* Search.                                                                    *)

\* collectResults drops tombstones before it cuts to k.
Live(ranked, dead) == SelectSeq(ranked, LAMBDA r : r.id \notin dead)
Collect(ranked, dead, k) == Prefix(Live(ranked, dead), k)
Hits(order, n) == [i \in 1..Len(Prefix(order, n)) |-> [id |-> order[i], score |-> Unit - i]]

OverFetch(k, dead) == k + Cardinality(dead)

\* searchCore, for a mode that resolveMode gave.
SearchCore(mode, r) ==
  LET n == OverFetch(r.k, r.dead) IN
  CASE mode = "semantic" -> Collect(Hits(r.sem, n), r.dead, r.k)
    [] mode = "hybrid"   -> Collect(HybridSearch(r.q, r.sem, r.bm, n), r.dead, r.k)
    [] mode = "rerank"   ->
         LET fetch == IF RerankN > r.k THEN RerankN ELSE r.k
             ranked == HybridSearch(r.q, r.sem, r.bm, fetch)
         IN Prefix(ApplyReranker(Live(ranked, r.dead), r.cosine, r.fails), r.k)
    [] OTHER             -> Collect(Hits(r.bm, n), r.dead, r.k)

SearchMode(r) == SearchCore(ResolveMode(r.mode, r.model, r.reranker), r)

\* ResolveChunk: the chunk that holds the line; its last line counts only if no
\* other chunk starts there.
ResolveChunk(f, line, dead) ==
  LET of == {i \in Ids \ dead : FileOf(i) = f /\ Chunks[i].start <= line /\ line <= Chunks[i].end}
      inside == {i \in of : line < Chunks[i].end}
  IN IF of = {} THEN 0 ELSE IF inside # {} THEN Min(inside) ELSE Min(of)

FindRelated(r) ==
  LET src == ResolveChunk(r.file, r.line, r.dead)
      n == r.k + 1 + Cardinality(r.dead)
  IN IF ~r.model \/ src = 0 THEN <<>>
     ELSE Prefix(SelectSeq(Hits(r.sem, n), LAMBDA h : h.id \notin r.dead \cup {src}), r.k)

-----------------------------------------------------------------------------
(* The workspace's hits (engine/search.go): each with its rank in the answer  *)
(* and in the two arms, 0 where it has none.                                  *)

\* chunkKey: what tells one chunk from another.
Key(i) == <<Chunks[i].file, Chunks[i].start, Chunks[i].end>>
RankIn(results, i) ==
  LET at == {n \in 1..Len(results) : Key(results[n].id) = Key(i)}
  IN IF at = {} THEN 0 ELSE Max(at)

ArmOverfetch(k) == Max({ArmMin, ArmFactor * k})
Arm(mode, r, k) == SearchCore(mode, [r EXCEPT !.k = ArmOverfetch(k)])

\* In a mode of one arm the answer is the arm's ranking, whatever it left out.
ToHits(results, mode, r) ==
  LET bm == IF mode = "bm25" THEN results
            ELSE IF mode = "semantic" THEN <<>> ELSE Arm("bm25", r, r.k)
      dense == IF mode = "semantic" THEN results
               ELSE IF mode = "bm25" \/ ~r.model THEN <<>> ELSE Arm("semantic", r, r.k)
  IN [i \in 1..Len(results) |->
        [id |-> results[i].id, rank |-> i,
         bm |-> RankIn(bm, results[i].id), dense |-> RankIn(dense, results[i].id)]]

Resolved(r) == ResolveMode(r.mode, r.model, r.reranker)
SearchWith(r) == ToHits(SearchMode(r), Resolved(r), r)

\* A larger pool of the same pipeline, of which the files' hits are kept.
SearchFiles(r) ==
  IF r.k = 0 THEN <<>>
  ELSE LET pool == Max({Min({Len(Chunks), FilesCap}), r.k})
           found == SearchMode([r EXCEPT !.k = pool])
       IN ToHits(Prefix(SelectSeq(found, LAMBDA h : FileOf(h.id) \in r.files), r.k), Resolved(r), r)

RelatedHits(r) ==
  LET found == FindRelated(r)
  IN [i \in 1..Len(found) |-> [id |-> found[i].id, rank |-> i, bm |-> 0, dense |-> i]]

-----------------------------------------------------------------------------
None == [mode |-> "none"]

Init == request = None /\ answer = <<>>

Search(r) ==
  /\ request = None /\ r.mode # "related" /\ r.files = {}
  /\ request' = r /\ answer' = SearchWith(r)
InFiles(r) ==
  /\ request = None /\ r.mode # "related" /\ r.files # {}
  /\ request' = r /\ answer' = SearchFiles(r)
Related(r) ==
  /\ request = None /\ r.mode = "related"
  /\ request' = r /\ answer' = RelatedHits(r)
Reset == request # None /\ request' = None /\ answer' = <<>>

Next == (\E r \in Requests : Search(r) \/ InFiles(r) \/ Related(r)) \/ Reset
Spec == Init /\ [][Next]_vars

-----------------------------------------------------------------------------
(* Properties.                                                                *)

Asked == request # None
InScope == IF request.files = {} THEN Ids ELSE {i \in Ids : FileOf(i) \in request.files}
Alive == InScope \ request.dead
Wanted(n) == IF request.k < n THEN request.k ELSE n

(* The early exit of the selection loses nothing: the scores returned are     *)
(* the k best of those that the whole list would give (rerankTopK).           *)
ExitIsExact ==
  Asked /\ request.mode = "hybrid" =>
    LET s == Penalised(Fused(request.q, request.sem, request.bm), TRUE)
        full == Prefix(ByScore(Selected(s, Ranked(s))), request.k)
        got == RerankTopK(Fused(request.q, request.sem, request.bm), request.k, TRUE)
    IN [i \in 1..Len(got) |-> got[i].score] = [i \in 1..Len(full) |-> full[i].score]

(* Whatever the mode and the downgrades, the answer has no tombstone and no   *)
(* chunk twice; a semantic, hybrid or related search is not short of k while  *)
(* live chunks are left; and reranking only reorders what stage one found.    *)
AnswerIsFull ==
  Asked =>
    LET ids == [i \in 1..Len(answer) |-> answer[i].id]
        mode == IF request.mode = "related" THEN "related"
                ELSE ResolveMode(request.mode, request.model, request.reranker)
    IN /\ Range(ids) \subseteq Alive /\ Len(ids) <= request.k
       /\ Cardinality(Range(ids)) = Len(ids)
       /\ mode \in {"semantic", "hybrid"} => Len(ids) = Wanted(Cardinality(Alive))
       /\ mode = "related" /\ request.model /\ ResolveChunk(request.file, request.line, request.dead) # 0
            => Len(ids) = Wanted(Cardinality(Alive) - 1)
       /\ mode = "rerank" /\ request.fails /\ request.files = {}
            => ids = [i \in 1..Len(ids) |->
                        Live(HybridSearch(request.q, request.sem, request.bm,
                               IF RerankN > request.k THEN RerankN ELSE request.k), request.dead)[i].id]

(* The arm ranks tell the truth of the arms: within one arm they rise with the *)
(* rank; in a hybrid answer no two hits share one, a hit has one wherever the  *)
(* arm's pool reaches it, and a hit of neither arm is there for defining a     *)
(* name or lies beyond both pools (toHits).                                    *)
RanksAgree ==
  Asked =>
    LET mode == IF request.mode = "related" THEN "semantic" ELSE Resolved(request)
        live(order) == SelectSeq(order, LAMBDA i : i \notin request.dead)
        pool(order) == Prefix(live(order), ArmOverfetch(request.k))
        Agrees(order, at(_)) ==
          \A h \in ToSet(answer) :
            /\ at(h) > 0 => at(h) <= Len(pool(order)) /\ pool(order)[at(h)] = h.id
            /\ h.id \in ToSet(pool(order)) => at(h) > 0
    IN /\ \A i \in 1..Len(answer) : answer[i].rank = i
       /\ mode \in {"hybrid", "rerank"} =>
            /\ Agrees(request.bm, LAMBDA h : h.bm) /\ Agrees(request.sem, LAMBDA h : h.dense)
            /\ \A h \in ToSet(answer) :
                 \/ h.bm + h.dense > 0
                 \/ Chunks[h.id].defines \cap request.q.names # {}
                 \/ h.id \in ToSet(request.bm) \cup ToSet(request.sem)
       /\ mode = "semantic" => \A h \in ToSet(answer) : h.bm = 0 /\ h.dense = h.rank
       /\ mode = "bm25" => \A h \in ToSet(answer) : h.dense = 0 /\ h.bm = h.rank

SearchIsSound == ExitIsExact /\ AnswerIsFull /\ RanksAgree
=============================================================================
