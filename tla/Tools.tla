---------------------------------- MODULE Tools ----------------------------------
(* The MCP tools (mcp/server.go, structural_tools.go, token_budget.go,         *)
(* recently_changed_tool.go, status_tool.go) over a repository that is         *)
(* re-indexed between calls: what each handler refuses, fetches, filters, cuts *)
(* and counts.  Retrieval and lookups are inputs (Ranking, SymbolIndex); the   *)
(* wording of an answer is left out.                                          *)
EXTENDS Naturals, Sequences, FiniteSets, SequencesExt, FiniteSetsExt

CONSTANTS
  Versions,      \* the indexes there may be: [ranked, related, tokens, ext, symbols,
                 \* outline, sites, refs, callers, commits, sizes]
  Defaults,      \* cfg.DefaultRepo is set, or not
  Requests,      \* single calls
  Pages,         \* paging sessions: [tool, limit]
  DefaultTopK, MaxTopK, Overfetch, OverfetchCap, MaxBulkQueries, Scaffold,
  MaxPage,       \* MaxSymbols, MaxOutlineFiles
  DefaultCommits, MaxCommits,
  MaxUpdates     \* bound

VARIABLES
  index,      \* the published version
  structural, \* "ready", "pending", "none", of the RepoBundle
  default,    \* cfg.DefaultRepo is set
  asked, answer,
  paging,     \* a client that pages: [page, offset, got, of, seen]
  updates

vars == <<index, structural, default, asked, answer, paging, updates>>

NoRequest == [tool |-> "none"]
NoAnswer == [kind |-> "none"]
Refusal(why) == [kind |-> "error", why |-> why]
Data(r) == [kind |-> "data", data |-> r]
NoPaging == [page |-> [tool |-> "none"]]
Least(a, b) == IF a < b THEN a ELSE b
Prefix(s, n) == SubSeq(s, 1, Least(n, Len(s)))

-----------------------------------------------------------------------------
(* Search and find_related.                                                   *)

TopK(k) == IF k = 0 THEN DefaultTopK ELSE Least(k, MaxTopK)

Filtered(a) == a.languages # {} \/ a.only # {} \/ a.except # {}
FetchK(a) == IF Filtered(a) THEN Least(TopK(a.topK) * Overfetch, OverfetchCap) ELSE TopK(a.topK)
\* applySearchFilters; path_contains is the set of files it matches.
Passes(a, f) ==
  /\ a.languages # {} => index.ext[f] \in a.languages
  /\ a.only # {} => f \in a.only
  /\ f \notin a.except

\* resultTokens, applyTokenBudget: the head that fits; the first row always.
Cost(f) == index.tokens[f] + Scaffold
Used(rows, n) == FoldSet(LAMBDA i, t : Cost(rows[i]) + t, 0, 1..n)
Budgeted_Strict(rows, max) ==                        \* mutant: the top hit may go
  IF max = 0 THEN rows
  ELSE Prefix(rows, Max({n \in 0..Len(rows) : Used(rows, n) <= max}))
Budgeted(rows, max) ==
  IF max = 0 \/ rows = <<>> THEN rows
  ELSE Prefix(rows, Max({1} \cup {n \in 1..Len(rows) : Used(rows, n) <= max}))

\* searchCore.
SearchOne(a, q) ==
  LET found == Prefix(index.ranked[q], FetchK(a))
      kept == Prefix(SelectSeq(found, LAMBDA f : Passes(a, f)), TopK(a.topK))
      rows == Budgeted(kept, a.maxTokens)
  IN [query |-> q, rows |-> rows, before |-> Len(found), after |-> Len(kept),
      dropped |-> Len(kept) - Len(rows)]

\* runSearchBulk.
Bulk(a) ==
  LET qs == Prefix(a.queries, MaxBulkQueries)
  IN [answers |-> [i \in DOMAIN qs |-> SearchOne(a, qs[i])], dropped |-> Len(a.queries) - Len(qs)]

\* resolveRepo and confineLocalRepo, then the cache.
RepoError(a) ==
  CASE a.repo = "outside" -> "outside the allowed roots"
    [] a.repo = "none" /\ ~default -> "no repo"
    [] a.repo = "fails" -> "failed to index"
    [] OTHER -> ""

HandleSearch(a) ==
  IF a.queries = <<>> /\ a.query = "" THEN Refusal("query required")
  ELSE IF RepoError(a) # "" THEN Refusal(RepoError(a))
  ELSE IF a.mode = "unknown" THEN Refusal("mode")
  ELSE IF a.queries # <<>> THEN Data(Bulk(a))
  ELSE Data([answers |-> <<SearchOne(a, a.query)>>, dropped |-> 0])

\* A location that is no chunk is answered with no rows.
HandleFindRelated(a) ==
  IF a.file = "" \/ a.line = 0 THEN Refusal("file_path required")
  ELSE IF RepoError(a) # "" THEN Refusal(RepoError(a))
  ELSE LET kept == IF a.file \in DOMAIN index.related
                     THEN Prefix(index.related[a.file], TopK(a.topK)) ELSE <<>>
           rows == Budgeted(kept, a.maxTokens)
       IN Data([answers |-> <<[query |-> a.file, rows |-> rows, before |-> Len(kept),
                              after |-> Len(kept), dropped |-> Len(kept) - Len(rows)]>>,
                dropped |-> 0])

-----------------------------------------------------------------------------
(* The structural tools.                                                      *)

\* resolveStructuralIndex: a build that is going on is answered with a retry.
StructuralError(a) ==
  IF RepoError(a) # "" THEN RepoError(a)
  ELSE IF structural = "pending" THEN "still building"
  ELSE IF structural = "none" THEN "no structural index" ELSE ""
Structural(a, d) ==
  IF StructuralError(a) # "" THEN Refusal(StructuralError(a))
  ELSE IF a.symbol = "" THEN Refusal("argument required") ELSE Data(d)
Of(f, x) == IF x \in DOMAIN f THEN f[x] ELSE <<>>

HandleDefinition(a) == Structural(a, Of(index.sites, a.symbol))

\* One row per file in order, with each kind once and all lines.
ByFile(refs) ==
  LET files == SetToSortSeq({refs[i].file : i \in DOMAIN refs}, <)
      at(f) == SelectSeq(refs, LAMBDA r : r.file = f)
  IN [i \in DOMAIN files |->
        [file |-> files[i], kinds |-> {at(files[i])[j].kind : j \in DOMAIN at(files[i])},
         lines |-> FlattenSeq([j \in DOMAIN at(files[i]) |-> at(files[i])[j].lines])]]
HandleReferences(a) ==
  LET refs == Of(index.refs, a.symbol)
  IN Structural(a, [rows |-> ByFile(refs), references |-> Len(refs), files |-> Len(ByFile(refs))])
HandleCallers(a) ==
  Structural(a, SortSeq(Of(index.callers, a.symbol), LAMBDA s, t : s.file < t.file))

\* pageWindow, from 0.
PageWindow(total, offset, limit) ==
  LET lo == Least(offset, total)
      size == IF limit = 0 \/ limit > MaxPage THEN MaxPage ELSE limit
      hi == Least(offset + size, total)
  IN [lo |-> lo, hi |-> hi, truncated |-> hi < total, overshot |-> total > 0 /\ offset >= total]
Paged(items, offset, limit) ==
  LET w == PageWindow(Len(items), offset, limit)
  IN [items |-> SubSeq(items, w.lo + 1, w.hi), total |-> Len(items), hi |-> w.hi,
      truncated |-> w.truncated, overshot |-> w.overshot]

HandleSymbols(a) ==
  IF StructuralError(a) # "" THEN Refusal(StructuralError(a))
  ELSE Data(Paged(index.symbols, a.offset, a.limit))
\* handleOutline of a directory: files without a symbol are not shown.
HandleOutline(a) ==
  IF StructuralError(a) # "" THEN Refusal(StructuralError(a))
  ELSE LET p == Paged(index.outline, a.offset, a.limit)
       IN Data([p EXCEPT !.items = SelectSeq(p.items, LAMBDA f : f.entries # <<>>)])

-----------------------------------------------------------------------------
(* recently_changed, status, reindex_db.                                      *)

\* The first n commits, or those before the context ended; one that cannot be
\* diffed is counted and skipped.
HandleRecentlyChanged(a) ==
  LET n == Least(IF a.n = 0 THEN DefaultCommits ELSE Least(a.n, MaxCommits), Len(index.commits))
      considered == Least(n, a.ended)
      seen == SelectSeq(Prefix(index.commits, considered), LAMBDA c : ~c.fails)
      touched(c) == IF a.path = {} THEN c.files ELSE c.files \cap a.path
      rows == SelectSeq([i \in DOMAIN seen |-> [id |-> seen[i].id, files |-> touched(seen[i])]],
                        LAMBDA r : a.path # {} => r.files # {})
  IN IF RepoError(a) \notin {"", "failed to index"} THEN Refusal(RepoError(a))
     ELSE IF RepoError(a) # "" THEN Refusal("not a git repository")
     ELSE Data([rows |-> rows, considered |-> considered])

\* handleStatus: a repo that does not resolve is left out, not an error.
HandleStatus(a) ==
  Data([live |-> a.repo # "none" /\ RepoError(a) = "",
        structural |-> a.repo # "none" /\ RepoError(a) = "" /\ structural = "ready"])

Handle(a) ==
  CASE a.tool = "search"           -> HandleSearch(a)
    [] a.tool = "find_related"     -> HandleFindRelated(a)
    [] a.tool = "definition"       -> HandleDefinition(a)
    [] a.tool = "references"       -> HandleReferences(a)
    [] a.tool = "callers"          -> HandleCallers(a)
    [] a.tool = "symbols"          -> HandleSymbols(a)
    [] a.tool = "outline"          -> HandleOutline(a)
    [] a.tool = "recently_changed" -> HandleRecentlyChanged(a)
    [] a.tool = "status"           -> HandleStatus(a)

-----------------------------------------------------------------------------
Init ==
  /\ index \in Versions /\ structural \in {"ready", "pending", "none"} /\ default \in Defaults
  /\ asked = NoRequest /\ answer = NoAnswer /\ paging = NoPaging /\ updates = 0

Call(a) ==
  /\ asked = NoRequest /\ paging = NoPaging
  /\ asked' = a /\ answer' = Handle(a)
  /\ UNCHANGED <<index, structural, default, paging, updates>>

\* A client that lists everything, page by page.
PageCall(p, offset) == Handle([tool |-> p.tool, repo |-> "here", offset |-> offset, limit |-> p.limit])
StartPaging(p) ==
  /\ asked = NoRequest /\ paging = NoPaging /\ structural = "ready"
  /\ LET first == PageCall(p, 0).data
     IN paging' = [page |-> p, offset |-> first.hi, got |-> first.items, more |-> first.truncated,
                   of |-> index, moved |-> FALSE]
  /\ UNCHANGED <<index, structural, default, asked, answer, updates>>
NextPage ==
  /\ paging # NoPaging /\ paging.more
  /\ LET next == PageCall(paging.page, paging.offset).data
     IN paging' = [paging EXCEPT !.offset = next.hi, !.got = @ \o next.items, !.more = next.truncated,
                                 !.moved = @ \/ index # paging.of]
  /\ UNCHANGED <<index, structural, default, asked, answer, updates>>

\* The watcher publishes another version; a structural build ends.
Update(v) ==
  /\ updates < MaxUpdates /\ v # index
  /\ index' = v /\ updates' = updates + 1 /\ asked' = NoRequest /\ answer' = NoAnswer
  /\ UNCHANGED <<structural, default, paging>>
StructuralBuilt ==
  /\ structural = "pending" /\ structural' \in {"ready", "none"}
  /\ asked' = NoRequest /\ answer' = NoAnswer
  /\ UNCHANGED <<index, default, paging, updates>>

Next ==
  \/ \E a \in Requests : Call(a)
  \/ \E p \in Pages : StartPaging(p)
  \/ NextPage \/ StructuralBuilt
  \/ \E v \in Versions : Update(v)
Spec == Init /\ [][Next]_vars

-----------------------------------------------------------------------------
(* Properties.                                                                *)

(* A client that pages by the offset a truncated answer names sees, if no     *)
(* index was published meanwhile, every item once and in order (pageWindow).  *)
PagesCover ==
  paging # NoPaging /\ ~paging.more /\ ~paging.moved =>
    paging.got = IF paging.page.tool = "symbols" THEN paging.of.symbols
                 ELSE SelectSeq(paging.of.outline, LAMBDA f : f.entries # <<>>)

Answered(tools) == asked.tool \in tools /\ answer.kind = "data"

(* However filters, top_k, the bulk cap and the budget combine, rows pass     *)
(* every filter, are the best of those fetched that do, are not all dropped,  *)
(* and shown and dropped add up to what was found; the budget holds from the  *)
(* second row on (searchCore, applyTokenBudget).                              *)
SearchAddsUp ==
  Answered({"search"}) =>
    /\ Len(answer.data.answers) + answer.data.dropped = Max({1, Len(asked.queries)})
    /\ \A i \in DOMAIN answer.data.answers :
         LET s == answer.data.answers[i]
             whole == SelectSeq(index.ranked[s.query], LAMBDA f : Passes(asked, f))
         IN /\ IsPrefix(s.rows, whole)
            /\ Len(s.rows) + s.dropped = s.after /\ s.after <= TopK(asked.topK)
            /\ s.rows = <<>> => s.after = 0
            /\ asked.maxTokens > 0 /\ Len(s.rows) > 1 => Used(s.rows, Len(s.rows)) <= asked.maxTokens
            /\ Len(index.ranked[s.query]) <= FetchK(asked) => s.after = Least(Len(whole), TopK(asked.topK))

(* The rows by file carry every reference once (handleReferences).            *)
ReferencesAddUp ==
  Answered({"references"}) =>
    LET refs == Of(index.refs, asked.symbol) IN
    /\ answer.data.files = Cardinality({refs[i].file : i \in DOMAIN refs})
    /\ \A i \in DOMAIN refs : \E r \in Range(answer.data.rows) :
         r.file = refs[i].file /\ refs[i].kind \in r.kinds /\ Range(refs[i].lines) \subseteq Range(r.lines)
    /\ FoldSeq(LAMBDA r, t : Len(r.lines) + t, 0, answer.data.rows)
         = FoldSeq(LAMBDA r, t : Len(r.lines) + t, 0, refs)

(* The rows are the commits looked at that touched the path, newest first.    *)
CommitsAddUp ==
  Answered({"recently_changed"}) =>
    LET looked == Prefix(index.commits, answer.data.considered)
    IN /\ answer.data.considered <= MaxCommits
       /\ {r.id : r \in Range(answer.data.rows)} =
            {c.id : c \in {d \in Range(looked) : ~d.fails /\ (asked.path # {} => d.files \cap asked.path # {})}}

AnswersAddUp == PagesCover /\ SearchAddsUp /\ ReferencesAddUp /\ CommitsAddUp
================================================================================
