----------------------------- MODULE RerankCache -----------------------------
(* The neural reranker of the server: the lazy, once-only loader               *)
(* (lazy_reranker.go, rerankerLoader.Load), the LRU of candidate vectors       *)
(* (neural_rerank.go) and the file that carries it over a restart              *)
(* (rerank_cache.go).  A vector is the scope of the model that made it.        *)
EXTENDS Naturals, Sequences, SequencesExt, FiniteSets, Subsequences

CONSTANTS Queries,      \* concurrent queries
          Texts,        \* candidate texts; the key is their hash
          Scopes,       \* model name, quantisation, dimension
          Capacity,     \* WithCacheSize; 0 turns the cache off
          MaxSaved,     \* maxRerankCacheEntries
          None

RerankAssumption == IsFiniteSet(Texts) /\ Capacity \in Nat

VARIABLES
  scope,   \* the configured model of this process
  loader,  \* sync.Once: "new", "loading", "failed", "loaded"
  lru,     \* least recently used first: <<text, scope>>
  file,    \* the cache file, or None
  pc,      \* each query: "idle", "load", "encode"
  misses,  \* the candidates it must encode
  scored   \* history: scopes of the vectors of the last answer; {} if none

vars == <<scope, loader, lru, file, pc, misses, scored>>

NoFile == [state |-> "missing", scope |-> None, entries |-> <<>>]

Init ==
  /\ scope \in Scopes
  /\ loader = "new" /\ lru = <<>> /\ file = NoFile
  /\ pc = [q \in Queries |-> "idle"]
  /\ misses = [q \in Queries |-> {}]
  /\ scored = {}

-----------------------------------------------------------------------------
(* embeddingLRU.                                                              *)

Keys(cache) == {e[1] : e \in ToSet(cache)}
EntryOf(cache, t) == CHOOSE e \in ToSet(cache) : e[1] = t
Without(cache, ts) == Select(cache, {i \in DOMAIN cache : cache[i][1] \notin ts})
Recent(cache) ==
  SubSeq(cache, IF Len(cache) > Capacity THEN Len(cache) - Capacity + 1 ELSE 1, Len(cache))

\* get and put of a batch, in the candidates' order: each moves to the end, and
\* what is then beyond the capacity has been evicted.
Gets(cache, ts) ==
  Without(cache, ts) \o [i \in 1..Cardinality(ts) |-> EntryOf(cache, SetToSeq(ts)[i])]
Puts(cache, ts) ==
  IF Capacity = 0 THEN cache
  ELSE Recent(Without(cache, ts) \o [i \in 1..Cardinality(ts) |-> <<SetToSeq(ts)[i], scope>>])

Restore(entries) == IF Capacity = 0 THEN <<>> ELSE Recent(entries)

-----------------------------------------------------------------------------
(* The cache file.                                                            *)

\* decodeRerankCache: checksum, magic and version, scope, dimension, count and
\* length; any mismatch is an error, and the cache starts cold.
Decodes_AnyScope(f) == f.state = "ok" /\ Len(f.entries) <= MaxSaved   \* mutant
Decodes(f) == f.state = "ok" /\ f.scope = scope /\ Len(f.entries) <= MaxSaved

\* main saves at shutdown, if a model was loaded and the cache holds something.
Save ==
  /\ loader = "loaded" /\ lru # <<>>
  /\ \/ file' = [state |-> "ok", scope |-> scope, entries |-> lru]
     \/ UNCHANGED file                          \* no such directory, disk full
SaveNothing ==
  /\ loader # "loaded" \/ lru = <<>>
  /\ UNCHANGED file

\* A new process, of any configuration.
Boot(s) ==
  /\ scope' = s
  /\ loader' = "new" /\ lru' = <<>>
  /\ pc' = [q \in Queries |-> "idle"]
  /\ misses' = [q \in Queries |-> {}]
  /\ scored' = {}
Shutdown(s) == (Save \/ SaveNothing) /\ Boot(s)

\* Killed: atomicWriteFile leaves the file as it was.
Crash(s) == loader # "new" /\ Boot(s) /\ UNCHANGED file

\* Something else damages the file, or a version of ken that speaks another
\* format writes it.
Damage ==
  /\ file.state = "ok"
  /\ file' = [file EXCEPT !.state = "corrupt"]
  /\ UNCHANGED <<scope, loader, lru, pc, misses, scored>>

-----------------------------------------------------------------------------
(* A query.                                                                   *)

\* ensureLoaded: the first query loads and the others wait for it.
Load(q) ==
  /\ pc[q] = "idle" /\ loader = "new"
  /\ loader' = "loading"
  /\ pc' = [pc EXCEPT ![q] = "load"]
  /\ UNCHANGED <<scope, lru, file, misses, scored>>

\* The model's error is kept for the life of the process; that of the file is
\* logged, and the cache stays empty.
LoadEnds(q) ==
  /\ pc[q] = "load"
  /\ pc' = [pc EXCEPT ![q] = "idle"]
  /\ \/ loader' = "failed" /\ UNCHANGED lru
     \/ /\ loader' = "loaded"
        /\ lru' = IF Decodes(file) THEN Restore(file.entries) ELSE lru
  /\ UNCHANGED <<scope, file, misses, scored>>

\* Rerank: the hits, then one batch for the misses.
Lookup(q, cands) ==
  /\ pc[q] = "idle" /\ loader = "loaded"
  /\ lru' = Gets(lru, cands \cap Keys(lru))
  /\ misses' = [misses EXCEPT ![q] = cands \ Keys(lru)]
  /\ scored' = {e[2] : e \in {x \in ToSet(lru) : x[1] \in cands}} \cup {scope}
  /\ pc' = [pc EXCEPT ![q] = "encode"]
  /\ UNCHANGED <<scope, loader, file>>

\* EncodeBatch or the query's own Encode fails: no scores, and the caller keeps
\* the stage-one order.
Encode(q) ==
  /\ pc[q] = "encode"
  /\ lru' \in {lru, Puts(lru, misses[q])}
  /\ pc' = [pc EXCEPT ![q] = "idle"]
  /\ misses' = [misses EXCEPT ![q] = {}]
  /\ UNCHANGED <<scope, loader, file, scored>>

\* A loader that failed answers nil, at once and for ever.
Declines(q) == pc[q] = "idle" /\ loader = "failed" /\ UNCHANGED vars

Next ==
  \/ \E q \in Queries :
       \/ Load(q) \/ LoadEnds(q) \/ Encode(q) \/ Declines(q)
       \/ \E cands \in SUBSET Texts \ {{}} : Lookup(q, cands)
  \/ \E s \in Scopes : Shutdown(s) \/ Crash(s)
  \/ Damage

Spec == Init /\ [][Next]_vars

-----------------------------------------------------------------------------
(* No score compares vectors of two models, whatever sessions and models      *)
(* wrote the file that the loader restored from; and with queries that fill   *)
(* it at the same time, the cache keeps its size and one entry per text.      *)
OneModelScored ==
  /\ scored \subseteq {scope}
  /\ Len(lru) <= Capacity
  /\ Cardinality(Keys(lru)) = Len(lru)
=============================================================================
