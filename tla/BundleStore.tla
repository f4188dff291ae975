----------------------------- MODULE BundleStore -----------------------------
(* What the repo cache (mcp/cache.go) promises about the bundles it builds,    *)
(* with no goroutines, turns, locks or recency list: a bundle is produced,     *)
(* perhaps shelved under a key while it is of the current generation, then     *)
(* discarded, and reaped once.  RepoCache implements this specification.       *)
EXTENDS Naturals

CONSTANTS Keys, Bundles, None

VARIABLES
  gen,     \* the generation: how often the store was purged
  closed,
  shelf,   \* key -> the bundle served for it, or None
  loose,   \* produced and not shelved yet
  doomed,  \* to be reaped
  gone,    \* reaped: watcher stopped, temp clone removed
  born     \* bundle -> the generation it was built for

storeVars == <<gen, closed, shelf, loose, doomed, gone, born>>

Shelved(K) == {shelf[k] : k \in K} \ {None}
Used == loose \cup Shelved(Keys) \cup doomed \cup gone

Init ==
  /\ gen = 0 /\ closed = FALSE
  /\ shelf = [k \in Keys |-> None]
  /\ loose = {} /\ doomed = {} /\ gone = {}
  /\ born = [b \in Bundles |-> 0]

\* The Builder returns a new bundle, for this generation or an earlier one.
Produce(b) ==
  /\ loose' = loose \cup {b}
  /\ born' = [born EXCEPT ![b] = born'[b]]
  /\ born'[b] \in 0..gen
  /\ UNCHANGED <<gen, closed, shelf, doomed, gone>>

\* It is served from now on; those it takes the place of are discarded.
Shelve(k, b) ==
  /\ ~closed /\ born[b] = gen /\ shelf[k] = None
  /\ \E K \in SUBSET (Keys \ {k}) :
       /\ shelf' = [l \in Keys |-> IF l = k THEN b
                                   ELSE IF l \in K THEN None ELSE shelf[l]]
       /\ doomed' = doomed \cup Shelved(K)
  /\ loose' = loose \ {b}
  /\ UNCHANGED <<gen, closed, gone, born>>

\* It came too late, or lost the race for its key.
Discard(b) ==
  /\ loose' = loose \ {b}
  /\ doomed' = doomed \cup {b}
  /\ UNCHANGED <<gen, closed, shelf, gone, born>>

Reap(b) ==
  /\ doomed' = doomed \ {b}
  /\ gone' = gone \cup {b}
  /\ UNCHANGED <<gen, closed, shelf, loose, born>>

Clear ==
  /\ shelf' = [k \in Keys |-> None]
  /\ doomed' = doomed \cup Shelved(Keys)
  /\ UNCHANGED <<loose, gone, born>>

Purge == ~closed /\ gen' = gen + 1 /\ Clear /\ UNCHANGED closed
Close == closed' = TRUE /\ Clear /\ UNCHANGED gen

Next ==
  \/ Purge \/ Close
  \/ \E b \in Bundles \ Used : Produce(b)
  \/ \E b \in loose : Discard(b) \/ \E k \in Keys : Shelve(k, b)
  \/ \E b \in doomed : Reap(b)

Spec == Init /\ [][Next]_storeVars
=============================================================================
