------------------------------ MODULE RepoCache ------------------------------
(* The per-process repo cache of the MCP server (mcp/cache.go): an LRU of      *)
(* built repo bundles, deduplicated first builds (singleflight), Purge (the    *)
(* model-upgrade path) and Close.                                              *)
(*                                                                             *)
(* A caller is a goroutine inside GetBundle.  A goroutine that leads a         *)
(* singleflight turn runs the turn's body itself, so a turn is named by the    *)
(* caller that leads it.  Each section the code runs under c.mu, and each      *)
(* singleflight critical section, is one action; the build, the reaping of     *)
(* detached bundles and the deferred un-marking run outside the lock, as       *)
(* actions of their own.                                                       *)
EXTENDS Naturals, Sequences, FiniteSets

CONSTANTS Keys,       \* normalised sources (NormalizeKey)
          Callers,    \* goroutines calling Get / GetBundle
          Admins,     \* goroutines calling Purge or Close
          Bundles,    \* the bundles the Builder may produce
          Capacity,   \* NewCache's max, after its default
          MaxPurges,  \* bound: how often Purge may run
          None        \* no bundle, no caller

ASSUME CapacityAssumption == Capacity \in Nat \ {0}
ASSUME NoneAssumption == None \notin Bundles /\ None \notin Callers
ASSUME ThreadAssumption == Callers \cap Admins = {}

VARIABLES
  gen,       \* Cache.gen
  closed,    \* Cache.closed
  items,     \* Cache.items: key -> cached bundle
  lru,       \* Cache.ll: the cached keys, most recently used first
  inflight,  \* Cache.inflight: keys marked as being built
  turn,      \* singleflight's map: key -> the caller leading its turn
  pc,        \* where a caller is in GetBundle
  key,       \* the key a caller asks for
  attempt,   \* GetBundle's retry counter
  startGen,  \* the generation a turn started under
  held,      \* the bundle a turn has built and not yet handed over
  joined,    \* the leader a waiting caller waits for
  out,       \* what a call, or the turn it waits for, returns
  pending,   \* detached bundles a goroutine still has to reap
  built,     \* bundles the Builder has returned
  reaped,    \* bundles whose watcher is stopped and whose cleanup has run
  bundleGen, \* history: the generation a bundle was built under
  callGen    \* history: the generation current when a call began

cacheVars  == <<gen, closed, items, lru, inflight, turn>>
callVars   == <<pc, key, attempt, startGen, held, joined, out,
              callGen>>
bundleVars == <<pending, built, reaped, bundleGen>>
vars == <<cacheVars, callVars, bundleVars>>

Threads == Callers \cup Admins

PCs == {"idle", "lookup", "join", "wait", "start", "build", "publish",
        "reap", "finish", "deliver", "done"}
\* The program points of a turn between taking its generation and un-marking.
Building == {"build", "publish", "reap"}

Errors == {"none", "closed", "failed", "purged"}
Ok(b)  == [err |-> "none", bundle |-> b]
Err(e) == [err |-> e, bundle |-> None]
Outcomes == [err : Errors, bundle : Bundles \cup {None}]

-----------------------------------------------------------------------------
Init ==
  /\ gen = 0 /\ closed = FALSE
  /\ items = [k \in Keys |-> None]
  /\ lru = <<>>
  /\ inflight = {}
  /\ turn = [k \in Keys |-> None]
  /\ pc = [c \in Callers |-> "idle"]
  /\ key \in {[c \in Callers |-> k] : k \in Keys}
  /\ attempt = [c \in Callers |-> 0]
  /\ startGen = [c \in Callers |-> 0]
  /\ held = [c \in Callers |-> None]
  /\ joined = [c \in Callers |-> None]
  /\ out = [c \in Callers |-> Err("none")]
  /\ pending = [t \in Threads |-> {}]
  /\ built = {} /\ reaped = {}
  /\ bundleGen = [b \in Bundles |-> 0]
  /\ callGen = [c \in Callers |-> 0]

-----------------------------------------------------------------------------
(* The LRU list.                                                              *)

\* ll.MoveToFront(items[k])
MovedToFront(k) ==
  \E i \in 1..Len(lru) :
    /\ lru[i] = k
    /\ lru' = <<k>> \o SubSeq(lru, 1, i - 1) \o SubSeq(lru, i + 1, Len(lru))

\* How many entries survive the eviction loop that makes room for one more.
Kept_OffByOne ==                                \* mutant: > for >=
  IF Len(lru) > Capacity THEN Capacity ELSE Len(lru)
Kept == IF Len(lru) >= Capacity THEN Capacity - 1 ELSE Len(lru)
Victims == {lru[i] : i \in (Kept + 1)..Len(lru)}

\* The bundles cached under the keys of K.
CachedIn(K) == {items[k] : k \in K} \ {None}

-----------------------------------------------------------------------------
(* One call of GetBundle, up to its turn.                                     *)

Begin(c, k) ==
  /\ pc[c] \in {"idle", "done"}
  /\ pc' = [pc EXCEPT ![c] = "lookup"]
  /\ key' = [key EXCEPT ![c] = k]
  /\ attempt' = [attempt EXCEPT ![c] = 0]
  /\ callGen' = [callGen EXCEPT ![c] = gen]
  /\ out' = [out EXCEPT ![c] = Err("none")]
  /\ UNCHANGED <<cacheVars, startGen, held, joined, bundleVars>>

Returns(c, o) ==
  /\ out' = [out EXCEPT ![c] = o]
  /\ pc' = [pc EXCEPT ![c] = "deliver"]

LookupClosed(c) ==
  /\ closed
  /\ Returns(c, Err("closed"))
  /\ UNCHANGED lru

LookupHit(c) ==
  /\ ~closed
  /\ items[key[c]] # None
  /\ MovedToFront(key[c])
  /\ Returns(c, Ok(items[key[c]]))

LookupMiss(c) ==
  /\ ~closed
  /\ items[key[c]] = None
  /\ pc' = [pc EXCEPT ![c] = "join"]
  /\ UNCHANGED <<lru, out>>

Lookup(c) ==
  /\ pc[c] = "lookup"
  /\ LookupClosed(c) \/ LookupHit(c) \/ LookupMiss(c)
  /\ UNCHANGED <<gen, closed, items, inflight, turn, key, attempt, startGen,
                 held, joined, callGen, bundleVars>>

\* singleflight.Do: lead a new turn for the key, or wait for the one there is.
\* A waiter keeps its leader: it waits for the turn it joined, even after
\* Purge has made singleflight forget that turn.
Lead(c) ==
  /\ turn[key[c]] = None
  /\ turn' = [turn EXCEPT ![key[c]] = c]
  /\ pc' = [pc EXCEPT ![c] = "start"]
  /\ UNCHANGED joined

Follow(c) ==
  /\ turn[key[c]] # None
  /\ joined' = [joined EXCEPT ![c] = turn[key[c]]]
  /\ pc' = [pc EXCEPT ![c] = "wait"]
  /\ UNCHANGED turn

Join(c) ==
  /\ pc[c] = "join"
  /\ Lead(c) \/ Follow(c)
  /\ UNCHANGED <<gen, closed, items, lru, inflight, key, attempt, startGen,
                 held, out, callGen, bundleVars>>

-----------------------------------------------------------------------------
(* The body of a turn, run by its leader.                                     *)

\* Take the generation and mark the key, in one locked section.
Start(c) ==
  /\ pc[c] = "start"
  /\ startGen' = [startGen EXCEPT ![c] = gen]
  /\ inflight' = inflight \cup {key[c]}
  /\ pc' = [pc EXCEPT ![c] = "build"]
  /\ UNCHANGED <<gen, closed, items, lru, turn, key, attempt, held, joined,
                 out, callGen, bundleVars>>

\* c.build, outside the lock: a new bundle, or an error (a failing clone, walk
\* or chunker, or the leader's cancelled context).
BuildSucceeds(c) ==
  /\ pc[c] = "build"
  /\ \E b \in Bundles \ built :
       /\ held' = [held EXCEPT ![c] = b]
       /\ built' = built \cup {b}
       /\ bundleGen' = [bundleGen EXCEPT ![b] = startGen[c]]
  /\ pc' = [pc EXCEPT ![c] = "publish"]
  /\ UNCHANGED <<cacheVars, key, attempt, startGen, joined, out, callGen,
                 pending, reaped>>

BuildFails(c) ==
  /\ pc[c] = "build"
  /\ out' = [out EXCEPT ![c] = Err("failed")]
  /\ pc' = [pc EXCEPT ![c] = "reap"]
  /\ UNCHANGED <<cacheVars, key, attempt, startGen, held, joined, callGen,
                 bundleVars>>

\* The locked section after the build.  Whatever is detached, and a bundle
\* that may not be published, is left to the leader to reap.
Settle(c, o, toReap) ==
  /\ out' = [out EXCEPT ![c] = o]
  /\ pending' = [pending EXCEPT ![c] = toReap]
  /\ held' = [held EXCEPT ![c] = None]
  /\ pc' = [pc EXCEPT ![c] = "reap"]

\* M8 / R7: a turn may publish unless Close, or a Purge since it started, ran.
Accepts_Stale(c)  == ~closed                    \* mutant: R7's check dropped
Accepts(c) == ~closed /\ gen = startGen[c]

PublishClosed_Leak(c) ==                        \* mutant: the bundle not reaped
  /\ closed
  /\ Settle(c, Err("closed"), {})
  /\ UNCHANGED <<items, lru>>
PublishClosed(c) ==
  /\ closed
  /\ Settle(c, Err("closed"), {held[c]})
  /\ UNCHANGED <<items, lru>>

PublishStale(c) ==
  /\ ~closed
  /\ gen # startGen[c]
  /\ Settle(c, Err("purged"), {held[c]})
  /\ UNCHANGED <<items, lru>>

PublishLost(c) ==
  /\ Accepts(c)
  /\ items[key[c]] # None
  /\ MovedToFront(key[c])
  /\ Settle(c, Ok(items[key[c]]), {held[c]})
  /\ UNCHANGED items

PublishInsert_Forgets(c) ==                     \* mutant: the victims not reaped
  /\ Accepts(c)
  /\ items[key[c]] = None
  /\ items' = [k \in Keys |-> IF k = key[c] THEN held[c]
                              ELSE IF k \in Victims THEN None ELSE items[k]]
  /\ lru' = <<key[c]>> \o SubSeq(lru, 1, Kept)
  /\ Settle(c, Ok(held[c]), {})
PublishInsert(c) ==
  /\ Accepts(c)
  /\ items[key[c]] = None
  /\ items' = [k \in Keys |-> IF k = key[c] THEN held[c]
                              ELSE IF k \in Victims THEN None ELSE items[k]]
  /\ lru' = <<key[c]>> \o SubSeq(lru, 1, Kept)
  /\ Settle(c, Ok(held[c]), CachedIn(Victims))

Publish(c) ==
  /\ pc[c] = "publish"
  /\ \/ PublishClosed(c) \/ PublishStale(c)
     \/ PublishLost(c) \/ PublishInsert(c)
  /\ UNCHANGED <<gen, closed, inflight, turn, key, attempt, startGen, joined,
                 callGen, built, reaped, bundleGen>>

\* reapEntry: stop the structural build, close the watcher, run the cleanup.
Reap(t) ==
  /\ \E b \in pending[t] :
       /\ pending' = [pending EXCEPT ![t] = @ \ {b}]
       /\ reaped' = reaped \cup {b}
  /\ UNCHANGED <<cacheVars, callVars, built, bundleGen>>

\* The deferred delete(c.inflight, key).
Unmark(c) ==
  /\ pc[c] = "reap"
  /\ pending[c] = {}
  /\ inflight' = inflight \ {key[c]}
  /\ pc' = [pc EXCEPT ![c] = "finish"]
  /\ UNCHANGED <<gen, closed, items, lru, turn, key, attempt, startGen, held,
                 joined, out, callGen, bundleVars>>

\* singleflight ends the turn: the followers get its result, and the map loses
\* the turn unless Purge has made it forget it already.
Followers_None(c) == {}                         \* mutant: a lost wake-up
Followers(c) == {d \in Callers : pc[d] = "wait" /\ joined[d] = c}

Finish(c) ==
  /\ pc[c] = "finish"
  /\ turn' = [turn EXCEPT ![key[c]] = IF @ = c THEN None ELSE @]
  /\ out' = [d \in Callers |-> IF d \in Followers(c) THEN out[c] ELSE out[d]]
  /\ joined' = [d \in Callers |-> IF d \in Followers(c) THEN None ELSE joined[d]]
  /\ pc' = [d \in Callers |->
              IF d \in Followers(c) \cup {c} THEN "deliver" ELSE pc[d]]
  /\ startGen' = [startGen EXCEPT ![c] = 0]
  /\ UNCHANGED <<gen, closed, items, lru, inflight, key, attempt, held,
                 callGen, bundleVars>>

\* GetBundle's loop: one more attempt after a purge, else return.
MayRetry_Never(c) == FALSE                      \* mutant: N6's retry dropped
MayRetry_Twice(c) ==                            \* mutant: <= for <
  out[c].err = "purged" /\ attempt[c] <= 1
MayRetry(c) == out[c].err = "purged" /\ attempt[c] < 1

Retry(c) ==
  /\ MayRetry(c)
  /\ attempt' = [attempt EXCEPT ![c] = @ + 1]
  /\ pc' = [pc EXCEPT ![c] = "lookup"]

Return(c) ==
  /\ ~MayRetry(c)
  /\ attempt' = [attempt EXCEPT ![c] = 0]
  /\ pc' = [pc EXCEPT ![c] = "done"]

Deliver(c) ==
  /\ pc[c] = "deliver"
  /\ Retry(c) \/ Return(c)
  /\ UNCHANGED <<cacheVars, key, startGen, held, joined, out, callGen,
                 bundleVars>>

-----------------------------------------------------------------------------
(* Purge and Close: a locked section, then reaping outside the lock.          *)

DetachAll_Leak(t) ==                            \* mutant: entries not reaped
  /\ items' = [k \in Keys |-> None]
  /\ lru' = <<>>
  /\ UNCHANGED pending
DetachAll(t) ==
  /\ items' = [k \in Keys |-> None]
  /\ lru' = <<>>
  /\ pending' = [pending EXCEPT ![t] = CachedIn(Keys)]

\* for k := range c.inflight { c.sf.Forget(k) }
Forget(K) == [k \in Keys |-> IF k \in K THEN None ELSE turn[k]]

Purge_SameGen(t) ==                             \* mutant: gen not bumped
  /\ pending[t] = {}
  /\ ~closed
  /\ DetachAll(t)
  /\ turn' = Forget(inflight)
  /\ UNCHANGED <<gen, closed, inflight, callVars, built, reaped, bundleGen>>
Purge(t) ==
  /\ pending[t] = {}
  /\ ~closed
  /\ gen < MaxPurges
  /\ gen' = gen + 1
  /\ DetachAll(t)
  /\ turn' = Forget(inflight)
  /\ UNCHANGED <<closed, inflight, callVars, built, reaped, bundleGen>>

Close(t) ==
  /\ pending[t] = {}
  /\ closed' = TRUE
  /\ DetachAll(t)
  /\ UNCHANGED <<gen, inflight, turn, callVars, built, reaped, bundleGen>>

-----------------------------------------------------------------------------
\* The steps a goroutine owes once its call has begun.
Step(c) ==
  \/ Lookup(c) \/ Join(c) \/ Start(c)
  \/ BuildSucceeds(c) \/ BuildFails(c) \/ Publish(c)
  \/ Unmark(c) \/ Finish(c) \/ Deliver(c)

Next ==
  \/ \E c \in Callers : \/ \E k \in Keys : Begin(c, k)
                        \/ Step(c)
  \/ \E t \in Threads : Reap(t)
  \/ \E t \in Admins : Purge(t) \/ Close(t)

\* Goroutines are scheduled, builds end (the Builder works under a context and
\* on finite input) and reaping ends; nobody has to call.
Fairness ==
  /\ \A c \in Callers : WF_vars(Step(c))
  /\ \A t \in Threads : WF_vars(Reap(t))

Spec == Init /\ [][Next]_vars
FairSpec == Spec /\ Fairness

-----------------------------------------------------------------------------
(* Properties.                                                                *)

Held   == {held[c] : c \in Callers} \ {None}
Cached == CachedIn(Keys)
Doomed == UNION {pending[t] : t \in Threads}

TypeOK ==
  /\ gen \in Nat /\ closed \in BOOLEAN
  /\ items \in [Keys -> Bundles \cup {None}]
  /\ lru \in Seq(Keys)
  /\ inflight \subseteq Keys
  /\ turn \in [Keys -> Callers \cup {None}]
  /\ pc \in [Callers -> PCs]
  /\ key \in [Callers -> Keys]
  /\ attempt \in [Callers -> {0, 1}]
  /\ startGen \in [Callers -> Nat]
  /\ held \in [Callers -> Bundles \cup {None}]
  /\ joined \in [Callers -> Callers \cup {None}]
  /\ out \in [Callers -> Outcomes]
  /\ pending \in [Threads -> SUBSET Bundles]
  /\ built \subseteq Bundles /\ reaped \subseteq Bundles
  /\ bundleGen \in [Bundles -> Nat]
  /\ callGen \in [Callers -> Nat]

(* audit R7: a build that began before a Purge never repopulates the cache:   *)
(* every cached bundle was built under the current generation, so a bm25      *)
(* bundle cannot be served for the life of the process after the upgrade.     *)
CachedIsCurrent ==
  \A k \in Keys : items[k] # None => bundleGen[items[k]] = gen

(* Every bundle the Builder produced is in exactly one place: held by the     *)
(* turn that built it, cached under one key, awaiting one reaper, or reaped.  *)
(* So none leaks its watcher and temp clone, none is reaped twice, and none   *)
(* is reaped while Get can still hand it out from the cache.                  *)
SingleOwner ==
  /\ built = Held \cup Cached \cup Doomed \cup reaped
  /\ Held \cap (Cached \cup Doomed \cup reaped) = {}
  /\ Cached \cap (Doomed \cup reaped) = {}
  /\ Doomed \cap reaped = {}
  /\ \A c, d \in Callers : held[c] = held[d] /\ held[c] # None => c = d
  /\ \A k, l \in Keys : items[k] = items[l] /\ items[k] # None => k = l
  /\ \A t, u \in Threads : t # u => pending[t] \cap pending[u] = {}

(* M8: once Close has run nothing is cached again, whatever was in flight.    *)
EmptyOnceClosed == closed => Cached = {}

(* The map and the recency list hold the same keys, each once, and never more *)
(* than the capacity, though detaching, inserting and moving to the front     *)
(* happen in turns of several goroutines.                                     *)
LruAgrees ==
  /\ Len(lru) <= Capacity
  /\ {lru[i] : i \in 1..Len(lru)} = {k \in Keys : items[k] # None}
  /\ \A i, j \in 1..Len(lru) : lru[i] = lru[j] => i = j

(* Singleflight leaves at most one build of a key under way in a generation,  *)
(* even when a Purge has made a second turn for it possible.  ken-mcp purges  *)
(* at most once; after a second Purge the mark of an older turn can make a    *)
(* turn be forgotten before it has taken its generation, and two turns may    *)
(* then build alike (the recheck in PublishLost discards one).                *)
DedupedBuilds ==
  gen <= 1 =>
    \A c, d \in Callers :
      c # d /\ key[c] = key[d] /\ pc[c] \in Building /\ pc[d] \in Building
        => startGen[c] # startGen[d]

(* audit N6: the purge error reaches a caller only when a Purge ran during    *)
(* its own call; the single retry absorbs the error of a stale turn that the  *)
(* call merely joined.                                                        *)
PurgeErrorIsOwn ==
  \A c \in Callers :
    pc[c] = "done" /\ out[c].err = "purged" => callGen[c] < gen

(* The cache implements what it promises of its bundles: with turns, evictions*)
(* and reaping in many goroutines, every bundle is still served only in its   *)
(* own generation, discarded before it is reaped, and reaped once.            *)
Store == INSTANCE BundleStore WITH
  shelf <- items, loose <- Held, doomed <- Doomed, gone <- reaped, born <- bundleGen
ImplementsStore == Store!Spec

(* Every call returns: no purge storm, lost turn or reaping blocks it.        *)
EveryCallReturns ==
  \A c \in Callers : pc[c] = "lookup" ~> pc[c] = "done"

(* After Close every bundle ever built ends up reaped, those of builds still  *)
(* in flight included.                                                        *)
ClosedDrains == <>closed => <>[](built = reaped)
=============================================================================
