--------------------------- MODULE RepoCacheProofs ---------------------------
(* Safety of the repo cache for any keys, goroutines, bundles, capacity and    *)
(* number of purges: who owns each bundle, that the map and the recency list   *)
(* agree, what a call may learn of a Purge, and that builds are deduplicated.  *)
EXTENDS RepoCache, SequenceTheorems, TLAPS

\* What a turn in flight carries: it holds a bundle exactly while it is about
\* to publish it, that bundle is of the turn's generation, and a caller has
\* bundles to reap only at the end of its turn.
HandOver ==
  /\ \A c \in Callers : held[c] # None <=> pc[c] = "publish"
  /\ \A c \in Callers : pc[c] # "reap" => pending[c] = {}
  /\ \A c \in Callers : held[c] # None => bundleGen[held[c]] = startGen[c]

IInv == TypeOK /\ HandOver /\ CachedIsCurrent /\ SingleOwner /\ EmptyOnceClosed

USE CapacityAssumption, NoneAssumption, ThreadAssumption

-----------------------------------------------------------------------------
(* The list operations keep the list a sequence of keys.                      *)
LEMMA MovedToFrontType ==
  ASSUME lru \in Seq(Keys), NEW k \in Keys, MovedToFront(k)
  PROVE  lru' \in Seq(Keys)
<1>1. PICK i \in 1..Len(lru) :
        lru' = <<k>> \o SubSeq(lru, 1, i - 1) \o SubSeq(lru, i + 1, Len(lru))
  BY DEF MovedToFront
<1>2. Len(lru) \in Nat /\ \A j \in 1..Len(lru) : lru[j] \in Keys
  OBVIOUS
<1>3. SubSeq(lru, 1, i - 1) \in Seq(Keys)
  BY <1>2, SubSeqProperties, \A j \in 1..(i - 1) : lru[j] \in Keys, i \in Int
<1>4. SubSeq(lru, i + 1, Len(lru)) \in Seq(Keys)
  BY <1>2, SubSeqProperties, \A j \in (i + 1)..Len(lru) : lru[j] \in Keys, i \in Int
<1>5. <<k>> \in Seq(Keys)
  OBVIOUS
<1> QED BY <1>1, <1>3, <1>4, <1>5, ConcatProperties

\* An insertion keeps the types of the cache and of what is to be reaped.
LEMMA InsertedType ==
  ASSUME lru \in Seq(Keys), NEW k \in Keys
  PROVE  <<k>> \o SubSeq(lru, 1, Kept) \in Seq(Keys)
<1>1. Kept \in Int /\ Kept <= Len(lru)
  BY DEF Kept
<1>2. \A j \in 1..Kept : lru[j] \in Keys
  BY <1>1
<1>3. SubSeq(lru, 1, Kept) \in Seq(Keys)
  BY <1>1, <1>2, SubSeqProperties
<1>4. <<k>> \in Seq(Keys)
  OBVIOUS
<1> QED BY <1>3, <1>4, ConcatProperties

-----------------------------------------------------------------------------
(* The initial states.                                                        *)
LEMMA InitInv == Init => IInv
<1> SUFFICES ASSUME Init PROVE IInv
  OBVIOUS
<1>1. TypeOK
  <2>1. lru \in Seq(Keys)
    BY DEF Init
  <2>2. key \in [Callers -> Keys]
    BY DEF Init
  <2>3. out \in [Callers -> Outcomes]
    BY DEF Init, Outcomes, Err, Errors
  <2>4. pc \in [Callers -> PCs]
    BY DEF Init, PCs
  <2> QED BY <2>1, <2>2, <2>3, <2>4 DEF Init, TypeOK
<1>2. HandOver
  BY DEF Init, HandOver, Threads
<1>3. CachedIsCurrent /\ SingleOwner /\ EmptyOnceClosed
  BY DEF Init, CachedIsCurrent, SingleOwner, EmptyOnceClosed, Held, Cached,
         CachedIn, Doomed, Threads
<1> QED BY <1>1, <1>2, <1>3 DEF IInv

-----------------------------------------------------------------------------
(* Steps that leave bundles where they are.                                   *)
LEMMA BundlesInPlace ==
  ASSUME CachedIsCurrent, SingleOwner, EmptyOnceClosed,
         UNCHANGED <<gen, closed, items, held, bundleVars>>
  PROVE  CachedIsCurrent' /\ SingleOwner' /\ EmptyOnceClosed'
BY DEF CachedIsCurrent, SingleOwner, EmptyOnceClosed, Held, Cached, CachedIn,
       Doomed, bundleVars

\* A new call owns nothing: it preserves the invariant (GetBundle).
LEMMA BeginInv ==
  ASSUME IInv, NEW c \in Callers, NEW k \in Keys, Begin(c, k)
  PROVE  IInv'
<1> USE DEF IInv
<1>1. TypeOK'
  <2>1. out' \in [Callers -> Outcomes]
    BY DEF Begin, TypeOK, Outcomes, Err, Errors
  <2>2. pc' \in [Callers -> PCs]
    BY DEF Begin, TypeOK, PCs
  <2> QED BY <2>1, <2>2 DEF Begin, TypeOK, cacheVars, bundleVars
<1>2. HandOver'
  BY DEF Begin, TypeOK, HandOver, bundleVars
<1>3. CachedIsCurrent' /\ SingleOwner' /\ EmptyOnceClosed'
  BY BundlesInPlace DEF Begin, cacheVars
<1> QED BY <1>1, <1>2, <1>3

\* The locked lookup, whether closed, hit or missed, preserves it.
LEMMA LookupInv ==
  ASSUME IInv, NEW c \in Callers, Lookup(c)
  PROVE  IInv'
<1> USE DEF IInv
<1>1. lru' \in Seq(Keys)
  BY MovedToFrontType DEF Lookup, LookupClosed, LookupHit, LookupMiss, TypeOK
<1>2. out' \in [Callers -> Outcomes]
  <2>1. Err("closed") \in Outcomes /\ \A b \in Bundles : Ok(b) \in Outcomes
    BY DEF Outcomes, Errors, Ok, Err
  <2>2. items[key[c]] # None => items[key[c]] \in Bundles
    BY DEF TypeOK
  <2>3. \/ out' = [out EXCEPT ![c] = Err("closed")]
        \/ items[key[c]] # None /\ out' = [out EXCEPT ![c] = Ok(items[key[c]])]
        \/ out' = out
    BY DEF Lookup, LookupClosed, LookupHit, LookupMiss, Returns
  <2>4. out \in [Callers -> Outcomes]
    BY DEF TypeOK
  <2>5. \/ out' = [out EXCEPT ![c] = Err("closed")]
        \/ \E b \in Bundles : out' = [out EXCEPT ![c] = Ok(b)]
        \/ out' = out
    BY <2>2, <2>3
  <2> QED BY <2>1, <2>4, <2>5
<1>3. pc' \in [Callers -> PCs] /\ pc'[c] \notin {"publish", "reap"}
                               /\ \A d \in Callers \ {c} : pc'[d] = pc[d]
  BY DEF Lookup, LookupClosed, LookupHit, LookupMiss, Returns, TypeOK, PCs
<1>4. TypeOK'
  BY <1>1, <1>2, <1>3 DEF Lookup, TypeOK, bundleVars
<1>5. HandOver'
  BY <1>3 DEF Lookup, TypeOK, HandOver, bundleVars
<1>6. CachedIsCurrent' /\ SingleOwner' /\ EmptyOnceClosed'
  BY BundlesInPlace DEF Lookup
<1> QED BY <1>4, <1>5, <1>6

\* Leading or joining a turn preserves it (singleflight.Do).
LEMMA JoinInv ==
  ASSUME IInv, NEW c \in Callers, Join(c)
  PROVE  IInv'
<1> USE DEF IInv
<1>1. pc' \in [Callers -> PCs] /\ pc'[c] \notin {"publish", "reap"}
                               /\ \A d \in Callers \ {c} : pc'[d] = pc[d]
  <2>1. pc' = [pc EXCEPT ![c] = "start"] \/ pc' = [pc EXCEPT ![c] = "wait"]
    BY DEF Join, Lead, Follow
  <2> QED BY <2>1 DEF TypeOK, PCs
<1>2. turn' \in [Keys -> Callers \cup {None}]
      /\ joined' \in [Callers -> Callers \cup {None}]
  <2>1. key[c] \in Keys /\ turn[key[c]] \in Callers \cup {None}
    BY DEF TypeOK
  <2>2. CASE Lead(c)
    BY <2>1, <2>2 DEF Lead, TypeOK
  <2>3. CASE Follow(c)
    BY <2>1, <2>3 DEF Follow, TypeOK
  <2> QED BY <2>2, <2>3 DEF Join
<1>3. TypeOK'
  BY <1>1, <1>2 DEF Join, TypeOK, bundleVars
<1>4. HandOver'
  BY <1>1 DEF Join, TypeOK, HandOver, bundleVars
<1>5. CachedIsCurrent' /\ SingleOwner' /\ EmptyOnceClosed'
  BY BundlesInPlace DEF Join
<1> QED BY <1>3, <1>4, <1>5

\* Taking the generation and marking the key preserves it.
LEMMA StartInv ==
  ASSUME IInv, NEW c \in Callers, Start(c)
  PROVE  IInv'
<1> USE DEF IInv
<1>1. TypeOK'
  BY DEF Start, TypeOK, PCs, bundleVars
<1>2. HandOver'
  BY DEF Start, TypeOK, HandOver, bundleVars
<1>3. CachedIsCurrent' /\ SingleOwner' /\ EmptyOnceClosed'
  BY BundlesInPlace DEF Start
<1> QED BY <1>1, <1>2, <1>3

\* A failing build leaves nothing behind.
LEMMA BuildFailsInv ==
  ASSUME IInv, NEW c \in Callers, BuildFails(c)
  PROVE  IInv'
<1> USE DEF IInv
<1>1. out' \in [Callers -> Outcomes]
  BY DEF BuildFails, TypeOK, Outcomes, Errors, Err
<1>2. TypeOK'
  BY <1>1 DEF BuildFails, TypeOK, PCs, cacheVars, bundleVars
<1>3. HandOver'
  BY DEF BuildFails, TypeOK, HandOver, bundleVars
<1>4. CachedIsCurrent' /\ SingleOwner' /\ EmptyOnceClosed'
  BY BundlesInPlace DEF BuildFails, cacheVars
<1> QED BY <1>2, <1>3, <1>4

\* The deferred delete(c.inflight, key) preserves it.
LEMMA UnmarkInv ==
  ASSUME IInv, NEW c \in Callers, Unmark(c)
  PROVE  IInv'
<1> USE DEF IInv
<1>1. TypeOK'
  BY DEF Unmark, TypeOK, PCs, bundleVars
<1>2. HandOver'
  BY DEF Unmark, TypeOK, HandOver, bundleVars
<1>3. CachedIsCurrent' /\ SingleOwner' /\ EmptyOnceClosed'
  BY BundlesInPlace DEF Unmark
<1> QED BY <1>1, <1>2, <1>3

\* Handing the result of a turn to its followers preserves it.
LEMMA FinishInv ==
  ASSUME IInv, NEW c \in Callers, Finish(c)
  PROVE  IInv'
<1> USE DEF IInv
<1>1. pc' \in [Callers -> PCs] /\ \A d \in Callers :
        \/ pc'[d] = pc[d] /\ d # c
        \/ pc'[d] = "deliver" /\ pc[d] \in {"wait", "finish"}
  BY DEF Finish, Followers, TypeOK, PCs
<1>2. turn' \in [Keys -> Callers \cup {None}]
      /\ joined' \in [Callers -> Callers \cup {None}]
      /\ out' \in [Callers -> Outcomes] /\ startGen' \in [Callers -> Nat]
  BY DEF Finish, TypeOK
<1>3. TypeOK'
  BY <1>1, <1>2 DEF Finish, TypeOK, bundleVars
<1>4. HandOver'
  BY <1>1 DEF Finish, TypeOK, HandOver, bundleVars
<1>5. CachedIsCurrent' /\ SingleOwner' /\ EmptyOnceClosed'
  BY BundlesInPlace DEF Finish
<1> QED BY <1>3, <1>4, <1>5

\* Retrying once, or returning, preserves it.
LEMMA DeliverInv ==
  ASSUME IInv, NEW c \in Callers, Deliver(c)
  PROVE  IInv'
<1> USE DEF IInv
<1>1. pc' \in [Callers -> PCs] /\ pc'[c] \notin {"publish", "reap"}
                               /\ \A d \in Callers \ {c} : pc'[d] = pc[d]
  <2>1. pc' = [pc EXCEPT ![c] = "lookup"] \/ pc' = [pc EXCEPT ![c] = "done"]
    BY DEF Deliver, Retry, Return
  <2> QED BY <2>1 DEF TypeOK, PCs
<1>2. attempt' \in [Callers -> {0, 1}]
  <2>1. CASE Retry(c)
    <3>1. attempt[c] \in {0, 1} /\ attempt[c] < 1
      BY <2>1 DEF Retry, MayRetry, TypeOK
    <3>2. attempt[c] + 1 = 1
      BY <3>1
    <3> QED BY <2>1, <3>2 DEF Retry, TypeOK
  <2>2. CASE Return(c)
    BY <2>2 DEF Return, TypeOK
  <2> QED BY <2>1, <2>2 DEF Deliver
<1>3. TypeOK'
  BY <1>1, <1>2 DEF Deliver, TypeOK, cacheVars, bundleVars
<1>4. HandOver'
  BY <1>1 DEF Deliver, TypeOK, HandOver, bundleVars
<1>5. CachedIsCurrent' /\ SingleOwner' /\ EmptyOnceClosed'
  BY BundlesInPlace DEF Deliver, cacheVars
<1> QED BY <1>3, <1>4, <1>5

-----------------------------------------------------------------------------
(* Steps that move a bundle from one place to another.                        *)
LEMMA BuildSucceedsInv ==
  ASSUME IInv, NEW c \in Callers, BuildSucceeds(c)
  PROVE  IInv'
<1> USE DEF IInv
<1>1. PICK b \in Bundles \ built :
        /\ held' = [held EXCEPT ![c] = b]
        /\ built' = built \cup {b}
        /\ bundleGen' = [bundleGen EXCEPT ![b] = startGen[c]]
  BY DEF BuildSucceeds
<1>2. TypeOK'
  BY <1>1 DEF BuildSucceeds, TypeOK, PCs, cacheVars
<1>3. \A d \in Callers : held[d] # b
  BY <1>1 DEF SingleOwner, Held
<1>4. held[c] = None
  BY DEF BuildSucceeds, HandOver
<1>5. HandOver'
  BY <1>1, <1>3, <1>4 DEF BuildSucceeds, TypeOK, HandOver
<1>6. \A k \in Keys : items[k] # b
  <2>1. b \notin Cached /\ b # None
    BY <1>1 DEF SingleOwner
  <2> QED BY <2>1 DEF Cached, CachedIn
<1>7. CachedIsCurrent' /\ EmptyOnceClosed'
  <2>1. gen' = gen /\ closed' = closed /\ items' = items
    BY DEF BuildSucceeds, cacheVars
  <2>2. EmptyOnceClosed'
    BY <2>1 DEF EmptyOnceClosed, Cached, CachedIn
  <2>3. \A k \in Keys : items[k] # None => bundleGen'[items[k]] = bundleGen[items[k]]
    BY <1>1, <1>6 DEF TypeOK
  <2> QED BY <2>1, <2>2, <2>3 DEF CachedIsCurrent
<1>8. SingleOwner'
  <2>1. Held' = Held \cup {b}
    BY <1>1, <1>4 DEF Held, TypeOK
  <2>2. Cached' = Cached /\ Doomed' = Doomed /\ reaped' = reaped /\ items' = items
                         /\ pending' = pending
    BY DEF BuildSucceeds, Cached, CachedIn, Doomed, cacheVars
  <2>3. \A d, e \in Callers : held'[d] = held'[e] /\ held'[d] # None => d = e
    BY <1>1, <1>3 DEF SingleOwner, TypeOK
  <2> QED BY <1>1, <2>1, <2>2, <2>3 DEF SingleOwner
<1> QED BY <1>2, <1>5, <1>7, <1>8

\* A bundle handed from a turn to the list of bundles its leader reaps.
LEMMA SettleOwnership ==
  ASSUME IInv, NEW c \in Callers, NEW o, Settle(c, o, {held[c]}),
         pc[c] = "publish", UNCHANGED <<gen, closed, items, built, reaped, bundleGen>>
  PROVE  SingleOwner'
<1> USE DEF IInv
<1>1. held[c] \in Bundles /\ pending[c] = {} /\ c \in Threads
  BY DEF TypeOK, HandOver, Threads
<1>2. pending' = [pending EXCEPT ![c] = {held[c]}]
      /\ held' = [held EXCEPT ![c] = None]
  BY DEF Settle
<1>3. Held' = Held \ {held[c]}
  BY <1>1, <1>2 DEF Held, TypeOK, SingleOwner
<1>4. Doomed' = Doomed \cup {held[c]}
  BY <1>1, <1>2 DEF Doomed, TypeOK
<1>5. Cached' = Cached
  BY DEF Cached, CachedIn
<1>6. held[c] \in Held
  BY <1>1 DEF Held
<1>7. \A d, e \in Callers : held'[d] = held'[e] /\ held'[d] # None => d = e
  BY <1>2 DEF TypeOK, SingleOwner
<1>8. \A t, u \in Threads : t # u => pending'[t] \cap pending'[u] = {}
  <2>1. \A t \in Threads : held[c] \notin pending[t]
    BY <1>6 DEF SingleOwner, Doomed
  <2> QED BY <1>2, <2>1 DEF TypeOK, SingleOwner
<1>9. built' = Held' \cup Cached' \cup Doomed' \cup reaped'
  BY <1>3, <1>4, <1>5, <1>6 DEF SingleOwner
<1>10. /\ Held' \cap (Cached' \cup Doomed' \cup reaped') = {}
       /\ Cached' \cap (Doomed' \cup reaped') = {}
       /\ Doomed' \cap reaped' = {}
  BY <1>3, <1>4, <1>5, <1>6 DEF SingleOwner
<1> QED BY <1>7, <1>8, <1>9, <1>10 DEF SingleOwner

\* An insertion passes the bundle from its turn to the cache, and the victims
\* of the eviction from the cache to the turn.
LEMMA PublishInsertOwnership ==
  ASSUME IInv, NEW c \in Callers, pc[c] = "publish", PublishInsert(c),
         UNCHANGED <<gen, closed, built, reaped, bundleGen>>
  PROVE  CachedIsCurrent' /\ SingleOwner' /\ EmptyOnceClosed'
<1> USE DEF IInv
<1>1. held[c] \in Bundles /\ pending[c] = {} /\ c \in Threads /\ key[c] \in Keys
      /\ bundleGen[held[c]] = startGen[c] /\ held[c] \in Held
      /\ held[c] # None
  BY DEF TypeOK, HandOver, Threads, Held
<1>2. /\ pending' = [pending EXCEPT ![c] = CachedIn(Victims)]
      /\ held' = [held EXCEPT ![c] = None]
      /\ items' = [k \in Keys |-> IF k = key[c] THEN held[c]
                                  ELSE IF k \in Victims THEN None ELSE items[k]]
      /\ ~closed /\ gen = startGen[c] /\ items[key[c]] = None
  BY DEF PublishInsert, Accepts, Settle
<1>3. CachedIsCurrent'
  BY <1>1, <1>2 DEF CachedIsCurrent
<1>4. EmptyOnceClosed'
  BY <1>2 DEF EmptyOnceClosed
<1> DEFINE Evicted == {items[k] : k \in Victims \cap Keys} \ {None}
<1>5. CachedIn(Victims) = Evicted
  <2>1. Victims \subseteq Keys
    BY DEF Victims, Kept, TypeOK
  <2> QED BY <2>1 DEF CachedIn
<1>6. Evicted \subseteq Cached
  BY DEF Cached, CachedIn
<1>7. Held' = Held \ {held[c]}
  BY <1>1, <1>2 DEF Held, TypeOK, SingleOwner
<1>8. Cached' = (Cached \ Evicted) \cup {held[c]}
  <2>1. \A k \in Keys \ {key[c]} : k \notin Victims => items[k] \notin Evicted
    BY DEF SingleOwner
  <2>2. Cached' \subseteq (Cached \ Evicted) \cup {held[c]}
    BY <1>1, <1>2, <2>1 DEF Cached, CachedIn
  <2>3. (Cached \ Evicted) \cup {held[c]} \subseteq Cached'
    <3>1. held[c] \in Cached'
      BY <1>1, <1>2 DEF Cached, CachedIn
    <3>2. ASSUME NEW b \in Cached \ Evicted PROVE b \in Cached'
      <4>1. PICK k \in Keys : items[k] = b /\ b # None
        BY <3>2 DEF Cached, CachedIn
      <4>2. k \notin Victims /\ k # key[c]
        BY <1>2, <3>2, <4>1
      <4>3. items'[k] = b
        BY <1>2, <4>1, <4>2
      <4> QED BY <4>1, <4>3 DEF Cached, CachedIn
    <3> QED BY <3>1, <3>2
  <2> QED BY <2>2, <2>3
<1>9. Doomed' = Doomed \cup Evicted
  BY <1>1, <1>2, <1>5 DEF Doomed, TypeOK
<1>10. \A d, e \in Callers : held'[d] = held'[e] /\ held'[d] # None => d = e
  BY <1>2 DEF TypeOK, SingleOwner
<1>11. \A k, l \in Keys : items'[k] = items'[l] /\ items'[k] # None => k = l
  <2>1. \A k \in Keys : items[k] # held[c]
    <3>1. held[c] \notin Cached
      BY <1>1 DEF SingleOwner
    <3> QED BY <1>1, <3>1 DEF Cached, CachedIn
  <2> QED BY <1>2, <2>1 DEF SingleOwner
<1>12. \A t, u \in Threads : t # u => pending'[t] \cap pending'[u] = {}
  <2>1. \A t \in Threads : pending[t] \cap Evicted = {}
    <3>1. \A t \in Threads : pending[t] \subseteq Doomed
      BY DEF Doomed
    <3> QED BY <1>6, <3>1 DEF SingleOwner
  <2> QED BY <1>2, <1>5, <2>1 DEF TypeOK, SingleOwner
<1>13. /\ built' = Held' \cup Cached' \cup Doomed' \cup reaped'
       /\ Held' \cap (Cached' \cup Doomed' \cup reaped') = {}
       /\ Cached' \cap (Doomed' \cup reaped') = {}
       /\ Doomed' \cap reaped' = {}
  <2> HIDE DEF Evicted
  <2> QED BY <1>1, <1>6, <1>7, <1>8, <1>9 DEF SingleOwner
<1> QED BY <1>3, <1>4, <1>10, <1>11, <1>12, <1>13 DEF SingleOwner

\* The locked section after the build preserves it in all four of its cases.
LEMMA PublishInv ==
  ASSUME IInv, NEW c \in Callers, Publish(c)
  PROVE  IInv'
<1> USE DEF IInv
<1>1. held[c] \in Bundles /\ pc[c] = "publish" /\ key[c] \in Keys /\ c \in Threads
  BY DEF Publish, TypeOK, HandOver, Threads
<1>2. UNCHANGED <<gen, closed, inflight, turn, key, attempt, startGen, joined,
                  callGen, built, reaped, bundleGen>>
  BY DEF Publish
<1>3. PICK o, toReap : Settle(c, o, toReap) /\ o \in Outcomes /\ toReap \subseteq Bundles
  <2>1. /\ Err("closed") \in Outcomes /\ Err("purged") \in Outcomes
        /\ \A b \in Bundles : Ok(b) \in Outcomes
    BY DEF Outcomes, Errors, Ok, Err
  <2>2. CASE PublishClosed(c)
    BY <1>1, <2>1, <2>2 DEF PublishClosed
  <2>3. CASE PublishStale(c)
    BY <1>1, <2>1, <2>3 DEF PublishStale
  <2>4. CASE PublishLost(c)
    <3>1. items[key[c]] \in Bundles
      BY <1>1, <2>4 DEF PublishLost, TypeOK
    <3> QED BY <1>1, <2>1, <2>4, <3>1 DEF PublishLost
  <2>5. CASE PublishInsert(c)
    <3>1. CachedIn(Victims) \subseteq Bundles
      <4>1. Victims \subseteq Keys
        BY DEF Victims, Kept, TypeOK
      <4> QED BY <4>1 DEF CachedIn, TypeOK
    <3> QED BY <1>1, <2>1, <2>5, <3>1 DEF PublishInsert
  <2> QED BY <2>2, <2>3, <2>4, <2>5 DEF Publish
<1>4. TypeOK'
  <2>1. lru' \in Seq(Keys)
    <3>1. lru \in Seq(Keys)
      BY DEF TypeOK
    <3>2. CASE PublishLost(c)
      BY <1>1, <3>1, <3>2, MovedToFrontType DEF PublishLost
    <3>3. CASE PublishInsert(c)
      BY <1>1, <3>1, <3>3, InsertedType DEF PublishInsert
    <3>4. CASE PublishClosed(c) \/ PublishStale(c)
      BY <3>1, <3>4 DEF PublishClosed, PublishStale
    <3> QED BY <3>2, <3>3, <3>4 DEF Publish
  <2>2. items' \in [Keys -> Bundles \cup {None}]
    BY <1>1 DEF Publish, PublishClosed, PublishStale, PublishLost, PublishInsert, TypeOK
  <2>3. /\ pc' \in [Callers -> PCs] /\ out' \in [Callers -> Outcomes]
        /\ held' \in [Callers -> Bundles \cup {None}]
        /\ pending' \in [Threads -> SUBSET Bundles]
    BY <1>1, <1>3 DEF Settle, TypeOK, PCs
  <2> QED BY <1>2, <2>1, <2>2, <2>3 DEF TypeOK
<1>5. HandOver'
  BY <1>1, <1>2, <1>3 DEF Settle, HandOver, TypeOK, Threads
<1>6. CachedIsCurrent' /\ SingleOwner' /\ EmptyOnceClosed'
  <2>1. CASE PublishInsert(c)
    BY <1>1, <1>2, <2>1, PublishInsertOwnership
  <2>2. CASE ~PublishInsert(c)
    <3>1. items' = items /\ \E p : Settle(c, p, {held[c]})
      BY <2>2 DEF Publish, PublishClosed, PublishStale, PublishLost
    <3>2. SingleOwner'
      BY <1>1, <1>2, <3>1, SettleOwnership
    <3>3. CachedIsCurrent' /\ EmptyOnceClosed'
      BY <1>2, <3>1 DEF CachedIsCurrent, EmptyOnceClosed, Cached, CachedIn
    <3> QED BY <3>2, <3>3
  <2> QED BY <2>1, <2>2
<1> QED BY <1>4, <1>5, <1>6

\* Reaping one bundle passes it from its reaper to the reaped ones.
LEMMA ReapInv ==
  ASSUME IInv, NEW t \in Threads, Reap(t)
  PROVE  IInv'
<1> USE DEF IInv
<1>1. PICK b \in pending[t] : /\ pending' = [pending EXCEPT ![t] = @ \ {b}]
                              /\ reaped' = reaped \cup {b}
  BY DEF Reap
<1>2. /\ UNCHANGED <<gen, closed, items, held, built, bundleGen, pc>>
      /\ UNCHANGED <<lru, inflight, turn, key, attempt, startGen, joined, out, callGen>>
  BY DEF Reap, cacheVars, callVars
<1>3. TypeOK'
  BY <1>1, <1>2 DEF TypeOK
<1>4. HandOver'
  BY <1>1, <1>2 DEF HandOver, TypeOK, Threads
<1>5. CachedIsCurrent' /\ EmptyOnceClosed' /\ Held' = Held /\ Cached' = Cached
  BY <1>2 DEF CachedIsCurrent, EmptyOnceClosed, Cached, CachedIn, Held
<1>6. \A u \in Threads : u # t => b \notin pending[u]
  BY DEF SingleOwner
<1>7. Doomed' = Doomed \ {b} /\ b \in Doomed
  BY <1>1, <1>6 DEF Doomed, TypeOK
<1>8. SingleOwner'
  <2>1. \A u, v \in Threads : u # v => pending'[u] \cap pending'[v] = {}
    BY <1>1 DEF TypeOK, SingleOwner
  <2> QED BY <1>1, <1>2, <1>5, <1>7, <2>1 DEF SingleOwner
<1> QED BY <1>3, <1>4, <1>5, <1>8

\* detachAll passes every cached bundle to the goroutine that called it.
LEMMA DetachAllOwnership ==
  ASSUME IInv, NEW t \in Admins, pending[t] = {}, DetachAll(t),
         UNCHANGED <<callVars, built, reaped, bundleGen>>
  PROVE  /\ CachedIsCurrent' /\ SingleOwner' /\ EmptyOnceClosed' /\ HandOver'
         /\ lru' \in Seq(Keys) /\ items' \in [Keys -> Bundles \cup {None}]
         /\ pending' \in [Threads -> SUBSET Bundles]
<1> USE DEF IInv
<1>1. /\ items' = [k \in Keys |-> None]
      /\ pending' = [pending EXCEPT ![t] = Cached]
      /\ lru' = <<>>
  BY DEF DetachAll, Cached
<1>2. t \in Threads /\ t \notin Callers
  BY DEF Threads
<1>3. Cached \subseteq Bundles
  BY DEF Cached, CachedIn, TypeOK
<1>4. /\ lru' \in Seq(Keys) /\ items' \in [Keys -> Bundles \cup {None}]
      /\ pending' \in [Threads -> SUBSET Bundles]
  <2>1. <<>> \in Seq(Keys)
    OBVIOUS
  <2>2. pending \in [Threads -> SUBSET Bundles]
    BY DEF TypeOK
  <2> QED BY <1>1, <1>3, <2>1, <2>2
<1>5. HandOver'
  BY <1>1, <1>2 DEF HandOver, TypeOK, Threads, callVars
<1>6. Cached' = {}
  BY <1>1 DEF Cached, CachedIn
<1>7. CachedIsCurrent' /\ EmptyOnceClosed'
  BY <1>1, <1>6 DEF CachedIsCurrent, EmptyOnceClosed
<1>8. Held' = Held
  BY DEF Held, callVars
<1>9. Doomed' = Doomed \cup Cached
  BY <1>1, <1>2 DEF Doomed, TypeOK
<1>10. \A u, v \in Threads : u # v => pending'[u] \cap pending'[v] = {}
  <2>1. \A u \in Threads : pending[u] \cap Cached = {}
    BY DEF SingleOwner, Doomed
  <2> QED BY <1>1, <2>1 DEF TypeOK, SingleOwner
<1>11. /\ built' = Held' \cup Cached' \cup Doomed' \cup reaped'
       /\ Held' \cap (Cached' \cup Doomed' \cup reaped') = {}
       /\ Cached' \cap (Doomed' \cup reaped') = {}
       /\ Doomed' \cap reaped' = {}
  BY <1>6, <1>8, <1>9 DEF SingleOwner
<1>12. \A c, d \in Callers : held'[c] = held'[d] /\ held'[c] # None => c = d
  BY DEF SingleOwner, callVars
<1>13. \A k, l \in Keys : items'[k] = items'[l] /\ items'[k] # None => k = l
  BY <1>1
<1>14. SingleOwner'
  BY <1>10, <1>11, <1>12, <1>13 DEF SingleOwner
<1> QED BY <1>4, <1>5, <1>7, <1>14

\* Purge preserves the invariant: it empties the cache as it bumps gen.
LEMMA PurgeInv ==
  ASSUME IInv, NEW t \in Admins, Purge(t)
  PROVE  IInv'
<1> USE DEF IInv
<1>1. /\ pending[t] = {} /\ DetachAll(t) /\ UNCHANGED <<callVars, built, reaped, bundleGen>>
      /\ gen' = gen + 1 /\ closed' = closed /\ inflight' = inflight
      /\ turn' = Forget(inflight)
  BY DEF Purge
<1>2. turn' \in [Keys -> Callers \cup {None}]
  BY <1>1 DEF Forget, TypeOK
<1>3. TypeOK'
  <2>1. gen' \in Nat
    BY <1>1 DEF TypeOK
  <2>2. /\ lru' \in Seq(Keys) /\ items' \in [Keys -> Bundles \cup {None}]
        /\ pending' \in [Threads -> SUBSET Bundles]
    BY <1>1, DetachAllOwnership
  <2>3. /\ UNCHANGED <<closed, inflight, built, reaped, bundleGen>>
        /\ UNCHANGED <<pc, key, attempt, startGen, held, joined, out, callGen>>
    BY <1>1 DEF callVars
  <2> QED BY <1>2, <2>1, <2>2, <2>3 DEF TypeOK
<1> QED BY <1>1, <1>3, DetachAllOwnership

\* Close preserves it: it empties the cache as it sets closed.
LEMMA CloseInv ==
  ASSUME IInv, NEW t \in Admins, Close(t)
  PROVE  IInv'
<1> USE DEF IInv
<1>1. /\ pending[t] = {} /\ DetachAll(t) /\ UNCHANGED <<callVars, built, reaped, bundleGen>>
      /\ closed' = TRUE /\ UNCHANGED <<gen, inflight, turn>>
  BY DEF Close
<1>2. TypeOK'
  BY <1>1, DetachAllOwnership DEF TypeOK, callVars
<1> QED BY <1>1, <1>2, DetachAllOwnership

-----------------------------------------------------------------------------
(* The invariant.                                                             *)
LEMMA NextInv == IInv /\ [Next]_vars => IInv'
<1> SUFFICES ASSUME IInv, [Next]_vars PROVE IInv'
  OBVIOUS
<1>1. ASSUME NEW c \in Callers, NEW k \in Keys, Begin(c, k) PROVE IInv'
  BY <1>1, BeginInv
<1>2. ASSUME NEW c \in Callers, Step(c) PROVE IInv'
  BY <1>2, LookupInv, JoinInv, StartInv, BuildSucceedsInv, BuildFailsInv,
     PublishInv, UnmarkInv, FinishInv, DeliverInv DEF Step
<1>3. ASSUME NEW t \in Threads, Reap(t) PROVE IInv'
  BY <1>3, ReapInv
<1>4. ASSUME NEW t \in Admins, Purge(t) \/ Close(t) PROVE IInv'
  BY <1>4, PurgeInv, CloseInv
<1>5. CASE UNCHANGED vars
  <2>1. UNCHANGED cacheVars /\ UNCHANGED callVars /\ UNCHANGED bundleVars
    BY <1>5 DEF vars
  <2>2. TypeOK'
    BY <2>1 DEF cacheVars, callVars, bundleVars, IInv, TypeOK
  <2>3. HandOver'
    BY <2>1 DEF callVars, bundleVars, IInv, HandOver
  <2>4. CachedIsCurrent' /\ SingleOwner' /\ EmptyOnceClosed'
    BY <2>1, BundlesInPlace DEF cacheVars, callVars, IInv
  <2> QED BY <2>2, <2>3, <2>4 DEF IInv
<1> QED BY <1>1, <1>2, <1>3, <1>4, <1>5 DEF Next

(* The invariant of every behaviour of the cache.                             *)
THEOREM CacheInv == Spec => []IInv
<1> QED BY InitInv, NextInv, PTL DEF Spec

(* Every variable keeps its type, for any number of goroutines.               *)
THEOREM CacheTypes == Spec => []TypeOK
<1>1. IInv => TypeOK
  BY DEF IInv
<1> QED BY <1>1, CacheInv, PTL

(* audit R7: no bundle built before a Purge is ever cached after it.          *)
THEOREM CacheCurrent == Spec => []CachedIsCurrent
<1>1. IInv => CachedIsCurrent
  BY DEF IInv
<1> QED BY <1>1, CacheInv, PTL

(* Every built bundle has one owner: none leaks and none is reaped twice or   *)
(* while it is cached.                                                        *)
THEOREM CacheOwnership == Spec => []SingleOwner
<1>1. IInv => SingleOwner
  BY DEF IInv
<1> QED BY <1>1, CacheInv, PTL

(* M8: nothing is cached once the cache is closed.                            *)
THEOREM CacheClosed == Spec => []EmptyOnceClosed
<1>1. IInv => EmptyOnceClosed
  BY DEF IInv
<1> QED BY <1>1, CacheInv, PTL

-----------------------------------------------------------------------------
(* The map and the recency list.                                              *)

\* The list s with its i-th element moved to the front.
Fronted(s, i) == <<s[i]>> \o SubSeq(s, 1, i - 1) \o SubSeq(s, i + 1, Len(s))

\* t holds the elements of s, and each once if s does.
Rearranges(t, s) ==
  /\ Len(t) = Len(s)
  /\ \A m \in 1..Len(s) : \E j \in 1..Len(s) : t[m] = s[j]
  /\ \A j \in 1..Len(s) : \E m \in 1..Len(s) : t[m] = s[j]
  /\ \A j, l \in 1..Len(t) : t[j] = t[l] => j = l
Distinct(s) == \A j, l \in 1..Len(s) : s[j] = s[l] => j = l

\* Moving an element to the front keeps the elements, and each once.
LEMMA FrontedKeeps ==
  ASSUME NEW S, NEW s \in Seq(S), NEW i \in 1..Len(s), NEW t, t = Fronted(s, i),
         Distinct(s)
  PROVE  Rearranges(t, s)
<1>1. /\ Len(t) = Len(s)
      /\ t[1] = s[i]
      /\ \A j \in 1..Len(s) : j < i => t[j + 1] = s[j]
      /\ \A j \in 1..Len(s) : j > i => t[j] = s[j]
  <2> DEFINE A == SubSeq(s, 1, i - 1)
             B == SubSeq(s, i + 1, Len(s))
             C == <<s[i]>> \o A
  <2>0. i \in Nat /\ i >= 1 /\ i <= Len(s) /\ Len(s) \in Nat /\ \A j \in 1..Len(s) : s[j] \in S
    OBVIOUS
  <2>1. A \in Seq(S) /\ Len(A) = i - 1 /\ \A j \in 1..(i - 1) : A[j] = s[j]
    BY <2>0, SubSeqProperties, i - 1 \in Int, \A j \in 1..(i - 1) : s[j] \in S
  <2>2. B \in Seq(S) /\ Len(B) = Len(s) - i /\ \A j \in 1..(Len(s) - i) : B[j] = s[i + j]
    BY <2>0, SubSeqProperties, i + 1 \in Int, \A j \in (i + 1)..Len(s) : s[j] \in S
  <2> HIDE DEF A, B
  <2>3. C \in Seq(S) /\ Len(C) = i /\ C[1] = s[i] /\ \A j \in 1..(i - 1) : C[j + 1] = A[j]
    BY <2>0, <2>1
  <2> HIDE DEF C
  <2>4. t = C \o B
    BY DEF A, B, C, Fronted
  <2>5. /\ Len(t) = i + (Len(s) - i)
        /\ \A j \in 1..(i + (Len(s) - i)) : t[j] = IF j <= i THEN C[j] ELSE B[j - i]
    <3>1. Len(C \o B) = Len(C) + Len(B)
          /\ \A j \in 1..(Len(C) + Len(B)) :
               (C \o B)[j] = IF j <= Len(C) THEN C[j] ELSE B[j - Len(C)]
      BY <2>2, <2>3, ConcatProperties
    <3> QED BY <2>2, <2>3, <2>4, <3>1
  <2>6. i + (Len(s) - i) = Len(s)
    BY <2>0
  <2>7. t[1] = s[i]
    BY <2>0, <2>3, <2>5, <2>6, 1 \in 1..Len(s)
  <2>8. ASSUME NEW j \in 1..Len(s), j < i PROVE t[j + 1] = s[j]
    <3>1. j \in 1..(i - 1) /\ j + 1 \in 1..Len(s) /\ j + 1 <= i
      BY <2>0, <2>8
    <3>2. t[j + 1] = C[j + 1]
      BY <2>5, <2>6, <3>1
    <3> QED BY <2>1, <2>3, <3>1, <3>2
  <2>9. ASSUME NEW j \in 1..Len(s), j > i PROVE t[j] = s[j]
    <3>1. j - i \in 1..(Len(s) - i) /\ i + (j - i) = j /\ ~(j <= i)
      BY <2>0, <2>9
    <3>2. t[j] = B[j - i]
      BY <2>5, <2>6, <3>1
    <3>3. B[j - i] = s[i + (j - i)]
      BY <2>2, <3>1
    <3> QED BY <3>1, <3>2, <3>3
  <2> QED BY <2>5, <2>6, <2>7, <2>8, <2>9
<1>0. i \in Nat /\ i >= 1 /\ i <= Len(s) /\ Len(s) \in Nat
  OBVIOUS
<1> DEFINE To(j) == IF j = i THEN 1 ELSE IF j < i THEN j + 1 ELSE j
           From(m) == IF m = 1 THEN i ELSE IF m <= i THEN m - 1 ELSE m
<1>2. \A j \in 1..Len(s) : To(j) \in 1..Len(s) /\ t[To(j)] = s[j]
  <2> TAKE j \in 1..Len(s)
  <2>1. CASE j = i
    BY <1>0, <1>1, <2>1
  <2>2. CASE j < i
    BY <1>0, <1>1, <2>2
  <2>3. CASE j > i
    BY <1>0, <1>1, <2>3
  <2> QED BY <1>0, <2>1, <2>2, <2>3
<1>3. \A m \in 1..Len(s) : From(m) \in 1..Len(s) /\ To(From(m)) = m
  BY <1>0
<1>4. \A m \in 1..Len(s) : t[m] = s[From(m)]
  BY <1>2, <1>3
<1>5. \A m \in 1..Len(s) : \E j \in 1..Len(s) : t[m] = s[j]
  BY <1>3, <1>4
<1>6. \A j \in 1..Len(s) : \E m \in 1..Len(s) : t[m] = s[j]
  BY <1>2
<1>7. ASSUME NEW j \in 1..Len(s), NEW l \in 1..Len(s), t[j] = t[l] PROVE j = l
  <2>1. s[From(j)] = s[From(l)] /\ From(j) \in 1..Len(s) /\ From(l) \in 1..Len(s)
    BY <1>3, <1>4, <1>7
  <2>2. From(j) = From(l)
    <3> HIDE DEF From
    <3> QED BY <2>1 DEF Distinct
  <2>3. To(From(j)) = To(From(l))
    BY <2>2
  <2> QED BY <1>3, <2>3
<1> HIDE DEF From, To
<1> QED BY <1>1, <1>5, <1>6, <1>7 DEF Rearranges

\* A hit reorders the list and keeps it in agreement with the map.
LEMMA MovedToFrontKeeps ==
  ASSUME lru \in Seq(Keys), LruAgrees, NEW k \in Keys, MovedToFront(k), UNCHANGED items
  PROVE  LruAgrees'
<1>1. PICK i \in 1..Len(lru) : lru' = Fronted(lru, i)
  BY DEF MovedToFront, Fronted
<1>2. Distinct(lru)
  BY DEF LruAgrees, Distinct
<1>3. /\ Len(lru') = Len(lru)
      /\ \A m \in 1..Len(lru) : \E j \in 1..Len(lru) : lru'[m] = lru[j]
      /\ \A j \in 1..Len(lru) : \E m \in 1..Len(lru) : lru'[m] = lru[j]
      /\ \A j, l \in 1..Len(lru) : lru'[j] = lru'[l] => j = l
  <2>1. Rearranges(Fronted(lru, i), lru)
    BY <1>2, FrontedKeeps, Zenon
  <2> QED BY <1>1, <2>1 DEF Rearranges
<1>4. ASSUME NEW x PROVE x \in {lru'[m] : m \in 1..Len(lru)} <=> x \in {lru[j] : j \in 1..Len(lru)}
  <2>1. x \in {lru'[m] : m \in 1..Len(lru)} <=> \E m \in 1..Len(lru) : x = lru'[m]
    OBVIOUS
  <2>2. x \in {lru[j] : j \in 1..Len(lru)} <=> \E j \in 1..Len(lru) : x = lru[j]
    OBVIOUS
  <2> QED BY <1>3, <2>1, <2>2
<1>5. {lru'[m] : m \in 1..Len(lru)} = {k_1 \in Keys : items[k_1] # None}
  BY <1>4 DEF LruAgrees
<1> QED BY <1>3, <1>5 DEF LruAgrees

\* An insertion evicts from the end what no longer fits, from map and list.
LEMMA InsertedKeeps ==
  ASSUME TypeOK, HandOver, LruAgrees, NEW c \in Callers, pc[c] = "publish", PublishInsert(c)
  PROVE  LruAgrees'
<1> DEFINE S == SubSeq(lru, 1, Kept)
<1>1. key[c] \in Keys /\ held[c] \in Bundles /\ items[key[c]] = None
  BY DEF TypeOK, HandOver, PublishInsert
<1>2. lru \in Seq(Keys) /\ Len(lru) \in Nat /\ \A i \in 1..Len(lru) : lru[i] \in Keys
  BY DEF TypeOK
<1>3. Kept \in Nat /\ Kept <= Len(lru) /\ Kept + 1 <= Capacity
  BY <1>2 DEF Kept, LruAgrees
<1>4. S \in Seq(Keys) /\ Len(S) = Kept /\ \A i \in 1..Kept : S[i] = lru[i]
  BY <1>2, <1>3, SubSeqProperties, \A i \in 1..Kept : lru[i] \in Keys
<1>5. lru' = <<key[c]>> \o S
  BY DEF PublishInsert
<1> HIDE DEF S
<1>6. Len(lru') = Kept + 1 /\ \A i \in 1..(Kept + 1) : lru'[i] = IF i = 1 THEN key[c] ELSE lru[i - 1]
  BY <1>1, <1>3, <1>4, <1>5
<1>7. \A i \in 1..Len(lru) : lru[i] # key[c]
  BY <1>1 DEF LruAgrees
<1>8. \A i, j \in 1..(Kept + 1) : lru'[i] = lru'[j] => i = j
  BY <1>2, <1>3, <1>6, <1>7 DEF LruAgrees
<1>9. {lru'[i] : i \in 1..(Kept + 1)} = {key[c]} \cup {lru[i] : i \in 1..Kept}
  <2>1. \A i \in 1..Kept : i + 1 \in 1..(Kept + 1) /\ lru'[i + 1] = lru[i]
    BY <1>3, <1>6
  <2>2. \A i \in 1..(Kept + 1) : lru'[i] = key[c] \/ \E j \in 1..Kept : lru'[i] = lru[j]
    BY <1>3, <1>6
  <2>3. 1 \in 1..(Kept + 1) /\ lru'[1] = key[c]
    BY <1>3, <1>6
  <2> QED BY <2>1, <2>2, <2>3
<1>10. {k \in Keys : items'[k] # None} = {key[c]} \cup {lru[i] : i \in 1..Kept}
  <2>1. \A k \in Keys : items'[k] # None <=> k = key[c] \/ (items[k] # None /\ k \notin Victims)
    BY <1>1 DEF PublishInsert
  <2>2. \A k \in Keys : items[k] # None <=> \E i \in 1..Len(lru) : lru[i] = k
    BY DEF LruAgrees
  <2>3. \A k \in Keys : (items[k] # None /\ k \notin Victims) <=> \E i \in 1..Kept : lru[i] = k
    BY <1>2, <1>3, <2>2 DEF Victims, LruAgrees
  <2> QED BY <1>1, <1>2, <1>3, <2>1, <2>3
<1> QED BY <1>3, <1>6, <1>8, <1>9, <1>10 DEF LruAgrees

\* Every other step leaves both alone or empties both.
LEMMA LruNext == IInv /\ LruAgrees /\ [Next]_vars => LruAgrees'
<1> SUFFICES ASSUME IInv, LruAgrees, [Next]_vars PROVE LruAgrees'
  OBVIOUS
<1>0. TypeOK /\ HandOver /\ lru \in Seq(Keys)
  BY DEF IInv, TypeOK
<1>1. CASE UNCHANGED <<items, lru>>
  BY <1>1 DEF LruAgrees
<1>2. ASSUME NEW c \in Callers, Lookup(c) PROVE LruAgrees'
  <2>1. UNCHANGED items /\ (UNCHANGED lru \/ MovedToFront(key[c])) /\ key[c] \in Keys
    BY <1>0, <1>2 DEF Lookup, LookupClosed, LookupHit, LookupMiss, TypeOK
  <2> QED BY <1>0, <1>1, <2>1, MovedToFrontKeeps
<1>3. ASSUME NEW c \in Callers, Publish(c) PROVE LruAgrees'
  <2>1. pc[c] = "publish" /\ key[c] \in Keys
    BY <1>0, <1>3 DEF Publish, TypeOK
  <2>2. CASE PublishClosed(c) \/ PublishStale(c)
    BY <1>1, <2>2 DEF PublishClosed, PublishStale
  <2>3. CASE PublishLost(c)
    BY <1>0, <2>1, <2>3, MovedToFrontKeeps DEF PublishLost
  <2>4. CASE PublishInsert(c)
    BY <1>0, <2>1, <2>4, InsertedKeeps
  <2> QED BY <1>3, <2>2, <2>3, <2>4 DEF Publish
<1>4. ASSUME NEW t \in Admins, Purge(t) \/ Close(t) PROVE LruAgrees'
  BY <1>4 DEF Purge, Close, DetachAll, LruAgrees
<1>5. ASSUME NEW c \in Callers, NEW k \in Keys, Begin(c, k) PROVE UNCHANGED <<items, lru>>
  BY <1>5 DEF Begin, cacheVars
<1>6. ASSUME NEW c \in Callers,
             Join(c) \/ Start(c) \/ BuildSucceeds(c) \/ BuildFails(c) \/ Unmark(c)
               \/ Finish(c) \/ Deliver(c)
      PROVE  UNCHANGED <<items, lru>>
  BY <1>6 DEF Join, Start, BuildSucceeds, BuildFails, Unmark, Finish, Deliver, cacheVars
<1>7. ASSUME NEW t \in Threads, Reap(t) PROVE UNCHANGED <<items, lru>>
  BY <1>7 DEF Reap, cacheVars
<1>8. CASE UNCHANGED vars
  BY <1>1, <1>8 DEF vars, cacheVars
<1> QED BY <1>1, <1>2, <1>3, <1>4, <1>5, <1>6, <1>7, <1>8 DEF Next, Step

(* The map and the recency list agree and stay within the capacity.           *)
THEOREM CacheLru == Spec => []LruAgrees
<1>1. Init => LruAgrees
  BY DEF Init, LruAgrees
<1> QED BY <1>1, LruNext, CacheInv, PTL DEF Spec

-----------------------------------------------------------------------------
(* Generations: what a call and its turn know of the Purges that have run.    *)

Turning == Building \cup {"start", "finish"}

\* A turn started no earlier than the call that leads it, and both in the past.
CallOrder ==
  \A c \in Callers :
    /\ callGen[c] <= gen /\ startGen[c] <= gen
    /\ pc[c] \in Building \cup {"finish"} => callGen[c] <= startGen[c]

\* What singleflight's map holds is a turn in flight, for its own key.
TurnOwned ==
  \A k \in Keys : turn[k] # None => key[turn[k]] = k /\ pc[turn[k]] \in Turning

\* A waiter waits for a turn of its key: the one in the map, if no Purge has
\* run since its call began.
WaitsInMap ==
  \A c \in Callers :
    pc[c] = "wait" =>
      /\ joined[c] # None
      /\ pc[joined[c]] \in Turning
      /\ key[joined[c]] = key[c]
      /\ callGen[c] = gen => turn[key[c]] = joined[c]

\* A turn ends with the purge error only after a Purge since it started.
PurgedTurn ==
  \A c \in Callers :
    pc[c] \in {"reap", "finish"} /\ out[c].err = "purged" => startGen[c] < gen

\* A call that has met the purge error and was not itself purged finds no
\* stale turn in the map: the stale turn it had joined is over.
MetPurge(c) ==
  /\ pc[c] \notin {"idle", "done"}
  /\ attempt[c] = 1 \/ (pc[c] = "deliver" /\ out[c].err = "purged")
FreshTurn(k) ==
  turn[k] # None => pc[turn[k]] = "start" \/ startGen[turn[k]] = gen
RetryFresh ==
  \A c \in Callers : MetPurge(c) /\ callGen[c] = gen => FreshTurn(key[c])

\* So the retry does not meet it again.
OnceOnly ==
  \A c \in Callers :
    pc[c] = "deliver" /\ attempt[c] = 1 /\ out[c].err = "purged" => callGen[c] < gen

GInv == /\ CallOrder /\ TurnOwned /\ WaitsInMap /\ PurgedTurn /\ RetryFresh
        /\ OnceOnly /\ PurgeErrorIsOwn


\* The types these proofs use.
LEMMA GenTypes ==
  ASSUME IInv
  PROVE  /\ gen \in Nat /\ turn \in [Keys -> Callers \cup {None}]
         /\ pc \in [Callers -> PCs] /\ key \in [Callers -> Keys]
         /\ attempt \in [Callers -> {0, 1}]
         /\ startGen \in [Callers -> Nat] /\ callGen \in [Callers -> Nat]
         /\ joined \in [Callers -> Callers \cup {None}]
         /\ out \in [Callers -> Outcomes]
BY DEF IInv, TypeOK

\* A step of a caller between two turns, or before or after them.
LEMMA BeginGen ==
  ASSUME IInv, GInv, NEW c \in Callers, NEW k \in Keys, Begin(c, k)
  PROVE  GInv'
<1> USE GenTypes DEF GInv
<1>1. /\ pc[c] \in {"idle", "done"}
      /\ pc' = [pc EXCEPT ![c] = "lookup"] /\ key' = [key EXCEPT ![c] = k]
      /\ attempt' = [attempt EXCEPT ![c] = 0] /\ callGen' = [callGen EXCEPT ![c] = gen]
      /\ out' = [out EXCEPT ![c] = Err("none")]
      /\ UNCHANGED <<gen, turn, startGen, joined>>
  BY DEF Begin, cacheVars
<1>2. CallOrder'
  BY <1>1 DEF CallOrder, Building
<1>3. TurnOwned'
  BY <1>1 DEF TurnOwned, Turning, Building
<1>4. WaitsInMap'
  BY <1>1 DEF WaitsInMap, Turning, Building
<1>5. PurgedTurn'
  BY <1>1 DEF PurgedTurn
<1>6. RetryFresh'
  <2>1. \A d \in Callers : MetPurge(d)' => d # c /\ MetPurge(d)
    BY <1>1 DEF MetPurge
  <2>2. \A l \in Keys : FreshTurn(l) => FreshTurn(l)'
    BY <1>1 DEF FreshTurn, TurnOwned, Turning, Building
  <2> QED BY <1>1, <2>1, <2>2 DEF RetryFresh
<1>7. OnceOnly' /\ PurgeErrorIsOwn'
  BY <1>1 DEF OnceOnly, PurgeErrorIsOwn
<1> QED BY <1>2, <1>3, <1>4, <1>5, <1>6, <1>7

\* A hit or a closed cache returns another outcome than the purge error.
LEMMA LookupGen ==
  ASSUME IInv, GInv, NEW c \in Callers, Lookup(c)
  PROVE  GInv'
<1> USE GenTypes DEF GInv
<1>1. /\ pc[c] = "lookup"
      /\ UNCHANGED <<gen, turn, key, attempt, callGen, startGen, joined>>
  BY DEF Lookup
<1>2. \/ pc' = [pc EXCEPT ![c] = "join"] /\ out' = out
      \/ /\ pc' = [pc EXCEPT ![c] = "deliver"]
         /\ \E o \in Outcomes : out' = [out EXCEPT ![c] = o] /\ o.err # "purged"
  <2>1. Err("closed") \in Outcomes /\ Err("closed").err # "purged"
    BY DEF Err, Outcomes, Errors
  <2>2. \A b \in Bundles : Ok(b) \in Outcomes /\ Ok(b).err # "purged"
    BY DEF Ok, Outcomes, Errors
  <2>3. items[key[c]] # None => items[key[c]] \in Bundles
    BY DEF IInv, TypeOK
  <2> QED BY <2>1, <2>2, <2>3 DEF Lookup, LookupClosed, LookupHit, LookupMiss, Returns
<1>3. \A d \in Callers \ {c} : pc'[d] = pc[d] /\ out'[d] = out[d]
  BY <1>2
<1>4. pc'[c] \in {"join", "deliver"} /\ (pc'[c] = "deliver" => out'[c].err # "purged")
  BY <1>2
<1>5. CallOrder'
  BY <1>1, <1>3, <1>4 DEF CallOrder, Building
<1>6. TurnOwned'
  BY <1>1, <1>3 DEF TurnOwned, Turning, Building
<1>7. WaitsInMap'
  BY <1>1, <1>3, <1>4 DEF WaitsInMap, Turning, Building
<1>8. PurgedTurn'
  BY <1>1, <1>3, <1>4 DEF PurgedTurn
<1>9. RetryFresh'
  <2>1. \A d \in Callers : MetPurge(d)' => MetPurge(d)
    BY <1>1, <1>3, <1>4 DEF MetPurge
  <2>2. \A l \in Keys : FreshTurn(l) => FreshTurn(l)'
    BY <1>1, <1>3 DEF FreshTurn, TurnOwned, Turning, Building
  <2> QED BY <1>1, <2>1, <2>2 DEF RetryFresh
<1>10. OnceOnly' /\ PurgeErrorIsOwn'
  BY <1>1, <1>3, <1>4 DEF OnceOnly, PurgeErrorIsOwn
<1> QED BY <1>5, <1>6, <1>7, <1>8, <1>9, <1>10

\* Joining: a new turn is fresh, and a waiter joins the turn in the map.
LEMMA JoinGen ==
  ASSUME IInv, GInv, NEW c \in Callers, Join(c)
  PROVE  GInv'
<1> USE GenTypes DEF GInv
<1>1. /\ pc[c] = "join"
      /\ UNCHANGED <<gen, key, attempt, callGen, startGen, out>>
  BY DEF Join
<1>2. CASE Lead(c)
  <2>1. /\ turn[key[c]] = None
        /\ turn' = [turn EXCEPT ![key[c]] = c] /\ pc' = [pc EXCEPT ![c] = "start"]
        /\ joined' = joined
    BY <1>2 DEF Lead
  <2>2. CallOrder' /\ PurgedTurn' /\ OnceOnly' /\ PurgeErrorIsOwn'
    BY <1>1, <2>1 DEF CallOrder, PurgedTurn, OnceOnly, PurgeErrorIsOwn, Building
  <2>3. TurnOwned'
    BY <1>1, <2>1 DEF TurnOwned, Turning, Building
  <2>4. WaitsInMap'
    BY <1>1, <2>1, NoneAssumption DEF WaitsInMap, Turning, Building
  <2>5. RetryFresh'
    <3>1. \A d \in Callers : MetPurge(d)' => MetPurge(d)
      BY <1>1, <2>1 DEF MetPurge
    <3>2. \A l \in Keys : FreshTurn(l) => FreshTurn(l)'
      BY <1>1, <2>1 DEF FreshTurn, TurnOwned, Turning, Building
    <3> QED BY <1>1, <3>1, <3>2 DEF RetryFresh
  <2> QED BY <2>2, <2>3, <2>4, <2>5
<1>3. CASE Follow(c)
  <2>1. /\ turn[key[c]] # None
        /\ joined' = [joined EXCEPT ![c] = turn[key[c]]] /\ pc' = [pc EXCEPT ![c] = "wait"]
        /\ turn' = turn
    BY <1>3 DEF Follow
  <2>2. CallOrder' /\ PurgedTurn' /\ OnceOnly' /\ PurgeErrorIsOwn'
    BY <1>1, <2>1 DEF CallOrder, PurgedTurn, OnceOnly, PurgeErrorIsOwn, Building
  <2>3. TurnOwned'
    BY <1>1, <2>1 DEF TurnOwned, Turning, Building
  <2>4. WaitsInMap'
    BY <1>1, <2>1 DEF WaitsInMap, TurnOwned, Turning, Building
  <2>5. RetryFresh'
    <3>1. \A d \in Callers : MetPurge(d)' => MetPurge(d)
      BY <1>1, <2>1 DEF MetPurge
    <3>2. \A l \in Keys : FreshTurn(l) => FreshTurn(l)'
      BY <1>1, <2>1 DEF FreshTurn, TurnOwned, Turning, Building
    <3> QED BY <1>1, <3>1, <3>2 DEF RetryFresh
  <2> QED BY <2>2, <2>3, <2>4, <2>5
<1> QED BY <1>2, <1>3 DEF Join

\* Inside a turn: its generation is taken once, and a stale one says so.
InsideTurn(c) ==
  /\ UNCHANGED <<gen, turn, key, attempt, callGen, joined>>
  /\ pc[c] \in Building \cup {"start"}
  /\ pc' = [pc EXCEPT ![c] = pc'[c]] /\ pc'[c] \in Building \cup {"finish"}
  /\ startGen' = [startGen EXCEPT ![c] = startGen'[c]]
  /\ startGen'[c] = gen \/ (startGen'[c] = startGen[c] /\ pc[c] # "start")
  /\ out' = [out EXCEPT ![c] = out'[c]]
  /\ pc'[c] \in {"reap", "finish"} /\ out'[c].err = "purged" => startGen'[c] < gen

\* Such a step keeps generations and turns in order.
LEMMA TurnStepGen ==
  ASSUME IInv, GInv, NEW c \in Callers, InsideTurn(c)
  PROVE  GInv'
<1> USE GenTypes DEF GInv, InsideTurn
<1>1. \A d \in Callers \ {c} : /\ pc'[d] = pc[d] /\ out'[d] = out[d]
                               /\ startGen'[d] = startGen[d]
  OBVIOUS
<1>2. CallOrder'
  BY <1>1 DEF CallOrder
<1>3. TurnOwned'
  BY <1>1 DEF TurnOwned, Turning
<1>4. WaitsInMap'
  BY <1>1 DEF WaitsInMap, Turning, Building
<1>5. PurgedTurn'
  BY <1>1 DEF PurgedTurn
<1>6. RetryFresh'
  <2>1. \A d \in Callers : MetPurge(d)' => MetPurge(d)
    BY <1>1 DEF MetPurge, Building
  <2>2. \A l \in Keys : FreshTurn(l) => FreshTurn(l)'
    BY <1>1 DEF FreshTurn, TurnOwned
  <2> QED BY <2>1, <2>2 DEF RetryFresh
<1>7. OnceOnly' /\ PurgeErrorIsOwn'
  BY <1>1 DEF OnceOnly, PurgeErrorIsOwn, Building
<1> QED BY <1>2, <1>3, <1>4, <1>5, <1>6, <1>7

\* The steps of a turn's body are of that kind.
LEMMA BodyGen ==
  ASSUME IInv, GInv, NEW c \in Callers,
         Start(c) \/ BuildSucceeds(c) \/ BuildFails(c) \/ Publish(c) \/ Unmark(c)
  PROVE  GInv'
<1> USE GenTypes
<1>1. CASE Start(c)
  <2>1. /\ pc[c] = "start" /\ pc' = [pc EXCEPT ![c] = "build"]
        /\ startGen' = [startGen EXCEPT ![c] = gen] /\ out' = out
        /\ UNCHANGED <<gen, turn, key, attempt, callGen, joined>>
    BY <1>1 DEF Start
  <2>5. InsideTurn(c)
    BY <2>1 DEF InsideTurn, Building
  <2> QED BY <2>5, TurnStepGen
<1>2. CASE BuildSucceeds(c)
  <2>1. /\ pc[c] = "build" /\ pc' = [pc EXCEPT ![c] = "publish"]
        /\ startGen' = startGen /\ out' = out
        /\ UNCHANGED <<gen, turn, key, attempt, callGen, joined>>
    BY <1>2 DEF BuildSucceeds, cacheVars
  <2>5. InsideTurn(c)
    BY <2>1 DEF InsideTurn, Building
  <2> QED BY <2>5, TurnStepGen
<1>3. CASE BuildFails(c)
  <2>1. /\ pc[c] = "build" /\ pc' = [pc EXCEPT ![c] = "reap"]
        /\ startGen' = startGen /\ out' = [out EXCEPT ![c] = Err("failed")]
        /\ UNCHANGED <<gen, turn, key, attempt, callGen, joined>>
    BY <1>3 DEF BuildFails, cacheVars
  <2>2. Err("failed").err # "purged"
    BY DEF Err
  <2>5. InsideTurn(c)
    BY <2>1, <2>2 DEF InsideTurn, Building
  <2> QED BY <2>5, TurnStepGen
<1>4. CASE Publish(c)
  <2>1. /\ pc[c] = "publish"
        /\ UNCHANGED <<gen, turn, key, attempt, callGen, joined, startGen>>
    BY <1>4 DEF Publish
  <2>2. /\ pc' = [pc EXCEPT ![c] = "reap"]
        /\ \E o : /\ out' = [out EXCEPT ![c] = o]
                  /\ o.err = "purged" => gen # startGen[c]
    BY <1>4 DEF Publish, PublishClosed, PublishStale, PublishLost, PublishInsert,
                Settle, Ok, Err
  <2>3. startGen[c] <= gen
    BY DEF GInv, CallOrder
  <2>4. out' = [out EXCEPT ![c] = out'[c]] /\ (out'[c].err = "purged" => startGen[c] < gen)
    BY <2>2, <2>3
  <2>5. InsideTurn(c)
    BY <2>1, <2>2, <2>4 DEF InsideTurn, Building
  <2> QED BY <2>5, TurnStepGen
<1>5. CASE Unmark(c)
  <2>1. /\ pc[c] = "reap" /\ pc' = [pc EXCEPT ![c] = "finish"]
        /\ startGen' = startGen /\ out' = out
        /\ UNCHANGED <<gen, turn, key, attempt, callGen, joined>>
    BY <1>5 DEF Unmark
  <2>2. out[c].err = "purged" => startGen[c] < gen
    BY <2>1 DEF GInv, PurgedTurn
  <2>5. InsideTurn(c)
    BY <2>1, <2>2 DEF InsideTurn, Building
  <2> QED BY <2>5, TurnStepGen
<1> QED BY <1>1, <1>2, <1>3, <1>4, <1>5

\* A turn that ends leaves the map, and gives the purge error only to callers
\* that a Purge has met or that may try again.
LEMMA FinishGen ==
  ASSUME IInv, GInv, NEW c \in Callers, Finish(c)
  PROVE  GInv'
<1> USE GenTypes DEF GInv
<1>1. /\ pc[c] = "finish"
      /\ turn' = [turn EXCEPT ![key[c]] = IF @ = c THEN None ELSE @]
      /\ startGen' = [startGen EXCEPT ![c] = 0]
      /\ UNCHANGED <<gen, key, attempt, callGen>>
  BY DEF Finish
<1>2. \A d \in Callers :
        \/ /\ pc[d] = "wait" /\ joined[d] = c
           /\ pc'[d] = "deliver" /\ out'[d] = out[c] /\ joined'[d] = None
        \/ /\ d = c
           /\ pc'[d] = "deliver" /\ out'[d] = out[c] /\ joined'[d] = joined[d]
        \/ /\ d # c /\ ~(pc[d] = "wait" /\ joined[d] = c)
           /\ pc'[d] = pc[d] /\ out'[d] = out[d] /\ joined'[d] = joined[d]
  BY <1>1 DEF Finish, Followers
<1>3. callGen[c] <= startGen[c] /\ (out[c].err = "purged" => startGen[c] < gen)
  BY <1>1 DEF CallOrder, PurgedTurn
<1>4. \A k \in Keys : turn'[k] # c /\ (turn'[k] # None => turn'[k] = turn[k])
  BY <1>1, NoneAssumption DEF TurnOwned
<1>5. CallOrder'
  BY <1>1, <1>2 DEF CallOrder, Building
<1>6. TurnOwned'
  BY <1>1, <1>2, <1>4 DEF TurnOwned, Turning, Building
<1>7. WaitsInMap'
  <2> SUFFICES ASSUME NEW d \in Callers, pc'[d] = "wait"
               PROVE  /\ joined'[d] # None
                      /\ pc'[joined'[d]] \in Turning
                      /\ key[joined'[d]] = key[d]
                      /\ callGen[d] = gen => turn'[key[d]] = joined'[d]
    BY <1>1 DEF WaitsInMap
  <2>1. d # c /\ pc[d] = "wait" /\ joined[d] # c /\ joined'[d] = joined[d]
    BY <1>2
  <2>2. joined[d] \in Callers /\ pc[joined[d]] \in Turning /\ key[joined[d]] = key[d]
        /\ (callGen[d] = gen => turn[key[d]] = joined[d])
    BY <2>1 DEF WaitsInMap
  <2>3. pc'[joined[d]] = pc[joined[d]]
    BY <1>2, <2>1, <2>2 DEF Turning, Building
  <2>4. turn[key[d]] = joined[d] => turn'[key[d]] = joined[d]
    BY <1>1, <2>1
  <2>5. joined[d] # None
    BY <2>2, NoneAssumption
  <2>6. pc'[joined'[d]] \in Turning
    BY <2>1, <2>2, <2>3
  <2>7. callGen[d] = gen => turn'[key[d]] = joined'[d]
    BY <2>1, <2>2, <2>4
  <2> QED BY <2>1, <2>2, <2>5, <2>6, <2>7
<1>8. PurgedTurn'
  BY <1>1, <1>2 DEF PurgedTurn
<1>9. RetryFresh'
  <2> SUFFICES ASSUME NEW d \in Callers, MetPurge(d)', callGen[d] = gen
               PROVE  FreshTurn(key[d])'
    BY <1>1 DEF RetryFresh
  <2>1. CASE MetPurge(d)
    <3>1. FreshTurn(key[d])
      BY <2>1 DEF RetryFresh
    <3> QED BY <1>1, <1>2, <1>4, <3>1 DEF FreshTurn, TurnOwned, Turning, Building
  <2>2. CASE ~MetPurge(d)
    <3>1. (d = c \/ (pc[d] = "wait" /\ joined[d] = c)) /\ out[c].err = "purged"
      BY <1>1, <1>2, <2>2 DEF MetPurge
    <3>2. d # c
      BY <1>3, <3>1
    <3>3. turn[key[d]] = c /\ key[d] = key[c]
      BY <3>1, <3>2 DEF WaitsInMap
    <3>4. turn'[key[d]] = None
      BY <1>1, <3>3
    <3> QED BY <1>1, <3>4 DEF FreshTurn
  <2> QED BY <2>1, <2>2
<1>10. OnceOnly'
  <2> SUFFICES ASSUME NEW d \in Callers, pc'[d] = "deliver", attempt[d] = 1,
                      out'[d].err = "purged"
               PROVE  callGen[d] < gen
    BY <1>1 DEF OnceOnly
  <2>1. CASE d = c
    BY <1>2, <1>3, <2>1
  <2>2. CASE d # c /\ pc[d] = "wait" /\ joined[d] = c
    <3>1. CASE callGen[d] = gen
      <4>1. FreshTurn(key[d]) /\ turn[key[d]] = c
        BY <2>2, <3>1 DEF RetryFresh, MetPurge, WaitsInMap
      <4>2. startGen[c] = gen
        BY <1>1, <4>1, NoneAssumption DEF FreshTurn
      <4> QED BY <1>2, <1>3, <2>2, <4>2
    <3>2. callGen[d] <= gen
      BY DEF CallOrder
    <3> QED BY <3>1, <3>2
  <2>3. CASE d # c /\ ~(pc[d] = "wait" /\ joined[d] = c)
    BY <1>2, <2>3 DEF OnceOnly
  <2> QED BY <2>1, <2>2, <2>3
<1>11. PurgeErrorIsOwn'
  BY <1>1, <1>2 DEF PurgeErrorIsOwn
<1> QED BY <1>5, <1>6, <1>7, <1>8, <1>9, <1>10, <1>11

\* A call retries at most once, so it returns the purge error only after two
\* stale turns, the second of which began after the call did.
LEMMA DeliverGen ==
  ASSUME IInv, GInv, NEW c \in Callers, Deliver(c)
  PROVE  GInv'
<1> USE GenTypes DEF GInv
<1>1. /\ pc[c] = "deliver"
      /\ UNCHANGED <<gen, turn, key, startGen, joined, out, callGen>>
  BY DEF Deliver, cacheVars
<1>2. \/ /\ pc' = [pc EXCEPT ![c] = "lookup"] /\ out[c].err = "purged"
         /\ attempt' = [attempt EXCEPT ![c] = @ + 1] /\ attempt[c] = 0
      \/ /\ pc' = [pc EXCEPT ![c] = "done"] /\ (out[c].err = "purged" => attempt[c] = 1)
         /\ attempt' = [attempt EXCEPT ![c] = 0]
  <2>1. attempt[c] \in {0, 1}
    OBVIOUS
  <2>2. CASE Retry(c)
    BY <2>1, <2>2 DEF Retry, MayRetry
  <2>3. CASE Return(c)
    <3>1. out[c].err = "purged" => ~(attempt[c] < 1)
      BY <2>3 DEF Return, MayRetry
    <3>2. attempt[c] = 0 => attempt[c] < 1
      OBVIOUS
    <3> QED BY <2>1, <2>3, <3>1, <3>2 DEF Return
  <2> QED BY <2>2, <2>3 DEF Deliver
<1>3. \A d \in Callers \ {c} : pc'[d] = pc[d] /\ attempt'[d] = attempt[d]
  BY <1>2
<1>4. pc'[c] \in {"lookup", "done"}
  BY <1>2
<1>5. CallOrder'
  BY <1>1, <1>3, <1>4 DEF CallOrder, Building
<1>6. TurnOwned'
  BY <1>1, <1>3 DEF TurnOwned, Turning, Building
<1>7. WaitsInMap'
  BY <1>1, <1>3, <1>4 DEF WaitsInMap, Turning, Building
<1>8. PurgedTurn'
  BY <1>1, <1>3, <1>4 DEF PurgedTurn
<1>9. RetryFresh'
  <2>1. \A d \in Callers : MetPurge(d)' => MetPurge(d)
    BY <1>1, <1>2, <1>3 DEF MetPurge
  <2>2. \A l \in Keys : FreshTurn(l) => FreshTurn(l)'
    BY <1>1, <1>3 DEF FreshTurn, TurnOwned, Turning, Building
  <2> QED BY <1>1, <2>1, <2>2 DEF RetryFresh
<1>10. OnceOnly'
  BY <1>1, <1>3, <1>4 DEF OnceOnly
<1>11. PurgeErrorIsOwn'
  BY <1>1, <1>2, <1>3 DEF PurgeErrorIsOwn, OnceOnly
<1> QED BY <1>5, <1>6, <1>7, <1>8, <1>9, <1>10, <1>11

\* A Purge makes every call begun before it a purged one.
LEMMA PurgeGen ==
  ASSUME IInv, GInv, NEW t \in Admins, Purge(t)
  PROVE  GInv'
<1> USE GenTypes DEF GInv
<1>1. /\ gen' = gen + 1
      /\ turn' = Forget(inflight)
      /\ UNCHANGED <<pc, key, attempt, startGen, joined, out, callGen>>
  BY DEF Purge, callVars
<1>2. \A k \in Keys : turn'[k] # None => turn'[k] = turn[k]
  BY <1>1 DEF Forget
<1>3. \A c \in Callers : callGen[c] < gen' /\ startGen[c] < gen'
  BY <1>1 DEF CallOrder
<1>4. CallOrder' /\ PurgedTurn' /\ OnceOnly' /\ PurgeErrorIsOwn'
  BY <1>1, <1>3 DEF CallOrder, PurgedTurn, OnceOnly, PurgeErrorIsOwn
<1>5. TurnOwned'
  BY <1>1, <1>2 DEF TurnOwned
<1>6. WaitsInMap' /\ RetryFresh'
  BY <1>1, <1>3 DEF WaitsInMap, RetryFresh
<1> QED BY <1>4, <1>5, <1>6

\* Every step keeps the generations and turns in order.
LEMMA GenNext == IInv /\ GInv /\ [Next]_vars => GInv'
<1> SUFFICES ASSUME IInv, GInv, [Next]_vars PROVE GInv'
  OBVIOUS
<1>1. CASE UNCHANGED <<gen, turn, pc, key, attempt, startGen, joined, out, callGen>>
  BY <1>1 DEF GInv, CallOrder, TurnOwned, WaitsInMap, PurgedTurn, RetryFresh,
              MetPurge, FreshTurn, OnceOnly, PurgeErrorIsOwn
<1>2. ASSUME NEW c \in Callers, NEW k \in Keys, Begin(c, k) PROVE GInv'
  BY <1>2, BeginGen
<1>3. ASSUME NEW c \in Callers, Step(c) PROVE GInv'
  BY <1>3, LookupGen, JoinGen, BodyGen, FinishGen, DeliverGen DEF Step
<1>4. ASSUME NEW t \in Threads, Reap(t) PROVE GInv'
  BY <1>1, <1>4 DEF Reap, cacheVars, callVars
<1>5. ASSUME NEW t \in Admins, Purge(t) PROVE GInv'
  BY <1>5, PurgeGen
<1>6. ASSUME NEW t \in Admins, Close(t) PROVE GInv'
  BY <1>1, <1>6 DEF Close, callVars
<1>7. CASE UNCHANGED vars
  BY <1>1, <1>7 DEF vars, cacheVars, callVars
<1> QED BY <1>2, <1>3, <1>4, <1>5, <1>6, <1>7 DEF Next

\* No call has begun and no turn is in the map.
LEMMA GenInit == Init => GInv
<1> SUFFICES ASSUME Init PROVE GInv
  OBVIOUS
<1>1. CallOrder /\ WaitsInMap /\ PurgedTurn
  BY DEF Init, CallOrder, WaitsInMap, PurgedTurn, Building
<1>2. TurnOwned
  BY DEF Init, TurnOwned
<1>3. RetryFresh /\ OnceOnly /\ PurgeErrorIsOwn
  BY DEF Init, RetryFresh, MetPurge, OnceOnly, PurgeErrorIsOwn
<1> QED BY <1>1, <1>2, <1>3 DEF GInv

(* The generations and turns of every behaviour.                              *)
LEMMA CacheGen == Spec => []GInv
<1> QED BY GenInit, GenNext, CacheInv, PTL DEF Spec

(* audit N6: only a call that a Purge ran into returns the purge error.       *)
THEOREM CachePurgeError == Spec => []PurgeErrorIsOwn
<1>1. GInv => PurgeErrorIsOwn
  BY DEF GInv
<1> QED BY <1>1, CacheGen, PTL

-----------------------------------------------------------------------------
(* Deduplicated builds, until a second Purge.                                 *)

\* Before any Purge the marked keys are those of the turns in singleflight's
\* map, so the Purge makes it forget exactly the turns that are building.
MarkOwned ==
  gen = 0 =>
    /\ \A k \in inflight : turn[k] # None /\ pc[turn[k]] \in Building
    /\ \A c \in Callers : pc[c] \in Building => key[c] \in inflight

\* A turn that has not started, or started under this generation, is the one
\* in the map for its key.
Exclusive ==
  gen <= 1 =>
    \A c \in Callers :
      pc[c] = "start" \/ (pc[c] \in Building \cup {"finish"} /\ startGen[c] = gen)
        => turn[key[c]] = c

DInv == MarkOwned /\ Exclusive /\ DedupedBuilds

\* A caller outside a turn's body, alone in its step.
OutsideTurn(c) ==
  /\ UNCHANGED <<gen, inflight, turn, startGen>>
  /\ pc[c] \notin Turning /\ pc'[c] \notin Turning
  /\ pc' = [pc EXCEPT ![c] = pc'[c]] /\ key' = [key EXCEPT ![c] = key'[c]]

\* Such a step disturbs no turn.
LEMMA OutsideDedup ==
  ASSUME IInv, GInv, DInv, NEW c \in Callers, OutsideTurn(c)
  PROVE  DInv'
<1> USE GenTypes DEF DInv, OutsideTurn
<1>1. \A d \in Callers \ {c} : pc'[d] = pc[d] /\ key'[d] = key[d]
  OBVIOUS
<1>2. \A k \in Keys : turn[k] # c
  BY NoneAssumption DEF GInv, TurnOwned
<1>3. inflight \subseteq Keys
  BY DEF IInv, TypeOK
<1>4. MarkOwned'
  BY <1>1, <1>2, <1>3 DEF MarkOwned, Turning
<1>5. Exclusive'
  BY <1>1 DEF Exclusive, Turning
<1>6. DedupedBuilds'
  BY <1>1 DEF DedupedBuilds, Turning
<1> QED BY <1>4, <1>5, <1>6

\* Leading a turn: there was none in the map for its key.
LEMMA JoinDedup ==
  ASSUME IInv, GInv, DInv, NEW c \in Callers, Join(c)
  PROVE  DInv'
<1> USE GenTypes DEF DInv
<1>1. pc[c] = "join" /\ UNCHANGED <<gen, inflight, key, startGen>>
  BY DEF Join
<1>2. CASE Follow(c)
  <2>1. pc' = [pc EXCEPT ![c] = "wait"] /\ turn' = turn
    BY <1>2 DEF Follow
  <2>2. OutsideTurn(c)
    BY <1>1, <2>1 DEF OutsideTurn, Turning, Building
  <2> QED BY <2>2, OutsideDedup
<1>3. CASE Lead(c)
  <2>1. /\ turn[key[c]] = None
        /\ turn' = [turn EXCEPT ![key[c]] = c] /\ pc' = [pc EXCEPT ![c] = "start"]
    BY <1>3 DEF Lead
  <2>2. inflight \subseteq Keys
    BY DEF IInv, TypeOK
  <2>3. MarkOwned'
    BY <1>1, <2>1, <2>2 DEF MarkOwned, Building
  <2>4. Exclusive'
    BY <1>1, <2>1, NoneAssumption DEF Exclusive, Building
  <2>5. DedupedBuilds'
    BY <1>1, <2>1 DEF DedupedBuilds, Building
  <2> QED BY <2>3, <2>4, <2>5
<1> QED BY <1>2, <1>3 DEF Join

\* Starting: no other build of the key can be of this generation.
LEMMA StartDedup ==
  ASSUME IInv, GInv, DInv, NEW c \in Callers, Start(c)
  PROVE  DInv'
<1> USE GenTypes DEF DInv
<1>1. /\ pc[c] = "start" /\ pc' = [pc EXCEPT ![c] = "build"]
      /\ startGen' = [startGen EXCEPT ![c] = gen]
      /\ inflight' = inflight \cup {key[c]}
      /\ UNCHANGED <<gen, key, turn>>
  BY DEF Start
<1>2. gen <= 1 => turn[key[c]] = c
  BY <1>1 DEF Exclusive
<1>3. MarkOwned'
  BY <1>1, <1>2, NoneAssumption DEF MarkOwned, Building
<1>4. Exclusive'
  BY <1>1, <1>2 DEF Exclusive, Building
<1>5. DedupedBuilds'
  <2> SUFFICES ASSUME gen <= 1, NEW d \in Callers, NEW e \in Callers, d # e,
                      key[d] = key[e], pc'[d] \in Building, pc'[e] \in Building,
                      startGen'[d] = startGen'[e]
               PROVE  FALSE
    BY <1>1 DEF DedupedBuilds
  <2>1. CASE d = c
    BY <1>1, <1>2, <2>1 DEF Exclusive
  <2>2. CASE e = c
    BY <1>1, <1>2, <2>2 DEF Exclusive
  <2>3. CASE d # c /\ e # c
    BY <1>1, <2>3 DEF DedupedBuilds
  <2> QED BY <2>1, <2>2, <2>3
<1> QED BY <1>3, <1>4, <1>5

\* Building, publishing and failing keep the turn as it is.
StaysBuilding(c) ==
  /\ UNCHANGED <<gen, inflight, turn, startGen, key>>
  /\ pc[c] \in Building /\ pc'[c] \in Building /\ pc' = [pc EXCEPT ![c] = pc'[c]]

\* Such a step changes nothing of what keeps builds apart.
LEMMA InsideDedup ==
  ASSUME IInv, GInv, DInv, NEW c \in Callers, StaysBuilding(c)
  PROVE  DInv'
<1> USE GenTypes DEF DInv, StaysBuilding
<1>1. \A d \in Callers : pc'[d] = pc[d] \/ (pc[d] \in Building /\ pc'[d] \in Building)
  OBVIOUS
<1>2. \A d \in Callers : pc'[d] \in Building <=> pc[d] \in Building
  BY <1>1
<1>3. \A d \in Callers : pc'[d] \in {"start", "finish"} => pc[d] = pc'[d]
  BY <1>1 DEF Building
<1>4. inflight \subseteq Keys
  BY DEF IInv, TypeOK
<1>5. MarkOwned'
  BY <1>2, <1>4 DEF MarkOwned
<1>6. Exclusive'
  BY <1>2, <1>3 DEF Exclusive
<1>7. DedupedBuilds'
  BY <1>2 DEF DedupedBuilds
<1> QED BY <1>5, <1>6, <1>7

\* Un-marking: before any Purge the mark was this turn's alone.
LEMMA UnmarkDedup ==
  ASSUME IInv, GInv, DInv, NEW c \in Callers, Unmark(c)
  PROVE  DInv'
<1> USE GenTypes DEF DInv
<1>1. /\ pc[c] = "reap" /\ pc' = [pc EXCEPT ![c] = "finish"]
      /\ inflight' = inflight \ {key[c]}
      /\ UNCHANGED <<gen, key, turn, startGen>>
  BY DEF Unmark
<1>2. inflight \subseteq Keys
  BY DEF IInv, TypeOK
<1>3. MarkOwned'
  <2> SUFFICES ASSUME gen = 0
               PROVE  /\ \A k \in inflight' : turn[k] # None /\ pc'[turn[k]] \in Building
                      /\ \A d \in Callers : pc'[d] \in Building => key[d] \in inflight'
    BY <1>1 DEF MarkOwned
  <2>1. \A k \in inflight' : turn[k] # c
    BY <1>1, <1>2, NoneAssumption DEF GInv, TurnOwned
  <2>2. \A d \in Callers : startGen[d] = 0
    BY DEF GInv, CallOrder
  <2>3. \A d \in Callers : d # c /\ pc[d] \in Building => key[d] # key[c]
    BY <1>1, <2>2 DEF DedupedBuilds, Building
  <2> QED BY <1>1, <1>2, <2>1, <2>3 DEF MarkOwned, Building
<1>4. Exclusive'
  BY <1>1 DEF Exclusive, Building
<1>5. DedupedBuilds'
  BY <1>1 DEF DedupedBuilds, Building
<1> QED BY <1>3, <1>4, <1>5

\* The end of a turn takes only that turn out of the map.
LEMMA FinishDedup ==
  ASSUME IInv, GInv, DInv, NEW c \in Callers, Finish(c)
  PROVE  DInv'
<1> USE GenTypes DEF DInv
<1>1. /\ pc[c] = "finish"
      /\ turn' = [turn EXCEPT ![key[c]] = IF @ = c THEN None ELSE @]
      /\ startGen' = [startGen EXCEPT ![c] = 0]
      /\ UNCHANGED <<gen, key, inflight>>
  BY DEF Finish
<1>2. \A d \in Callers : \/ pc'[d] = pc[d] /\ d # c
                         \/ pc[d] \in {"wait", "finish"} /\ pc'[d] = "deliver"
  BY <1>1 DEF Finish, Followers
<1>3. \A k \in Keys : turn[k] # c => turn'[k] = turn[k]
  BY <1>1
<1>4. inflight \subseteq Keys
  BY DEF IInv, TypeOK
<1>5. MarkOwned'
  <2> SUFFICES ASSUME gen = 0
               PROVE  /\ \A k \in inflight : turn'[k] # None /\ pc'[turn'[k]] \in Building
                      /\ \A d \in Callers : pc'[d] \in Building => key[d] \in inflight
    BY <1>1 DEF MarkOwned
  <2>1. \A k \in inflight : turn[k] \in Callers /\ pc[turn[k]] \in Building
    BY <1>4 DEF MarkOwned
  <2>2. \A k \in inflight : turn'[k] = turn[k]
    BY <1>1, <1>3, <1>4, <2>1 DEF Building
  <2>3. \A d \in Callers : pc[d] \in Building => pc'[d] = pc[d]
    BY <1>2 DEF Building
  <2>4. \A d \in Callers : pc'[d] \in Building => pc[d] \in Building
    BY <1>2 DEF Building
  <2> QED BY <2>1, <2>2, <2>3, <2>4, NoneAssumption DEF MarkOwned
<1>6. Exclusive'
  <2> SUFFICES ASSUME gen <= 1, NEW d \in Callers,
                      pc'[d] = "start" \/ (pc'[d] \in Building \cup {"finish"} /\ startGen'[d] = gen)
               PROVE  turn'[key[d]] = d
    BY <1>1 DEF Exclusive
  <2>1. pc'[d] = pc[d] /\ d # c
    BY <1>2 DEF Building
  <2>2. turn[key[d]] = d
    BY <1>1, <2>1 DEF Exclusive
  <2> QED BY <1>3, <2>1, <2>2
<1>7. DedupedBuilds'
  <2>1. \A d \in Callers : pc'[d] \in Building => pc[d] \in Building /\ startGen'[d] = startGen[d]
    BY <1>1, <1>2 DEF Building
  <2> QED BY <1>1, <2>1 DEF DedupedBuilds
<1> QED BY <1>5, <1>6, <1>7

\* The first Purge forgets the turns that are building and no other.
LEMMA PurgeDedup ==
  ASSUME IInv, GInv, DInv, NEW t \in Admins, Purge(t)
  PROVE  DInv'
<1> USE GenTypes DEF DInv
<1>1. /\ gen' = gen + 1 /\ turn' = Forget(inflight)
      /\ UNCHANGED <<pc, key, startGen, inflight>>
  BY DEF Purge, callVars
<1>2. MarkOwned'
  BY <1>1 DEF MarkOwned
<1>3. Exclusive'
  <2> SUFFICES ASSUME gen = 0, NEW c \in Callers,
                      pc[c] = "start" \/ startGen[c] = gen + 1
               PROVE  turn'[key[c]] = c
    BY <1>1 DEF Exclusive
  <2>1. pc[c] = "start"
    BY DEF GInv, CallOrder
  <2>2. turn[key[c]] = c
    BY <2>1 DEF Exclusive
  <2>3. key[c] \notin inflight
    BY <2>1, <2>2 DEF MarkOwned, Building
  <2> QED BY <1>1, <2>2, <2>3 DEF Forget
<1>4. DedupedBuilds'
  BY <1>1 DEF DedupedBuilds
<1> QED BY <1>2, <1>3, <1>4

\* Every step keeps builds of one generation and key apart.
LEMMA DedupNext == IInv /\ GInv /\ DInv /\ [Next]_vars => DInv'
<1> SUFFICES ASSUME IInv, GInv, DInv, [Next]_vars PROVE DInv'
  OBVIOUS
<1> USE GenTypes
<1>1. CASE UNCHANGED <<gen, inflight, turn, pc, key, startGen>>
  BY <1>1 DEF DInv, MarkOwned, Exclusive, DedupedBuilds
<1>2. ASSUME NEW c \in Callers, NEW k \in Keys, Begin(c, k) PROVE DInv'
  <2>1. OutsideTurn(c)
    BY <1>2 DEF Begin, cacheVars, OutsideTurn, Turning, Building
  <2> QED BY <2>1, OutsideDedup
<1>3. ASSUME NEW c \in Callers, Step(c) PROVE DInv'
  <2>1. CASE Lookup(c)
    <3>1. pc' = [pc EXCEPT ![c] = "deliver"] \/ pc' = [pc EXCEPT ![c] = "join"]
      BY <2>1 DEF Lookup, LookupClosed, LookupHit, LookupMiss, Returns
    <3>2. OutsideTurn(c)
      BY <2>1, <3>1 DEF Lookup, OutsideTurn, Turning, Building
    <3> QED BY <3>2, OutsideDedup
  <2>2. CASE BuildSucceeds(c)
    <3>1. StaysBuilding(c)
      BY <2>2 DEF BuildSucceeds, cacheVars, StaysBuilding, Building
    <3> QED BY <3>1, InsideDedup
  <2>3. CASE BuildFails(c)
    <3>1. StaysBuilding(c)
      BY <2>3 DEF BuildFails, cacheVars, StaysBuilding, Building
    <3> QED BY <3>1, InsideDedup
  <2>4. CASE Publish(c)
    <3>1. pc' = [pc EXCEPT ![c] = "reap"]
      BY <2>4 DEF Publish, PublishClosed, PublishStale, PublishLost, PublishInsert, Settle
    <3>2. StaysBuilding(c)
      BY <2>4, <3>1 DEF Publish, StaysBuilding, Building
    <3> QED BY <3>2, InsideDedup
  <2>5. CASE Deliver(c)
    <3>1. pc' = [pc EXCEPT ![c] = "lookup"] \/ pc' = [pc EXCEPT ![c] = "done"]
      BY <2>5 DEF Deliver, Retry, Return
    <3>2. OutsideTurn(c)
      BY <2>5, <3>1 DEF Deliver, cacheVars, OutsideTurn, Turning, Building
    <3> QED BY <3>2, OutsideDedup
  <2> QED BY <1>3, <2>1, <2>2, <2>3, <2>4, <2>5, JoinDedup, StartDedup, UnmarkDedup,
             FinishDedup DEF Step
<1>4. ASSUME NEW t \in Threads, Reap(t) PROVE DInv'
  BY <1>1, <1>4 DEF Reap, cacheVars, callVars
<1>5. ASSUME NEW t \in Admins, Purge(t) PROVE DInv'
  BY <1>5, PurgeDedup
<1>6. ASSUME NEW t \in Admins, Close(t) PROVE DInv'
  BY <1>1, <1>6 DEF Close, callVars
<1>7. CASE UNCHANGED vars
  BY <1>1, <1>7 DEF vars, cacheVars, callVars
<1> QED BY <1>2, <1>3, <1>4, <1>5, <1>6, <1>7 DEF Next

\* Nothing builds and nothing is marked.
LEMMA DedupInit == Init => DInv
BY DEF Init, DInv, MarkOwned, Exclusive, DedupedBuilds, Building

(* Singleflight: at most one build of a key under way in a generation, for    *)
(* any number of callers, while at most one Purge has run.                    *)
THEOREM CacheDedup == Spec => []DedupedBuilds
<1>1. DInv => DedupedBuilds
  BY DEF DInv
<1> QED BY <1>1, DedupInit, DedupNext, CacheInv, CacheGen, PTL DEF Spec

-----------------------------------------------------------------------------
(* The repo cache implements BundleStore: every step of a goroutine is one    *)
(* step of the store, or none.                                                *)

\* No turn starts under a generation that is still to come.
StartedBefore == \A c \in Callers : startGen[c] <= gen

RInv == IInv /\ StartedBefore

-----------------------------------------------------------------------------
(* The strengthened invariant.                                                *)
LEMMA InitRInv == Init => RInv
<1>1. Init => StartedBefore
  BY DEF Init, StartedBefore
<1> QED BY <1>1, InitInv DEF RInv

\* Only Start takes a generation, and it takes the current one.
LEMMA NextRInv == RInv /\ [Next]_vars => RInv'
<1> SUFFICES ASSUME RInv, [Next]_vars PROVE StartedBefore'
  BY NextInv DEF RInv
<1>1. TypeOK /\ StartedBefore
  BY DEF RInv, IInv
<1>2. ASSUME NEW c \in Callers, Start(c) PROVE StartedBefore'
  <2>1. gen' = gen /\ startGen' = [startGen EXCEPT ![c] = gen]
    BY <1>2 DEF Start
  <2> QED BY <1>1, <2>1 DEF StartedBefore, TypeOK
<1>3. ASSUME NEW c \in Callers, Finish(c) PROVE StartedBefore'
  <2>1. gen' = gen /\ startGen' = [startGen EXCEPT ![c] = 0]
    BY <1>3 DEF Finish
  <2> QED BY <1>1, <2>1 DEF StartedBefore, TypeOK
<1>4. ASSUME NEW t \in Admins, Purge(t) PROVE StartedBefore'
  <2>1. gen' = gen + 1 /\ startGen' = startGen
    BY <1>4 DEF Purge, callVars
  <2> QED BY <1>1, <2>1 DEF StartedBefore, TypeOK
<1>5. CASE UNCHANGED <<gen, startGen>>
  BY <1>1, <1>5 DEF StartedBefore
<1>6. ASSUME NEW c \in Callers, NEW k \in Keys, Begin(c, k)
      PROVE  UNCHANGED <<gen, startGen>>
  BY <1>6 DEF Begin, cacheVars
<1>7. ASSUME NEW c \in Callers,
             Lookup(c) \/ Join(c) \/ BuildSucceeds(c) \/ BuildFails(c)
               \/ Publish(c) \/ Unmark(c) \/ Deliver(c)
      PROVE  UNCHANGED <<gen, startGen>>
  BY <1>7 DEF Lookup, Join, BuildSucceeds, BuildFails, Publish, Unmark,
              Deliver, cacheVars
<1>8. ASSUME NEW t \in Threads, Reap(t) PROVE UNCHANGED <<gen, startGen>>
  BY <1>8 DEF Reap, cacheVars, callVars
<1>9. ASSUME NEW t \in Admins, Close(t) PROVE UNCHANGED <<gen, startGen>>
  BY <1>9 DEF Close, callVars
<1>10. CASE UNCHANGED vars
  BY <1>5, <1>10 DEF vars, cacheVars, callVars
<1> QED BY <1>2, <1>3, <1>4, <1>5, <1>6, <1>7, <1>8, <1>9, <1>10 DEF Next, Step

-----------------------------------------------------------------------------
(* The steps, each as a step of the store.                                    *)

\* What leaves every bundle in place is no step of the store.
LEMMA StaysPut ==
  ASSUME UNCHANGED <<gen, closed, items, held, pending, reaped, bundleGen>>
  PROVE  UNCHANGED Store!storeVars
BY DEF Store!storeVars, Held, Doomed

LEMMA UsedIsBuilt == IInv => Store!Used = built /\ Cached = Store!Shelved(Keys)
BY DEF IInv, SingleOwner, Store!Used, Store!Shelved, Cached, CachedIn

LEMMA BuildProduces ==
  ASSUME RInv, NEW c \in Callers, BuildSucceeds(c)
  PROVE  \E b \in Bundles \ Store!Used : Store!Produce(b)
<1>1. IInv /\ TypeOK /\ HandOver /\ StartedBefore
  BY DEF RInv, IInv
<1>2. PICK b \in Bundles \ built :
        /\ held' = [held EXCEPT ![c] = b]
        /\ bundleGen' = [bundleGen EXCEPT ![b] = startGen[c]]
  BY DEF BuildSucceeds
<1>3. held[c] = None
  BY <1>1 DEF BuildSucceeds, HandOver
<1>4. Held' = Held \cup {b}
  BY <1>1, <1>2, <1>3 DEF Held, TypeOK
<1>5. UNCHANGED <<gen, closed, items, pending, reaped>>
  BY DEF BuildSucceeds, cacheVars
<1>6. Doomed' = Doomed
  BY <1>5 DEF Doomed
<1>7. bundleGen'[b] = startGen[c] /\ startGen[c] \in 0..gen
  BY <1>1, <1>2 DEF TypeOK, StartedBefore
<1>8. bundleGen' = [bundleGen EXCEPT ![b] = bundleGen'[b]]
  BY <1>2, <1>7
<1>9. Store!Produce(b)
  BY <1>4, <1>5, <1>6, <1>7, <1>8 DEF Store!Produce
<1> QED BY <1>1, <1>2, <1>9, UsedIsBuilt

\* A bundle that may not be published is discarded.
LEMMA SettleDiscards ==
  ASSUME RInv, NEW c \in Callers, NEW o, Settle(c, o, {held[c]}),
         pc[c] = "publish", UNCHANGED <<gen, closed, items, reaped, bundleGen>>
  PROVE  \E b \in Held : Store!Discard(b)
<1>1. TypeOK /\ HandOver /\ SingleOwner
  BY DEF RInv, IInv
<1>2. held[c] \in Bundles /\ pending[c] = {} /\ c \in Threads
  BY <1>1 DEF TypeOK, HandOver, Threads
<1>3. pending' = [pending EXCEPT ![c] = {held[c]}]
      /\ held' = [held EXCEPT ![c] = None]
  BY DEF Settle
<1>4. Held' = Held \ {held[c]}
  BY <1>1, <1>2, <1>3 DEF Held, TypeOK, SingleOwner
<1>5. Doomed' = Doomed \cup {held[c]}
  BY <1>1, <1>2, <1>3 DEF Doomed, TypeOK
<1>6. held[c] \in Held
  BY <1>2 DEF Held
<1>7. Store!Discard(held[c])
  BY <1>4, <1>5 DEF Store!Discard
<1> QED BY <1>6, <1>7

\* An insertion shelves the bundle in the place of those it evicts.
LEMMA InsertShelves ==
  ASSUME RInv, NEW c \in Callers, pc[c] = "publish", PublishInsert(c),
         UNCHANGED <<gen, closed, reaped, bundleGen>>
  PROVE  \E b \in Held : \E k \in Keys : Store!Shelve(k, b)
<1>1. TypeOK /\ HandOver /\ SingleOwner
  BY DEF RInv, IInv
<1>2. held[c] \in Bundles /\ pending[c] = {} /\ c \in Threads /\ key[c] \in Keys
      /\ bundleGen[held[c]] = startGen[c] /\ held[c] \in Held
  BY <1>1 DEF TypeOK, HandOver, Threads, Held
<1>3. /\ pending' = [pending EXCEPT ![c] = CachedIn(Victims)]
      /\ held' = [held EXCEPT ![c] = None]
      /\ items' = [k \in Keys |-> IF k = key[c] THEN held[c]
                                  ELSE IF k \in Victims THEN None ELSE items[k]]
      /\ ~closed /\ gen = startGen[c] /\ items[key[c]] = None
  BY DEF PublishInsert, Accepts, Settle
<1>4. Held' = Held \ {held[c]}
  BY <1>1, <1>2, <1>3 DEF Held, TypeOK, SingleOwner
<1> DEFINE K == Victims \ {key[c]}
<1>5. K \in SUBSET (Keys \ {key[c]}) /\ CachedIn(Victims) = Store!Shelved(K)
  <2>1. Victims \subseteq Keys
    BY <1>1 DEF Victims, Kept, TypeOK
  <2> QED BY <1>3, <2>1 DEF CachedIn, Store!Shelved
<1>6. Doomed' = Doomed \cup Store!Shelved(K)
  BY <1>1, <1>2, <1>3, <1>5 DEF Doomed, TypeOK
<1>7. items' = [l \in Keys |-> IF l = key[c] THEN held[c]
                               ELSE IF l \in K THEN None ELSE items[l]]
  BY <1>3
<1>8. Store!Shelve(key[c], held[c])
  <2> HIDE DEF K
  <2> QED BY <1>2, <1>3, <1>4, <1>5, <1>6, <1>7 DEF Store!Shelve
<1> QED BY <1>2, <1>8

LEMMA PublishSteps ==
  ASSUME RInv, NEW c \in Callers, Publish(c)
  PROVE  \E b \in Held : Store!Discard(b) \/ \E k \in Keys : Store!Shelve(k, b)
<1>1. pc[c] = "publish" /\ UNCHANGED <<gen, closed, reaped, bundleGen>>
  BY DEF Publish
<1>2. CASE PublishInsert(c)
  BY <1>1, <1>2, InsertShelves
<1>3. CASE ~PublishInsert(c)
  <2>1. items' = items /\ \E o : Settle(c, o, {held[c]})
    BY <1>3 DEF Publish, PublishClosed, PublishStale, PublishLost
  <2>2. \E b \in Held : Store!Discard(b)
    BY <1>1, <2>1, SettleDiscards
  <2> QED BY <2>2
<1> QED BY <1>2, <1>3

LEMMA ReapSteps ==
  ASSUME RInv, NEW t \in Threads, Reap(t)
  PROVE  \E b \in Doomed : Store!Reap(b)
<1>1. TypeOK /\ SingleOwner
  BY DEF RInv, IInv
<1>2. PICK b \in pending[t] : /\ pending' = [pending EXCEPT ![t] = @ \ {b}]
                              /\ reaped' = reaped \cup {b}
  BY DEF Reap
<1>3. UNCHANGED <<gen, closed, items, held, bundleGen>>
  BY DEF Reap, cacheVars, callVars
<1>4. \A u \in Threads : u # t => b \notin pending[u]
  BY <1>1 DEF SingleOwner
<1>5. Doomed' = Doomed \ {b} /\ b \in Doomed
  BY <1>1, <1>2, <1>4 DEF Doomed, TypeOK
<1>6. Held' = Held
  BY <1>3 DEF Held
<1>7. Store!Reap(b)
  BY <1>2, <1>3, <1>5, <1>6 DEF Store!Reap
<1> QED BY <1>5, <1>7

LEMMA DetachAllClears ==
  ASSUME RInv, NEW t \in Admins, pending[t] = {}, DetachAll(t),
         UNCHANGED <<callVars, reaped, bundleGen>>
  PROVE  Store!Clear
<1>1. IInv /\ TypeOK /\ t \in Threads
  BY DEF RInv, IInv, Threads
<1>2. items' = [k \in Keys |-> None] /\ pending' = [pending EXCEPT ![t] = Cached]
  BY DEF DetachAll, Cached
<1>3. Doomed' = Doomed \cup Store!Shelved(Keys)
  <2>1. Doomed' = Doomed \cup Cached
    BY <1>1, <1>2 DEF Doomed, TypeOK
  <2> QED BY <1>1, <2>1, UsedIsBuilt
<1>4. Held' = Held
  BY DEF Held, callVars
<1> QED BY <1>2, <1>3, <1>4 DEF Store!Clear

LEMMA AdminSteps ==
  ASSUME RInv, NEW t \in Admins, Purge(t) \/ Close(t)
  PROVE  Store!Purge \/ Store!Close
<1>1. CASE Purge(t)
  <2>1. Store!Clear
    BY <1>1, DetachAllClears DEF Purge
  <2> QED BY <1>1, <2>1 DEF Purge, Store!Purge
<1>2. CASE Close(t)
  <2>1. Store!Clear
    BY <1>2, DetachAllClears DEF Close
  <2> QED BY <1>2, <2>1 DEF Close, Store!Close
<1> QED BY <1>1, <1>2

-----------------------------------------------------------------------------
(* The refinement.                                                            *)
LEMMA InitImplements == Init => Store!Init
<1> SUFFICES ASSUME Init PROVE Store!Init
  OBVIOUS
<1>1. Held = {} /\ Doomed = {}
  BY DEF Init, Held, Doomed, Threads
<1> QED BY <1>1 DEF Init, Store!Init

LEMMA StepImplements == RInv /\ [Next]_vars => [Store!Next]_Store!storeVars
<1> SUFFICES ASSUME RInv, [Next]_vars PROVE Store!Next \/ UNCHANGED Store!storeVars
  OBVIOUS
<1>1. ASSUME NEW c \in Callers, BuildSucceeds(c) PROVE Store!Next
  BY <1>1, BuildProduces DEF Store!Next
<1>2. ASSUME NEW c \in Callers, Publish(c) PROVE Store!Next
  BY <1>2, PublishSteps DEF Store!Next
<1>3. ASSUME NEW t \in Threads, Reap(t) PROVE Store!Next
  BY <1>3, ReapSteps DEF Store!Next
<1>4. ASSUME NEW t \in Admins, Purge(t) \/ Close(t) PROVE Store!Next
  BY <1>4, AdminSteps DEF Store!Next
<1>5. ASSUME NEW c \in Callers, NEW k \in Keys, Begin(c, k)
      PROVE  UNCHANGED Store!storeVars
  BY <1>5, StaysPut DEF Begin, cacheVars, bundleVars
<1>6. ASSUME NEW c \in Callers,
             Lookup(c) \/ Join(c) \/ Start(c) \/ BuildFails(c) \/ Unmark(c)
               \/ Finish(c) \/ Deliver(c)
      PROVE  UNCHANGED Store!storeVars
  <2>1. UNCHANGED <<gen, closed, items, held, pending, reaped, bundleGen>>
    BY <1>6 DEF Lookup, Join, Start, BuildFails, Unmark, Finish, Deliver,
                cacheVars, bundleVars
  <2> QED BY <2>1, StaysPut
<1>7. CASE UNCHANGED vars
  BY <1>7, StaysPut DEF vars, cacheVars, callVars, bundleVars
<1> QED BY <1>1, <1>2, <1>3, <1>4, <1>5, <1>6, <1>7 DEF Next, Step

(* Every behaviour of the cache is one of the store: a bundle is served only  *)
(* in the generation it was built for, discarded before it is reaped, and     *)
(* reaped once, whatever goroutines interleave (mcp/cache.go).                *)
THEOREM CacheImplementsStore == Spec => ImplementsStore
<1>1. Spec => []RInv
  BY InitRInv, NextRInv, PTL DEF Spec
<1>2. ImplementsStore <=> Store!Init /\ [][Store!Next]_Store!storeVars
  BY DEF ImplementsStore, Store!Spec
<1> QED BY <1>1, <1>2, InitImplements, StepImplements, PTL DEF Spec
=============================================================================
