---------------------------- MODULE ServerProofs ----------------------------
(* Safety of the server around its cache, for any tool calls, sources,        *)
(* bundles and versions of the schema: every behaviour of the server is one   *)
(* of the cache, the model upgrade holds, the chunks stored last are served,  *)
(* and a clean exit over stdio leaves nothing behind.                         *)
EXTENDS Server, CloneDirs, RepoCacheProofs

USE GoroutineAssumption

-----------------------------------------------------------------------------
(* The server is a client of the cache.                                       *)

\* Steps in which the cache and its callers stand still.
AsideStep ==
  \/ \E c \in Callers : TakeMode(c)
  \/ Prewarmed \/ Introspect \/ IntrospectFails \/ ApplyExtras
  \/ Trigger \/ SchemaChange \/ FetchFails \/ FetchLands \/ Rewarmed
  \/ EagerLoaded \/ Serve \/ StdinEOF \/ Signal \/ Exit
  \/ fetch = "purge" /\ closed /\ UNCHANGED vars /\ PurgeCache

\* Steps in which a goroutine calls Get.
BeginStep ==
  \/ \E c \in Agents, k \in Keys : Call(c, k)
  \/ Prewarm \/ StoreExtras \/ Rewarm \/ EagerLoad

CleanupStep == RunReturns \/ ListenFails \/ ListenReturns \/ ForceExit

\* Every step is one of these.
LEMMA StepKinds ==
  ASSUME ServerNext
  PROVE  \/ AsideStep \/ BeginStep \/ CleanupStep
         \/ \E c \in Callers : BuildIndex(c) \/ BuildErr(c) \/ CacheStep(c)
         \/ \E t \in Threads : ReapStep(t)
         \/ PurgeCache /\ Purge(Purger)
BY DEF ServerNext, BuildStep, RefreshStep, FetchStep, AsideStep, BeginStep,
       CleanupStep, PurgeCache

\* The cache and its callers stand still in them.
LEMMA AsideUnchanged == AsideStep => UNCHANGED vars
BY DEF AsideStep, TakeMode, Prewarmed, Introspect, IntrospectFails, ApplyExtras,
       Trigger, SchemaChange, FetchFails, FetchLands, Rewarmed, EagerLoaded,
       Serve, StdinEOF, Signal, Exit

\* Who calls Get, and for which key.
LEMMA BeginKinds ==
  ASSUME BeginStep
  PROVE  \/ \E c \in Agents, k \in Keys : Begin(c, k) /\ UNCHANGED serverVars
         \/ Begin(Refresher, Default) /\ (Prewarm \/ StoreExtras \/ EagerLoad)
         \/ Begin(Fetcher, Default) /\ Rewarm
BY DEF BeginStep, Call, Prewarm, StoreExtras, Rewarm, EagerLoad

\* Every clean-up closes the cache.
LEMMA CleanupCloses == CleanupStep => Close(Main)
BY DEF CleanupStep, RunReturns, ListenFails, ListenReturns, ForceExit, Cleanup

\* Every step of the server is one of the cache or leaves it alone.
LEMMA ServerStepIsCacheStep == [ServerNext]_allVars => [Next]_vars
<1> SUFFICES ASSUME [ServerNext]_allVars PROVE [Next]_vars
  OBVIOUS
<1>1. CASE UNCHANGED allVars
  BY <1>1 DEF allVars
<1>2. CASE ServerNext
  <2>1. CASE AsideStep
    BY <2>1, AsideUnchanged
  <2>2. CASE BeginStep
    BY <2>2, BeginKinds DEF Next
  <2>3. CASE CleanupStep
    BY <2>3, CleanupCloses DEF Next
  <2>4. ASSUME NEW c \in Callers, BuildIndex(c) \/ BuildErr(c) \/ CacheStep(c)
        PROVE  Next
    BY <2>4 DEF BuildIndex, BuildErr, CacheStep, Next, Step
  <2>5. ASSUME NEW t \in Threads, ReapStep(t) PROVE Next
    BY <2>5 DEF ReapStep, Next
  <2>6. CASE PurgeCache /\ Purge(Purger)
    BY <2>6 DEF Next
  <2> QED BY <1>2, <2>1, <2>2, <2>3, <2>4, <2>5, <2>6, StepKinds
<1> QED BY <1>1, <1>2

(* The server uses the cache only through its operations, so that whatever is *)
(* proved of the cache holds in it: ownership, the recency list, generations, *)
(* the purge error and the implementation of BundleStore.                     *)
THEOREM ServerUsesCache == ServerSpec => Spec
<1>1. ServerInit => Init
  BY DEF ServerInit
<1> QED BY <1>1, ServerStepIsCacheStep, PTL DEF ServerSpec, Spec

(* Whatever tools, refresher, model fetch and shutdown do with it, the cache   *)
(* in the server keeps what BundleStore promises (mcp/cache.go Cache).         *)
THEOREM ServerImplementsStore == ServerSpec => ImplementsStore
BY ServerUsesCache, CacheImplementsStore

-----------------------------------------------------------------------------
(* The clones are behind the cache: CloneDirs adds to the steps of a turn and  *)
(* of a reaper what they do to the directories, and to the others nothing.     *)

\* Every step over the clones is one of the cache or leaves it alone.
LEMMA CloneStepIsCacheStep == [CloneNext]_<<vars, cloneVars>> => [Next]_vars
<1> SUFFICES ASSUME [CloneNext]_<<vars, cloneVars>> PROVE [Next]_vars
  OBVIOUS
<1>1. CASE UNCHANGED <<vars, cloneVars>>
  BY <1>1
<1>2. ASSUME NEW c \in Callers, Prepare(c) \/ PlainClone(c) PROVE UNCHANGED vars
  BY <1>2 DEF Prepare, PlainClone, At
<1>3. ASSUME NEW c \in Callers,
             \/ Built(c) \/ Failed(c) \/ Lookup(c) \/ Join(c) \/ Start(c)
             \/ Publish(c) \/ Unmark(c) \/ Finish(c) \/ Deliver(c)
      PROVE  Step(c)
  BY <1>3 DEF Built, Failed, Step
<1>4. ASSUME NEW t \in Threads, RemoveClone(t) PROVE Reap(t)
  BY <1>4 DEF RemoveClone
<1> QED BY <1>1, <1>2, <1>3, <1>4 DEF CloneNext, Next

(* So no bundle over a clone is leaked, reaped twice or published after a      *)
(* Purge: what goes wrong with clones is their directory, not their bundle.    *)
THEOREM ClonesUseCache == CloneSpec => Spec
<1>1. CloneInit => Init
  BY DEF CloneInit
<1> QED BY <1>1, CloneStepIsCacheStep, PTL DEF CloneSpec, Spec

-----------------------------------------------------------------------------
(* Types.                                                                     *)

Fetches == {"off", "armed", "fetching", "purge", "purged", "warming", "upgraded"}
Refreshes ==
  {"off", "prewarm", "prewarmed", "introspect", "store", "resolve", "idle"}

ServerTypes ==
  /\ mode \in Modes
  /\ taken \in [Callers -> Modes \cup {"none"}]
  /\ bundleMode \in [Bundles -> Modes]
  /\ bundleDB \in [Bundles -> Nat]
  /\ extras \in Nat /\ schema \in Nat /\ chunks \in Nat
  /\ refresh \in Refreshes /\ fetch \in Fetches

\* They are of these types at first.
LEMMA ServerTypesInit == ServerInit => ServerTypes
BY DEF ServerInit, Resolve, ServerTypes, Modes, Refreshes, Fetches

\* Every step keeps them.
LEMMA ServerTypesNext ==
  ServerTypes /\ [ServerNext]_allVars => ServerTypes'
<1> SUFFICES ASSUME ServerTypes, [ServerNext]_allVars PROVE ServerTypes'
  OBVIOUS
<1> USE DEF ServerTypes
<1>1. CASE UNCHANGED serverVars
  BY <1>1 DEF serverVars
<1>2. CASE AsideStep
  <2>1. ASSUME NEW c \in Callers, TakeMode(c) PROVE ServerTypes'
    BY <2>1 DEF TakeMode
  <2>2. CASE \/ Prewarmed \/ Introspect \/ IntrospectFails \/ ApplyExtras
             \/ Trigger \/ SchemaChange
    BY <2>2 DEF Prewarmed, Introspect, IntrospectFails, ApplyExtras, Trigger,
                SchemaChange, Refreshes
  <2>3. CASE FetchFails \/ FetchLands \/ Rewarmed \/ Serve \/ PurgeCache
    BY <2>3 DEF FetchFails, FetchLands, Rewarmed, Serve, PurgeCache, Fetches, Modes
  <2>4. CASE EagerLoaded \/ StdinEOF \/ Signal \/ Exit
    BY <2>4 DEF EagerLoaded, StdinEOF, Signal, Exit
  <2> QED BY <1>2, <2>1, <2>2, <2>3, <2>4 DEF AsideStep
<1>3. CASE Prewarm \/ StoreExtras \/ EagerLoad \/ Rewarm
  BY <1>3 DEF Prewarm, StoreExtras, EagerLoad, Rewarm, Refreshes, Fetches
<1>4. CASE CleanupStep
  BY <1>4 DEF CleanupStep, RunReturns, ListenFails, ListenReturns, ForceExit, Cleanup
<1>5. ASSUME NEW c \in Callers, BuildIndex(c) PROVE ServerTypes'
  <2>1. taken[c] \in Modes /\ Inherited(c) \in Nat
    BY <1>5 DEF BuildIndex, Inherited
  <2> QED BY <1>5, <2>1 DEF BuildIndex
<1>6. ASSUME NEW c \in Callers, BuildErr(c) PROVE ServerTypes'
  BY <1>6 DEF BuildErr
<1>7. ASSUME NEW c \in Callers, CacheStep(c) PROVE ServerTypes'
  BY <1>1, <1>7 DEF CacheStep
<1>8. ASSUME NEW t \in Threads, ReapStep(t) PROVE ServerTypes'
  BY <1>1, <1>8 DEF ReapStep
<1>9. CASE PurgeCache
  BY <1>9 DEF PurgeCache, Fetches
<1>10. CASE BeginStep
  BY <1>1, <1>3, <1>10, BeginKinds
<1> QED BY <1>1, <1>2, <1>4, <1>5, <1>6, <1>7, <1>8, <1>9, <1>10, StepKinds DEF allVars

-----------------------------------------------------------------------------
(* The model upgrade.                                                         *)

Upgraded == fetch \in {"purged", "warming", "upgraded"}

\* A build forgets the mode it has read when it ends.
TakenInBuild == \A c \in Callers : taken[c] # "none" => pc[c] = "build"

\* The upgrade sets the mode before it purges.
ModeFirst == Upgraded \/ fetch = "purge" => mode = "want"

\* After the purge a turn that may still publish builds in the new mode.
TurnsUpgraded ==
  Upgraded /\ ~closed =>
    \A c \in Callers :
      startGen[c] = gen =>
        /\ pc[c] = "build" => taken[c] # "bm25"
        /\ pc[c] = "publish" => bundleMode[held[c]] = "want"

UInv == TakenInBuild /\ ModeFirst /\ TurnsUpgraded /\ UpgradeSticks

\* What the proofs below take from the cache's own invariants.
LEMMA CacheFacts ==
  ASSUME IInv, GInv
  PROVE  /\ TypeOK /\ HandOver /\ EmptyOnceClosed
         /\ \A c \in Callers : startGen[c] <= gen
         /\ \A k \in Keys : items[k] # None => items[k] \in built
         /\ \A c \in Callers : held[c] # None => held[c] \in built
         /\ gen \in Nat /\ startGen \in [Callers -> Nat] /\ pc \in [Callers -> PCs]
         /\ held \in [Callers -> Bundles \cup {None}]
         /\ items \in [Keys -> Bundles \cup {None}]
BY DEF IInv, GInv, TypeOK, CallOrder, SingleOwner, Held, Cached, CachedIn

\* While modes, the bundles' modes and the upgrade stand still, a step keeps
\* the invariant if no old turn gets further than it may.
LEMMA UpgradeAside ==
  ASSUME UInv, UNCHANGED vars, UNCHANGED <<taken, bundleMode>>,
         mode' = mode \/ mode' = "want",
         Upgraded' => Upgraded \/ closed,
         fetch' = "purge" => mode' = "want",
         Upgraded' /\ ~Upgraded => mode' = "want",
         EmptyOnceClosed
  PROVE  UInv'
<1>1. UNCHANGED <<gen, closed, items, pc, startGen, held>>
  BY DEF vars, cacheVars, callVars
<1>2. TakenInBuild' /\ ModeFirst'
  BY <1>1 DEF UInv, TakenInBuild, ModeFirst
<1>3. TurnsUpgraded'
  BY <1>1 DEF UInv, TurnsUpgraded
<1>4. UpgradeSticks'
  BY <1>1 DEF UInv, UpgradeSticks, Upgraded, EmptyOnceClosed, Cached, CachedIn
<1> QED BY <1>2, <1>3, <1>4 DEF UInv

\* A goroutine that calls Get is not building.
LEMMA UpgradeBegin ==
  ASSUME UInv, ServerTypes, NEW c \in Callers, NEW k \in Keys, Begin(c, k),
         UNCHANGED <<mode, taken, bundleMode>>, pc \in [Callers -> PCs],
         Upgraded' <=> Upgraded, fetch' = "purge" <=> fetch = "purge"
  PROVE  UInv'
<1>1. /\ pc[c] \in {"idle", "done"} /\ pc' = [pc EXCEPT ![c] = "lookup"]
      /\ UNCHANGED <<gen, closed, items, startGen, held>>
  BY DEF Begin, cacheVars
<1>2. TakenInBuild' /\ ModeFirst'
  BY <1>1 DEF UInv, TakenInBuild, ModeFirst
<1>3. TurnsUpgraded'
  BY <1>1 DEF UInv, TurnsUpgraded
<1>4. UpgradeSticks'
  BY <1>1 DEF UInv, UpgradeSticks, Upgraded
<1> QED BY <1>2, <1>3, <1>4 DEF UInv

\* A build writes the mode it has read on a bundle that is nowhere yet.
LEMMA UpgradeBuild ==
  ASSUME IInv, GInv, UInv, ServerTypes, NEW c \in Callers, BuildIndex(c) \/ BuildErr(c)
  PROVE  UInv'
<1>1. /\ pc[c] = "build" /\ taken' = [taken EXCEPT ![c] = "none"]
      /\ UNCHANGED <<gen, closed, items, startGen, mode, fetch>>
  BY DEF BuildIndex, BuildErr, BuildSucceeds, BuildFails, cacheVars
<1>2. TypeOK /\ HandOver /\ (\A k \in Keys : items[k] # None => items[k] \in built)
      /\ (\A d \in Callers : held[d] # None => held[d] \in built)
      /\ pc \in [Callers -> PCs] /\ held \in [Callers -> Bundles \cup {None}]
  BY CacheFacts
<1>3. taken \in [Callers -> Modes \cup {"none"}] /\ bundleMode \in [Bundles -> Modes]
  BY DEF ServerTypes
<1>4. ModeFirst'
  BY <1>1 DEF UInv, ModeFirst, Upgraded
<1>5. CASE BuildErr(c)
  <2>1. pc' = [pc EXCEPT ![c] = "reap"] /\ UNCHANGED <<held, bundleMode>>
    BY <1>5 DEF BuildErr, BuildFails
  <2>2. TakenInBuild'
    BY <1>1, <1>2, <1>3, <2>1 DEF UInv, TakenInBuild
  <2>3. TurnsUpgraded' /\ UpgradeSticks'
    BY <1>1, <1>2, <1>3, <2>1 DEF UInv, TurnsUpgraded, UpgradeSticks, Upgraded
  <2> QED BY <1>4, <2>2, <2>3 DEF UInv
<1>6. CASE BuildIndex(c)
  <2>1. PICK b \in Bundles \ built : held' = [held EXCEPT ![c] = b]
    BY <1>6 DEF BuildIndex, BuildSucceeds
  <2>2. /\ pc' = [pc EXCEPT ![c] = "publish"] /\ taken[c] # "none"
        /\ bundleMode' = [bundleMode EXCEPT ![held'[c]] = taken[c]]
    BY <1>6 DEF BuildIndex, BuildSucceeds
  <2>3. held'[c] = b /\ bundleMode' = [bundleMode EXCEPT ![b] = taken[c]]
    BY <1>2, <2>1, <2>2
  <2>4. TakenInBuild'
    BY <1>1, <1>2, <1>3, <2>2 DEF UInv, TakenInBuild
  <2>5. UpgradeSticks'
    BY <1>1, <1>2, <1>3, <2>1, <2>3 DEF UInv, UpgradeSticks
  <2>6. TurnsUpgraded'
    <3> SUFFICES ASSUME Upgraded, ~closed, NEW d \in Callers, startGen[d] = gen
                 PROVE  /\ pc'[d] = "build" => taken'[d] # "bm25"
                        /\ pc'[d] = "publish" => bundleMode'[held'[d]] = "want"
      BY <1>1 DEF TurnsUpgraded, Upgraded
    <3>1. CASE d = c
      <4>1. taken[c] = "want"
        BY <1>1, <1>3, <2>2, <3>1 DEF UInv, TurnsUpgraded, Modes
      <4> QED BY <1>2, <1>3, <2>1, <2>2, <2>3, <3>1, <4>1
    <3>2. CASE d # c
      <4>1. pc'[d] = pc[d] /\ taken'[d] = taken[d] /\ held'[d] = held[d]
        BY <1>1, <1>2, <1>3, <2>1, <2>2, <3>2
      <4>2. pc[d] = "publish" => held[d] # b /\ held[d] \in Bundles
        BY <1>2, <2>1 DEF HandOver
      <4> QED BY <1>3, <2>3, <4>1, <4>2 DEF UInv, TurnsUpgraded
    <3> QED BY <3>1, <3>2
  <2> QED BY <1>4, <2>4, <2>5, <2>6 DEF UInv
<1> QED BY <1>5, <1>6

\* The cache's own steps: a turn takes its generation before its mode, and
\* publishes only under the generation it has taken.
LEMMA UpgradeCache ==
  ASSUME IInv, GInv, UInv, ServerTypes, NEW c \in Callers, CacheStep(c)
  PROVE  UInv'
<1>1. TypeOK /\ HandOver /\ pc \in [Callers -> PCs] /\ startGen \in [Callers -> Nat]
      /\ gen \in Nat /\ held \in [Callers -> Bundles \cup {None}]
      /\ items \in [Keys -> Bundles \cup {None}]
  BY CacheFacts
<1>2. UNCHANGED <<mode, taken, bundleMode, fetch, gen, closed>>
  BY DEF CacheStep, serverVars, Lookup, Join, Start, Publish, Unmark, Finish,
         Deliver, cacheVars
<1>3. ModeFirst'
  BY <1>2 DEF UInv, ModeFirst, Upgraded
<1>4. CASE Lookup(c) \/ Join(c) \/ Unmark(c) \/ Deliver(c)
  <2>1. /\ pc[c] \in {"lookup", "join", "reap", "deliver"}
        /\ UNCHANGED <<items, startGen, held>>
    BY <1>4 DEF Lookup, Join, Unmark, Deliver, cacheVars
  <2>2. /\ \A d \in Callers \ {c} : pc'[d] = pc[d]
        /\ pc'[c] \notin {"build", "publish"}
    BY <1>1, <1>4 DEF Lookup, LookupClosed, LookupHit, LookupMiss, Returns, Join, Lead,
                      Follow, Unmark, Deliver, Retry, Return
  <2>3. TakenInBuild' /\ TurnsUpgraded' /\ UpgradeSticks'
    BY <1>2, <2>1, <2>2 DEF UInv, TakenInBuild, TurnsUpgraded, UpgradeSticks, Upgraded
  <2> QED BY <1>3, <2>3 DEF UInv
<1>5. CASE Start(c)
  <2>1. /\ pc[c] = "start" /\ pc' = [pc EXCEPT ![c] = "build"]
        /\ startGen' = [startGen EXCEPT ![c] = gen] /\ UNCHANGED <<items, held>>
    BY <1>5 DEF Start
  <2>2. taken[c] = "none"
    BY <2>1 DEF UInv, TakenInBuild
  <2>3. TakenInBuild' /\ UpgradeSticks'
    BY <1>1, <1>2, <2>1 DEF UInv, TakenInBuild, UpgradeSticks
  <2>4. TurnsUpgraded'
    BY <1>1, <1>2, <2>1, <2>2 DEF UInv, TurnsUpgraded, Upgraded
  <2> QED BY <1>3, <2>3, <2>4 DEF UInv
<1>6. CASE Publish(c)
  <2>1. /\ pc[c] = "publish" /\ startGen' = startGen
        /\ pc' = [pc EXCEPT ![c] = "reap"] /\ held' = [held EXCEPT ![c] = None]
    BY <1>6 DEF Publish, PublishClosed, PublishStale, PublishLost, PublishInsert, Settle
  <2>2. held[c] # None
    BY <1>1, <2>1 DEF HandOver
  <2>3. \A k \in Keys : \/ items'[k] \in {items[k], None}
                        \/ items'[k] = held[c] /\ ~closed /\ gen = startGen[c]
    BY <1>6 DEF Publish, PublishClosed, PublishStale, PublishLost, PublishInsert, Accepts
  <2>4. TakenInBuild' /\ TurnsUpgraded'
    BY <1>1, <1>2, <2>1 DEF UInv, TakenInBuild, TurnsUpgraded, Upgraded
  <2>5. UpgradeSticks'
    BY <1>2, <2>1, <2>3 DEF UInv, TurnsUpgraded, UpgradeSticks, Upgraded
  <2> QED BY <1>3, <2>4, <2>5 DEF UInv
<1>7. CASE Finish(c)
  <2>1. /\ pc[c] = "finish" /\ startGen' = [startGen EXCEPT ![c] = 0]
        /\ UNCHANGED <<items, held>>
    BY <1>7 DEF Finish
  <2>2. \A d \in Callers : \/ pc'[d] = pc[d] /\ d # c
                           \/ pc[d] \in {"wait", "finish"} /\ pc'[d] = "deliver"
    BY <1>1, <1>7 DEF Finish, Followers
  <2>3. TakenInBuild' /\ TurnsUpgraded' /\ UpgradeSticks'
    BY <1>1, <1>2, <2>1, <2>2 DEF UInv, TakenInBuild, TurnsUpgraded, UpgradeSticks, Upgraded
  <2> QED BY <1>3, <2>3 DEF UInv
<1> QED BY <1>4, <1>5, <1>6, <1>7 DEF CacheStep

\* The upgrade's Purge leaves nothing cached and makes every turn stale.
LEMMA UpgradePurge ==
  ASSUME IInv, GInv, UInv, PurgeCache, Purge(Purger)
  PROVE  UInv'
<1>1. \A c \in Callers : startGen[c] <= gen /\ gen \in Nat /\ startGen[c] \in Nat
  BY CacheFacts
<1>2. /\ gen' = gen + 1 /\ items' = [k \in Keys |-> None]
      /\ UNCHANGED <<closed, pc, startGen, held, mode, taken, bundleMode>>
      /\ fetch = "purge" /\ fetch' = "purged"
  BY DEF PurgeCache, Purge, DetachAll, callVars
<1>3. TakenInBuild' /\ ModeFirst' /\ UpgradeSticks'
  BY <1>2 DEF UInv, TakenInBuild, ModeFirst, UpgradeSticks
<1>4. TurnsUpgraded'
  BY <1>1, <1>2 DEF TurnsUpgraded
<1> QED BY <1>3, <1>4 DEF UInv

\* Every step keeps the upgrade.
LEMMA UpgradeNext ==
  IInv /\ GInv /\ ServerTypes /\ UInv /\ [ServerNext]_allVars => UInv'
<1> SUFFICES ASSUME IInv, GInv, ServerTypes, UInv, [ServerNext]_allVars
             PROVE  UInv'
  OBVIOUS
<1>0. EmptyOnceClosed /\ pc \in [Callers -> PCs]
  BY CacheFacts
<1>1. CASE UNCHANGED allVars
  BY <1>0, <1>1, UpgradeAside DEF allVars, serverVars, Upgraded, UInv, ModeFirst
<1>2. CASE AsideStep
  <2>1. UNCHANGED vars
    BY <1>2, AsideUnchanged
  <2>2. ASSUME NEW c \in Callers, TakeMode(c) PROVE UInv'
    <3>1. UNCHANGED <<gen, closed, items, pc, startGen, held>>
      BY <2>1 DEF vars, cacheVars, callVars
    <3>2. /\ pc[c] = "build" /\ taken' = [taken EXCEPT ![c] = mode]
          /\ UNCHANGED <<mode, bundleMode, fetch>>
      BY <2>2 DEF TakeMode
    <3>3. TakenInBuild' /\ ModeFirst' /\ UpgradeSticks'
      BY <3>1, <3>2 DEF UInv, TakenInBuild, ModeFirst, UpgradeSticks, Upgraded, ServerTypes
    <3>4. TurnsUpgraded'
      BY <3>1, <3>2 DEF UInv, ModeFirst, TurnsUpgraded, Upgraded, ServerTypes
    <3> QED BY <3>3, <3>4 DEF UInv
  <2>3. CASE FetchLands
    BY <1>0, <2>1, <2>3, UpgradeAside DEF FetchLands, Upgraded
  <2>4. CASE PurgeCache /\ closed
    BY <1>0, <2>1, <2>4, UpgradeAside DEF PurgeCache, Upgraded, UInv, ModeFirst
  <2>5. CASE FetchFails \/ Rewarmed \/ Serve
    <3>1. /\ UNCHANGED <<mode, taken, bundleMode>>
          /\ Upgraded' => Upgraded
          /\ fetch' = "purge" => fetch = "purge"
      BY <2>5 DEF FetchFails, Rewarmed, Serve, Upgraded
    <3> QED BY <1>0, <2>1, <3>1, UpgradeAside DEF UInv, ModeFirst
  <2>6. CASE \/ Prewarmed \/ Introspect \/ IntrospectFails \/ ApplyExtras \/ Trigger
             \/ SchemaChange \/ EagerLoaded \/ StdinEOF \/ Signal \/ Exit
    <3>1. UNCHANGED <<mode, taken, bundleMode, fetch>>
      BY <2>6 DEF Prewarmed, Introspect, IntrospectFails, ApplyExtras, Trigger,
                  SchemaChange, EagerLoaded, StdinEOF, Signal, Exit
    <3> QED BY <1>0, <2>1, <3>1, UpgradeAside DEF UInv, ModeFirst, Upgraded
  <2> QED BY <1>2, <2>2, <2>3, <2>4, <2>5, <2>6 DEF AsideStep
<1>3. CASE BeginStep
  <2>1. /\ \E c \in Callers, k \in Keys : Begin(c, k)
        /\ UNCHANGED <<mode, taken, bundleMode>>
        /\ Upgraded' <=> Upgraded
        /\ fetch' = "purge" <=> fetch = "purge"
    BY <1>3, BeginKinds DEF serverVars, Prewarm, StoreExtras, EagerLoad, Rewarm, Upgraded
  <2> QED BY <1>0, <2>1, UpgradeBegin
<1>4. CASE CleanupStep
  <2>1. /\ closed' = TRUE /\ items' = [k \in Keys |-> None]
        /\ UNCHANGED <<gen, pc, startGen, held, mode, taken, bundleMode, fetch>>
    BY <1>4, CleanupCloses DEF CleanupStep, RunReturns, ListenFails, ListenReturns,
       ForceExit, Cleanup, Close, DetachAll, callVars
  <2> QED BY <2>1 DEF UInv, TakenInBuild, ModeFirst, TurnsUpgraded, UpgradeSticks, Upgraded
<1>5. ASSUME NEW t \in Threads, ReapStep(t) PROVE UInv'
  BY <1>5 DEF ReapStep, Reap, cacheVars, callVars, serverVars, UInv, TakenInBuild,
              ModeFirst, TurnsUpgraded, UpgradeSticks, Upgraded
<1> QED BY <1>1, <1>2, <1>3, <1>4, <1>5, UpgradeBuild, UpgradeCache, UpgradePurge, StepKinds

\* No turn runs and no upgrade has begun at first.
LEMMA UpgradeInit == ServerInit => UInv
BY DEF ServerInit, Resolve, Init, UInv, TakenInBuild, ModeFirst, TurnsUpgraded,
       UpgradeSticks, Upgraded

\* So they hold throughout.
LEMMA ServerTyped == ServerSpec => []ServerTypes
<1> QED BY ServerTypesInit, ServerTypesNext, PTL DEF ServerSpec

(* The upgrade to the fetched model holds for the life of the process: no     *)
(* bundle built in bm25 is cached after the purge, by any build under way.    *)
THEOREM ServerUpgrade == ServerSpec => []UpgradeSticks
<1>1. UInv => UpgradeSticks
  BY DEF UInv
<1> QED BY <1>1, UpgradeInit, UpgradeNext, ServerUsesCache, CacheInv, CacheGen,
           ServerTyped, PTL DEF ServerSpec

-----------------------------------------------------------------------------
(* The database chunks of the default repo.                                   *)

\* A bundle serves the chunks stored last, or had been overtaken by them.
CurrentDB(b) == b \in overtaken \/ bundleDB[b] = extras
NextDB(b) == b \in overtaken' \/ bundleDB'[b] = extras'
DefaultCurrent == items[Default] # None => CurrentDB(items[Default])

\* Where the refresher's goroutine is in each phase.
WireOrder ==
  /\ main \in {"eager", "eagerly"} => refresh \in {"off", "prewarm"}
  /\ refresh \in {"introspect", "store", "idle"} => pc[Refresher] = "done"
  /\ refresh \in {"prewarmed", "resolve"} => key[Refresher] = Default

\* Every index of the default repo yet to be published is current.
HeldCurrent ==
  \A c \in Callers : held[c] # None /\ key[c] = Default => CurrentDB(held[c])

\* Nothing has chunks before the first refresh; a refresh resolves with those
\* it has stored.
ChunksStored ==
  /\ refresh \in {"prewarm", "prewarmed"} =>
       extras = 0 /\ \A b \in Bundles : bundleDB[b] = 0
  /\ refresh = "resolve" => chunks = extras

\* Once the refresher has looked the default repo up, what is cached is either
\* current or what the refresher is about to be given.
ResolveCurrent ==
  refresh = "resolve" =>
    \/ pc[Refresher] = "lookup"
    \/ DefaultCurrent
    \/ pc[Refresher] \in {"deliver", "done"} /\ out[Refresher] = Ok(items[Default])

RestCurrent ==
  refresh \in {"introspect", "store", "idle"} /\ out[Refresher].err = "none"
    => DefaultCurrent

XInv == WireOrder /\ HeldCurrent /\ ChunksStored /\ ResolveCurrent /\ RestCurrent

\* What a step of a call does to the cached and the held bundles.
LEMMA StepMoves ==
  ASSUME IInv, NEW c \in Callers, Step(c), ~BuildSucceeds(c)
  PROVE  /\ key' = key
         /\ \A d \in Callers : held'[d] \in {held[d], None}
         /\ \A k \in Keys : \/ items'[k] \in {items[k], None}
                            \/ k = key[c] /\ items'[k] = held[c] /\ held[c] # None
         /\ \A d \in Callers :
              \/ pc'[d] = pc[d] /\ out'[d] = out[d] /\ d # c
              \/ d # c /\ pc[d] = "wait"
              \/ d = c /\ pc[d] \notin {"idle", "done"}
<1>1. TypeOK /\ HandOver
  BY DEF IInv
<1>2. CASE Lookup(c) \/ Join(c) \/ Start(c) \/ BuildFails(c) \/ Unmark(c) \/ Deliver(c)
  BY <1>1, <1>2 DEF Lookup, LookupClosed, LookupHit, LookupMiss, Returns, Join, Lead,
     Follow, Start, BuildFails, Unmark, Deliver, Retry, Return, cacheVars, TypeOK
<1>3. CASE Publish(c)
  <2>1. pc[c] = "publish" /\ key' = key /\ held[c] # None
    BY <1>1, <1>3 DEF Publish, HandOver
  <2>2. /\ \E o : out' = [out EXCEPT ![c] = o]
        /\ held' = [held EXCEPT ![c] = None] /\ pc' = [pc EXCEPT ![c] = "reap"]
    BY <1>3 DEF Publish, PublishClosed, PublishStale, PublishLost, PublishInsert, Settle
  <2>3. \A k \in Keys : \/ items'[k] \in {items[k], None}
                        \/ k = key[c] /\ items'[k] = held[c]
    BY <1>3 DEF Publish, PublishClosed, PublishStale, PublishLost, PublishInsert
  <2>4. \A d \in Callers : d # c => pc'[d] = pc[d] /\ out'[d] = out[d]
    BY <1>1, <2>2 DEF TypeOK
  <2>5. \A d \in Callers : held'[d] \in {held[d], None}
    BY <1>1, <2>2 DEF TypeOK
  <2> QED BY <2>1, <2>3, <2>4, <2>5
<1>4. CASE Finish(c)
  <2>1. pc[c] = "finish" /\ UNCHANGED <<key, held, items>>
    BY <1>4 DEF Finish
  <2>2. \A d \in Callers : d # c /\ pc[d] # "wait" => pc'[d] = pc[d] /\ out'[d] = out[d]
    BY <1>4 DEF Finish, Followers
  <2> QED BY <2>1, <2>2
<1> QED BY <1>2, <1>3, <1>4 DEF Step

\* While chunks, holder and refresh stand still, such moves keep the invariant.
LEMMA ExtrasStep ==
  ASSUME IInv, XInv, NEW c \in Callers, Step(c), ~BuildSucceeds(c),
         UNCHANGED <<main, refresh, extras, chunks, bundleDB, overtaken>>
  PROVE  XInv'
<1>1. /\ key' = key
      /\ \A d \in Callers : held'[d] \in {held[d], None}
      /\ \A k \in Keys : \/ items'[k] \in {items[k], None}
                         \/ k = key[c] /\ items'[k] = held[c] /\ held[c] # None
      /\ \A d \in Callers :
           \/ pc'[d] = pc[d] /\ out'[d] = out[d] /\ d # c
           \/ d # c /\ pc[d] = "wait"
           \/ d = c /\ pc[d] \notin {"idle", "done"}
  BY StepMoves
<1>2. Refresher \in Callers /\ Default \in Keys
  OBVIOUS
<1>3. \A b : NextDB(b) <=> CurrentDB(b)
  BY DEF CurrentDB, NextDB
<1>4. WireOrder'
  BY <1>1, <1>2 DEF XInv, WireOrder
<1>5. HeldCurrent'
  <2> SUFFICES ASSUME NEW d \in Callers, held'[d] # None, key'[d] = Default
               PROVE  NextDB(held'[d])
    BY DEF HeldCurrent, CurrentDB, NextDB
  <2>1. held'[d] = held[d] /\ key[d] = Default
    BY <1>1
  <2>2. CurrentDB(held[d])
    BY <2>1 DEF XInv, HeldCurrent
  <2> QED BY <1>3, <2>1, <2>2
<1>6. ChunksStored'
  BY DEF XInv, ChunksStored
<1>7. items'[Default] # items[Default] => DefaultCurrent'
  <2> SUFFICES ASSUME items'[Default] # items[Default], items'[Default] # None
               PROVE  NextDB(items'[Default])
    BY DEF DefaultCurrent, CurrentDB, NextDB
  <2>1. key[c] = Default /\ items'[Default] = held[c] /\ held[c] # None
    BY <1>1, <1>2
  <2>2. CurrentDB(held[c])
    BY <2>1 DEF XInv, HeldCurrent
  <2> QED BY <1>3, <2>1, <2>2
<1>8. DefaultCurrent => DefaultCurrent'
  BY <1>7 DEF DefaultCurrent, CurrentDB
<1>9. RestCurrent'
  <2>1. refresh \in {"introspect", "store", "idle"} =>
          pc[Refresher] = "done" /\ out'[Refresher] = out[Refresher]
    BY <1>1, <1>2 DEF XInv, WireOrder
  <2> QED BY <1>8, <2>1 DEF XInv, RestCurrent
<1>10. ResolveCurrent'
  <2> SUFFICES ASSUME refresh = "resolve", pc'[Refresher] # "lookup", ~DefaultCurrent'
               PROVE  /\ pc'[Refresher] \in {"deliver", "done"}
                      /\ out'[Refresher] = Ok(items'[Default])
    BY DEF ResolveCurrent
  <2>1. items'[Default] = items[Default] /\ items[Default] # None /\ ~DefaultCurrent
    BY <1>7, <1>8 DEF DefaultCurrent
  <2>2. CASE pc[Refresher] = "lookup"
    <3>1. c = Refresher
      BY <1>1, <1>2, <2>2
    <3>2. Lookup(Refresher)
      BY <2>2, <3>1 DEF Step, Lookup, Join, Start, BuildSucceeds, BuildFails, Publish,
                        Unmark, Finish, Deliver
    <3>3. ~closed
      BY <1>2, <2>1 DEF IInv, EmptyOnceClosed, Cached, CachedIn
    <3>4. key[Refresher] = Default
      BY DEF XInv, WireOrder
    <3>5. /\ out' = [out EXCEPT ![Refresher] = Ok(items[Default])]
          /\ pc' = [pc EXCEPT ![Refresher] = "deliver"]
      BY <2>1, <3>2, <3>3, <3>4 DEF Lookup, LookupClosed, LookupHit, LookupMiss, Returns
    <3> QED BY <1>2, <2>1, <3>5 DEF IInv, TypeOK
  <2>3. CASE pc[Refresher] # "lookup"
    <3>1. pc[Refresher] \in {"deliver", "done"} /\ out[Refresher] = Ok(items[Default])
      BY <2>1, <2>3 DEF XInv, ResolveCurrent
    <3>2. CASE c # Refresher
      BY <1>1, <1>2, <2>1, <3>1, <3>2
    <3>3. CASE c = Refresher
      <4>1. Deliver(Refresher)
        BY <1>1, <1>2, <3>1, <3>3 DEF Step, Lookup, Join, Start, BuildSucceeds, BuildFails,
                                      Publish, Unmark, Finish, Deliver
      <4>2. ~MayRetry(Refresher)
        BY <3>1 DEF MayRetry, Ok
      <4>3. pc' = [pc EXCEPT ![Refresher] = "done"] /\ out' = out
        BY <4>1, <4>2 DEF Deliver, Retry, Return
      <4> QED BY <1>2, <2>1, <3>1, <4>3 DEF IInv, TypeOK
    <3> QED BY <3>2, <3>3
  <2> QED BY <2>2, <2>3
<1> QED BY <1>4, <1>5, <1>6, <1>9, <1>10 DEF XInv

\* A new index of the default repo inherits the chunks stored last.
LEMMA ExtrasBuild ==
  ASSUME IInv, GInv, XInv, ServerTypes, NEW c \in Callers, BuildIndex(c)
  PROVE  XInv'
<1>1. PICK b \in Bundles \ built : held' = [held EXCEPT ![c] = b]
  BY DEF BuildIndex, BuildSucceeds
<1>2. TypeOK /\ HandOver /\ (\A k \in Keys : items[k] # None => items[k] \in built)
      /\ (\A d \in Callers : held[d] # None => held[d] \in built)
      /\ pc \in [Callers -> PCs] /\ held \in [Callers -> Bundles \cup {None}]
  BY CacheFacts
<1>3. bundleDB \in [Bundles -> Nat]
  BY DEF ServerTypes
<1>4. /\ pc[c] = "build" /\ pc' = [pc EXCEPT ![c] = "publish"]
      /\ UNCHANGED <<items, key, out, refresh, extras, chunks, main, overtaken>>
      /\ bundleDB' = [bundleDB EXCEPT ![b] = Inherited(c)]
  BY <1>1, <1>2 DEF BuildIndex, BuildSucceeds, cacheVars
<1>5. \A d \in built : d \in Bundles /\ bundleDB'[d] = bundleDB[d]
  BY <1>1, <1>2, <1>3, <1>4 DEF TypeOK
<1>6. DefaultCurrent <=> DefaultCurrent'
  BY <1>2, <1>4, <1>5 DEF DefaultCurrent, CurrentDB
<1>7. WireOrder'
  BY <1>2, <1>4 DEF XInv, WireOrder
<1>8. HeldCurrent'
  <2> SUFFICES ASSUME NEW d \in Callers, held'[d] # None, key[d] = Default
               PROVE  held'[d] \in overtaken \/ bundleDB'[held'[d]] = extras
    BY <1>4 DEF HeldCurrent, CurrentDB
  <2>1. CASE d = c
    <3>1. held'[d] = b /\ Inherited(c) = extras
      BY <1>1, <1>2, <2>1 DEF Inherited
    <3> QED BY <1>1, <1>3, <1>4, <3>1
  <2>2. CASE d # c
    <3>1. held'[d] = held[d] /\ held[d] \in built
      BY <1>1, <1>2, <2>2
    <3> QED BY <1>5, <3>1 DEF XInv, HeldCurrent, CurrentDB
  <2> QED BY <2>1, <2>2
<1>9. ChunksStored'
  BY <1>1, <1>3, <1>4 DEF XInv, ChunksStored, Inherited
<1>10. ResolveCurrent' /\ RestCurrent'
  BY <1>2, <1>4, <1>6 DEF XInv, ResolveCurrent, RestCurrent
<1> QED BY <1>7, <1>8, <1>9, <1>10 DEF XInv

\* A call of another goroutine than the refresher's holds nothing yet.
LEMMA ExtrasCall ==
  ASSUME IInv, XInv, NEW c \in Callers \ {Refresher}, NEW k \in Keys, Begin(c, k),
         UNCHANGED <<main, refresh, extras, chunks, bundleDB, overtaken>>
  PROVE  XInv'
<1>1. /\ pc[c] \in {"idle", "done"} /\ key' = [key EXCEPT ![c] = k]
      /\ pc' = [pc EXCEPT ![c] = "lookup"] /\ out' = [out EXCEPT ![c] = Err("none")]
      /\ UNCHANGED <<items, held>>
  BY DEF Begin, cacheVars
<1>2. /\ pc \in [Callers -> PCs] /\ key \in [Callers -> Keys] /\ out \in [Callers -> Outcomes]
      /\ held[c] = None
  BY <1>1 DEF IInv, TypeOK, HandOver
<1>3. Refresher \in Callers /\ pc'[Refresher] = pc[Refresher]
      /\ key'[Refresher] = key[Refresher] /\ out'[Refresher] = out[Refresher]
  BY <1>1, <1>2
<1>4. HeldCurrent'
  BY <1>1, <1>2 DEF XInv, HeldCurrent, CurrentDB
<1>5. DefaultCurrent <=> DefaultCurrent'
  BY <1>1 DEF DefaultCurrent, CurrentDB
<1>6. WireOrder' /\ ChunksStored' /\ ResolveCurrent' /\ RestCurrent'
  BY <1>1, <1>3, <1>5 DEF XInv, WireOrder, ChunksStored, ResolveCurrent, RestCurrent
<1> QED BY <1>4, <1>6 DEF XInv

\* The refresher's own calls: at start-up nothing has chunks, and storing newer
\* ones overtakes every index of the default repo that is held.
LEMMA ExtrasRefresher ==
  ASSUME IInv, XInv, Begin(Refresher, Default), Prewarm \/ StoreExtras \/ EagerLoad
  PROVE  XInv'
<1>1. /\ pc[Refresher] \in {"idle", "done"} /\ key' = [key EXCEPT ![Refresher] = Default]
      /\ pc' = [pc EXCEPT ![Refresher] = "lookup"] /\ UNCHANGED <<items, held>>
  BY DEF Begin, cacheVars
<1>2. /\ pc \in [Callers -> PCs] /\ key \in [Callers -> Keys] /\ Refresher \in Callers
      /\ held[Refresher] = None
  BY <1>1 DEF IInv, TypeOK, HandOver
<1>3. CASE Prewarm
  <2>1. /\ main = "wire" /\ refresh = "prewarm" /\ refresh' = "prewarmed"
        /\ UNCHANGED <<main, extras, chunks, bundleDB, overtaken>>
    BY <1>3 DEF Prewarm
  <2>2. HeldCurrent'
    BY <1>1, <1>2, <2>1 DEF XInv, HeldCurrent, CurrentDB
  <2> QED BY <1>1, <1>2, <2>1, <2>2 DEF XInv, WireOrder, ChunksStored, ResolveCurrent,
                                       RestCurrent
<1>4. CASE StoreExtras
  <2>1. /\ refresh = "store" /\ refresh' = "resolve" /\ extras' = chunks
        /\ overtaken' = {held[c] : c \in {d \in Callers : key[d] = Default}} \ {None}
        /\ UNCHANGED <<main, chunks, bundleDB>>
    BY <1>4 DEF StoreExtras
  <2>2. HeldCurrent'
    BY <1>1, <1>2, <2>1 DEF HeldCurrent, CurrentDB
  <2> QED BY <1>1, <1>2, <2>1, <2>2 DEF XInv, WireOrder, ChunksStored, ResolveCurrent,
                                       RestCurrent
<1>5. CASE EagerLoad
  <2>1. /\ main = "eager" /\ refresh \in {"off", "prewarm"} /\ main' = "eagerly"
        /\ UNCHANGED <<refresh, extras, chunks, bundleDB, overtaken>>
    BY <1>5 DEF EagerLoad, XInv, WireOrder
  <2>2. HeldCurrent'
    BY <1>1, <1>2, <2>1 DEF XInv, HeldCurrent, CurrentDB
  <2> QED BY <1>1, <1>2, <2>1, <2>2 DEF XInv, WireOrder, ChunksStored, ResolveCurrent,
                                       RestCurrent
<1> QED BY <1>3, <1>4, <1>5

\* The refresh applies what it has stored to the index it was given.
LEMMA ExtrasApply ==
  ASSUME IInv, XInv, ServerTypes, ApplyExtras
  PROVE  XInv'
<1>1. /\ refresh = "resolve" /\ pc[Refresher] = "done" /\ refresh' = "idle"
      /\ bundleDB' = [b \in Bundles |->
                        IF out[Refresher] = Ok(b) THEN chunks ELSE bundleDB[b]]
      /\ overtaken' = overtaken \ {b \in Bundles : out[Refresher] = Ok(b)}
      /\ UNCHANGED <<main, extras, chunks>>
      /\ UNCHANGED <<pc, key, held, items, out>>
  BY DEF ApplyExtras, vars, cacheVars, callVars
<1>2. chunks = extras /\ main \notin {"eager", "eagerly"}
  BY <1>1 DEF XInv, ChunksStored, WireOrder
<1>3. \A b \in Bundles : CurrentDB(b) => NextDB(b)
  BY <1>1, <1>2 DEF CurrentDB, NextDB
<1>4. \A b \in Bundles : out[Refresher] = Ok(b) => NextDB(b)
  BY <1>1, <1>2 DEF CurrentDB, NextDB
<1>5. HeldCurrent'
  <2> SUFFICES ASSUME NEW d \in Callers, held[d] # None, key[d] = Default
               PROVE  NextDB(held[d])
    BY <1>1 DEF HeldCurrent, CurrentDB, NextDB
  <2>1. held[d] \in Bundles
    BY DEF IInv, TypeOK
  <2> QED BY <1>3, <2>1 DEF XInv, HeldCurrent
<1>6. DefaultCurrent'
  <2> SUFFICES ASSUME items[Default] # None PROVE NextDB(items[Default])
    BY <1>1 DEF DefaultCurrent, CurrentDB, NextDB
  <2>1. items[Default] \in Bundles
    BY DEF IInv, TypeOK
  <2>2. CurrentDB(items[Default]) \/ out[Refresher] = Ok(items[Default])
    BY <1>1 DEF XInv, ResolveCurrent, DefaultCurrent
  <2> QED BY <1>3, <1>4, <2>1, <2>2
<1>7. WireOrder' /\ ChunksStored' /\ ResolveCurrent' /\ RestCurrent'
  BY <1>1, <1>2, <1>6 DEF WireOrder, ChunksStored, ResolveCurrent, RestCurrent
<1> QED BY <1>5, <1>7 DEF XInv

\* Emptying the cache leaves nothing of the default repo to be served.
LEMMA ExtrasEmptied ==
  ASSUME XInv, items' = [k \in Keys |-> None],
         UNCHANGED <<pc, key, held, out, main, refresh, extras, chunks, bundleDB, overtaken>>
  PROVE  XInv'
<1>1. DefaultCurrent'
  BY DEF DefaultCurrent
<1>2. HeldCurrent'
  BY DEF XInv, HeldCurrent, CurrentDB
<1> QED BY <1>1, <1>2 DEF XInv, WireOrder, ChunksStored, ResolveCurrent, RestCurrent

\* While bundles, holder and calls stand still, a step keeps the invariant if
\* it takes the refresh no further than start-up, or on from rest to rest.
LEMMA ExtrasAside ==
  ASSUME XInv, UNCHANGED vars, UNCHANGED <<extras, bundleDB, overtaken>>,
         main' \in {"eager", "eagerly"} => main' = main,
         \/ refresh' = refresh /\ chunks' = chunks
         \/ refresh' = "off"
         \/ /\ refresh \in {"introspect", "idle"}
            /\ refresh' \in {"introspect", "store", "idle"}
  PROVE  XInv'
<1>1. UNCHANGED <<pc, key, held, out, items>>
  BY DEF vars, cacheVars, callVars
<1>2. DefaultCurrent' <=> DefaultCurrent
  BY <1>1 DEF DefaultCurrent, CurrentDB
<1>3. HeldCurrent'
  BY <1>1 DEF XInv, HeldCurrent, CurrentDB
<1>4. WireOrder'
  BY <1>1 DEF XInv, WireOrder
<1>5. ChunksStored' /\ ResolveCurrent' /\ RestCurrent'
  BY <1>1, <1>2 DEF XInv, ChunksStored, ResolveCurrent, RestCurrent
<1> QED BY <1>3, <1>4, <1>5 DEF XInv

\* Every step keeps the chunks that are served current.
LEMMA ExtrasNext ==
  IInv /\ GInv /\ ServerTypes /\ XInv /\ [ServerNext]_allVars => XInv'
<1> SUFFICES ASSUME IInv, GInv, ServerTypes, XInv, [ServerNext]_allVars
             PROVE  XInv'
  OBVIOUS
<1>1. CASE UNCHANGED allVars
  BY <1>1, ExtrasAside DEF allVars, serverVars
<1>2. CASE AsideStep
  <2>1. UNCHANGED vars
    BY <1>2, AsideUnchanged
  <2>2. CASE Prewarmed
    <3>1. /\ refresh = "prewarmed" /\ pc[Refresher] = "done"
          /\ refresh' \in {"introspect", "off"}
          /\ UNCHANGED <<main, extras, chunks, bundleDB, overtaken>>
      BY <2>2 DEF Prewarmed
    <3>2. UNCHANGED <<pc, key, held, out, items>>
      BY <2>1 DEF vars, cacheVars, callVars
    <3>3. items[Default] \in Bundles \cup {None}
      BY DEF IInv, TypeOK
    <3>4. DefaultCurrent'
      BY <3>1, <3>2, <3>3 DEF XInv, ChunksStored, DefaultCurrent, CurrentDB
    <3>5. HeldCurrent'
      BY <3>1, <3>2 DEF XInv, HeldCurrent, CurrentDB
    <3> QED BY <3>1, <3>2, <3>4, <3>5 DEF XInv, WireOrder, ChunksStored, ResolveCurrent,
                                         RestCurrent
  <2>3. CASE Introspect \/ IntrospectFails \/ Trigger
    BY <2>1, <2>3, ExtrasAside DEF Introspect, IntrospectFails, Trigger
  <2>4. CASE EagerLoaded \/ Serve \/ StdinEOF \/ Signal \/ Exit
    <3>1. /\ UNCHANGED <<refresh, extras, chunks, bundleDB, overtaken>>
          /\ main' \notin {"eager", "eagerly"}
      BY <2>4 DEF EagerLoaded, Serve, StdinEOF, Signal, Exit
    <3> QED BY <2>1, <3>1, ExtrasAside
  <2>5. CASE \/ \E c \in Callers : TakeMode(c)
             \/ SchemaChange \/ FetchFails \/ FetchLands \/ Rewarmed \/ PurgeCache
    <3>1. UNCHANGED <<main, refresh, extras, chunks, bundleDB, overtaken>>
      BY <2>5 DEF TakeMode, SchemaChange, FetchFails, FetchLands, Rewarmed, PurgeCache
    <3> QED BY <2>1, <3>1, ExtrasAside
  <2> QED BY <1>2, <2>2, <2>3, <2>4, <2>5, ExtrasApply DEF AsideStep
<1>3. CASE BeginStep
  <2>1. ASSUME NEW c \in Agents, NEW k \in Keys, Begin(c, k), UNCHANGED serverVars
        PROVE  XInv'
    BY <2>1, ExtrasCall DEF serverVars
  <2>2. CASE Begin(Fetcher, Default) /\ Rewarm
    <3>1. UNCHANGED <<main, refresh, extras, chunks, bundleDB, overtaken>>
      BY <2>2 DEF Rewarm
    <3> QED BY <2>2, <3>1, ExtrasCall
  <2> QED BY <1>3, <2>1, <2>2, BeginKinds, ExtrasRefresher
<1>4. CASE CleanupStep
  <2>1. /\ items' = [k \in Keys |-> None] /\ UNCHANGED callVars
        /\ UNCHANGED <<refresh, extras, chunks, bundleDB, overtaken>>
        /\ main' = "cleaned"
    BY <1>4, CleanupCloses DEF CleanupStep, RunReturns, ListenFails, ListenReturns,
       ForceExit, Cleanup, Close, DetachAll
  <2>2. UNCHANGED <<pc, key, held, out>>
    BY <2>1 DEF callVars
  <2>3. DefaultCurrent' /\ HeldCurrent'
    BY <2>1, <2>2 DEF XInv, DefaultCurrent, HeldCurrent, CurrentDB
  <2> QED BY <2>1, <2>2, <2>3 DEF XInv, WireOrder, ChunksStored, ResolveCurrent, RestCurrent
<1>5. CASE PurgeCache /\ Purge(Purger)
  <2>1. /\ items' = [k \in Keys |-> None]
        /\ UNCHANGED <<pc, key, held, out, main, refresh, extras, chunks, bundleDB, overtaken>>
    BY <1>5 DEF PurgeCache, Purge, DetachAll, callVars
  <2> QED BY <2>1, ExtrasEmptied
<1>6. ASSUME NEW c \in Callers, BuildErr(c) \/ CacheStep(c) PROVE XInv'
  <2>1. Step(c) /\ ~BuildSucceeds(c)
    BY <1>6 DEF BuildErr, CacheStep, Step, BuildSucceeds, BuildFails, Lookup, Join, Start,
       Publish, Unmark, Finish, Deliver, Settle, PublishClosed, PublishStale, PublishLost,
       PublishInsert, IInv, TypeOK
  <2>2. UNCHANGED <<main, refresh, extras, chunks, bundleDB, overtaken>>
    BY <1>6 DEF BuildErr, CacheStep, serverVars
  <2> QED BY <2>1, <2>2, ExtrasStep
<1>7. ASSUME NEW t \in Threads, ReapStep(t) PROVE XInv'
  <2>1. UNCHANGED <<pc, key, held, out, items>> /\ UNCHANGED serverVars
    BY <1>7 DEF ReapStep, Reap, cacheVars, callVars
  <2>2. HeldCurrent' /\ (DefaultCurrent' <=> DefaultCurrent)
    BY <2>1 DEF XInv, HeldCurrent, DefaultCurrent, CurrentDB, serverVars
  <2> QED BY <2>1, <2>2 DEF XInv, WireOrder, ChunksStored, ResolveCurrent, RestCurrent,
                            serverVars
<1> QED BY <1>1, <1>2, <1>3, <1>4, <1>5, <1>6, <1>7, ExtrasBuild, StepKinds

\* Nothing is cached or held, and no chunks are stored, at first.
LEMMA ExtrasInit == ServerInit => XInv
BY DEF ServerInit, Init, XInv, WireOrder, HeldCurrent, ChunksStored, ResolveCurrent,
       RestCurrent

(* Between refreshes the cached index of the default repo serves the chunks   *)
(* stored last, whatever was evicted, built or purged meanwhile, unless it    *)
(* had been overtaken by them before it was published.                        *)
THEOREM ServerExtras == ServerSpec => []ExtrasServed
<1>1. XInv => ExtrasServed
  BY DEF XInv, RestCurrent, DefaultCurrent, CurrentDB, ExtrasServed
<1> QED BY <1>1, ExtrasInit, ExtrasNext, ServerUsesCache, CacheInv, CacheGen,
           ServerTyped, PTL DEF ServerSpec

-----------------------------------------------------------------------------
(* Shutdown.                                                                  *)

\* A clean stop over stdio has drained the tool calls and closed the cache,
\* and a clean exit has reaped what the cache then held.
DrainedAtEnd ==
  /\ main \in {"cleaned", "exited"} /\ ~forced /\ transport = "stdio" => closed /\ Drained
  /\ main = "exited" /\ ~forced => pending[Main] = {}

\* Before the exit, a step that starts nothing of a returned tool call keeps it.
LEMMA DrainedAside ==
  ASSUME DrainedAtEnd, main # "exited", UNCHANGED <<closed, main, forced, transport>>,
         \A c \in Agents : pc[c] \in {"idle", "done"} => pc'[c] = pc[c]
  PROVE  DrainedAtEnd'
BY DEF DrainedAtEnd, Drained, Returned

\* No step of a call in the cache is one of a call that has returned.
LEMMA ReturnedStays ==
  ASSUME TypeOK, NEW c \in Callers, Step(c)
  PROVE  \A d \in Callers : pc[d] \in {"idle", "done"} => pc'[d] = pc[d]
<1>1. /\ pc \in [Callers -> PCs] /\ joined \in [Callers -> Callers \cup {None}]
      /\ pc[c] \notin {"idle", "done"}
  BY DEF TypeOK, Step, Lookup, Join, Start, BuildSucceeds, BuildFails, Publish, Unmark,
         Finish, Deliver
<1>2. CASE Finish(c)
  BY <1>1, <1>2 DEF Finish, Followers
<1>3. CASE ~Finish(c)
  <2>1. \A d \in Callers \ {c} : pc'[d] = pc[d]
    BY <1>1, <1>3 DEF Step, Lookup, LookupClosed, LookupHit, LookupMiss, Returns, Join,
       Lead, Follow, Start, BuildSucceeds, BuildFails, Publish, PublishClosed,
       PublishStale, PublishLost, PublishInsert, Settle, Unmark, Deliver, Retry, Return
  <2> QED BY <1>1, <2>1
<1> QED BY <1>2, <1>3

\* Once drained, no tool call begins.
LEMMA DrainedNext ==
  IInv /\ DrainedAtEnd /\ [ServerNext]_allVars => DrainedAtEnd'
<1> SUFFICES ASSUME IInv, DrainedAtEnd, [ServerNext]_allVars PROVE DrainedAtEnd'
  OBVIOUS
<1>1. CASE UNCHANGED allVars
  BY <1>1 DEF allVars, vars, cacheVars, callVars, bundleVars, serverVars,
              DrainedAtEnd, Drained, Returned
<1>2. CASE ServerNext
  <2>1. main # "exited" /\ TypeOK
    BY <1>2 DEF ServerNext, IInv
  <2>2. CASE AsideStep
    <3>1. UNCHANGED <<closed, pc, pending>>
      BY <2>2, AsideUnchanged DEF vars, cacheVars, callVars, bundleVars
    <3>2. CASE StdinEOF \/ Signal \/ Serve \/ EagerLoaded
      BY <3>2 DEF StdinEOF, Signal, Serve, EagerLoaded, DrainedAtEnd
    <3>3. CASE Exit
      BY <3>1, <3>3 DEF Exit, DrainedAtEnd, Drained, Returned
    <3>4. CASE \/ \E c \in Callers : TakeMode(c)
               \/ Prewarmed \/ Introspect \/ IntrospectFails \/ ApplyExtras \/ Trigger
               \/ SchemaChange \/ FetchFails \/ FetchLands \/ Rewarmed \/ PurgeCache
      <4>1. UNCHANGED <<main, forced, transport>>
        BY <3>4 DEF TakeMode, Prewarmed, Introspect, IntrospectFails, ApplyExtras, Trigger,
                    SchemaChange, FetchFails, FetchLands, Rewarmed, PurgeCache
      <4> QED BY <2>1, <3>1, <4>1, DrainedAside
    <3> QED BY <2>2, <3>2, <3>3, <3>4 DEF AsideStep
  <2>3. CASE BeginStep
    <3>1. CASE main' \in {"serving", "eagerly"}
      BY <3>1 DEF DrainedAtEnd
    <3>2. ASSUME NEW c \in {Refresher, Fetcher}, Begin(c, Default),
                 UNCHANGED <<main, forced, transport>>
          PROVE  DrainedAtEnd'
      <4>1. closed' = closed /\ \A d \in Agents : pc'[d] = pc[d]
        BY <2>1, <3>2 DEF Begin, cacheVars, TypeOK
      <4> QED BY <2>1, <3>2, <4>1, DrainedAside
    <3> QED BY <2>3, <3>1, <3>2 DEF BeginStep, Call, Prewarm, StoreExtras, Rewarm,
                                    EagerLoad, serverVars
  <2>4. CASE CleanupStep
    <3>1. Close(Main) /\ main' = "cleaned"
      BY <2>4, CleanupCloses DEF CleanupStep, RunReturns, ListenFails, ListenReturns,
         ForceExit, Cleanup
    <3>2. closed' = TRUE /\ pc' = pc
      BY <3>1 DEF Close, callVars
    <3>3. Drained \/ transport' = "http" \/ forced' = TRUE
      BY <2>4 DEF CleanupStep, RunReturns, ListenFails, ListenReturns, ForceExit, Cleanup,
                  Over
    <3> QED BY <3>1, <3>2, <3>3 DEF DrainedAtEnd, Drained, Returned
  <2>5. ASSUME NEW c \in Callers, BuildIndex(c) \/ BuildErr(c) \/ CacheStep(c)
        PROVE  DrainedAtEnd'
    <3>1. Step(c) /\ UNCHANGED <<main, forced, transport>>
      BY <2>5 DEF BuildIndex, BuildErr, CacheStep, Step, serverVars
    <3>2. closed' = closed
      BY <3>1 DEF Step, Lookup, Join, Start, BuildSucceeds, BuildFails, Publish, Unmark,
         Finish, Deliver, cacheVars
    <3> QED BY <2>1, <3>1, <3>2, ReturnedStays, DrainedAside
  <2>6. ASSUME NEW t \in Threads, ReapStep(t) PROVE DrainedAtEnd'
    <3>1. UNCHANGED <<closed, pc, main, forced, transport>>
      BY <2>6 DEF ReapStep, Reap, cacheVars, callVars, serverVars
    <3> QED BY <2>1, <3>1, DrainedAside
  <2>7. CASE PurgeCache /\ Purge(Purger)
    <3>1. UNCHANGED <<closed, pc, main, forced, transport>>
      BY <2>7 DEF PurgeCache, Purge, callVars
    <3> QED BY <2>1, <3>1, DrainedAside
  <2> QED BY <1>2, <2>2, <2>3, <2>4, <2>5, <2>6, <2>7, StepKinds
<1> QED BY <1>1, <1>2

\* The server starts long before it ends.
LEMMA DrainedInit == ServerInit => DrainedAtEnd
BY DEF ServerInit, DrainedAtEnd

(* A clean exit over stdio leaves no clone and no watcher behind, but those   *)
(* of a background goroutine (main.go's drain, doCleanup and cache.go's Close *)
(* together): a tool call that has returned owns nothing, and a closed cache  *)
(* holds nothing.                                                             *)
THEOREM ServerCleanExit == ServerSpec => []CleanExitReaps
<1>1. ASSUME IInv, DrainedAtEnd PROVE CleanExitReaps
  <2> SUFFICES ASSUME main = "exited", ~forced, transport = "stdio",
                      NEW b \in built \ reaped
               PROVE  \/ b \in pending[Purger]
                      \/ \E c \in {Fetcher, Refresher} : b = held[c] \/ b \in pending[c]
    BY DEF CleanExitReaps
  <2>1. closed /\ Drained /\ pending[Main] = {}
    BY <1>1 DEF DrainedAtEnd
  <2>2. b \in Held \cup Cached \cup Doomed /\ Cached = {}
    BY <1>1, <2>1 DEF IInv, SingleOwner, EmptyOnceClosed
  <2>3. \A c \in Agents : held[c] = None /\ pending[c] = {}
    BY <1>1, <2>1 DEF IInv, HandOver, Drained, Returned
  <2>4. CASE b \in Held
    BY <2>3, <2>4 DEF Held
  <2>5. CASE b \in Doomed
    BY <2>1, <2>3, <2>5 DEF Doomed, Threads
  <2> QED BY <2>2, <2>4, <2>5
<1> QED BY <1>1, DrainedInit, DrainedNext, ServerUsesCache, CacheInv, PTL DEF ServerSpec
=============================================================================
