--------------------------- MODULE ProtocolProofs ----------------------------
(* The safety of three protocols of the server's surroundings, as components of *)
(* Parts: the database refresh with its listener (DbRefresh), the model        *)
(* download (ModelFetch), and the pre-built index (Prebuilt); of the walk of a *)
(* repository with the watcher's matcher (RepoWalk); and of the reading of a   *)
(* database's schema (DbSchema).                                              *)
EXTENDS Parts, TLAPS, FiniteSetTheorems

-----------------------------------------------------------------------------
(* A behaviour of Parts is one of the component it runs.                       *)

\* A component that runs starts in one of its own initial states.
LEMMA PartsStart ==
  ASSUME PartsInit
  PROVE  /\ part = "refresh" => Db!Init
         /\ part = "fetch" => Fetch!Init
         /\ part = "prebuilt" => Boot!Init
         /\ part = "embed" => Embed!Init
         /\ part = "rerank" => Rerank!Init
         /\ part = "build" => Build!Init
         /\ part = "file" => File!Init
         /\ part = "walk" => Walk!Init
         /\ part = "schema" => Ds!Init
         /\ part = "headings" => Md!Init
BY DEF PartsInit

\* The component that runs takes its own steps, and no other ever runs.
LEMMA PartsStep ==
  ASSUME [PartsNext]_<<part, partsVars>>
  PROVE  /\ part' = part
         /\ part = "refresh" => [Db!Next]_Db!vars
         /\ part = "fetch" => [Fetch!Next]_Fetch!vars
         /\ part = "prebuilt" => [Boot!Next]_Boot!vars
         /\ part = "embed" => [Embed!Next]_Embed!vars
         /\ part = "rerank" => [Rerank!Next]_Rerank!vars
         /\ part = "build" => [Build!Next]_Build!vars
         /\ part = "file" => [File!Next]_File!vars
         /\ part = "walk" => [Walk!Next]_Walk!vars
         /\ part = "schema" => [Ds!Next]_Ds!vars
         /\ part = "headings" => [Md!Next]_Md!vars
<1>1. CASE PartsNext
  BY <1>1 DEF PartsNext
<1>2. CASE UNCHANGED <<part, partsVars>>
  BY <1>2 DEF partsVars, dbVars, fetchVars, bootVars, embedVars, rerankVars, buildVars, fileVars, walkVars,
       schemaVars, Db!vars, Db!refresher, Db!listener, Fetch!vars, Boot!vars, Boot!buildVars, Boot!serverVars,
       Embed!vars, Rerank!vars, Build!vars, File!vars, Walk!vars, Ds!vars,
       headingVars, Md!vars
<1> QED BY <1>1, <1>2

-----------------------------------------------------------------------------
(* The database refresh.                                                      *)

Steps == {"idle", "waiting", "reading", "swapping"}
Conns == {"off", "connect", "check", "poll", "listening", "debounce", "refreshing", "backoff"}

RefreshTypes ==
  /\ schema \in Nat /\ swapped \in Nat /\ queue \in Nat
  /\ trigger \in BOOLEAN /\ alive \in BOOLEAN /\ missed \in BOOLEAN
  /\ at \in [Sources -> Steps] /\ seen \in [Sources -> Nat]
  /\ conn \in Conns /\ phase \in {"setup", "on", "off", "cancelled"}

\* One source at a time reads and swaps, the one that holds the mutex.
Excluded ==
  /\ Db!SourcesAssumption
  /\ \A s \in Sources : at[s] \in {"reading", "swapping"} => holder = s

\* NoValue runs before the set-up; the listener's source moves only while the
\* listener waits for its refresh; only a listener on a live connection has
\* notifications.
Phases ==
  /\ phase \in {"setup", "off"} => conn = "off"
  /\ phase = "setup" => \A s \in Sources : at[s] = "idle"
  /\ conn # "refreshing" => at[Notify] = "idle"
  /\ queue > 0 => Db!Heard

\* A change that has not been missed and not been read is in the queue, or the
\* listener is about to have it read.
Awaited ==
  \/ queue > 0 \/ conn = "debounce"
  \/ conn = "refreshing" /\ at[Notify] \in {"waiting", "reading"}

\* What is served, or what the running swap will serve, is current or awaited.
Fresh ==
  conn # "off" /\ ~missed =>
    \/ Awaited
    \/ /\ \A s \in Sources : at[s] = "swapping" => seen[s] = schema
       /\ swapped = schema \/ \E s \in Sources : at[s] = "swapping"

RefreshInv == RefreshTypes /\ Excluded /\ Phases /\ Fresh

\* The set-up that has not run yet.
LEMMA RefreshInit == Db!SourcesAssumption /\ Db!Init => RefreshInv
<1> SUFFICES ASSUME Db!SourcesAssumption, Db!Init PROVE RefreshInv
  OBVIOUS
<1>1. RefreshTypes
  BY DEF Db!Init, RefreshTypes, Steps, Conns
<1>2. Excluded /\ Phases /\ Fresh
  BY DEF Db!Init, Excluded, Phases, Fresh, Db!SourcesAssumption
<1> QED BY <1>1, <1>2 DEF RefreshInv

\* A change is heard by a live listener, or missed.
LEMMA RefreshDatabase ==
  ASSUME RefreshInv, Db!SchemaChange \/ Db!InstallTrigger \/ Db!Drop
  PROVE  RefreshInv'
<1> USE DEF RefreshInv, RefreshTypes, Db!SourcesAssumption, Db!refresher, Db!listener, Db!Heard
<1>1. CASE Db!SchemaChange
  <2>1. CASE queue' = queue + 1
    BY <1>1, <2>1 DEF Db!SchemaChange, Excluded, Phases, Fresh, Awaited
  <2>2. CASE missed' = TRUE /\ queue' = queue
    BY <1>1, <2>2 DEF Db!SchemaChange, Excluded, Phases, Fresh, Awaited
  <2> QED BY <1>1, <2>1, <2>2 DEF Db!SchemaChange
<1>2. CASE Db!InstallTrigger
  BY <1>2 DEF Db!InstallTrigger, Excluded, Phases, Fresh, Awaited
<1>3. CASE Db!Drop
  <2>1. /\ queue' = 0 /\ alive' = FALSE /\ missed' \in BOOLEAN
        /\ UNCHANGED <<schema, trigger, phase, swapped, holder, at, seen, conn>>
    BY <1>3 DEF Db!Drop
  <2>2. ~missed' => ~missed /\ ~(queue > 0)
    BY <1>3, Zenon DEF Db!Drop
  <2>3. RefreshTypes'
    BY <2>1
  <2>4. Excluded' /\ Phases'
    BY <2>1 DEF Excluded, Phases
  <2>5. Awaited /\ ~missed' => Awaited'
    BY <2>1, <2>2 DEF Awaited
  <2>6. Fresh'
    BY <2>1, <2>2, <2>5 DEF Fresh
  <2> QED BY <2>3, <2>4, <2>6
<1> QED BY <1>1, <1>2, <1>3

\* The set-up and the end.
LEMMA RefreshPhase ==
  ASSUME RefreshInv, \/ \E listen \in BOOLEAN : Db!Setup(listen)
                     \/ Db!SetupFails \/ Db!Cancel
  PROVE  RefreshInv'
<1> USE DEF RefreshInv, RefreshTypes, Db!SourcesAssumption, Db!refresher, Db!listener, Db!Heard
<1>1. ASSUME NEW listen \in BOOLEAN, Db!Setup(listen) PROVE RefreshInv'
  <2>1. RefreshTypes' /\ Excluded' /\ Phases'
    BY <1>1 DEF Db!Setup, Conns, Excluded, Phases
  <2>2. Fresh'
    BY <1>1 DEF Db!Setup, Phases, Fresh
  <2> QED BY <2>1, <2>2
<1>2. CASE Db!SetupFails
  BY <1>2 DEF Db!SetupFails, Excluded, Phases, Fresh, Awaited
<1>3. CASE Db!Cancel
  BY <1>3 DEF Db!Cancel, Excluded, Phases, Fresh, Awaited
<1> QED BY <1>1, <1>2, <1>3

\* The mutex lets one source read and swap at a time, so no swap undoes a newer
\* one.
LEMMA RefreshSource ==
  ASSUME RefreshInv, NEW s \in Sources,
         Db!Ask(s) \/ Db!RefreshStep(s) \/ (s = Tool /\ Db!TryRefresh)
  PROVE  RefreshInv'
<1> USE DEF RefreshInv, RefreshTypes, Db!SourcesAssumption, Db!refresher, Db!listener, Db!Heard,
            Steps
<1>1. CASE Db!Ask(s)
  <2>1. /\ at' = [at EXCEPT ![s] = "waiting"] /\ at[s] = "idle" /\ s # Notify /\ phase = "on"
        /\ UNCHANGED <<schema, trigger, phase, swapped, holder, seen, conn, alive, queue, missed>>
    BY <1>1 DEF Db!Ask
  <2> QED BY <2>1 DEF Excluded, Phases, Fresh, Awaited
<1>2. CASE Db!Acquire(s) \/ (s = Tool /\ Db!TryRefresh)
  <2>1. /\ at' = [at EXCEPT ![s] = "reading"] /\ at[s] \in {"waiting", "idle"} /\ holder = NoValue
        /\ holder' = s /\ (at[s] = "idle" => s = Tool /\ phase = "on")
        /\ UNCHANGED <<schema, trigger, phase, swapped, seen, conn, alive, queue, missed>>
    BY <1>2 DEF Db!Acquire, Db!TryRefresh
  <2>2. RefreshTypes' /\ Excluded'
    BY <2>1 DEF Excluded
  <2>3. Phases'
    BY <2>1 DEF Excluded, Phases
  <2>4. at[s] # "swapping" /\ at'[s] # "swapping"
        /\ \A t \in Sources : at'[t] # at[t] => t = s
    BY <2>1
  <2>5. Awaited => Awaited'
    BY <2>1 DEF Awaited
  <2>6. Fresh'
    BY <2>1, <2>4, <2>5 DEF Fresh
  <2> QED BY <2>2, <2>3, <2>6
<1>3. CASE Db!Introspect(s)
  <2>1. /\ at' = [at EXCEPT ![s] = "swapping"] /\ at[s] = "reading"
        /\ seen' = [seen EXCEPT ![s] = schema] /\ missed' = FALSE
        /\ UNCHANGED <<schema, trigger, phase, swapped, holder, conn, alive, queue>>
    BY <1>3 DEF Db!Introspect
  <2>2. \A t \in Sources : at[t] = "swapping" => t = s
    BY <2>1 DEF Excluded
  <2> QED BY <2>1, <2>2 DEF Excluded, Phases, Fresh, Awaited
<1>4. CASE Db!IntrospectFails(s)
  <2>1. /\ at' = [at EXCEPT ![s] = "idle"] /\ at[s] = "reading" /\ holder' = NoValue
        /\ missed' = (missed \/ swapped # schema)
        /\ UNCHANGED <<schema, trigger, phase, swapped, seen, conn, alive, queue>>
    BY <1>4 DEF Db!IntrospectFails
  <2>2. \A t \in Sources : at'[t] \notin {"reading", "swapping"}
    BY <2>1 DEF Excluded
  <2> QED BY <2>1, <2>2 DEF Excluded, Phases, Fresh
<1>5. CASE Db!Swap(s)
  <2>1. /\ at' = [at EXCEPT ![s] = "idle"] /\ at[s] = "swapping" /\ holder' = NoValue
        /\ swapped' = seen[s]
        /\ UNCHANGED <<schema, trigger, phase, seen, conn, alive, queue, missed>>
    BY <1>5 DEF Db!Swap
  <2>2. \A t \in Sources : at'[t] \notin {"reading", "swapping"}
    BY <2>1 DEF Excluded
  <2> QED BY <2>1, <2>2 DEF Excluded, Phases, Fresh, Awaited
<1> QED BY <1>1, <1>2, <1>3, <1>4, <1>5 DEF Db!RefreshStep

\* What the listener takes from its queue it has read.
LEMMA RefreshListener == RefreshInv /\ Db!ListenStep => RefreshInv'
<1> SUFFICES ASSUME RefreshInv, Db!ListenStep PROVE RefreshInv'
  OBVIOUS
<1> USE DEF RefreshInv, RefreshTypes, Db!SourcesAssumption, Db!refresher, Db!listener, Db!Heard,
            Conns
<1>1. CASE Db!Connect
  <2>1. conn = "connect" /\ phase = "on" /\ queue = 0
    BY <1>1 DEF Db!Connect, Phases
  <2>2. queue' = 0
    BY <1>1, <2>1 DEF Db!Connect, Db!Fails
  <2>3. conn' \in {"backoff", "check", "poll", "listening"} /\ alive' \in BOOLEAN
    BY <1>1 DEF Db!Connect, Db!Fails
  <2>4. UNCHANGED <<schema, trigger, phase, swapped, holder, at, seen, missed>>
    BY <1>1 DEF Db!Connect
  <2> QED BY <2>1, <2>2, <2>3, <2>4 DEF Excluded, Phases, Fresh, Awaited
<1>2. CASE Db!CheckTrigger
  <2>1. conn \in {"check", "poll"} /\ phase = "on" /\ queue = 0
    BY <1>2 DEF Db!CheckTrigger, Phases
  <2>2. queue' = 0
    BY <1>2, <2>1 DEF Db!CheckTrigger, Db!Fails
  <2>3. conn' \in {"backoff", "check", "poll", "listening"} /\ alive' \in BOOLEAN
    BY <1>2 DEF Db!CheckTrigger, Db!Fails
  <2>4. UNCHANGED <<schema, trigger, phase, swapped, holder, at, seen, missed>>
    BY <1>2 DEF Db!CheckTrigger
  <2> QED BY <2>1, <2>2, <2>3, <2>4 DEF Excluded, Phases, Fresh, Awaited
<1>3. CASE Db!Receive \/ Db!Drain
  BY <1>3 DEF Db!Receive, Db!Drain, Excluded, Phases, Fresh, Awaited
<1>4. CASE Db!OnNotify
  <2>1. at[Notify] = "idle" /\ Notify \in Sources
    BY <1>4 DEF Db!OnNotify, Phases, Excluded
  <2> QED BY <1>4, <2>1 DEF Db!OnNotify, Steps, Excluded, Phases, Fresh, Awaited
<1>5. CASE Db!Notified
  BY <1>5 DEF Db!Notified, Excluded, Phases, Fresh, Awaited
<1>6. CASE Db!WaitFails
  <2>1. conn = "listening" /\ phase = "on" /\ queue = 0
    BY <1>6 DEF Db!WaitFails, Phases
  <2>2. queue' = 0
    BY <1>6, <2>1 DEF Db!WaitFails, Db!Fails
  <2>3. conn' \in {"backoff", "check", "poll", "listening"} /\ alive' \in BOOLEAN
    BY <1>6 DEF Db!WaitFails, Db!Fails
  <2>4. UNCHANGED <<schema, trigger, phase, swapped, holder, at, seen, missed>>
    BY <1>6 DEF Db!WaitFails
  <2> QED BY <2>1, <2>2, <2>3, <2>4 DEF Excluded, Phases, Fresh, Awaited
<1>7. CASE Db!Reconnect
  BY <1>7 DEF Db!Reconnect, Excluded, Phases, Fresh, Awaited
<1> QED BY <1>1, <1>2, <1>3, <1>4, <1>5, <1>6, <1>7 DEF Db!ListenStep

\* Every step keeps what is served current, missed or awaited.
LEMMA RefreshNext == RefreshInv /\ [Db!Next]_Db!vars => RefreshInv'
<1>1. RefreshInv /\ UNCHANGED Db!vars => RefreshInv'
  BY DEF Db!vars, Db!refresher, Db!listener, RefreshInv, RefreshTypes, Excluded, Phases, Fresh,
         Awaited, Db!Heard, Db!SourcesAssumption
<1>2. RefreshInv /\ Db!TryRefresh => RefreshInv'
  <2>1. RefreshInv => Tool \in Sources
    BY DEF RefreshInv, Excluded, Db!SourcesAssumption
  <2> QED BY <2>1, RefreshSource
<1> QED BY <1>1, <1>2, RefreshDatabase, RefreshPhase, RefreshSource, RefreshListener DEF Db!Next

(* While the listener listens and nothing is under way the chunks are those of *)
(* the present schema, whatever triggers, reconnects and lost notifications    *)
(* there were, unless a change came while nobody listened (Listener.Run).      *)
THEOREM ListenerServes == Db!SourcesAssumption /\ Db!Spec => []Db!ListenerIsFresh
<1>1. RefreshInv => Db!ListenerIsFresh
  BY DEF RefreshInv, RefreshTypes, Excluded, Phases, Fresh, Awaited, Db!ListenerIsFresh
<1> QED BY <1>1, RefreshInit, RefreshNext, PTL DEF Db!Spec

(* The same of Parts: whichever component runs, the chunks served are fresh    *)
(* (Listener.Run, Refresher.Refresh).                                         *)
THEOREM RefreshIsFresh == PartsSpec => []ListenerIsFresh
<1> DEFINE Inv == part = "refresh" => RefreshInv
<1>1. PartsInit => Inv
  BY PartsStart, RefreshInit, PartsAssumption
<1>2. Inv /\ [PartsNext]_<<part, partsVars>> => Inv'
  BY PartsStep, RefreshNext
<1>3. Inv => ListenerIsFresh
  BY DEF RefreshInv, RefreshTypes, Excluded, Phases, Fresh, Awaited, Db!ListenerIsFresh, ListenerIsFresh
<1> QED BY <1>1, <1>2, <1>3, PTL DEF PartsSpec

-----------------------------------------------------------------------------
(* The model download.                                                        *)

FetchTypes ==
  /\ target \in [Fetch!Names -> {"none", "stub", "whole", "bad"}]
  /\ fileAt \in [Fetchers -> Nat]
  /\ fetching \in [Fetchers -> {"idle", "check", "get", "body", "done", "failed"}]
  /\ Fetch!FilesGiven

\* A fetcher is at a file of the list, or past its end when it is done.
InList ==
  \A p \in Fetchers :
    /\ fetching[p] \in {"check", "get", "body"} => fileAt[p] \in 1..Len(ModelFiles)
    /\ fetching[p] = "done" => fileAt[p] = Len(ModelFiles) + 1

\* Behind every fetcher the files are whole, and nowhere is one bad, unless a
\* wrong body came with no header that betrays it.
WholeBehind ==
  ~blind =>
    /\ \A n \in Fetch!Names : target[n] # "bad"
    /\ \A p \in Fetchers : fetching[p] \in {"check", "get", "body", "done"} =>
         \A i \in 1..Len(ModelFiles) : i < fileAt[p] => target[ModelFiles[i]] = "whole"

FetchInv == FetchTypes /\ InList /\ WholeBehind

\* At first no fetcher runs, and what is there is a stub or whole.
LEMMA FetchInit == Fetch!FilesGiven /\ Fetch!Init => FetchInv
BY DEF Fetch!Init, FetchInv, FetchTypes, InList, WholeBehind, Fetch!FilesGiven

\* A fetcher goes on to the next file once this one is whole.
LEMMA FetchAdvance ==
  ASSUME FetchInv, NEW p \in Fetchers, fetching[p] \in {"check", "body"}, Fetch!Advance(p),
         target' \in [Fetch!Names -> {"none", "stub", "whole", "bad"}],
         ~blind' => /\ ~blind /\ target'[ModelFiles[fileAt[p]]] = "whole"
                    /\ \A n \in Fetch!Names : target'[n] = target[n] \/ target'[n] = "whole"
  PROVE  FetchInv'
<1>1. /\ fileAt' = [fileAt EXCEPT ![p] = fileAt[p] + 1] /\ fileAt[p] \in 1..Len(ModelFiles)
      /\ fetching' = [fetching EXCEPT ![p] = IF fileAt[p] = Len(ModelFiles) THEN "done" ELSE "check"]
      /\ ModelFiles \in Seq(Fetch!Names) /\ Len(ModelFiles) \in Nat
      /\ fileAt \in [Fetchers -> Nat]
  BY DEF Fetch!Advance, Fetch!FilesGiven, FetchInv, FetchTypes, InList
<1>2. FetchTypes' /\ InList'
  BY <1>1 DEF Fetch!FilesGiven, FetchInv, FetchTypes, InList
<1>3. WholeBehind'
  <2> SUFFICES ASSUME ~blind' PROVE WholeBehind'
    BY DEF WholeBehind
  <2>1. \A n \in Fetch!Names : target'[n] # "bad"
    BY DEF FetchInv, WholeBehind
  <2>2. ASSUME NEW q \in Fetchers, fetching'[q] \in {"check", "get", "body", "done"},
               NEW i \in 1..Len(ModelFiles), i < fileAt'[q]
        PROVE  target'[ModelFiles[i]] = "whole"
    <3>1. ModelFiles[i] \in Fetch!Names
      BY <1>1
    <3>2. (q = p /\ i = fileAt[p]) \/ (i < fileAt[q] /\ fetching[q] \in {"check", "get", "body", "done"})
      BY <1>1, <2>2
    <3>3. CASE q = p /\ i = fileAt[p]
      BY <3>3
    <3>4. CASE i < fileAt[q] /\ fetching[q] \in {"check", "get", "body", "done"}
      BY <3>1, <3>4 DEF FetchInv, WholeBehind
    <3> QED BY <3>2, <3>3, <3>4
  <2> QED BY <2>1, <2>2 DEF WholeBehind
<1> QED BY <1>2, <1>3 DEF FetchInv

\* Every step leaves the files behind each fetcher whole.
LEMMA FetchNext == FetchInv /\ [Fetch!Next]_Fetch!vars => FetchInv'
<1> SUFFICES ASSUME FetchInv, [Fetch!Next]_Fetch!vars PROVE FetchInv'
  OBVIOUS
<1>1. CASE UNCHANGED Fetch!vars
  BY <1>1 DEF Fetch!vars, Fetch!FilesGiven, FetchInv, FetchTypes, InList, WholeBehind
<1>2. ASSUME NEW p \in Fetchers, Fetch!Check(p) PROVE FetchInv'
  <2>1. CASE Fetch!Present(ModelFiles[fileAt[p]]) /\ Fetch!Advance(p)
    <3>1. UNCHANGED <<target, blind>> /\ fetching[p] = "check" /\ fileAt[p] \in 1..Len(ModelFiles)
      BY <1>2 DEF Fetch!Check, FetchInv, InList
    <3>2. ModelFiles[fileAt[p]] \in Fetch!Names
      BY <3>1 DEF Fetch!FilesGiven, FetchInv, FetchTypes
    <3>3. ~blind => target[ModelFiles[fileAt[p]]] = "whole"
      BY <2>1, <3>2 DEF Fetch!Present, FetchInv, WholeBehind
    <3> QED BY <2>1, <3>1, <3>3, FetchAdvance DEF Fetch!FilesGiven, FetchInv, FetchTypes
  <2>2. CASE fetching' = [fetching EXCEPT ![p] = "get"] /\ UNCHANGED fileAt
    BY <1>2, <2>2 DEF Fetch!Check, Fetch!FilesGiven, FetchInv, FetchTypes, InList, WholeBehind
  <2> QED BY <1>2, <2>1, <2>2 DEF Fetch!Check
<1>3. ASSUME NEW p \in Fetchers, Fetch!Rename(p) PROVE FetchInv'
  <2>1. fetching[p] = "body" /\ fileAt[p] \in 1..Len(ModelFiles) /\ ModelFiles[fileAt[p]] \in Fetch!Names
    BY <1>3 DEF Fetch!Rename, Fetch!FilesGiven, FetchInv, FetchTypes, InList
  <2>2. ~blind' => ~blind /\ body[p].is = "whole"
    BY <1>3 DEF Fetch!Rename, Fetch!Verified
  <2>3. \E w \in {"whole", "bad"} : /\ target' = [target EXCEPT ![ModelFiles[fileAt[p]]] = w]
                                   /\ body[p].is = "whole" => w = "whole"
    BY <1>3 DEF Fetch!Rename
  <2> QED BY <1>3, <2>1, <2>2, <2>3, FetchAdvance DEF Fetch!Rename, Fetch!FilesGiven, FetchInv, FetchTypes
<1>4. ASSUME NEW p \in Fetchers,
             \/ Fetch!Start(p) \/ Fetch!GetFails(p) \/ Fetch!Discard(p) \/ Fetch!Kill(p)
             \/ (\E b \in Fetch!Bodies, h \in Fetch!Headers : Fetch!Download(p, b, h))
             \/ (\E f \in BOOLEAN : Fetch!Again(p, f))
      PROVE  FetchInv'
  <2>1. /\ UNCHANGED <<target, blind>>
        /\ \/ fetching[p] = "idle" /\ fetching' = [fetching EXCEPT ![p] = "check"] /\ fileAt' = [fileAt EXCEPT ![p] = 1]
           \/ fetching' = [fetching EXCEPT ![p] = "failed"] /\ fileAt' = fileAt
           \/ fetching[p] = "get" /\ fetching' = [fetching EXCEPT ![p] = "body"] /\ fileAt' = fileAt
           \/ fetching' = [fetching EXCEPT ![p] = "idle"] /\ fileAt' = [fileAt EXCEPT ![p] = 0]
    BY <1>4 DEF Fetch!Start, Fetch!GetFails, Fetch!Discard, Fetch!Kill, Fetch!Failed,
                Fetch!Download, Fetch!Again
  <2>2. FetchTypes'
    BY <2>1 DEF Fetch!FilesGiven, FetchInv, FetchTypes
  <2>3. InList'
    BY <2>1 DEF Fetch!FilesGiven, FetchInv, FetchTypes, InList
  <2>4. WholeBehind'
    BY <2>1 DEF Fetch!FilesGiven, FetchInv, FetchTypes, WholeBehind
  <2> QED BY <2>2, <2>3, <2>4 DEF FetchInv
<1> QED BY <1>1, <1>2, <1>3, <1>4 DEF Fetch!Next

\* Who is done has every file behind it.
LEMMA FetchDone == FetchInv => Fetch!DoneIsWhole
<1> SUFFICES ASSUME FetchInv, ~blind, NEW p \in Fetchers, fetching[p] = "done", NEW n \in Fetch!Names
             PROVE  target[n] = "whole"
  BY DEF FetchInv, WholeBehind, Fetch!DoneIsWhole
<1>1. PICK i \in 1..Len(ModelFiles) : n = ModelFiles[i]
  BY DEF Fetch!Names
<1>2. i < fileAt[p]
  BY DEF Fetch!FilesGiven, FetchInv, FetchTypes, InList
<1> QED BY <1>1, <1>2 DEF FetchInv, WholeBehind

(* However fetches of several processes interleave, fail and are killed, a     *)
(* model file is absent, a stub or whole, and who is told that the model is    *)
(* there finds all of it, unless a wrong body came with no header that tells.  *)
THEOREM FetchIsWhole == Fetch!FilesGiven /\ Fetch!Spec => []Fetch!DoneIsWhole
BY FetchDone, FetchInit, FetchNext, PTL DEF Fetch!Spec

(* The same of Parts, whichever component runs (fetch.go).                    *)
THEOREM FetchesAreWhole == PartsSpec => []DoneIsWhole
<1> DEFINE Inv == part = "fetch" => FetchInv
<1>1. PartsInit => Inv
  BY PartsStart, FetchInit, PartsAssumption
<1>2. Inv /\ [PartsNext]_<<part, partsVars>> => Inv'
  BY PartsStep, FetchNext
<1>3. Inv => DoneIsWhole
  BY FetchDone DEF DoneIsWhole
<1> QED BY <1>1, <1>2, <1>3, PTL DEF PartsSpec

-----------------------------------------------------------------------------
(* The pre-built index.                                                       *)

\* What is renamed is a finished build; only the last may be in place.
LastBuilt == out = Boot!NoFile \/ (out = last /\ out \in built)

\* Who has written a temporary file still has it, and it is its own.
Written == {b \in Builders : job[b].step = "written"}
Indexes == [tree : Trees, mode : Modes, chunker : Chunkers, fit : {TRUE}]
Jobs == {Boot!Idle} \cup [step : {"made"}, index : Indexes]
        \cup [step : {"written"}, index : Indexes, temp : temps]
OwnTemps ==
  /\ tree \in Trees /\ kills \in Nat /\ built \subseteq Indexes
  /\ job \in [Builders -> Jobs]
  /\ \A b \in Written : job[b].temp.by = b
  /\ IsFiniteSet(temps) /\ IsFiniteSet(Written)
  /\ Cardinality(temps) <= kills + Cardinality(Written)

\* What a server serves, or why it does not.
Answers == [tree : Trees \cup {"live"}, mode : Modes \cup {"bm25"}, from : {"file", "tree"},
            extras : Extras \cup {{}}]
Served ==
  /\ server = Boot!Down \/ server \in Boot!Servers
  /\ served \in Answers \cup {Boot!Refused(why) : why \in {"down", "model", "mismatch"}}

BootInv == LastBuilt /\ OwnTemps /\ Served /\ Boot!BootServes

\* At first there is no index, no build and no server.
LEMMA BootInit == Boot!Init => BootInv
<1> SUFFICES ASSUME Boot!Init PROVE BootInv
  OBVIOUS
<1>1. LastBuilt /\ Served /\ Boot!BootServes
  BY DEF Boot!Init, LastBuilt, Served, Boot!BootServes, Boot!Down, Boot!Refused
<1>2. Written = {}
  BY DEF Boot!Init, Boot!Idle, Written
<1>3. /\ IsFiniteSet({}) /\ Cardinality({}) = 0
  BY FS_EmptySet
<1>4. job \in [Builders -> Jobs]
  BY DEF Boot!Init, Jobs
<1>5. OwnTemps
  BY <1>2, <1>3, <1>4 DEF Boot!Init, OwnTemps
<1> QED BY <1>1, <1>5 DEF BootInv

\* A step of a build that changes no index in place disturbs no server.
LEMMA BootAside ==
  ASSUME BootInv, UNCHANGED <<out, last, built, server, served, told>>
  PROVE  LastBuilt' /\ Served' /\ Boot!BootServes'
BY DEF BootInv, LastBuilt, Served, Boot!BootServes

\* A step of the server or the corpus disturbs no build.
LEMMA TempsAside ==
  ASSUME BootInv, tree' \in Trees, UNCHANGED <<job, temps, built, kills>>
  PROVE  OwnTemps'
BY DEF BootInv, OwnTemps, Jobs, Written

\* A job that is not written becomes or stays one that is not.
LEMMA BootJob ==
  ASSUME BootInv, NEW b \in Builders, NEW j \in {Boot!Idle} \cup [step : {"made"}, index : Indexes],
         job[b].step # "written",
         job' = [job EXCEPT ![b] = j], UNCHANGED <<tree, temps, built>>,
         kills' \in Nat, kills' >= kills
  PROVE  OwnTemps'
<1>1. j.step # "written"
  BY DEF Boot!Idle
<1>2. Written' = Written
  BY <1>1 DEF BootInv, OwnTemps, Written
<1>3. \A a \in Written : job'[a] = job[a]
  BY DEF BootInv, OwnTemps, Written
<1>4. job' \in [Builders -> Jobs']
  BY DEF BootInv, OwnTemps, Jobs
<1>5. Cardinality(temps) \in Nat /\ Cardinality(Written) \in Nat
  BY FS_CardinalityType DEF BootInv, OwnTemps
<1> QED BY <1>2, <1>3, <1>4, <1>5 DEF BootInv, OwnTemps

\* A job that is written ends, by a rename or an error with its temporary file,
\* or by a kill without.
LEMMA BootEnds ==
  ASSUME BootInv, NEW b \in Written,
         job' = [job EXCEPT ![b] = Boot!Idle], UNCHANGED tree, built' \subseteq Indexes,
         \/ temps' = temps \ {job[b].temp} /\ kills' = kills
         \/ temps' = temps /\ kills' = kills + 1
  PROVE  OwnTemps'
<1>1. Written' = Written \ {b}
  BY DEF BootInv, OwnTemps, Written, Boot!Idle
<1>2. /\ IsFiniteSet(Written') /\ Cardinality(Written') = Cardinality(Written) - 1
      /\ Cardinality(Written) \in Nat
  BY <1>1, FS_RemoveElement, FS_CardinalityType DEF BootInv, OwnTemps
<1>3. job[b].temp \in temps /\ job[b].temp.by = b
  BY DEF BootInv, OwnTemps, Jobs, Written, Boot!Idle
<1>4. \A a \in Written \ {b} : job'[a] = job[a] /\ job[a].temp.by = a /\ job[a].temp # job[b].temp
  BY <1>3 DEF BootInv, OwnTemps, Written
<1>5. job' \in [Builders -> Jobs']
  <2> SUFFICES ASSUME NEW a \in Builders PROVE job'[a] \in Jobs'
    BY DEF BootInv, OwnTemps
  <2>1. CASE a = b
    BY <2>1 DEF BootInv, OwnTemps, Jobs, Written
  <2>2. CASE a # b /\ a \notin Written
    BY <2>2 DEF BootInv, OwnTemps, Jobs, Written
  <2>3. CASE a # b /\ a \in Written
    <3>1. /\ job[a] \in [step : {"written"}, index : Indexes, temp : temps]
      BY <2>3 DEF BootInv, OwnTemps, Jobs, Written, Boot!Idle
    <3>2. job[a].temp \in temps'
      BY <1>4, <2>3, <3>1
    <3> QED BY <1>4, <2>3, <3>1, <3>2 DEF Jobs
  <2> QED BY <2>1, <2>2, <2>3
<1>6. /\ IsFiniteSet(temps) /\ Cardinality(temps) \in Nat
      /\ IsFiniteSet(temps \ {job[b].temp})
      /\ Cardinality(temps \ {job[b].temp}) = Cardinality(temps) - 1
  BY <1>3, FS_RemoveElement, FS_CardinalityType DEF BootInv, OwnTemps
<1>7. kills \in Nat /\ Cardinality(temps) <= kills + Cardinality(Written)
  BY DEF BootInv, OwnTemps
<1>8. /\ IsFiniteSet(temps') /\ kills' \in Nat
      /\ Cardinality(temps') <= kills' + Cardinality(Written')
  <2>1. CASE temps' = temps \ {job[b].temp} /\ kills' = kills
    BY <1>2, <1>6, <1>7, <2>1
  <2>2. CASE temps' = temps /\ kills' = kills + 1
    BY <1>2, <1>6, <1>7, <2>2
  <2> QED BY <2>1, <2>2
<1>9. \A a \in Written' : job'[a].temp.by = a
  BY <1>1, <1>4
<1> QED BY <1>2, <1>5, <1>8, <1>9 DEF BootInv, OwnTemps

\* A build writes its temporary file.
LEMMA BootWrites ==
  ASSUME BootInv, NEW b \in Builders, Boot!WriteTemp(b)
  PROVE  OwnTemps'
<1> DEFINE t == Boot!Temp(b)
<1>1. /\ job[b].step = "made" /\ temps' = temps \cup {t} /\ t.by = b
      /\ job' = [job EXCEPT ![b] = [step |-> "written", index |-> job[b].index, temp |-> t]]
      /\ UNCHANGED <<tree, built, kills>>
  BY DEF Boot!WriteTemp, Boot!Temp
<1> HIDE DEF t
<1>2. job[b].index \in Indexes
  BY <1>1 DEF BootInv, OwnTemps, Jobs, Boot!Idle
<1>3. Written' = Written \cup {b} /\ b \notin Written
  BY <1>1 DEF BootInv, OwnTemps, Written
<1>4. job' \in [Builders -> Jobs']
  BY <1>1, <1>2 DEF BootInv, OwnTemps, Jobs
<1>5. /\ IsFiniteSet(Written') /\ Cardinality(Written') = Cardinality(Written) + 1
      /\ Cardinality(Written) \in Nat
  BY <1>3, FS_AddElement, FS_CardinalityType DEF BootInv, OwnTemps
<1>6. /\ IsFiniteSet(temps') /\ Cardinality(temps') <= Cardinality(temps) + 1
      /\ Cardinality(temps) \in Nat
  <2>1. IsFiniteSet(temps) /\ Cardinality(temps) \in Nat
    BY FS_CardinalityType DEF BootInv, OwnTemps
  <2>2. /\ IsFiniteSet(temps \cup {t})
        /\ Cardinality(temps \cup {t}) =
             IF t \in temps THEN Cardinality(temps) ELSE Cardinality(temps) + 1
    BY <2>1, FS_AddElement
  <2> QED BY <1>1, <2>1, <2>2
<1>7. \A a \in Written' : job'[a].temp.by = a
  BY <1>1, <1>3 DEF BootInv, OwnTemps, Written
<1>8. kills \in Nat /\ Cardinality(temps') <= kills' + Cardinality(Written')
  <2>1. kills \in Nat /\ Cardinality(temps) <= kills + Cardinality(Written) /\ IsFiniteSet(temps')
    BY <1>6 DEF BootInv, OwnTemps
  <2>2. Cardinality(temps') \in Nat
    BY <2>1, FS_CardinalityType
  <2> QED BY <1>1, <1>5, <1>6, <2>1, <2>2
<1> QED BY <1>1, <1>4, <1>5, <1>6, <1>7, <1>8 DEF BootInv, OwnTemps

\* A rename puts a finished build in place.
LEMMA BootRenames ==
  ASSUME BootInv, NEW b \in Builders, Boot!RenameTemp(b)
  PROVE  BootInv'
<1>1. b \in Written /\ job[b].index \in Indexes
  BY DEF Boot!RenameTemp, BootInv, OwnTemps, Jobs, Written, Boot!Idle
<1>2. OwnTemps'
  BY <1>1, BootEnds DEF Boot!RenameTemp, BootInv, OwnTemps
<1>3. LastBuilt' /\ Served' /\ Boot!BootServes'
  BY DEF Boot!RenameTemp, Boot!serverVars, BootInv, LastBuilt, Served, Boot!BootServes
<1> QED BY <1>2, <1>3 DEF BootInv

\* The steps of a build.
LEMMA BootBuilds ==
  ASSUME BootInv, NEW b \in Builders,
         \/ \E m \in Modes, ch \in Chunkers, has \in BOOLEAN : Boot!Start(b, m, ch, has)
         \/ Boot!WriteTemp(b) \/ Boot!RenameTemp(b) \/ Boot!TempFails(b) \/ Boot!Kill(b)
  PROVE  BootInv'
<1>1. ASSUME NEW m \in Modes, NEW ch \in Chunkers, NEW has \in BOOLEAN, Boot!Start(b, m, ch, has)
      PROVE  BootInv'
  <2> DEFINE j == [step |-> "made",
                   index |-> [tree |-> tree, mode |-> m, chunker |-> ch, fit |-> TRUE]]
  <2>1. j \in [step : {"made"}, index : Indexes]
    BY DEF BootInv, OwnTemps, Indexes
  <2>2. /\ job[b].step # "written" /\ job' = [job EXCEPT ![b] = j]
        /\ UNCHANGED <<tree, temps, built, kills, out, last, server, served, told>>
    BY <1>1 DEF Boot!Start, Boot!Idle, Boot!serverVars
  <2> HIDE DEF j
  <2>3. kills' \in Nat /\ kills' >= kills
    BY <2>2 DEF BootInv, OwnTemps
  <2>4. OwnTemps'
    BY <2>1, <2>2, <2>3, BootJob
  <2> QED BY <2>2, <2>4, BootAside DEF BootInv
<1>2. CASE Boot!WriteTemp(b)
  BY <1>2, BootWrites, BootAside DEF Boot!WriteTemp, Boot!serverVars, BootInv
<1>3. CASE Boot!TempFails(b) \/ Boot!Kill(b)
  <2>1. /\ job' = [job EXCEPT ![b] = Boot!Idle]
        /\ UNCHANGED <<tree, out, last, built, server, served, told>>
        /\ job[b] # Boot!Idle
    BY <1>3 DEF Boot!TempFails, Boot!Kill, Boot!serverVars
  <2>2. job[b].step \in {"made", "written"} /\ kills \in Nat
    BY <2>1 DEF BootInv, OwnTemps, Jobs
  <2>3. CASE job[b].step = "made"
    <3>1. UNCHANGED <<temps, built>> /\ kills' \in Nat /\ kills' >= kills
      BY <1>3, <2>1, <2>2, <2>3 DEF Boot!TempFails, Boot!Kill
    <3>2. OwnTemps'
      BY <2>1, <2>3, <3>1, BootJob
    <3> QED BY <2>1, <3>1, <3>2, BootAside DEF BootInv
  <2>4. CASE job[b].step = "written"
    <3>1. b \in Written /\ built' \subseteq Indexes
      BY <2>1, <2>4 DEF Written, BootInv, OwnTemps
    <3> QED BY <1>3, <2>1, <2>4, <3>1, BootEnds, BootAside DEF Boot!TempFails, Boot!Kill, BootInv
  <2> QED BY <2>2, <2>3, <2>4
<1> QED BY <1>1, <1>2, <1>3, BootRenames

\* What is booted: the finished build of the right mode, or the tree, or a
\* refusal of ken-mcp's.
LEMMA BootChooses ==
  ASSUME BootInv, NEW s \in Boot!Servers, Boot!Boot(s)
  PROVE  BootInv'
<1>1. /\ server' = s /\ told' = {} /\ s.kind \in {"ken-mcp", "embedded"}
      /\ UNCHANGED <<tree, out, job, temps, last, built, begun, kills>>
      /\ served' = IF s.kind = "ken-mcp" THEN Boot!LoadOrBuildWatched(s) ELSE Boot!BuildEmbedded(s)
      /\ s.model \in {"none", "broken", "ok"}
  BY DEF Boot!Boot, Boot!buildVars, Boot!Servers
<1>2. out.fit => out \in Indexes /\ out \in built
  BY DEF BootInv, LastBuilt, OwnTemps, Boot!NoFile
<1>3. OwnTemps' /\ LastBuilt'
  BY <1>1, TempsAside DEF BootInv, LastBuilt, OwnTemps
<1>4. \A m, ch : out.fit /\ out.mode = m /\ out.chunker = ch =>
        [tree |-> out.tree, mode |-> m, chunker |-> ch, fit |-> TRUE] \in built
  BY <1>2 DEF Indexes
<1>5. \A m, ch : Boot!Matches(m, ch) <=> out.mode = m /\ out.chunker = ch
  BY DEF Boot!Matches
<1>6. s.mode \in Modes /\ tree \in Trees /\ (out.fit => out.tree \in Trees)
  BY <1>2 DEF BootInv, OwnTemps, Indexes, Boot!Servers
<1>7. CASE s.kind = "ken-mcp"
  <2> DEFINE m == Boot!Resolved(s)
  <2>1. m = IF s.model = "none" THEN "bm25" ELSE s.mode
    BY DEF Boot!Resolved
  <2>2. \/ m # "bm25" /\ s.model # "ok" /\ served' = Boot!Refused("model")
        \/ (m = "bm25" \/ s.model = "ok") /\ served' = Boot!Frozen("live", m, "tree")
        \/ /\ m = "bm25" \/ s.model = "ok"
           /\ out.fit /\ Boot!Matches(m, s.chunker) /\ served' = Boot!Frozen(out.tree, m, "file")
        \/ out.fit /\ served' = Boot!Refused("mismatch")
    BY <1>1, <1>7 DEF Boot!LoadOrBuildWatched, Boot!BuildOrLoad
  <2> HIDE DEF m
  <2>3. Boot!BootServes'
    BY <1>1, <1>2, <1>4, <1>5, <1>7, <2>1, <2>2 DEF Boot!BootServes, Boot!Refused, Boot!Frozen
  <2>4. Served'
    BY <1>1, <1>6, <2>1, <2>2 DEF Served, Answers, Boot!Frozen
  <2> QED BY <1>3, <2>3, <2>4 DEF BootInv
<1>8. CASE s.kind = "embedded"
  <2> DEFINE m == Boot!Loadable(s)
  <2>1. m = IF s.model = "ok" THEN s.mode ELSE "bm25"
    BY DEF Boot!Loadable
  <2>2. \/ /\ out.fit /\ Boot!Matches(m, s.chunker)
           /\ served' = Boot!Frozen(out.tree, m, "file")
        \/ served' = Boot!Frozen(tree, m, "tree")
    BY <1>1, <1>8 DEF Boot!BuildEmbedded, Boot!TryLoadPrebuilt
  <2> HIDE DEF m
  <2>3. Boot!BootServes'
    BY <1>1, <1>2, <1>4, <1>5, <1>8, <2>1, <2>2 DEF Boot!BootServes, Boot!Refused, Boot!Frozen
  <2>4. Served'
    BY <1>1, <1>6, <2>1, <2>2 DEF Served, Answers, Boot!Frozen
  <2> QED BY <1>3, <2>3, <2>4 DEF BootInv
<1> QED BY <1>1, <1>7, <1>8

\* New chunks join a served index or leave it.
LEMMA BootExtras ==
  ASSUME BootInv, NEW x \in Extras, Boot!OnExtras(x)
  PROVE  BootInv'
<1>1. /\ server.kind = "embedded" /\ UNCHANGED <<tree, out, job, temps, last, built, kills, server>>
      /\ \/ served' = [served EXCEPT !.extras = x] /\ told' = x
         \/ UNCHANGED <<served, told>>
  BY DEF Boot!OnExtras, Boot!buildVars
<1>2. OwnTemps' /\ LastBuilt'
  BY <1>1, TempsAside DEF BootInv, LastBuilt, OwnTemps
<1>3. CASE UNCHANGED <<served, told>>
  BY <1>1, <1>2, <1>3, BootAside DEF BootInv
<1>4. CASE served' = [served EXCEPT !.extras = x] /\ told' = x
  <2>1. served \in Answers
    BY <1>1 DEF BootInv, Served, Boot!BootServes, Boot!Refused
  <2>2. /\ served' \in Answers /\ served'.extras = told' /\ served'.from = served.from
        /\ served'.mode = served.mode /\ served'.tree = served.tree
    BY <1>4, <2>1 DEF Answers
  <2>3. Boot!BootServes'
    BY <1>1, <2>1, <2>2 DEF BootInv, Boot!BootServes, Boot!Refused, Answers
  <2> QED BY <1>1, <1>2, <2>2, <2>3 DEF BootInv, Served
<1> QED BY <1>1, <1>3, <1>4

\* Every step keeps the file and the server right.
LEMMA BootNext == BootInv /\ [Boot!Next]_Boot!vars => BootInv'
<1> SUFFICES ASSUME BootInv, [Boot!Next]_Boot!vars PROVE BootInv'
  OBVIOUS
<1>1. CASE UNCHANGED Boot!vars
  BY <1>1, TempsAside, BootAside DEF Boot!vars, BootInv, OwnTemps
<1>2. ASSUME NEW t \in Trees, Boot!Edit(t) PROVE BootInv'
  BY <1>2, TempsAside, BootAside DEF Boot!Edit, Boot!buildVars, Boot!serverVars, BootInv
<1>3. CASE Boot!Spoil
  BY <1>3, TempsAside DEF Boot!Spoil, Boot!buildVars, Boot!serverVars, BootInv, OwnTemps, LastBuilt,
                          Served, Boot!BootServes
<1>4. CASE Boot!Exit
  BY <1>4, TempsAside DEF Boot!Exit, Boot!buildVars, BootInv, OwnTemps, LastBuilt, Served,
                          Boot!BootServes, Boot!Refused, Boot!Down
<1> QED BY <1>1, <1>2, <1>3, <1>4, BootBuilds, BootChooses, BootExtras DEF Boot!Next

LEMMA BootIsServed == BootInv => Boot!PrebuiltServes
<1>1. BootInv => (out.fit => out = last) /\ Boot!BootServes
  BY DEF BootInv, LastBuilt, Boot!NoFile
<1>2. BootInv => Cardinality(temps) <=
                   kills + Cardinality({b \in Builders : job[b].step = "written"})
  BY DEF BootInv, OwnTemps, Written
<1>3. \A S : Boot!Cardinality(S) = Cardinality(S)
  BY DEF Cardinality, Boot!Cardinality
<1> QED BY <1>1, <1>2, <1>3 DEF Boot!PrebuiltServes, Boot!FileIsLast

(* However builds overlap, fail and are killed, index.bin is the one renamed   *)
(* last, and a server serves it only if it is of its mode and chunker; an      *)
(* embedded server always serves; only the killed leave temporary files.       *)
THEOREM PrebuiltIsServed == Boot!Spec => []Boot!PrebuiltServes
BY BootInit, BootNext, BootIsServed, PTL DEF Boot!Spec

-----------------------------------------------------------------------------
(* Numbers and sequences: what the walk's proof and those of PartsProofs need. *)

LEMMA Least ==
  ASSUME NEW T, T \subseteq Nat, T # {}
  PROVE  \E x \in T : \A y \in T : x <= y
<1> DEFINE F == {1..n : n \in T}
           R == StrictSubsetOrdering(Nat)
<1>1. F \subseteq FiniteSubsetsOf(Nat)
  <2>1. \A n \in Nat : IsFiniteSet(1..n) BY FS_Interval
  <2>2. \A n \in Nat : 1..n \subseteq Nat OBVIOUS
  <2> QED BY <2>1, <2>2 DEF FiniteSubsetsOf
<1>2. IsWellFoundedOn(R, FiniteSubsetsOf(Nat)) BY FS_StrictSubsetOrderingWellFounded
<1>3. F # {} OBVIOUS
<1> HIDE DEF R
<1>4. \E A \in F : \A B \in F : ~ (<<B, A>> \in R) BY <1>1, <1>2, <1>3, WFMin
<1>5. PICK x \in T : \A y \in T : ~ (<<1..y, 1..x>> \in R) BY <1>4
<1>6. ASSUME NEW y \in T PROVE x <= y
  <2> SUFFICES ASSUME y < x PROVE FALSE BY x \in Nat, y \in Nat
  <2>1. 1..y \subseteq 1..x /\ x \in 1..x /\ x \notin 1..y BY x \in Nat, y \in Nat
  <2>2. 1..y \in SUBSET Nat /\ 1..x \in SUBSET Nat BY x \in Nat, y \in Nat
  <2>3. <<1..y, 1..x>> \in R BY <2>1, <2>2 DEF R, StrictSubsetOrdering
  <2> QED BY <2>3, <1>5
<1> QED BY <1>6

Concatenation(c, a, b, V) ==
  /\ c \in Seq(V) /\ Len(c) = Len(a) + Len(b)
  /\ \A i \in 1..Len(a) : c[i] = a[i]
  /\ \A i \in 1..Len(b) : c[i + Len(a)] = b[i]

LEMMA Concatenated ==
  ASSUME NEW S, NEW a \in Seq(S), NEW b \in Seq(S)
  PROVE  Concatenation(a \o b, a, b, S)
BY DEF Concatenation

-----------------------------------------------------------------------------
(* Paths.                                                                     *)
Paths == Seq(Walk!Names)
Prefix(a, b) == Len(a) <= Len(b) /\ \A i \in 1..Len(a) : a[i] = b[i]
Upto(p, n) == SubSeq(p, 1, n)
Parent(p) == Upto(p, Len(p) - 1)

LEMMA UptoFacts ==
  ASSUME NEW p \in Paths, NEW n \in 0..Len(p)
  PROVE  /\ Upto(p, n) \in Paths /\ Len(Upto(p, n)) = n /\ Prefix(Upto(p, n), p)
         /\ \A i \in 1..n : Upto(p, n)[i] = p[i]
<1>1. \A i \in 1..n : p[i] \in Walk!Names
  BY DEF Paths
<1>2. Upto(p, n) = [i \in 1..n |-> p[i]] /\ n \in Nat /\ n <= Len(p)
  BY DEF Upto, Paths
<1> QED BY <1>1, <1>2 DEF Prefix, Paths

LEMMA PrefixIs ==
  ASSUME NEW a \in Paths, NEW b \in Paths
  PROVE  Prefix(a, b) <=> Len(a) <= Len(b) /\ a = Upto(b, Len(a))
<1>1. ASSUME Prefix(a, b) PROVE a = Upto(b, Len(a))
  <2>1. Len(a) \in 0..Len(b) /\ a = [i \in 1..Len(a) |-> a[i]]
    BY <1>1 DEF Prefix, Paths
  <2>2. Upto(b, Len(a)) = [i \in 1..Len(a) |-> b[i]]
    BY <2>1 DEF Upto, Paths
  <2> QED BY <1>1, <2>1, <2>2 DEF Prefix
<1>2. ASSUME Len(a) <= Len(b), a = Upto(b, Len(a)) PROVE Prefix(a, b)
  <2>1. Len(a) \in 0..Len(b)
    BY <1>2 DEF Paths
  <2> QED BY <1>2, <2>1, UptoFacts
<1> QED BY <1>1, <1>2 DEF Prefix

LEMMA UnderIs ==
  ASSUME NEW a \in Paths, NEW b \in Paths
  PROVE  Walk!Under(a, b) <=> Prefix(a, b) /\ Len(a) < Len(b)
<1>1. Len(a) \in Nat /\ Len(b) \in Nat
  BY DEF Paths
<1> QED BY <1>1, PrefixIs DEF Walk!Under, Upto

LEMMA PrefixOrder ==
  ASSUME NEW a \in Paths, NEW b \in Paths, NEW c \in Paths
  PROVE  /\ Prefix(a, b) /\ Prefix(b, c) => Prefix(a, c)
         /\ Prefix(a, b) /\ Len(a) = Len(b) => a = b
         /\ Prefix(a, c) /\ Prefix(b, c) /\ Len(a) <= Len(b) => Prefix(a, b)
         /\ Prefix(a, a)
<1>1. Len(a) \in Nat /\ Len(b) \in Nat /\ Len(c) \in Nat
  BY DEF Paths
<1>2. Prefix(a, b) /\ Len(a) = Len(b) => a = b
  BY <1>1 DEF Prefix, Paths
<1> QED BY <1>1, <1>2 DEF Prefix

\* A proper prefix is a prefix of the parent.
LEMMA ParentIs ==
  ASSUME NEW p \in Paths, p # <<>>
  PROVE  /\ Len(p) - 1 \in 0..Len(p) /\ Len(p) >= 1 /\ Parent(p) \in Paths /\ Len(Parent(p)) = Len(p) - 1
         /\ Prefix(Parent(p), p)
         /\ \A a \in Paths : Prefix(a, Parent(p)) <=> Walk!Under(a, p)
         /\ \A n \in 0..(Len(p) - 1) : Upto(Parent(p), n) = Upto(p, n)
<1>1. Len(p) - 1 \in 0..Len(p) /\ Len(p) >= 1
  <2>1. Len(p) \in Nat /\ (Len(p) = 0 => p = <<>>)
    BY DEF Paths
  <2> QED BY <2>1
<1>2. Parent(p) \in Paths /\ Len(Parent(p)) = Len(p) - 1 /\ Prefix(Parent(p), p)
  BY <1>1, UptoFacts DEF Parent
<1>3. ASSUME NEW a \in Paths PROVE Prefix(a, Parent(p)) <=> Walk!Under(a, p)
  <2>1. Prefix(a, Parent(p)) => Prefix(a, p) /\ Len(a) < Len(p)
    <3>1. Prefix(a, Parent(p)) => Len(a) <= Len(p) - 1 /\ Len(a) \in Nat
      BY <1>2 DEF Prefix, Paths
    <3> QED BY <1>1, <1>2, <3>1, PrefixOrder
  <2>2. Prefix(a, p) /\ Len(a) < Len(p) => Prefix(a, Parent(p))
    <3>1. Len(a) < Len(p) => Len(a) <= Len(Parent(p))
      BY <1>1, <1>2 DEF Paths
    <3> QED BY <1>2, <3>1, PrefixOrder
  <2> QED BY <2>1, <2>2, UnderIs
<1>4. ASSUME NEW n \in 0..(Len(p) - 1) PROVE Upto(Parent(p), n) = Upto(p, n)
  <2>1. n \in 0..Len(p) /\ n \in 0..Len(Parent(p)) /\ \A i \in 1..n : i \in 1..(Len(p) - 1)
    BY <1>1, <1>2
  <2>2. \A i \in 1..(Len(p) - 1) : Parent(p)[i] = p[i]
    BY <1>1, UptoFacts DEF Parent
  <2>3. Upto(Parent(p), n) = [i \in 1..n |-> Parent(p)[i]] /\ Upto(p, n) = [i \in 1..n |-> p[i]]
    BY <1>2, <2>1 DEF Upto, Paths
  <2> QED BY <2>1, <2>2, <2>3
<1> QED BY <1>1, <1>2, <1>3, <1>4

-----------------------------------------------------------------------------
(* Scopes.  A directory has one of each family at most.  In a list of scopes   *)
(* that comes from a walk, an outer directory's come before an inner one's.   *)
Families == {"git", "ken"}
ScopeIn(ig, dir, family) ==
  LET ken == IF ig[dir].ken # <<>> THEN ig[dir].ken ELSE ig[dir].semble
      doc == IF family = "git" THEN ig[dir].git ELSE ken
  IN [dir |-> dir, family |-> family, rules |-> IF doc = <<>> THEN <<>> ELSE Walk!ParseGitignore(doc[1])]
ScopesAt(ig, dir) == {s \in {ScopeIn(ig, dir, f) : f \in Families} : s.rules # <<>>}
AllScopes(ig) == UNION {ScopesAt(ig, d) : d \in Paths}

Scoped(ig, scs) ==
  /\ scs \in Seq(AllScopes(ig))
  /\ \A n, m \in 1..Len(scs) : n < m =>
       \/ scs[n].dir = scs[m].dir /\ scs[n].family # scs[m].family
       \/ ~Prefix(scs[m].dir, scs[n].dir)
Holds(ig, scs, d) == \A s \in ScopesAt(ig, d) : \E n \in 1..Len(scs) : scs[n] = s
Above(ig, p) == UNION {ScopesAt(ig, Upto(p, n)) : n \in 0..(Len(p) - 1)}

\* What the rules above a path say of it.
Barred(ig, p, isDir) ==
  \E s \in Above(ig, p) : \E r \in DOMAIN s.rules :
    /\ Walk!RuleMatches(s, r, p, isDir) /\ ~s.rules[r].negate
    /\ \A t \in Above(ig, p) : \A q \in DOMAIN t.rules :
         t.family = s.family /\ Walk!RuleMatches(t, q, p, isDir) =>
           Len(t.dir) < Len(s.dir) \/ (t = s /\ q <= r)

LEMMA ScopeFacts ==
  ASSUME NEW ig, NEW s \in AllScopes(ig)
  PROVE  s.dir \in Paths /\ s.family \in Families /\ s \in ScopesAt(ig, s.dir)
         /\ s = ScopeIn(ig, s.dir, s.family)
<1>1. PICK d \in Paths : s \in ScopesAt(ig, d)
  BY DEF AllScopes
<1>2. PICK f \in Families : s = ScopeIn(ig, d, f)
  BY <1>1 DEF ScopesAt
<1>3. s.dir = d /\ s.family = f
  BY <1>2 DEF ScopeIn
<1> QED BY <1>1, <1>2, <1>3

LEMMA DirFacts ==
  ASSUME NEW ig, NEW d \in Paths, NEW s \in ScopesAt(ig, d)
  PROVE  s.dir = d /\ s.family \in Families /\ s \in AllScopes(ig) /\ s = ScopeIn(ig, d, s.family)
<1>1. PICK f \in Families : s = ScopeIn(ig, d, f)
  BY DEF ScopesAt
<1>2. s.dir = d /\ s.family = f
  BY <1>1 DEF ScopeIn
<1> QED BY <1>1, <1>2 DEF AllScopes

\* The scopes above a path are those of its family order: by depth.
LEMMA VerdictIs ==
  ASSUME NEW ig, NEW scs, Scoped(ig, scs), NEW p \in Paths, p # <<>>, NEW isDir,
         \A n \in 0..(Len(p) - 1) : Holds(ig, scs, Upto(p, n))
  PROVE  Walk!MatchScopes(scs, p, isDir) <=> Barred(ig, p, isDir)
<1> DEFINE N == {n \in 1..Len(scs) : Walk!Under(scs[n].dir, p)}
<1>0. DOMAIN scs = 1..Len(scs) /\ Len(scs) \in Nat /\ \A n \in 1..Len(scs) : scs[n] \in AllScopes(ig)
  BY DEF Scoped
<1>1. \A n \in N : scs[n] \in Above(ig, p)
  <2> SUFFICES ASSUME NEW n \in N PROVE scs[n] \in Above(ig, p)
    OBVIOUS
  <2> DEFINE d == scs[n].dir
  <2>1. d \in Paths /\ scs[n] \in ScopesAt(ig, d)
    BY <1>0, ScopeFacts
  <2>2. Prefix(d, p) /\ Len(d) < Len(p)
    BY <2>1, UnderIs
  <2>3. d = Upto(p, Len(d)) /\ Len(d) \in 0..(Len(p) - 1)
    BY <2>1, <2>2, PrefixIs DEF Paths
  <2> QED BY <2>1, <2>3 DEF Above
<1>2. \A s \in Above(ig, p) : \E n \in N : scs[n] = s
  <2> SUFFICES ASSUME NEW s \in Above(ig, p) PROVE \E n \in N : scs[n] = s
    OBVIOUS
  <2>1. PICK k \in 0..(Len(p) - 1) : s \in ScopesAt(ig, Upto(p, k))
    BY DEF Above
  <2>2. k \in 0..Len(p) /\ k < Len(p)
    BY ParentIs
  <2>3. Upto(p, k) \in Paths /\ Len(Upto(p, k)) = k /\ Prefix(Upto(p, k), p)
    BY <2>2, UptoFacts
  <2>4. PICK n \in 1..Len(scs) : scs[n] = s
    BY <2>1 DEF Holds
  <2>5. s.dir = Upto(p, k)
    BY <2>1, <2>3, DirFacts
  <2>6. Walk!Under(s.dir, p)
    BY <2>2, <2>3, <2>5, UnderIs
  <2> QED BY <2>4, <2>6
<1>3. ASSUME NEW n \in N, NEW m \in N, scs[n].family = scs[m].family
      PROVE  (m < n \/ m = n) => (m < n => Len(scs[m].dir) < Len(scs[n].dir)) /\ (m = n => scs[m] = scs[n])
  <2> SUFFICES ASSUME m < n PROVE Len(scs[m].dir) < Len(scs[n].dir)
    OBVIOUS
  <2>1. scs[n].dir \in Paths /\ scs[m].dir \in Paths
    BY <1>0, ScopeFacts
  <2>2. Prefix(scs[n].dir, p) /\ Prefix(scs[m].dir, p)
    BY <2>1, UnderIs
  <2>3. ~Prefix(scs[n].dir, scs[m].dir)
    BY <1>3 DEF Scoped
  <2>4. ~(Len(scs[n].dir) <= Len(scs[m].dir))
    BY <2>1, <2>2, <2>3, PrefixOrder
  <2> QED BY <2>1, <2>4 DEF Paths
<1>4. ASSUME NEW n \in N, NEW m \in N, scs[n].family = scs[m].family
      PROVE  /\ m < n <=> Len(scs[m].dir) < Len(scs[n].dir)
             /\ m = n <=> scs[m] = scs[n]
  <2>1. m < n => Len(scs[m].dir) < Len(scs[n].dir)
    BY <1>3, <1>4
  <2>2. n < m => Len(scs[n].dir) < Len(scs[m].dir)
    BY <1>3, <1>4
  <2>3. Len(scs[n].dir) \in Nat /\ Len(scs[m].dir) \in Nat /\ n \in Nat /\ m \in Nat
    BY <1>0, ScopeFacts DEF Paths
  <2>4. scs[m] = scs[n] => Len(scs[n].dir) = Len(scs[m].dir)
    OBVIOUS
  <2>5. m = n => scs[m] = scs[n]
    OBVIOUS
  <2> DEFINE a == Len(scs[n].dir)
             b == Len(scs[m].dir)
  <2> HIDE DEF a, b, N
  <2>6. (m < n => b < a) /\ (n < m => a < b) /\ a \in Nat /\ b \in Nat /\ (scs[m] = scs[n] => a = b) /\ (m = n => b = a)
    BY <2>1, <2>2, <2>3, <2>4, <2>5 DEF a, b
  <2>7. (m < n <=> b < a) /\ (m = n <=> scs[m] = scs[n])
    BY <2>3, <2>5, <2>6
  <2> QED BY <2>7 DEF a, b
<1> DEFINE Hit(s, r) == Walk!RuleMatches(s, r, p, isDir)
           Wins(n, r) == /\ Hit(scs[n], r) /\ ~scs[n].rules[r].negate
                         /\ \A m \in N : \A q \in DOMAIN scs[m].rules :
                              scs[m].family = scs[n].family /\ Hit(scs[m], q) => m < n \/ (m = n /\ q <= r)
           Best(s, r) == /\ Hit(s, r) /\ ~s.rules[r].negate
                         /\ \A t \in Above(ig, p) : \A q \in DOMAIN t.rules :
                              t.family = s.family /\ Hit(t, q) => Len(t.dir) < Len(s.dir) \/ (t = s /\ q <= r)
<1>5. \A n \in 1..Len(scs) : \A r : Hit(scs[n], r) => n \in N
  BY DEF Walk!RuleMatches
<1>6. Walk!MatchScopes(scs, p, isDir) <=> \E n \in N : \E r \in DOMAIN scs[n].rules : Wins(n, r)
  <2> HIDE DEF Hit
  <2>1. Walk!MatchScopes(scs, p, isDir) <=>
          \E n \in 1..Len(scs) : \E r \in DOMAIN scs[n].rules :
            /\ Hit(scs[n], r) /\ ~scs[n].rules[r].negate
            /\ \A m \in 1..Len(scs) : \A q \in DOMAIN scs[m].rules :
                 scs[m].family = scs[n].family /\ Hit(scs[m], q) => m < n \/ (m = n /\ q <= r)
    BY <1>0 DEF Walk!MatchScopes, Hit
  <2> QED BY <1>5, <2>1
<1>7. ASSUME NEW n \in N, NEW r PROVE Wins(n, r) <=> Best(scs[n], r)
  <2> HIDE DEF Hit, N
  <2>1. ASSUME Wins(n, r), NEW t \in Above(ig, p), NEW q \in DOMAIN t.rules, t.family = scs[n].family, Hit(t, q)
        PROVE  Len(t.dir) < Len(scs[n].dir) \/ (t = scs[n] /\ q <= r)
    <3>1. PICK m \in N : scs[m] = t
      BY <1>2
    <3>2. m < n \/ (m = n /\ q <= r)
      BY <2>1, <3>1
    <3> QED BY <1>4, <2>1, <3>1, <3>2
  <2>2. ASSUME Best(scs[n], r), NEW m \in N, NEW q \in DOMAIN scs[m].rules, scs[m].family = scs[n].family, Hit(scs[m], q)
        PROVE  m < n \/ (m = n /\ q <= r)
    <3>1. scs[m] \in Above(ig, p)
      BY <1>1
    <3>2. Len(scs[m].dir) < Len(scs[n].dir) \/ (scs[m] = scs[n] /\ q <= r)
      BY <2>2, <3>1
    <3> QED BY <1>4, <2>2, <3>2
  <2> QED BY <2>1, <2>2
<1>8. Barred(ig, p, isDir) <=> \E s \in Above(ig, p) : \E r \in DOMAIN s.rules : Best(s, r)
  BY DEF Barred
<1> HIDE DEF Wins, Best, N, Hit
<1> QED BY <1>1, <1>2, <1>6, <1>7, <1>8

LEMMA ScopesOfIs ==
  ASSUME NEW d \in Paths
  PROVE  /\ Walk!ScopesOf(d) \in Seq(ScopesAt(ignore, d))
         /\ \A s \in ScopesAt(ignore, d) : \E n \in 1..Len(Walk!ScopesOf(d)) : Walk!ScopesOf(d)[n] = s
         /\ \A n, m \in 1..Len(Walk!ScopesOf(d)) : n < m =>
              Walk!ScopesOf(d)[n].family # Walk!ScopesOf(d)[m].family
<1> DEFINE g == ScopeIn(ignore, d, "git")
           k == ScopeIn(ignore, d, "ken")
           sc == Walk!ScopesOf(d)
<1>1. Walk!Scope(d, "git") = g /\ Walk!Scope(d, "ken") = k
  BY DEF Walk!Scope, Walk!KenIgnore, ScopeIn
<1>2. g.family = "git" /\ k.family = "ken"
  BY DEF ScopeIn
<1>3. \A s : s \in ScopesAt(ignore, d) <=> (s = g /\ g.rules # <<>>) \/ (s = k /\ k.rules # <<>>)
  BY DEF ScopesAt, Families
<1>4. sc = (IF g.rules = <<>> THEN <<>> ELSE <<g>>) \o (IF k.rules = <<>> THEN <<>> ELSE <<k>>)
  BY <1>1 DEF Walk!ScopesOf, Walk!Pushed
<1> HIDE DEF g, k, sc
<1>5. CASE g.rules = <<>> /\ k.rules = <<>>
  <2>1. sc = <<>>
    BY <1>4, <1>5
  <2>2. sc \in Seq(ScopesAt(ignore, d)) /\ Len(sc) = 0
    BY <2>1
  <2> QED BY <1>3, <1>5, <2>2 DEF sc
<1>6. CASE g.rules # <<>> /\ k.rules = <<>>
  <2>1. sc = <<g>>
    BY <1>4, <1>6
  <2>2. Len(sc) = 1 /\ sc[1] = g /\ 1 \in 1..Len(sc)
    BY <2>1
  <2>3. sc \in Seq(ScopesAt(ignore, d))
    BY <1>3, <1>6, <2>1
  <2> QED BY <1>3, <1>6, <2>2, <2>3 DEF sc
<1>7. CASE g.rules = <<>> /\ k.rules # <<>>
  <2>1. sc = <<k>>
    BY <1>4, <1>7
  <2>2. Len(sc) = 1 /\ sc[1] = k /\ 1 \in 1..Len(sc)
    BY <2>1
  <2>3. sc \in Seq(ScopesAt(ignore, d))
    BY <1>3, <1>7, <2>1
  <2> QED BY <1>3, <1>7, <2>2, <2>3 DEF sc
<1>8. CASE g.rules # <<>> /\ k.rules # <<>>
  <2>a. g \in ScopesAt(ignore, d) /\ k \in ScopesAt(ignore, d)
    BY <1>3, <1>8
  <2>b. <<g>> \in Seq(ScopesAt(ignore, d)) /\ <<k>> \in Seq(ScopesAt(ignore, d))
    BY <2>a
  <2>c. sc = <<g>> \o <<k>>
    BY <1>4, <1>8
  <2>d. Concatenation(sc, <<g>>, <<k>>, ScopesAt(ignore, d))
    BY <2>b, <2>c, Concatenated
  <2>e. Len(<<g>>) = 1 /\ Len(<<k>>) = 1 /\ <<g>>[1] = g /\ <<k>>[1] = k /\ 1 \in 1..1
    OBVIOUS
  <2>2. Len(sc) = 2 /\ sc[1] = g /\ sc[2] = k /\ 1 \in 1..Len(sc) /\ 2 \in 1..Len(sc)
    <3> DEFINE a == <<g>>
               b == <<k>>
    <3>1. Len(a) = 1 /\ Len(b) = 1 /\ a[1] = g /\ b[1] = k /\ Concatenation(sc, a, b, ScopesAt(ignore, d))
      BY <2>d, <2>e
    <3> HIDE DEF a, b
    <3>2. Len(sc) = 2 /\ sc[1] = a[1] /\ sc[1 + 1] = b[1]
      BY <3>1 DEF Concatenation
    <3> QED BY <3>1, <3>2
  <2>3. sc \in Seq(ScopesAt(ignore, d))
    BY <2>d DEF Concatenation
  <2>4. \A n, m \in 1..Len(sc) : n < m => n = 1 /\ m = 2
    BY <2>2
  <2> QED BY <1>2, <1>3, <1>8, <2>2, <2>3, <2>4 DEF sc
<1> QED BY <1>5, <1>6, <1>7, <1>8

\* Below a directory no scope is of yet, its own come last.
LEMMA Descends ==
  ASSUME NEW scs, Scoped(ignore, scs), NEW d \in Paths,
         \A n \in 1..Len(scs) : ~Prefix(d, scs[n].dir)
  PROVE  /\ Scoped(ignore, scs \o Walk!ScopesOf(d))
         /\ Holds(ignore, scs \o Walk!ScopesOf(d), d)
         /\ \A e : Holds(ignore, scs, e) => Holds(ignore, scs \o Walk!ScopesOf(d), e)
         /\ \A n \in 1..Len(scs \o Walk!ScopesOf(d)) :
              \/ (scs \o Walk!ScopesOf(d))[n].dir = d
              \/ \E m \in 1..Len(scs) : scs[m] = (scs \o Walk!ScopesOf(d))[n]
<1> DEFINE sc == Walk!ScopesOf(d)
           all == scs \o sc
           L == Len(scs)
<1>1. /\ sc \in Seq(ScopesAt(ignore, d))
      /\ \A s \in ScopesAt(ignore, d) : \E n \in 1..Len(sc) : sc[n] = s
      /\ \A n, m \in 1..Len(sc) : n < m => sc[n].family # sc[m].family
  BY ScopesOfIs
<1> HIDE DEF sc
<1>2. \A s \in ScopesAt(ignore, d) : s.dir = d /\ s \in AllScopes(ignore)
  BY DirFacts
<1>3. sc \in Seq(AllScopes(ignore)) /\ scs \in Seq(AllScopes(ignore))
  <2>1. sc \in Seq(AllScopes(ignore))
    BY <1>1, <1>2
  <2> QED BY <2>1 DEF Scoped
<1>4. Concatenation(all, scs, sc, AllScopes(ignore))
  BY <1>3, Concatenated
<1> HIDE DEF all
<1>5. /\ all \in Seq(AllScopes(ignore)) /\ Len(all) = L + Len(sc) /\ L \in Nat /\ Len(sc) \in Nat
      /\ \A n \in 1..L : all[n] = scs[n]
      /\ \A n \in 1..Len(sc) : all[n + L] = sc[n]
  BY <1>3, <1>4 DEF Concatenation
<1>6. \A n \in 1..Len(all) : n \in 1..L \/ \E i \in 1..Len(sc) : n = i + L
  <2> SUFFICES ASSUME NEW n \in 1..Len(all), ~(n \in 1..L) PROVE \E i \in 1..Len(sc) : n = i + L
    OBVIOUS
  <2>1. n - L \in 1..Len(sc) /\ n = (n - L) + L
    BY <1>5
  <2> QED BY <2>1
<1>7. \A i \in 1..Len(sc) : sc[i].dir = d /\ i \in Nat
  BY <1>1, <1>2
<1> HIDE DEF L
<1>8. ASSUME NEW n \in 1..Len(all), NEW m \in 1..Len(all), n < m
      PROVE  \/ all[n].dir = all[m].dir /\ all[n].family # all[m].family
             \/ ~Prefix(all[m].dir, all[n].dir)
  <2>1. CASE n \in 1..L /\ m \in 1..L
    BY <1>5, <1>8, <2>1 DEF Scoped, L
  <2>2. ASSUME n \in 1..L, NEW j \in 1..Len(sc), m = j + L
        PROVE ~Prefix(all[m].dir, all[n].dir)
    <3>1. all[m].dir = d /\ all[n] = scs[n]
      BY <1>5, <1>7, <2>2
    <3> QED BY <2>2, <3>1 DEF L
  <2>3. ASSUME NEW i \in 1..Len(sc), n = i + L, NEW j \in 1..Len(sc), m = j + L
        PROVE all[n].dir = all[m].dir /\ all[n].family # all[m].family
    <3>1. i < j
      BY <1>5, <1>7, <1>8, <2>3
    <3>2. all[n] = sc[i] /\ all[m] = sc[j]
      BY <1>5, <2>3
    <3>3. sc[i].family # sc[j].family
      BY <1>1, <2>3, <3>1
    <3>4. sc[i].dir = d /\ sc[j].dir = d
      BY <1>7, <2>3
    <3> QED BY <3>2, <3>3, <3>4
  <2>4. ASSUME NEW i \in 1..Len(sc), n = i + L, m \in 1..L PROVE FALSE
    BY <1>5, <1>7, <1>8, <2>4
  <2> QED BY <1>6, <2>1, <2>2, <2>3, <2>4
<1>9. Scoped(ignore, all)
  BY <1>5, <1>8 DEF Scoped
<1>10. \A n \in 1..L : n \in 1..Len(all)
  BY <1>5
<1>11. \A i \in 1..Len(sc) : i + L \in 1..Len(all)
  BY <1>5
<1>12. Holds(ignore, all, d)
  <2> SUFFICES ASSUME NEW s \in ScopesAt(ignore, d) PROVE \E n \in 1..Len(all) : all[n] = s
    BY DEF Holds
  <2>1. PICK i \in 1..Len(sc) : sc[i] = s
    BY <1>1
  <2>2. all[i + L] = s /\ i + L \in 1..Len(all)
    BY <1>5, <1>11, <2>1
  <2> QED BY <2>2
<1>13. \A e : Holds(ignore, scs, e) => Holds(ignore, all, e)
  <2> SUFFICES ASSUME NEW e, Holds(ignore, scs, e), NEW s \in ScopesAt(ignore, e)
               PROVE  \E n \in 1..Len(all) : all[n] = s
    BY DEF Holds
  <2>1. PICK n \in 1..L : scs[n] = s
    BY DEF Holds, L
  <2> QED BY <1>5, <1>10, <2>1
<1>14. \A n \in 1..Len(all) : all[n].dir = d \/ \E m \in 1..Len(scs) : scs[m] = all[n]
  BY <1>5, <1>6, <1>7 DEF L
<1> QED BY <1>9, <1>12, <1>13, <1>14 DEF all, sc

\* A stack of the scopes down to c, pruned for an entry that is not on the way
\* to c and whose parent is: it holds the scopes down to the parent.
LEMMA Prunes ==
  ASSUME NEW ig, NEW scs, Scoped(ig, scs), NEW c \in Paths,
         \A n \in 1..Len(scs) : Prefix(scs[n].dir, c),
         NEW p \in Paths, p # <<>>, Prefix(Parent(p), c), ~Prefix(p, c),
         \A n \in 0..Len(c) : Holds(ig, scs, Upto(c, n))
  PROVE  /\ Scoped(ig, Walk!PruneScopes(scs, p))
         /\ \A n \in 1..Len(Walk!PruneScopes(scs, p)) : Prefix(Walk!PruneScopes(scs, p)[n].dir, Parent(p))
         /\ \A n \in 0..(Len(p) - 1) : Holds(ig, Walk!PruneScopes(scs, p), Upto(p, n))
<1> DEFINE past == {n \in DOMAIN scs : scs[n].dir # p /\ ~Walk!Under(scs[n].dir, p)}
           cut == Walk!PruneScopes(scs, p)
<1>0. DOMAIN scs = 1..Len(scs) /\ Len(scs) \in Nat /\ \A n \in 1..Len(scs) : scs[n].dir \in Paths
  <2>1. scs \in Seq(AllScopes(ig))
    BY DEF Scoped
  <2>2. DOMAIN scs = 1..Len(scs) /\ Len(scs) \in Nat /\ \A n \in 1..Len(scs) : scs[n] \in AllScopes(ig)
    BY <2>1
  <2> QED BY <2>2, ScopeFacts
<1>1. \A n \in 1..Len(scs) : scs[n].dir # p
  BY <1>0
<1>2. PICK k \in 0..Len(scs) :
        /\ cut = SubSeq(scs, 1, k)
        /\ \A n \in 1..k : n \notin past
        /\ k < Len(scs) => k + 1 \in past
  <2>1. CASE past = {}
    <3>1. cut = scs
      BY <2>1 DEF Walk!PruneScopes
    <3>2. scs = SubSeq(scs, 1, Len(scs))
      BY DEF Scoped
    <3>3. Len(scs) \in 0..Len(scs) /\ ~(Len(scs) < Len(scs))
      BY <1>0
    <3> HIDE DEF cut
    <3>4. cut = SubSeq(scs, 1, Len(scs))
      BY <3>1, <3>2
    <3> QED BY <2>1, <3>3, <3>4
  <2>2. CASE past # {}
    <3>1. past \subseteq Nat
      BY <1>0
    <3>2. \E x \in past : \A y \in past : x <= y
      <4> HIDE DEF past
      <4> QED BY <2>2, <3>1, Least
    <3> DEFINE x == Walk!Min(past)
    <3>3. x \in past /\ \A y \in past : x <= y
      <4> HIDE DEF past
      <4> QED BY <3>2 DEF Walk!Min
    <3>4. cut = SubSeq(scs, 1, x - 1)
      BY <2>2 DEF Walk!PruneScopes
    <3> HIDE DEF x, past
    <3>5. past \subseteq 1..Len(scs)
      BY <1>0 DEF past
    <3>6. x - 1 \in 0..Len(scs) /\ (x - 1) + 1 = x
      BY <1>0, <3>3, <3>5
    <3>7. \A n \in 1..(x - 1) : n \notin past
      BY <3>3, <3>5
    <3> QED BY <3>3, <3>4, <3>6, <3>7
  <2> QED BY <2>1, <2>2
<1>3. cut \in Seq(AllScopes(ig)) /\ Len(cut) = k /\ \A n \in 1..k : n \in 1..Len(scs) /\ cut[n] = scs[n]
  BY <1>2 DEF Scoped
<1>4. Scoped(ig, cut)
  <2> HIDE DEF cut
  <2> QED BY <1>3 DEF Scoped
<1>5. \A n \in 1..k : Prefix(cut[n].dir, Parent(p))
  BY <1>0, <1>1, <1>2, <1>3, ParentIs
<1>6. ASSUME NEW l \in 0..(Len(p) - 1) PROVE Holds(ig, cut, Upto(p, l))
  <2> DEFINE q == Upto(p, l)
  <2>1. l \in 0..Len(p) /\ Len(Parent(p)) = Len(p) - 1 /\ Parent(p) \in Paths /\ l \in 0..Len(Parent(p))
    BY ParentIs
  <2>2. q \in Paths /\ Len(q) = l /\ Prefix(q, p)
    BY <2>1, UptoFacts
  <2>3. Walk!Under(q, p)
    BY <2>2, UnderIs, ParentIs
  <2>4. Prefix(q, c)
    BY <2>1, <2>2, <2>3, ParentIs, PrefixOrder
  <2>5. q = Upto(c, l) /\ l \in 0..Len(c)
    BY <2>2, <2>4, PrefixIs DEF Paths, Prefix
  <2> HIDE DEF q
  <2> SUFFICES ASSUME NEW s \in ScopesAt(ig, q) PROVE \E n \in 1..k : cut[n] = s
    BY <1>3 DEF Holds, q
  <2>6. PICK n \in 1..Len(scs) : scs[n] = s
    BY <2>5 DEF Holds
  <2>7. s.dir = q
    BY <2>2, DirFacts
  <2>8. n <= k
    <3> SUFFICES ASSUME n > k PROVE FALSE
      BY <1>0, <1>2
    <3> DEFINE x == k + 1
    <3>1. x \in past /\ x \in 1..Len(scs) /\ x <= n
      BY <1>0, <1>2
    <3>2. n \notin past
      BY <1>1, <2>3, <2>6, <2>7
    <3>3. x < n
      BY <1>0, <1>2, <3>1, <3>2
    <3>4. ~Walk!Under(scs[x].dir, p) /\ scs[x].dir \in Paths /\ Prefix(scs[x].dir, c)
      BY <1>0, <3>1
    <3> HIDE DEF x, past
    <3>5. \/ scs[x].dir = q
          \/ ~Prefix(q, scs[x].dir)
      BY <2>6, <2>7, <3>1, <3>3 DEF Scoped
    <3>6. scs[x].dir # q
      BY <2>3, <3>4
    <3>7. ~(Len(q) <= Len(scs[x].dir))
      BY <2>2, <2>4, <3>4, <3>5, <3>6, PrefixOrder
    <3>8. Len(scs[x].dir) <= Len(q)
      BY <2>2, <3>4, <3>7 DEF Paths
    <3>9. Prefix(scs[x].dir, q)
      BY <2>2, <2>4, <3>4, <3>8, PrefixOrder
    <3>10. Prefix(scs[x].dir, p)
      BY <2>2, <3>4, <3>9, PrefixOrder
    <3>11. Len(scs[x].dir) < Len(p)
      BY <2>1, <2>2, <3>4, <3>8 DEF Paths
    <3> QED BY <3>4, <3>10, <3>11, UnderIs
  <2>9. n \in 1..k
    BY <1>2, <2>8
  <2> QED BY <1>3, <2>6, <2>9
<1> QED BY <1>3, <1>4, <1>5, <1>6

-----------------------------------------------------------------------------
(* The entries, in the order of a walk.                                       *)
Path(i) == Entries[i].path

LEMMA EntryFacts ==
  ASSUME Walk!EntriesAssumption
  PROVE  /\ DOMAIN Entries = 1..Len(Entries) /\ Len(Entries) \in Nat
         /\ \A i \in 1..Len(Entries) : Path(i) \in Paths /\ Path(i) # <<>>
         /\ \A i, j \in 1..Len(Entries) : Path(i) = Path(j) => i = j
BY DEF Walk!EntriesAssumption, Path, Paths, Walk!Root

\* A directory above an entry is an entry before it.
LEMMA EntryAbove ==
  ASSUME Walk!EntriesAssumption, NEW i \in 1..Len(Entries), NEW q \in Paths, q # <<>>,
         Walk!Under(q, Path(i))
  PROVE  \E j \in 1..(i - 1) : j \in 1..Len(Entries) /\ Entries[j].kind = "dir" /\ Path(j) = q
<1>1. Path(i) \in Paths /\ Len(Entries) \in Nat /\ DOMAIN Entries = 1..Len(Entries)
  BY EntryFacts
<1>2. q = Upto(Path(i), Len(q)) /\ Len(q) < Len(Path(i)) /\ Len(q) \in Nat /\ Len(Path(i)) \in Nat
  BY <1>1, UnderIs, PrefixIs DEF Paths
<1>3. Len(q) # 0
  BY DEF Paths
<1>4. Len(q) \in 1..(Len(Path(i)) - 1)
  BY <1>2, <1>3
<1>5. \E j \in 1..(i - 1) : Entries[j].kind = "dir" /\ Entries[j].path = SubSeq(Entries[i].path, 1, Len(q))
  BY <1>1, <1>4 DEF Walk!EntriesAssumption, Path
<1>6. \A j \in 1..(i - 1) : j \in 1..Len(Entries)
  BY <1>1
<1> QED BY <1>2, <1>5, <1>6 DEF Path, Upto

\* The next entry after what is below entry i: its parent is on the way to i.
LEMMA NextEntry ==
  ASSUME Walk!EntriesAssumption, NEW i \in 1..Len(Entries), NEW k \in (i + 1)..Len(Entries),
         \A j \in (i + 1)..(k - 1) : Walk!Under(Path(i), Path(j)),
         k = i + 1 \/ ~Walk!Under(Path(i), Path(k))
  PROVE  /\ ~Prefix(Path(k), Path(i)) /\ Prefix(Parent(Path(k)), Path(i))
         /\ ~Walk!Under(Path(i), Path(k)) => Prefix(Parent(Path(k)), Parent(Path(i)))
         /\ Walk!Under(Path(i), Path(k)) => Entries[i].kind = "dir"
<1> DEFINE a == Path(i)
           b == Path(k)
           q == Parent(b)
<1>0. /\ Len(Entries) \in Nat /\ DOMAIN Entries = 1..Len(Entries)
      /\ \A j \in 1..Len(Entries) : Path(j) \in Paths /\ Path(j) # <<>>
      /\ \A j, l \in 1..Len(Entries) : Path(j) = Path(l) => j = l
  BY EntryFacts
<1>1. k \in 1..Len(Entries) /\ i \in Nat /\ k \in Nat /\ i < k
  BY <1>0
<1>2. a \in Paths /\ b \in Paths /\ a # <<>> /\ b # <<>> /\ a # b
  BY <1>0, <1>1
<1>3. q \in Paths /\ Walk!Under(q, b) /\ \A x \in Paths : Prefix(x, q) <=> Walk!Under(x, b)
  BY <1>2, ParentIs, PrefixOrder
<1>4. ~Prefix(b, a)
  <2> SUFFICES ASSUME Prefix(b, a) PROVE FALSE
    OBVIOUS
  <2>1. Len(b) # Len(a)
    BY <1>2, PrefixOrder
  <2>2. Walk!Under(b, a)
    BY <1>2, <2>1, UnderIs DEF Prefix, Paths
  <2>3. PICK j \in 1..(i - 1) : j \in 1..Len(Entries) /\ Path(j) = b
    BY <1>2, <2>2, EntryAbove
  <2> QED BY <1>0, <1>1, <2>3
<1>5. Walk!Under(a, b) => Entries[i].kind = "dir"
  <2> SUFFICES ASSUME Walk!Under(a, b) PROVE Entries[i].kind = "dir"
    OBVIOUS
  <2>1. PICK j \in 1..(k - 1) : j \in 1..Len(Entries) /\ Entries[j].kind = "dir" /\ Path(j) = a
    BY <1>1, <1>2, EntryAbove
  <2> QED BY <1>0, <2>1
<1>6. CASE q = <<>>
  <2>1. \A x \in Paths : Prefix(<<>>, x)
    BY DEF Prefix, Paths
  <2>2. Parent(a) \in Paths
    BY <1>2, ParentIs
  <2> QED BY <1>2, <1>4, <1>5, <1>6, <2>1, <2>2
<1>7. CASE q # <<>>
  <2>1. PICK j \in 1..(k - 1) : j \in 1..Len(Entries) /\ Path(j) = q
    BY <1>1, <1>3, <1>7, EntryAbove
  <2>2. \A l \in (j + 1)..k : Walk!Under(q, Path(l))
    <3>1. j \in DOMAIN Entries /\ k \in DOMAIN Entries /\ Walk!Under(Entries[j].path, Entries[k].path)
          /\ Entries[j].path = q
      BY <1>0, <1>1, <1>3, <2>1 DEF Path
    <3> HIDE DEF q
    <3>2. \A l \in (j + 1)..k : Walk!Under(Entries[j].path, Entries[l].path)
      BY <3>1 DEF Walk!EntriesAssumption
    <3> QED BY <3>1, <3>2 DEF Path
  <2>3. CASE j < i
    <3>1. Walk!Under(q, a)
      BY <1>1, <2>1, <2>2, <2>3
    <3>2. Prefix(q, a) /\ Prefix(q, Parent(a))
      BY <1>2, <1>3, <3>1, UnderIs, ParentIs
    <3> QED BY <1>4, <1>5, <3>2
  <2>4. CASE j = i
    <3>1. q = a
      BY <2>1, <2>4
    <3>2. Prefix(q, a) /\ Walk!Under(a, b)
      BY <1>2, <1>3, <3>1, PrefixOrder
    <3> QED BY <1>4, <1>5, <3>2
  <2>5. CASE j > i
    <3>1. j \in (i + 1)..(k - 1) /\ k # i + 1
      BY <1>1, <2>1, <2>5
    <3>2. Walk!Under(a, q)
      BY <2>1, <3>1
    <3>3. Prefix(a, q)
      BY <1>2, <1>3, <3>2, UnderIs
    <3>4. Walk!Under(a, b)
      BY <1>2, <1>3, <3>3
    <3> QED BY <3>1, <3>4
  <2> QED BY <1>1, <2>1, <2>3, <2>4, <2>5
<1> QED BY <1>6, <1>7

\* The entry after what is below the one visited.
LEMMA BeyondIs ==
  ASSUME Walk!EntriesAssumption, visit \in 1..Len(Entries)
  PROVE  /\ Walk!Beyond \in (visit + 1)..(Len(Entries) + 1)
         /\ \A j \in (visit + 1)..(Walk!Beyond - 1) : j \in 1..Len(Entries) /\ Walk!Under(Path(visit), Path(j))
         /\ Walk!Beyond <= Len(Entries) => ~Walk!Under(Path(visit), Path(Walk!Beyond))
<1> DEFINE L == Len(Entries)
           after == {i \in visit..L + 1 : i > visit /\ (i > L \/ ~Walk!Under(Path(visit), Path(i)))}
           b == Walk!Beyond
<1>0. L \in Nat /\ visit \in Nat /\ visit <= L
  BY EntryFacts
<1>1. b = Walk!Min(after)
  BY DEF Walk!Beyond, Walk!Entry, Path
<1>2. L + 1 \in after /\ after \subseteq Nat
  BY <1>0
<1>3. \E x \in after : \A y \in after : x <= y
  <2> HIDE DEF after
  <2> QED BY <1>2, Least
<1>4. b \in after /\ \A y \in after : b <= y
  <2> HIDE DEF after, b
  <2> QED BY <1>1, <1>3 DEF Walk!Min
<1> HIDE DEF b
<1>5. b \in (visit + 1)..(L + 1) /\ (b <= L => ~Walk!Under(Path(visit), Path(b)))
  BY <1>0, <1>4
<1>6. ASSUME NEW j \in (visit + 1)..(b - 1) PROVE j \in 1..L /\ Walk!Under(Path(visit), Path(j))
  <2>1. j \in 1..L /\ j \in visit..L + 1 /\ j > visit /\ ~(j > L) /\ ~(b <= j)
    BY <1>0, <1>5
  <2>2. j \notin after
    BY <1>4, <2>1
  <2> QED BY <2>1, <2>2
<1> QED BY <1>5, <1>6 DEF b

-----------------------------------------------------------------------------
(* The walk.  A directory is opened unless it is the repository's own or the   *)
(* rules above it exclude it; a walk enters it if all above it are, too.      *)
Opened(ig, q) == q[Len(q)] \notin Walk!Own /\ ~Barred(ig, q, TRUE)
Entered(ig, c) == \A l \in 1..Len(c) : Opened(ig, Upto(c, l))
\* The matcher's walk passes over what is below a directory it cannot read.
Reached(ig, un, d) == Entered(ig, d) /\ \A l \in 1..(Len(d) - 1) : Upto(d, l) \notin un

\* Upto of an Upto, and of a prefix.
LEMMA UptoOf ==
  ASSUME NEW b \in Paths, NEW a \in Paths, Prefix(a, b), NEW l \in 0..Len(a)
  PROVE  Upto(a, l) = Upto(b, l) /\ l \in 0..Len(b)
<1>1. Len(a) \in Nat /\ Len(b) \in Nat /\ Len(a) <= Len(b) /\ \A i \in 1..Len(a) : a[i] = b[i]
  BY DEF Prefix, Paths
<1>2. l \in 0..Len(b) /\ \A i \in 1..l : i \in 1..Len(a)
  BY <1>1
<1>3. Upto(a, l) = [i \in 1..l |-> a[i]] /\ Upto(b, l) = [i \in 1..l |-> b[i]]
  BY <1>2 DEF Upto, Paths
<1> QED BY <1>1, <1>2, <1>3

LEMMA EnteredFacts ==
  ASSUME NEW ig, NEW b \in Paths
  PROVE  /\ \A a \in Paths : Prefix(a, b) /\ Entered(ig, b) => Entered(ig, a)
         /\ Entered(ig, <<>>)
         /\ b # <<>> => (Entered(ig, b) <=> Entered(ig, Parent(b)) /\ Opened(ig, b))
         /\ \A l \in 1..Len(b) : Entered(ig, b) => Opened(ig, Upto(b, l))
<1>1. ASSUME NEW a \in Paths, Prefix(a, b), Entered(ig, b) PROVE Entered(ig, a)
  <2> SUFFICES ASSUME NEW l \in 1..Len(a) PROVE Opened(ig, Upto(a, l))
    BY DEF Entered
  <2>1. l \in 0..Len(a) /\ l # 0
    OBVIOUS
  <2>2. Upto(a, l) = Upto(b, l) /\ l \in 0..Len(b)
    BY <1>1, <2>1, UptoOf
  <2>3. l \in 1..Len(b)
    BY <2>1, <2>2
  <2> QED BY <1>1, <2>2, <2>3 DEF Entered
<1>2. Entered(ig, <<>>)
  BY DEF Entered
<1>3. ASSUME b # <<>> PROVE Entered(ig, b) <=> Entered(ig, Parent(b)) /\ Opened(ig, b)
  <2>1. /\ Len(b) - 1 \in 0..Len(b) /\ Len(b) >= 1 /\ Parent(b) \in Paths /\ Len(Parent(b)) = Len(b) - 1
        /\ Prefix(Parent(b), b)
        /\ \A n \in 0..(Len(b) - 1) : Upto(Parent(b), n) = Upto(b, n)
    BY <1>3, ParentIs
  <2>2. Upto(b, Len(b)) = b /\ Len(b) \in Nat
    BY DEF Upto, Paths
  <2>3. \A l \in 1..Len(b) : l = Len(b) \/ l \in 1..(Len(b) - 1)
    BY <2>2
  <2>4. Len(b) \in 1..Len(b) /\ \A l \in 1..(Len(b) - 1) : l \in 0..(Len(b) - 1) /\ l \in 1..Len(b)
    BY <2>1, <2>2
  <2> QED BY <2>1, <2>2, <2>3, <2>4 DEF Entered
<1> QED BY <1>1, <1>2, <1>3 DEF Entered

\* A stack with the scopes down to c, a directory the walk enters.
StackOf(ig, scs, c) ==
  /\ c \in Paths /\ Scoped(ig, scs) /\ Entered(ig, c)
  /\ \A n \in 1..Len(scs) : Prefix(scs[n].dir, c)
  /\ \A l \in 0..Len(c) : Holds(ig, scs, Upto(c, l))
\* The entry visited next is of c or of a directory above.
Onward(i, c) == i <= Len(Entries) => Prefix(Parent(Path(i)), c) /\ ~Prefix(Path(i), c)

LEMMA ActiveIs ==
  ASSUME Walk!EntriesAssumption, visit \in 1..Len(Entries),
         NEW c, StackOf(ignore, stack, c), Onward(visit, c)
  PROVE  /\ StackOf(ignore, Walk!Active, Parent(Path(visit)))
         /\ \A isDir : Walk!MatchScopes(Walk!Active, Path(visit), isDir) <=> Barred(ignore, Path(visit), isDir)
         /\ Walk!Enters(Walk!Active) <=> Opened(ignore, Path(visit))
<1> DEFINE p == Path(visit)
           scs == Walk!PruneScopes(stack, p)
<1>1. p \in Paths /\ p # <<>> /\ visit <= Len(Entries)
  BY EntryFacts
<1>2. Prefix(Parent(p), c) /\ ~Prefix(p, c) /\ c \in Paths
  BY <1>1 DEF Onward, StackOf
<1>3. /\ Scoped(ignore, scs)
      /\ \A n \in 1..Len(scs) : Prefix(scs[n].dir, Parent(p))
      /\ \A n \in 0..(Len(p) - 1) : Holds(ignore, scs, Upto(p, n))
  BY <1>1, <1>2, Prunes DEF StackOf
<1>4. Walk!Active = scs
  BY DEF Walk!Active, Walk!Entry, Path
<1> HIDE DEF scs, p
<1>5. /\ Parent(p) \in Paths /\ Len(Parent(p)) = Len(p) - 1
      /\ \A n \in 0..(Len(p) - 1) : Upto(Parent(p), n) = Upto(p, n)
  BY <1>1, ParentIs
<1>6. Entered(ignore, Parent(p))
  BY <1>2, <1>5, EnteredFacts DEF StackOf
<1>7. StackOf(ignore, scs, Parent(p))
  BY <1>3, <1>5, <1>6 DEF StackOf
<1>8. \A isDir : Walk!MatchScopes(scs, p, isDir) <=> Barred(ignore, p, isDir)
  BY <1>1, <1>3, VerdictIs
<1>9. Walk!Enters(scs) <=> Opened(ignore, p)
  <2>1. Walk!Entry.path = p
    BY DEF p, Path, Walk!Entry
  <2>2. Walk!Last(p) = p[Len(p)]
    BY DEF Walk!Last
  <2> QED BY <1>8, <2>1, <2>2 DEF Walk!Enters, Opened
<1> QED BY <1>4, <1>7, <1>8, <1>9 DEF p

\* Into a directory.
LEMMA StackInto ==
  ASSUME NEW scs, NEW d \in Paths, d # <<>>, StackOf(ignore, scs, Parent(d)), Opened(ignore, d)
  PROVE  StackOf(ignore, scs \o Walk!ScopesOf(d), d)
<1> DEFINE all == scs \o Walk!ScopesOf(d)
<1>1. /\ Len(d) >= 1 /\ Len(Parent(d)) = Len(d) - 1 /\ Parent(d) \in Paths /\ Prefix(Parent(d), d)
      /\ \A n \in 0..(Len(d) - 1) : Upto(Parent(d), n) = Upto(d, n)
  BY ParentIs
<1>2. Len(d) \in Nat /\ Upto(d, Len(d)) = d
  BY DEF Paths, Upto
<1>3. \A n \in 1..Len(scs) : scs[n].dir \in Paths /\ Prefix(scs[n].dir, Parent(d))
  BY ScopeFacts DEF StackOf, Scoped
<1>4. \A n \in 1..Len(scs) : ~Prefix(d, scs[n].dir)
  <2> SUFFICES ASSUME NEW n \in 1..Len(scs), Prefix(d, scs[n].dir) PROVE FALSE
    OBVIOUS
  <2>1. Len(d) <= Len(scs[n].dir) /\ Len(scs[n].dir) <= Len(d) - 1 /\ Len(scs[n].dir) \in Nat
    BY <1>1, <1>3 DEF Prefix, Paths
  <2> QED BY <1>2, <2>1
<1>5. /\ Scoped(ignore, all) /\ Holds(ignore, all, d)
      /\ \A e : Holds(ignore, scs, e) => Holds(ignore, all, e)
      /\ \A n \in 1..Len(all) : all[n].dir = d \/ \E m \in 1..Len(scs) : scs[m] = all[n]
  BY <1>4, Descends DEF StackOf
<1> HIDE DEF all
<1>6. \A n \in 1..Len(all) : Prefix(all[n].dir, d)
  <2> SUFFICES ASSUME NEW n \in 1..Len(all) PROVE Prefix(all[n].dir, d)
    OBVIOUS
  <2>1. CASE all[n].dir = d
    BY <2>1, PrefixOrder
  <2>2. ASSUME NEW m \in 1..Len(scs), scs[m] = all[n] PROVE Prefix(all[n].dir, d)
    BY <1>1, <1>3, <2>2, PrefixOrder
  <2> QED BY <1>5, <2>1, <2>2
<1>7. \A l \in 0..Len(d) : Holds(ignore, all, Upto(d, l))
  <2> SUFFICES ASSUME NEW l \in 0..Len(d) PROVE Holds(ignore, all, Upto(d, l))
    OBVIOUS
  <2>1. CASE l = Len(d)
    BY <1>2, <1>5, <2>1
  <2>2. CASE l # Len(d)
    <3>1. l \in 0..Len(Parent(d)) /\ l \in 0..(Len(d) - 1)
      BY <1>1, <1>2, <2>2
    <3> QED BY <1>1, <1>5, <3>1 DEF StackOf
  <2> QED BY <2>1, <2>2
<1>8. Entered(ignore, d)
  BY EnteredFacts DEF StackOf
<1> QED BY <1>5, <1>6, <1>7, <1>8 DEF StackOf, all

\* What follows an entry: in a directory entered, after it, or after a file.
LEMMA OnwardIs ==
  ASSUME Walk!EntriesAssumption, NEW i \in 1..Len(Entries), NEW k \in (i + 1)..(Len(Entries) + 1),
         \A j \in (i + 1)..(k - 1) : Walk!Under(Path(i), Path(j)),
         k = i + 1 \/ (k <= Len(Entries) => ~Walk!Under(Path(i), Path(k)))
  PROVE  /\ Onward(k, Path(i))
         /\ Entries[i].kind # "dir" \/ (k <= Len(Entries) => ~Walk!Under(Path(i), Path(k))) =>
              Onward(k, Parent(Path(i)))
<1>0. /\ Len(Entries) \in Nat /\ i \in Nat /\ k \in Nat
      /\ \A j \in 1..Len(Entries) : Path(j) \in Paths /\ Path(j) # <<>>
  BY EntryFacts
<1>1. CASE k <= Len(Entries)
  <2>1. k \in (i + 1)..Len(Entries) /\ k \in 1..Len(Entries)
    BY <1>0, <1>1
  <2>2. /\ ~Prefix(Path(k), Path(i)) /\ Prefix(Parent(Path(k)), Path(i))
        /\ ~Walk!Under(Path(i), Path(k)) => Prefix(Parent(Path(k)), Parent(Path(i)))
        /\ Walk!Under(Path(i), Path(k)) => Entries[i].kind = "dir"
    BY <1>1, <2>1, NextEntry
  <2>3. Path(i) \in Paths /\ Path(k) \in Paths /\ Path(i) # <<>>
    BY <1>0, <2>1
  <2>4. Parent(Path(i)) \in Paths /\ Prefix(Parent(Path(i)), Path(i))
    BY <2>3, ParentIs
  <2>5. ~Prefix(Path(k), Parent(Path(i)))
    BY <2>2, <2>3, <2>4, PrefixOrder
  <2> QED BY <1>1, <2>2, <2>5 DEF Onward
<1>2. CASE ~(k <= Len(Entries))
  BY <1>2 DEF Onward
<1> QED BY <1>1, <1>2

\* The start: the root's scopes.
LEMMA StackRoot ==
  ASSUME Walk!EntriesAssumption
  PROVE  StackOf(ignore, Walk!ScopesOf(Walk!Root), <<>>) /\ Onward(1, <<>>)
<1> DEFINE scs == Walk!ScopesOf(<<>>)
<1>0. <<>> \in Paths /\ Len(<<>>) = 0 /\ Upto(<<>>, 0) = <<>>
  BY DEF Paths, Upto
<1>1. /\ scs \in Seq(ScopesAt(ignore, <<>>))
      /\ \A s \in ScopesAt(ignore, <<>>) : \E n \in 1..Len(scs) : scs[n] = s
      /\ \A n, m \in 1..Len(scs) : n < m => scs[n].family # scs[m].family
  BY <1>0, ScopesOfIs
<1> HIDE DEF scs
<1>2. \A s \in ScopesAt(ignore, <<>>) : s.dir = <<>> /\ s \in AllScopes(ignore)
  BY <1>0, DirFacts
<1>3. \A n \in 1..Len(scs) : scs[n] \in ScopesAt(ignore, <<>>) /\ scs[n].dir = <<>>
  BY <1>1, <1>2
<1>4. scs \in Seq(AllScopes(ignore))
  BY <1>1, <1>2
<1>5. Scoped(ignore, scs)
  BY <1>1, <1>3, <1>4 DEF Scoped
<1>6. \A n \in 1..Len(scs) : Prefix(scs[n].dir, <<>>)
  BY <1>0, <1>3, PrefixOrder
<1>7. \A l \in 0..Len(<<>>) : Holds(ignore, scs, Upto(<<>>, l))
  <2>1. Holds(ignore, scs, <<>>)
    BY <1>1 DEF Holds
  <2>2. \A l \in 0..Len(<<>>) : l = 0
    BY <1>0
  <2> QED BY <1>0, <2>1, <2>2
<1>8. StackOf(ignore, scs, <<>>)
  BY <1>0, <1>5, <1>6, <1>7, EnteredFacts DEF StackOf
<1>9. ASSUME 1 <= Len(Entries) PROVE Prefix(Parent(Path(1)), <<>>) /\ ~Prefix(Path(1), <<>>)
  <2> DEFINE p == Path(1)
             q == Parent(p)
  <2>1. 1 \in 1..Len(Entries) /\ p \in Paths /\ p # <<>>
    BY <1>9, EntryFacts
  <2>2. q \in Paths /\ Prefix(q, q)
    BY <2>1, ParentIs, PrefixOrder
  <2>3. Walk!Under(q, p)
    BY <2>1, <2>2, ParentIs
  <2>4. q = <<>>
    <3> SUFFICES ASSUME q # <<>> PROVE FALSE
      OBVIOUS
    <3> HIDE DEF q
    <3>1. \E j \in 1..(1 - 1) : j \in 1..Len(Entries) /\ Entries[j].kind = "dir" /\ Path(j) = q
      BY <2>1, <2>2, <2>3, EntryAbove
    <3> QED BY <3>1
  <2>5. Len(p) # 0 /\ Len(p) \in Nat
    BY <2>1 DEF Paths
  <2>6. ~Prefix(p, <<>>)
    BY <1>0, <2>5 DEF Prefix
  <2> QED BY <2>2, <2>4, <2>6
<1> QED BY <1>8, <1>9 DEF Onward, scs, Walk!Root

\* What the matcher collected from the entries before n.
GatheredTo(ig, un, scs, n) ==
  /\ Scoped(ig, scs) /\ Holds(ig, scs, <<>>)
  /\ \A m \in 1..Len(scs) :
       scs[m].dir = <<>> \/ \E i \in 1..Len(Entries) : i < n /\ scs[m].dir = Path(i)
  /\ \A i \in 1..Len(Entries) :
       i < n /\ Entries[i].kind = "dir" /\ Reached(ig, un, Path(i)) => Holds(ig, scs, Path(i))

Sound(dk, cf, p) ==
  /\ dk[p] \notin {"huge", "binary", "unreadable"}
  /\ dk[p] = "minified" => ~(cf.maxAvgLine > 0)
  /\ dk[p] = "generated" => ~cf.skipGenerated
\* A file the walk lists, by the rules.
Wanted(ig, p) == Entered(ig, Parent(p)) /\ ~Barred(ig, p, FALSE)
\* What the walk listed of the entries before n; it met no unreadable directory.
ListedTo(ig, un, dk, cf, ls, fresh, n) ==
  /\ \A i \in 1..Len(Entries) :
       i < n /\ Entries[i].kind = "dir" /\ Entered(ig, Path(i)) => Path(i) \notin un
  /\ \A p \in Walk!Range(ls) : \E i \in 1..Len(Entries) :
       /\ i < n /\ p = Path(i) /\ Entries[i].kind = "file" /\ Wanted(ig, p)
       /\ p \in fresh \/ Sound(dk, cf, p)
  /\ \A i \in 1..Len(Entries) :
       i < n /\ Entries[i].kind = "file" /\ Path(i) \notin fresh /\ Wanted(ig, Path(i)) /\ Sound(dk, cf, Path(i)) =>
         Path(i) \in Walk!Range(ls)

WalkInv ==
  /\ Walk!EntriesAssumption
  /\ walker \in {"matcher", "walk", "done", "failed"} /\ visit \in 1..(Len(Entries) + 1)
  /\ DOMAIN disk = Walk!Regular /\ disk = [p \in Walk!Regular |-> disk[p]]
  /\ \E n \in Nat : listed = [i \in 1..n |-> listed[i]]
  /\ walker \in {"matcher", "walk"} => \E c \in Paths : StackOf(ignore, stack, c) /\ Onward(visit, c)
  /\ GatheredTo(ignore, unlisted, collected, IF walker = "matcher" THEN visit ELSE Len(Entries) + 1)
  /\ walker \in {"walk", "done"} => ListedTo(ignore, unlisted, disk, config, listed, touched, visit)
  /\ walker = "done" => visit = Len(Entries) + 1
  /\ walker = "matcher" => listed = <<>>

LEMMA SoundIs == ASSUME NEW p PROVE Walk!Admitted(p) <=> Sound(disk, config, p)
BY DEF Walk!Admitted, Walk!Sniffed, Sound

LEMMA WalkInit == Walk!EntriesAssumption /\ Walk!Init => WalkInv
<1> SUFFICES ASSUME Walk!EntriesAssumption, Walk!Init PROVE WalkInv
  OBVIOUS
<1> USE DEF Walk!Init
<1>1. <<>> \in Paths /\ Len(Entries) \in Nat
  BY EntryFacts DEF Paths
<1>2. StackOf(ignore, stack, <<>>) /\ Onward(visit, <<>>)
  BY StackRoot
<1>3. disk = [p \in Walk!Regular |-> disk[p]]
  BY DEF Walk!EntriesAssumption
<1>4. GatheredTo(ignore, unlisted, collected, 1)
  <2>1. StackOf(ignore, collected, <<>>) /\ Len(<<>>) = 0 /\ Upto(<<>>, 0) = <<>>
    BY StackRoot DEF Upto
  <2>2. Scoped(ignore, collected) /\ Holds(ignore, collected, <<>>)
    BY <2>1 DEF StackOf
  <2>3. \A m \in 1..Len(collected) : collected[m].dir = <<>>
    <3> SUFFICES ASSUME NEW m \in 1..Len(collected) PROVE collected[m].dir = <<>>
      OBVIOUS
    <3>1. Prefix(collected[m].dir, <<>>) /\ collected[m].dir \in Paths
      BY <2>1, ScopeFacts DEF StackOf, Scoped
    <3>2. Len(collected[m].dir) = Len(<<>>)
      BY <3>1 DEF Prefix, Paths
    <3> QED BY <1>1, <3>1, <3>2, PrefixOrder
  <2>4. \A i \in 1..Len(Entries) : ~(i < 1)
    OBVIOUS
  <2> QED BY <2>2, <2>3, <2>4 DEF GatheredTo
<1>5. listed = [i \in 1..0 |-> listed[i]]
  OBVIOUS
<1>6. visit \in 1..(Len(Entries) + 1) /\ walker = "matcher" /\ visit = 1
  BY <1>1
<1>7. DOMAIN disk = Walk!Regular
  BY <1>3
<1> QED BY <1>1, <1>2, <1>3, <1>4, <1>5, <1>6, <1>7 DEF WalkInv

\* The matcher takes up an entry's scopes, or has none to take up.
LEMMA Gathers ==
  ASSUME Walk!EntriesAssumption, visit \in 1..Len(Entries),
         NEW scs, GatheredTo(ignore, unlisted, scs, visit)
  PROVE  /\ \A k \in (visit + 1)..(Len(Entries) + 1) :
              /\ \A j \in (visit + 1)..(k - 1) : Walk!Under(Path(visit), Path(j))
              /\ k = visit + 1 \/ Path(visit) \in unlisted
              => GatheredTo(ignore, unlisted, scs \o Walk!ScopesOf(Path(visit)), k)
         /\ \A k \in (visit + 1)..(Len(Entries) + 1) :
              /\ \A j \in (visit + 1)..(k - 1) : Walk!Under(Path(visit), Path(j))
              /\ (Entries[visit].kind # "dir" /\ k = visit + 1) \/ ~Opened(ignore, Path(visit))
              => GatheredTo(ignore, unlisted, scs, k)
<1> DEFINE p == Path(visit)
           all == scs \o Walk!ScopesOf(p)
<1>0. /\ Len(Entries) \in Nat /\ visit \in Nat
      /\ \A i \in 1..Len(Entries) : Path(i) \in Paths /\ Path(i) # <<>>
      /\ \A i, j \in 1..Len(Entries) : Path(i) = Path(j) => i = j
  BY EntryFacts
<1>1. p \in Paths /\ p # <<>>
  BY <1>0
<1>2. \A m \in 1..Len(scs) : scs[m].dir \in Paths
  BY ScopeFacts DEF GatheredTo, Scoped
<1>3. ASSUME NEW m \in 1..Len(scs) PROVE ~Prefix(p, scs[m].dir)
  <2> SUFFICES ASSUME Prefix(p, scs[m].dir) PROVE FALSE
    OBVIOUS
  <2>1. CASE scs[m].dir = <<>>
    <3>1. Len(p) = 0
      BY <1>1, <2>1 DEF Prefix, Paths
    <3> QED BY <1>1, <3>1 DEF Paths
  <2>2. ASSUME NEW i \in 1..Len(Entries), i < visit, scs[m].dir = Path(i) PROVE FALSE
    <3>1. Path(i) # p /\ Path(i) \in Paths
      BY <1>0, <2>2
    <3>2. Walk!Under(p, Path(i))
      BY <1>1, <2>2, <3>1, UnderIs, PrefixOrder DEF Prefix, Paths
    <3>3. \E j \in 1..(i - 1) : j \in 1..Len(Entries) /\ Path(j) = p
      BY <1>1, <3>2, EntryAbove
    <3> QED BY <1>0, <2>2, <3>3
  <2> QED BY <2>1, <2>2 DEF GatheredTo
<1>4. /\ Scoped(ignore, all) /\ Holds(ignore, all, p)
      /\ \A e : Holds(ignore, scs, e) => Holds(ignore, all, e)
      /\ \A n \in 1..Len(all) : all[n].dir = p \/ \E m \in 1..Len(scs) : scs[m] = all[n]
  BY <1>1, <1>3, Descends DEF GatheredTo
<1> HIDE DEF all, p
<1>5. ASSUME NEW k \in (visit + 1)..(Len(Entries) + 1),
             \A j \in (visit + 1)..(k - 1) : Walk!Under(p, Path(j)),
             NEW i \in 1..Len(Entries), i < k, i > visit
      PROVE  /\ ~Opened(ignore, p) \/ p \in unlisted => ~Reached(ignore, unlisted, Path(i))
             /\ k # visit + 1
  <2>1. i \in (visit + 1)..(k - 1) /\ Path(i) \in Paths
    BY <1>0, <1>5
  <2>2. Walk!Under(p, Path(i)) /\ k # visit + 1
    BY <1>0, <1>5, <2>1
  <2>3. p = Upto(Path(i), Len(p)) /\ Len(p) < Len(Path(i)) /\ Len(p) \in Nat /\ Len(Path(i)) \in Nat /\ Len(p) # 0
    BY <1>1, <2>1, <2>2, UnderIs, PrefixIs DEF Paths
  <2>4. Len(p) \in 1..Len(Path(i)) /\ Len(p) \in 1..(Len(Path(i)) - 1)
    BY <2>3
  <2> QED BY <2>2, <2>3, <2>4 DEF Reached, Entered
<1>6. \A k \in (visit + 1)..(Len(Entries) + 1) : \A i \in 1..Len(Entries) :
        /\ i < visit => i < k
        /\ i < k => i < visit \/ i = visit \/ i > visit
        /\ visit < k /\ k \in Nat
  BY <1>0
<1>7. ASSUME NEW k \in (visit + 1)..(Len(Entries) + 1),
             \A j \in (visit + 1)..(k - 1) : Walk!Under(p, Path(j)),
             k = visit + 1 \/ p \in unlisted
      PROVE  GatheredTo(ignore, unlisted, all, k)
  <2>1. Scoped(ignore, all) /\ Holds(ignore, all, <<>>)
    BY <1>4 DEF GatheredTo
  <2>2. \A m \in 1..Len(all) :
          all[m].dir = <<>> \/ \E i \in 1..Len(Entries) : i < k /\ all[m].dir = Path(i)
    <3> SUFFICES ASSUME NEW m \in 1..Len(all)
                 PROVE  all[m].dir = <<>> \/ \E i \in 1..Len(Entries) : i < k /\ all[m].dir = Path(i)
      OBVIOUS
    <3>1. CASE all[m].dir = p
      BY <1>6, <3>1 DEF p
    <3>2. ASSUME NEW l \in 1..Len(scs), scs[l] = all[m]
          PROVE  all[m].dir = <<>> \/ \E i \in 1..Len(Entries) : i < k /\ all[m].dir = Path(i)
      BY <1>6, <3>2 DEF GatheredTo
    <3> QED BY <1>4, <3>1, <3>2
  <2>3. ASSUME NEW i \in 1..Len(Entries), i < k, Entries[i].kind = "dir", Reached(ignore, unlisted, Path(i))
        PROVE  Holds(ignore, all, Path(i))
    <3>1. CASE i < visit
      BY <1>4, <2>3, <3>1 DEF GatheredTo
    <3>2. CASE i = visit
      BY <1>4, <3>2 DEF p
    <3>3. CASE i > visit
      BY <1>5, <1>7, <2>3, <3>3
    <3> QED BY <1>6, <2>3, <3>1, <3>2, <3>3
  <2> QED BY <2>1, <2>2, <2>3 DEF GatheredTo
<1>8. ASSUME NEW k \in (visit + 1)..(Len(Entries) + 1),
             \A j \in (visit + 1)..(k - 1) : Walk!Under(p, Path(j)),
             (Entries[visit].kind # "dir" /\ k = visit + 1) \/ ~Opened(ignore, p)
      PROVE  GatheredTo(ignore, unlisted, scs, k)
  <2>1. Scoped(ignore, scs) /\ Holds(ignore, scs, <<>>)
    BY DEF GatheredTo
  <2>2. \A m \in 1..Len(scs) :
          scs[m].dir = <<>> \/ \E i \in 1..Len(Entries) : i < k /\ scs[m].dir = Path(i)
    BY <1>6 DEF GatheredTo
  <2>3. ASSUME NEW i \in 1..Len(Entries), i < k, Entries[i].kind = "dir", Reached(ignore, unlisted, Path(i))
        PROVE  Holds(ignore, scs, Path(i))
    <3>1. CASE i < visit
      BY <2>3, <3>1 DEF GatheredTo
    <3>2. CASE i = visit
      <4>1. ~Opened(ignore, p)
        BY <1>8, <2>3, <3>2
      <4>2. Entered(ignore, p)
        BY <2>3, <3>2 DEF Reached, p
      <4> QED BY <1>1, <4>1, <4>2, EnteredFacts
    <3>3. CASE i > visit
      BY <1>5, <1>8, <2>3, <3>3
    <3> QED BY <1>6, <2>3, <3>1, <3>2, <3>3
  <2> QED BY <2>1, <2>2, <2>3 DEF GatheredTo
<1> QED BY <1>7, <1>8 DEF p, all

LEMMA WalkCollect == ASSUME WalkInv, Walk!Collect PROVE WalkInv'
<1> DEFINE p == Path(visit)
           act == Walk!Active
<1>1. /\ visit \in 1..Len(Entries) /\ walker = "matcher" /\ Len(Entries) \in Nat
      /\ Walk!EntriesAssumption /\ listed = <<>>
      /\ GatheredTo(ignore, unlisted, collected, visit)
  BY EntryFacts DEF WalkInv, Walk!Collect
<1>2. PICK c \in Paths : StackOf(ignore, stack, c) /\ Onward(visit, c)
  BY <1>1 DEF WalkInv
<1>3. /\ StackOf(ignore, act, Parent(p))
      /\ Walk!Enters(act) <=> Opened(ignore, p)
  BY <1>1, <1>2, ActiveIs
<1>4. /\ Walk!Entry.path = p /\ Walk!Entry.kind = Entries[visit].kind /\ p \in Paths /\ p # <<>>
      /\ Parent(p) \in Paths
  BY <1>1, EntryFacts, ParentIs DEF Path, Walk!Entry
<1>5. /\ Walk!Beyond \in (visit + 1)..(Len(Entries) + 1)
      /\ \A j \in (visit + 1)..(Walk!Beyond - 1) : Walk!Under(p, Path(j))
      /\ Walk!Beyond <= Len(Entries) => ~Walk!Under(p, Path(Walk!Beyond))
  BY <1>1, BeyondIs
<1>6. visit + 1 \in (visit + 1)..(Len(Entries) + 1) /\ \A j \in (visit + 1)..((visit + 1) - 1) : FALSE
  BY <1>1
<1> HIDE DEF act, p
<1>7. /\ UNCHANGED <<walker, listed, disk, unlisted, ignore, config, touched>>
      /\ visit' \in {visit + 1, Walk!Beyond}
  BY DEF Walk!Collect, Walk!Fixed
<1>8. visit' \in (visit + 1)..(Len(Entries) + 1) /\ \A j \in (visit + 1)..(visit' - 1) : Walk!Under(p, Path(j))
  BY <1>5, <1>6, <1>7
<1>9. /\ \E d \in Paths : StackOf(ignore, stack', d) /\ Onward(visit', d)
      /\ GatheredTo(ignore, unlisted, collected', visit')
  <2>1. CASE Entries[visit].kind = "dir" /\ Opened(ignore, p)
    <3>1. /\ stack' = act \o Walk!ScopesOf(p) /\ collected' = collected \o Walk!ScopesOf(p)
          /\ visit' = visit + 1 \/ (visit' = Walk!Beyond /\ p \in unlisted)
      BY <1>3, <1>4, <2>1 DEF Walk!Collect, act
    <3>2. StackOf(ignore, stack', p)
      BY <1>3, <1>4, <2>1, <3>1, StackInto
    <3>3. visit' = visit + 1 \/ (visit' <= Len(Entries) => ~Walk!Under(p, Path(visit')))
      BY <1>5, <3>1
    <3>4. Onward(visit', p)
      BY <1>1, <1>8, <3>3, OnwardIs DEF p
    <3>5. GatheredTo(ignore, unlisted, collected', visit')
      BY <1>1, <1>8, <3>1, Gathers DEF p
    <3> QED BY <1>4, <3>2, <3>4, <3>5
  <2>2. CASE ~(Entries[visit].kind = "dir" /\ Opened(ignore, p))
    <3>1. /\ stack' = act /\ collected' = collected
          /\ visit' = IF Entries[visit].kind = "dir" THEN Walk!Beyond ELSE visit + 1
      BY <1>3, <1>4, <2>2 DEF Walk!Collect, act
    <3>2. visit' = visit + 1 \/ (visit' <= Len(Entries) => ~Walk!Under(p, Path(visit')))
      BY <1>5, <3>1
    <3>3. Entries[visit].kind # "dir" \/ (visit' <= Len(Entries) => ~Walk!Under(p, Path(visit')))
      BY <1>5, <3>1
    <3>4. Onward(visit', Parent(p))
      BY <1>1, <1>8, <3>2, <3>3, OnwardIs DEF p
    <3>5. GatheredTo(ignore, unlisted, collected', visit')
      BY <1>1, <1>8, <2>2, <3>1, Gathers DEF p
    <3> QED BY <1>3, <1>4, <3>1, <3>4, <3>5
  <2> QED BY <2>1, <2>2
<1>10. (GatheredTo(ignore, unlisted, collected, IF walker = "matcher" THEN visit ELSE Len(Entries) + 1))'
  BY <1>1, <1>7, <1>9 DEF GatheredTo
<1>11. (\E d \in Paths : StackOf(ignore, stack, d) /\ Onward(visit, d))'
  BY <1>7, <1>9 DEF Onward
<1>12. visit' \in 1..(Len(Entries) + 1) /\ walker' = "matcher" /\ listed' = <<>>
  BY <1>1, <1>7, <1>8
<1>13. /\ (DOMAIN disk = Walk!Regular /\ disk = [q \in Walk!Regular |-> disk[q]])'
       /\ (\E n \in Nat : listed = [i \in 1..n |-> listed[i]])'
       /\ Walk!EntriesAssumption'
  BY <1>7 DEF WalkInv, Walk!EntriesAssumption
<1> QED BY <1>10, <1>11, <1>12, <1>13 DEF WalkInv

\* The walk lists an entry's file, or passes over the entry.
LEMMA Lists ==
  ASSUME Walk!EntriesAssumption, visit \in 1..Len(Entries),
         ListedTo(ignore, unlisted, disk, config, listed, touched, visit),
         NEW k \in (visit + 1)..(Len(Entries) + 1),
         \A j \in (visit + 1)..(k - 1) : Walk!Under(Path(visit), Path(j)),
         k = visit + 1 \/ ~Opened(ignore, Path(visit)),
         Entries[visit].kind = "dir" /\ Opened(ignore, Path(visit)) => Path(visit) \notin unlisted,
         NEW ls, Walk!Range(listed) \subseteq Walk!Range(ls),
         Walk!Range(ls) \subseteq Walk!Range(listed) \cup {Path(visit)},
         LET wanted == /\ Entries[visit].kind = "file" /\ ~Barred(ignore, Path(visit), FALSE)
                       /\ Sound(disk, config, Path(visit))
         IN /\ Path(visit) \in Walk!Range(ls) /\ Path(visit) \notin Walk!Range(listed) =>
                 wanted /\ Entered(ignore, Parent(Path(visit)))
            /\ wanted => Path(visit) \in Walk!Range(ls)
  PROVE  ListedTo(ignore, unlisted, disk, config, ls, touched, k)
<1> DEFINE p == Path(visit)
           wanted == /\ Entries[visit].kind = "file" /\ ~Barred(ignore, p, FALSE)
                     /\ Sound(disk, config, p)
           R == Walk!Range(ls)
           Q == Walk!Range(listed)
<1>0. /\ Len(Entries) \in Nat /\ visit \in Nat /\ k \in Nat /\ visit < k
      /\ \A i \in 1..Len(Entries) : Path(i) \in Paths /\ Path(i) # <<>>
  BY EntryFacts
<1>1. p \in Paths /\ p # <<>>
  BY <1>0
<1>2. /\ k = visit + 1 \/ ~Opened(ignore, p)
      /\ Q \subseteq R /\ R \subseteq Q \cup {p}
      /\ p \in R /\ p \notin Q => wanted /\ Entered(ignore, Parent(p))
      /\ wanted => p \in R
  OBVIOUS
<1>3. Entries[visit].kind = "dir" /\ Opened(ignore, p) => p \notin unlisted
  OBVIOUS
<1>4. \A j \in (visit + 1)..(k - 1) : Walk!Under(p, Path(j))
  OBVIOUS
<1>5. /\ \A i \in 1..Len(Entries) :
           i < visit /\ Entries[i].kind = "dir" /\ Entered(ignore, Path(i)) => Path(i) \notin unlisted
      /\ \A q \in Q : \E i \in 1..Len(Entries) :
           /\ i < visit /\ q = Path(i) /\ Entries[i].kind = "file" /\ Wanted(ignore, q)
           /\ q \in touched \/ Sound(disk, config, q)
      /\ \A i \in 1..Len(Entries) :
           i < visit /\ Entries[i].kind = "file" /\ Path(i) \notin touched
             /\ Wanted(ignore, Path(i)) /\ Sound(disk, config, Path(i)) => Path(i) \in Q
  BY DEF ListedTo
<1> HIDE DEF p, wanted, R, Q
<1>6. ASSUME NEW i \in 1..Len(Entries), i < k, i > visit
      PROVE  ~Entered(ignore, Path(i)) /\ ~Entered(ignore, Parent(Path(i)))
  <2>1. i \in (visit + 1)..(k - 1) /\ Path(i) \in Paths /\ Path(i) # <<>> /\ k # visit + 1
    BY <1>0, <1>6
  <2>2. Walk!Under(p, Path(i)) /\ ~Opened(ignore, p)
    BY <1>2, <1>4, <2>1
  <2>3. Prefix(p, Path(i)) /\ Prefix(p, Parent(Path(i))) /\ Parent(Path(i)) \in Paths
    BY <1>1, <2>1, <2>2, UnderIs, ParentIs
  <2>4. ~Entered(ignore, p)
    BY <1>1, <2>2, EnteredFacts
  <2> QED BY <1>1, <2>1, <2>3, <2>4, EnteredFacts
<1>7. \A i \in 1..Len(Entries) : i < k => i < visit \/ i = visit \/ i > visit
  BY <1>0
<1>8. ASSUME NEW i \in 1..Len(Entries), i < k, Entries[i].kind = "dir", Entered(ignore, Path(i))
      PROVE  Path(i) \notin unlisted
  <2>1. CASE i < visit
    BY <1>5, <1>8, <2>1
  <2>2. CASE i = visit
    <3>1. Entered(ignore, p) /\ Entries[visit].kind = "dir"
      BY <1>8, <2>2 DEF p
    <3>2. Opened(ignore, p)
      BY <1>1, <3>1, EnteredFacts
    <3> QED BY <1>3, <2>2, <3>1, <3>2 DEF p
  <2> QED BY <1>6, <1>7, <1>8, <2>1, <2>2
<1>9. ASSUME NEW q \in R
      PROVE  \E i \in 1..Len(Entries) :
               /\ i < k /\ q = Path(i) /\ Entries[i].kind = "file" /\ Wanted(ignore, q)
               /\ q \in touched \/ Sound(disk, config, q)
  <2>1. CASE q \in Q
    <3>1. PICK i \in 1..Len(Entries) :
            /\ i < visit /\ q = Path(i) /\ Entries[i].kind = "file" /\ Wanted(ignore, q)
            /\ q \in touched \/ Sound(disk, config, q)
      BY <1>5, <2>1
    <3>2. i < k
      BY <1>0, <3>1
    <3> QED BY <3>1, <3>2
  <2>2. CASE q \notin Q
    <3>1. q = p /\ wanted /\ Entered(ignore, Parent(p))
      BY <1>2, <1>9, <2>2
    <3> QED BY <1>0, <3>1 DEF Wanted, wanted, p
  <2> QED BY <2>1, <2>2
<1>10. ASSUME NEW i \in 1..Len(Entries), i < k, Entries[i].kind = "file", Path(i) \notin touched,
              Wanted(ignore, Path(i)), Sound(disk, config, Path(i))
       PROVE  Path(i) \in R
  <2>1. CASE i < visit
    BY <1>2, <1>5, <1>10, <2>1
  <2>2. CASE i = visit
    BY <1>2, <1>10, <2>2 DEF Wanted, wanted, p
  <2>3. CASE i > visit
    BY <1>6, <1>10, <2>3 DEF Wanted
  <2> QED BY <1>7, <1>10, <2>1, <2>2, <2>3
<1> QED BY <1>8, <1>9, <1>10 DEF ListedTo, R

LEMMA RangeAppend ==
  ASSUME NEW s, NEW n \in Nat, s = [i \in 1..n |-> s[i]], NEW x
  PROVE  /\ Walk!Range(Append(s, x)) = Walk!Range(s) \cup {x}
         /\ Append(s, x) = [i \in 1..(n + 1) |-> Append(s, x)[i]] /\ Len(s) = n
<1> DEFINE S == Walk!Range(s) \cup {x}
           t == Append(s, x)
<1>1. \A i \in 1..n : s[i] \in S
  BY DEF Walk!Range
<1>2. s \in Seq(S) /\ Len(s) = n
  <2> HIDE DEF S
  <2> QED BY <1>1
<1>3. x \in S
  OBVIOUS
<1>4. t \in Seq(S) /\ Len(t) = n + 1 /\ t[n + 1] = x /\ \A i \in 1..n : t[i] = s[i]
  <2> HIDE DEF S
  <2> QED BY <1>2, <1>3
<1> HIDE DEF t
<1>5. DOMAIN t = 1..(n + 1) /\ DOMAIN s = 1..n /\ t = [i \in 1..(n + 1) |-> t[i]]
  <2> HIDE DEF S
  <2> QED BY <1>2, <1>4
<1>6. \A i \in 1..(n + 1) : i = n + 1 \/ i \in 1..n
  OBVIOUS
<1>7. n + 1 \in 1..(n + 1) /\ \A i \in 1..n : i \in 1..(n + 1)
  OBVIOUS
<1>8. Walk!Range(t) = Walk!Range(s) \cup {x}
  BY <1>4, <1>5, <1>6, <1>7 DEF Walk!Range
<1> QED BY <1>2, <1>5, <1>8 DEF t

LEMMA WalkMatcherDone == ASSUME WalkInv, Walk!NewMatcher PROVE WalkInv'
<1>1. /\ visit = Len(Entries) + 1 /\ Len(Entries) \in Nat /\ Walk!EntriesAssumption
      /\ walker = "matcher" /\ listed = <<>>
      /\ GatheredTo(ignore, unlisted, collected, Len(Entries) + 1)
  <2>1. Walk!EntriesAssumption /\ visit \in 1..(Len(Entries) + 1) /\ visit > Len(Entries) /\ walker = "matcher"
    BY DEF WalkInv, Walk!NewMatcher
  <2>2. Len(Entries) \in Nat
    BY <2>1, EntryFacts
  <2>3. visit = Len(Entries) + 1
    BY <2>1, <2>2
  <2> QED BY <2>1, <2>2, <2>3 DEF WalkInv
<1>2. /\ walker' = "walk" /\ visit' = 1 /\ stack' = Walk!ScopesOf(Walk!Root)
      /\ UNCHANGED <<collected, listed, disk, unlisted, ignore, config, touched>>
  BY DEF Walk!NewMatcher, Walk!Fixed
<1>3. StackOf(ignore, stack', <<>>) /\ Onward(1, <<>>) /\ <<>> \in Paths
  BY <1>1, <1>2, StackRoot DEF Paths
<1>4. ListedTo(ignore, unlisted, disk, config, listed, touched, 1)
  <2>1. Walk!Range(listed) = {}
    BY <1>1 DEF Walk!Range
  <2>2. \A i \in 1..Len(Entries) : ~(i < 1)
    OBVIOUS
  <2> QED BY <2>1, <2>2 DEF ListedTo
<1>5. (\E d \in Paths : StackOf(ignore, stack, d) /\ Onward(visit, d))'
  BY <1>2, <1>3
<1>6. visit' \in 1..(Len(Entries) + 1)
  BY <1>1, <1>2
<1>7. /\ (DOMAIN disk = Walk!Regular /\ disk = [q \in Walk!Regular |-> disk[q]])'
      /\ (\E n \in Nat : listed = [i \in 1..n |-> listed[i]])'
      /\ Walk!EntriesAssumption'
  BY <1>2 DEF WalkInv, Walk!EntriesAssumption
<1> QED BY <1>1, <1>2, <1>4, <1>5, <1>6, <1>7 DEF WalkInv

\* The walk has failed: it returns nothing.
LEMMA WalkFails ==
  ASSUME WalkInv, walker = "walk", walker' = "failed", listed' = <<>>,
         UNCHANGED <<visit, collected, disk, unlisted, ignore, config, touched>>
  PROVE  WalkInv'
<1>1. (\E n \in Nat : listed = [i \in 1..n |-> listed[i]])'
  <2>1. listed' = [i \in 1..0 |-> listed'[i]]
    OBVIOUS
  <2> QED BY <2>1
<1>2. GatheredTo(ignore, unlisted, collected, Len(Entries) + 1)
  BY DEF WalkInv
<1>3. /\ (DOMAIN disk = Walk!Regular /\ disk = [q \in Walk!Regular |-> disk[q]])'
      /\ Walk!EntriesAssumption'
  BY DEF WalkInv, Walk!EntriesAssumption
<1> QED BY <1>1, <1>2, <1>3 DEF WalkInv

\* The walk goes on, with its stack.
LEMMA WalkGoesOn ==
  ASSUME WalkInv, walker = "walk", walker' = "walk", visit' \in 1..(Len(Entries) + 1),
         UNCHANGED <<collected, disk, unlisted, ignore, config, touched>>,
         \E n \in Nat : listed' = [i \in 1..n |-> listed'[i]],
         \E d \in Paths : StackOf(ignore, stack', d) /\ Onward(visit', d),
         ListedTo(ignore, unlisted, disk, config, listed', touched, visit')
  PROVE  WalkInv'
<1>1. GatheredTo(ignore, unlisted, collected, Len(Entries) + 1)
  BY DEF WalkInv
<1>2. /\ (DOMAIN disk = Walk!Regular /\ disk = [q \in Walk!Regular |-> disk[q]])'
      /\ Walk!EntriesAssumption'
  BY DEF WalkInv, Walk!EntriesAssumption
<1>3. (\E d \in Paths : StackOf(ignore, stack, d) /\ Onward(visit, d))'
  OBVIOUS
<1> QED BY <1>1, <1>2, <1>3 DEF WalkInv

LEMMA WalkVisitDir == ASSUME WalkInv, Walk!VisitDir PROVE WalkInv'
<1> DEFINE p == Path(visit)
           act == Walk!Active
<1>1. /\ visit \in 1..Len(Entries) /\ walker = "walk" /\ Len(Entries) \in Nat
      /\ Walk!EntriesAssumption /\ Entries[visit].kind = "dir"
      /\ ListedTo(ignore, unlisted, disk, config, listed, touched, visit)
      /\ \E n \in Nat : listed = [i \in 1..n |-> listed[i]]
  BY EntryFacts DEF WalkInv, Walk!VisitDir, Walk!Entry
<1>2. PICK c \in Paths : StackOf(ignore, stack, c) /\ Onward(visit, c)
  BY <1>1 DEF WalkInv
<1>3. StackOf(ignore, act, Parent(p)) /\ (Walk!Enters(act) <=> Opened(ignore, p))
  BY <1>1, <1>2, ActiveIs
<1>4. Walk!Entry.path = p /\ p \in Paths /\ p # <<>> /\ Parent(p) \in Paths
  BY <1>1, EntryFacts, ParentIs DEF Path, Walk!Entry
<1>5. /\ Walk!Beyond \in (visit + 1)..(Len(Entries) + 1)
      /\ \A j \in (visit + 1)..(Walk!Beyond - 1) : Walk!Under(p, Path(j))
      /\ Walk!Beyond <= Len(Entries) => ~Walk!Under(p, Path(Walk!Beyond))
  BY <1>1, BeyondIs
<1>6. visit + 1 \in (visit + 1)..(Len(Entries) + 1) /\ \A j \in (visit + 1)..((visit + 1) - 1) : FALSE
  BY <1>1
<1>7. p \notin Walk!Range(listed)
  <2> SUFFICES ASSUME p \in Walk!Range(listed) PROVE FALSE
    OBVIOUS
  <2>1. PICK i \in 1..Len(Entries) : i < visit /\ p = Path(i)
    BY <1>1 DEF ListedTo
  <2>2. i = visit
    BY <1>1, <2>1, EntryFacts
  <2> QED BY <1>1, <2>1, <2>2
<1> HIDE DEF act, p
<1>8. UNCHANGED <<collected, disk, unlisted, ignore, config, touched>>
  BY DEF Walk!VisitDir, Walk!Fixed
<1>9. CASE ~Opened(ignore, p)
  <2>1. visit' = Walk!Beyond /\ stack' = act /\ walker' = walker /\ listed' = listed
    BY <1>3, <1>9 DEF Walk!VisitDir, act
  <2>2. Onward(visit', Parent(p))
    BY <1>1, <1>5, <2>1, OnwardIs DEF p
  <2>3. ListedTo(ignore, unlisted, disk, config, listed, touched, visit')
    BY <1>1, <1>5, <1>7, <1>9, <2>1, Lists DEF p
  <2>4. visit' \in 1..(Len(Entries) + 1)
    BY <1>1, <1>5, <2>1
  <2>5. \E d \in Paths : StackOf(ignore, stack', d) /\ Onward(visit', d)
    BY <1>3, <1>4, <2>1, <2>2
  <2> QED BY <1>1, <1>8, <2>1, <2>3, <2>4, <2>5, WalkGoesOn
<1>10. CASE Opened(ignore, p) /\ p \in unlisted
  <2>1. walker' = "failed" /\ listed' = <<>> /\ UNCHANGED <<visit, stack>>
    BY <1>3, <1>4, <1>10 DEF Walk!VisitDir, act
  <2> QED BY <1>1, <1>8, <2>1, WalkFails
<1>11. CASE Opened(ignore, p) /\ p \notin unlisted
  <2>1. visit' = visit + 1 /\ stack' = act \o Walk!ScopesOf(p) /\ walker' = walker /\ listed' = listed
    BY <1>3, <1>4, <1>11 DEF Walk!VisitDir, act
  <2>2. StackOf(ignore, stack', p)
    BY <1>3, <1>4, <1>11, <2>1, StackInto
  <2>3. Onward(visit', p)
    BY <1>1, <1>6, <2>1, OnwardIs DEF p
  <2>4. ListedTo(ignore, unlisted, disk, config, listed, touched, visit')
    BY <1>1, <1>6, <1>7, <1>11, <2>1, Lists DEF p
  <2>5. visit' \in 1..(Len(Entries) + 1)
    BY <1>1, <2>1
  <2>6. \E d \in Paths : StackOf(ignore, stack', d) /\ Onward(visit', d)
    BY <1>4, <2>2, <2>3
  <2> QED BY <1>1, <1>8, <2>1, <2>4, <2>5, <2>6, WalkGoesOn
<1> QED BY <1>9, <1>10, <1>11

LEMMA WalkVisitFile == ASSUME WalkInv, Walk!VisitFile PROVE WalkInv'
<1> DEFINE p == Path(visit)
           act == Walk!Active
           good == Entries[visit].kind = "file" /\ ~Barred(ignore, p, FALSE) /\ Sound(disk, config, p)
<1>1. /\ visit \in 1..Len(Entries) /\ walker = "walk" /\ Len(Entries) \in Nat
      /\ Walk!EntriesAssumption /\ Entries[visit].kind # "dir"
      /\ ListedTo(ignore, unlisted, disk, config, listed, touched, visit)
      /\ \E n \in Nat : listed = [i \in 1..n |-> listed[i]]
  BY EntryFacts DEF WalkInv, Walk!VisitFile, Walk!Entry
<1>2. PICK c \in Paths : StackOf(ignore, stack, c) /\ Onward(visit, c)
  BY <1>1 DEF WalkInv
<1>3. StackOf(ignore, act, Parent(p)) /\ (Walk!MatchScopes(act, p, FALSE) <=> Barred(ignore, p, FALSE))
  BY <1>1, <1>2, ActiveIs
<1>4. /\ Walk!Entry.path = p /\ Walk!Entry.kind = Entries[visit].kind
      /\ p \in Paths /\ p # <<>> /\ Parent(p) \in Paths
  BY <1>1, EntryFacts, ParentIs DEF Path, Walk!Entry
<1>5. visit + 1 \in (visit + 1)..(Len(Entries) + 1) /\ \A j \in (visit + 1)..((visit + 1) - 1) : FALSE
  BY <1>1
<1>6. p \notin Walk!Range(listed)
  <2> SUFFICES ASSUME p \in Walk!Range(listed) PROVE FALSE
    OBVIOUS
  <2>1. PICK i \in 1..Len(Entries) : i < visit /\ p = Path(i)
    BY <1>1 DEF ListedTo
  <2>2. i = visit
    BY <1>1, <2>1, EntryFacts
  <2> QED BY <1>1, <2>1, <2>2
<1>7. Walk!Admitted(p) <=> Sound(disk, config, p)
  BY SoundIs
<1>8. Entered(ignore, Parent(p))
  BY <1>3 DEF StackOf
<1> HIDE DEF act, p
<1>9. UNCHANGED <<collected, disk, unlisted, ignore, config, touched>> /\ stack' = act
  BY DEF Walk!VisitFile, Walk!Fixed, act
<1>10. Onward(visit + 1, Parent(p))
  BY <1>1, <1>5, OnwardIs DEF p
<1>11. visit + 1 \in 1..(Len(Entries) + 1)
  BY <1>1
<1>12. CASE ~good
  <2>1. visit' = visit + 1 /\ walker' = walker /\ listed' = listed
    BY <1>3, <1>4, <1>7, <1>12 DEF Walk!VisitFile, act
  <2>2. ListedTo(ignore, unlisted, disk, config, listed, touched, visit')
    BY <1>1, <1>5, <1>6, <1>12, <2>1, Lists DEF p
  <2>3. \E d \in Paths : StackOf(ignore, stack', d) /\ Onward(visit', d)
    BY <1>3, <1>4, <1>9, <1>10, <2>1
  <2> QED BY <1>1, <1>9, <1>11, <2>1, <2>2, <2>3, WalkGoesOn
<1>13. CASE good
  <2>1. \/ walker' = "failed" /\ listed' = <<>> /\ visit' = visit
        \/ walker' = walker /\ listed' = Append(listed, p) /\ visit' = visit + 1
    BY <1>3, <1>4, <1>7, <1>13 DEF Walk!VisitFile, act
  <2>2. CASE walker' = "failed" /\ listed' = <<>> /\ visit' = visit
    BY <1>1, <1>9, <2>2, WalkFails
  <2>3. CASE walker' = walker /\ listed' = Append(listed, p) /\ visit' = visit + 1
    <3>1. PICK n \in Nat : listed = [i \in 1..n |-> listed[i]]
      BY <1>1
    <3>2. /\ Walk!Range(listed') = Walk!Range(listed) \cup {p}
          /\ listed' = [i \in 1..(n + 1) |-> listed'[i]] /\ n + 1 \in Nat
      BY <2>3, <3>1, RangeAppend
    <3>3. ListedTo(ignore, unlisted, disk, config, listed', touched, visit')
      BY <1>1, <1>5, <1>8, <1>13, <2>3, <3>2, Lists DEF p
    <3>4. \E d \in Paths : StackOf(ignore, stack', d) /\ Onward(visit', d)
      BY <1>3, <1>4, <1>9, <1>10, <2>3
    <3>5. \E m \in Nat : listed' = [i \in 1..m |-> listed'[i]]
      BY <3>2
    <3> QED BY <1>1, <1>9, <1>11, <2>3, <3>3, <3>4, <3>5, WalkGoesOn
  <2> QED BY <2>1, <2>2, <2>3
<1> QED BY <1>12, <1>13

LEMMA WalkEnds == ASSUME WalkInv, Walk!WalkDone PROVE WalkInv'
<1>1. /\ walker' = "done" /\ walker = "walk"
      /\ UNCHANGED <<visit, stack, collected, listed, disk, unlisted, ignore, config, touched>>
  BY DEF Walk!WalkDone, Walk!Fixed
<1>2. /\ visit = Len(Entries) + 1
      /\ ListedTo(ignore, unlisted, disk, config, listed, touched, visit)
      /\ GatheredTo(ignore, unlisted, collected, Len(Entries) + 1)
  <2>1. visit \in 1..(Len(Entries) + 1) /\ visit > Len(Entries) /\ Len(Entries) \in Nat
    BY EntryFacts DEF WalkInv, Walk!WalkDone
  <2>2. visit = Len(Entries) + 1
    BY <2>1
  <2> QED BY <1>1, <2>2 DEF WalkInv
<1>3. /\ (DOMAIN disk = Walk!Regular /\ disk = [q \in Walk!Regular |-> disk[q]])'
      /\ Walk!EntriesAssumption' /\ visit' \in 1..(Len(Entries) + 1)
      /\ (\E n \in Nat : listed = [i \in 1..n |-> listed[i]])'
  BY <1>1 DEF WalkInv, Walk!EntriesAssumption
<1> QED BY <1>1, <1>2, <1>3 DEF WalkInv

\* A file rewritten meanwhile is excepted.
LEMMA WalkTouch ==
  ASSUME WalkInv, NEW p \in Walk!Regular, NEW c \in Contents, Walk!Touch(p, c)
  PROVE  WalkInv'
<1>1. /\ walker = "walk" /\ disk' = [disk EXCEPT ![p] = c] /\ touched' = touched \cup {p}
      /\ UNCHANGED <<unlisted, ignore, config, walker, visit, stack, collected, listed>>
  BY DEF Walk!Touch
<1>2. /\ DOMAIN disk = Walk!Regular /\ Walk!EntriesAssumption /\ visit \in 1..(Len(Entries) + 1)
      /\ \E n \in Nat : listed = [i \in 1..n |-> listed[i]]
      /\ \E d \in Paths : StackOf(ignore, stack, d) /\ Onward(visit, d)
      /\ GatheredTo(ignore, unlisted, collected, Len(Entries) + 1)
      /\ ListedTo(ignore, unlisted, disk, config, listed, touched, visit)
  BY <1>1 DEF WalkInv
<1>3. disk' = [q \in Walk!Regular |-> disk'[q]] /\ DOMAIN disk' = Walk!Regular
  BY <1>1, <1>2
<1>4. \A q : q \notin touched' => q \notin touched /\ (q \in Walk!Regular => disk'[q] = disk[q])
  BY <1>1, <1>2
<1>5. \A i \in 1..Len(Entries) : Entries[i].kind = "file" => Path(i) \in Walk!Regular
  BY <1>2, EntryFacts DEF Walk!Regular, Path
<1>6. \A q \in Walk!Regular : q \notin touched' => (Sound(disk', config, q) <=> Sound(disk, config, q))
  BY <1>4 DEF Sound
<1>7. touched \subseteq touched'
  BY <1>1
<1>8. ListedTo(ignore, unlisted, disk', config, listed, touched', visit)
  <2>1. ASSUME NEW q \in Walk!Range(listed)
        PROVE  \E i \in 1..Len(Entries) :
                 /\ i < visit /\ q = Path(i) /\ Entries[i].kind = "file" /\ Wanted(ignore, q)
                 /\ q \in touched' \/ Sound(disk', config, q)
    <3>1. PICK i \in 1..Len(Entries) :
            /\ i < visit /\ q = Path(i) /\ Entries[i].kind = "file" /\ Wanted(ignore, q)
            /\ q \in touched \/ Sound(disk, config, q)
      BY <1>2 DEF ListedTo
    <3> QED BY <1>5, <1>6, <1>7, <3>1
  <2>2. ASSUME NEW i \in 1..Len(Entries), i < visit, Entries[i].kind = "file", Path(i) \notin touched',
               Wanted(ignore, Path(i)), Sound(disk', config, Path(i))
        PROVE  Path(i) \in Walk!Range(listed)
    <3>1. Path(i) \notin touched /\ Sound(disk, config, Path(i))
      BY <1>5, <1>6, <1>7, <2>2
    <3> QED BY <1>2, <2>2, <3>1 DEF ListedTo
  <2>3. \A i \in 1..Len(Entries) :
          i < visit /\ Entries[i].kind = "dir" /\ Entered(ignore, Path(i)) => Path(i) \notin unlisted
    BY <1>2 DEF ListedTo
  <2> QED BY <2>1, <2>2, <2>3 DEF ListedTo
<1>9. (\E d \in Paths : StackOf(ignore, stack, d) /\ Onward(visit, d))'
  BY <1>1, <1>2
<1>10. (\E n \in Nat : listed = [i \in 1..n |-> listed[i]])' /\ Walk!EntriesAssumption'
  BY <1>1, <1>2 DEF Walk!EntriesAssumption
<1> QED BY <1>1, <1>2, <1>3, <1>8, <1>9, <1>10 DEF WalkInv

LEMMA WalkNext == WalkInv /\ [Walk!Next]_Walk!vars => WalkInv'
<1> SUFFICES ASSUME WalkInv, [Walk!Next]_Walk!vars PROVE WalkInv'
  OBVIOUS
<1>1. CASE UNCHANGED Walk!vars
  <2>1. UNCHANGED <<disk, unlisted, ignore, config, walker, visit, stack, collected, listed, touched>>
    BY <1>1 DEF Walk!vars
  <2>2. (\E c \in Paths : StackOf(ignore, stack, c) /\ Onward(visit, c))' <=>
          \E c \in Paths : StackOf(ignore, stack, c) /\ Onward(visit, c)
    BY <2>1
  <2> QED BY <2>1, <2>2 DEF WalkInv, Walk!EntriesAssumption
<1> QED BY <1>1, WalkCollect, WalkMatcherDone, WalkVisitDir, WalkVisitFile, WalkEnds, WalkTouch
       DEF Walk!Next

\* After the walk, below directories it entered the matcher judges by the same
\* rules.
LEMMA CollectedIs ==
  ASSUME WalkInv, walker = "done", NEW i \in 1..Len(Entries), NEW n \in 1..Len(Path(i)),
         Entered(ignore, Parent(Upto(Path(i), n)))
  PROVE  \A isDir : Walk!MatchScopes(collected, Upto(Path(i), n), isDir) <=> Barred(ignore, Upto(Path(i), n), isDir)
<1> DEFINE p == Path(i)
           q == Upto(p, n)
<1>0. /\ Walk!EntriesAssumption /\ visit = Len(Entries) + 1
      /\ GatheredTo(ignore, unlisted, collected, Len(Entries) + 1)
      /\ ListedTo(ignore, unlisted, disk, config, listed, touched, visit)
  BY DEF WalkInv
<1>1. p \in Paths /\ p # <<>> /\ Len(Entries) \in Nat /\ Len(p) \in Nat /\ n \in 0..Len(p)
  BY <1>0, EntryFacts DEF Paths
<1>2. q \in Paths /\ Len(q) = n /\ Prefix(q, p)
  BY <1>1, UptoFacts
<1>3. q # <<>>
  BY <1>2 DEF Paths
<1>4. /\ Parent(q) \in Paths /\ Len(Parent(q)) = n - 1
      /\ \A a \in Paths : Prefix(a, Parent(q)) <=> Walk!Under(a, q)
  BY <1>2, <1>3, ParentIs
<1> HIDE DEF q, p
\* A directory above is entered, and so can be read.
<1>5. ASSUME NEW d \in Paths, d # <<>>, Prefix(d, Parent(q))
      PROVE  \E j \in 1..Len(Entries) :
               Entries[j].kind = "dir" /\ Path(j) = d /\ Entered(ignore, d) /\ d \notin unlisted
  <2>1. Entered(ignore, d)
    BY <1>4, <1>5, EnteredFacts DEF q, p
  <2>2. Walk!Under(d, q)
    BY <1>4, <1>5
  <2>3. Prefix(d, p) /\ Len(d) < Len(p)
    <3>1. Prefix(d, q) /\ Len(d) < Len(q)
      BY <1>2, <2>2, UnderIs
    <3>2. Prefix(d, p) /\ Len(q) <= Len(p) /\ Len(d) \in Nat
      BY <1>1, <1>2, <3>1, PrefixOrder DEF Paths, Prefix
    <3> QED BY <1>1, <1>2, <3>1, <3>2
  <2>4. Walk!Under(d, Path(i))
    BY <1>1, <2>3, UnderIs DEF p
  <2>5. PICK j \in 1..(i - 1) : j \in 1..Len(Entries) /\ Entries[j].kind = "dir" /\ Path(j) = d
    BY <1>0, <1>5, <2>4, EntryAbove
  <2>6. j < visit
    BY <1>0, <1>1, <2>5
  <2>7. d \notin unlisted
    BY <1>0, <2>1, <2>5, <2>6 DEF ListedTo
  <2> QED BY <2>1, <2>5, <2>7
<1>6. ASSUME NEW l \in 0..(Len(q) - 1) PROVE Holds(ignore, collected, Upto(q, l))
  <2> DEFINE d == Upto(q, l)
  <2>1. l \in 0..Len(q) /\ l < Len(q)
    BY <1>1, <1>2
  <2>2. d \in Paths /\ Len(d) = l /\ Prefix(d, q)
    BY <1>2, <2>1, UptoFacts
  <2>3. Prefix(d, Parent(q))
    BY <1>2, <1>4, <2>1, <2>2, UnderIs
  <2> HIDE DEF d
  <2>4. CASE d = <<>>
    BY <1>0, <2>4 DEF GatheredTo, d
  <2>5. CASE d # <<>>
    <3>1. PICK j \in 1..Len(Entries) : Entries[j].kind = "dir" /\ Path(j) = d /\ Entered(ignore, d)
      BY <1>5, <2>2, <2>3, <2>5
    <3>2. ASSUME NEW m \in 1..(Len(d) - 1) PROVE Upto(d, m) \notin unlisted
      <4>1. m \in 0..Len(d) /\ m # 0
        BY <2>1, <2>2
      <4>2. Upto(d, m) \in Paths /\ Len(Upto(d, m)) = m /\ Prefix(Upto(d, m), d)
        BY <2>2, <4>1, UptoFacts
      <4>3. Prefix(Upto(d, m), Parent(q)) /\ Upto(d, m) # <<>>
        BY <1>4, <2>2, <2>3, <4>1, <4>2, PrefixOrder
      <4> QED BY <1>5, <4>2, <4>3
    <3>3. Reached(ignore, unlisted, Path(j)) /\ j < Len(Entries) + 1
      BY <1>1, <3>1, <3>2 DEF Reached
    <3> QED BY <1>0, <3>1, <3>3 DEF GatheredTo, d
  <2> QED BY <2>4, <2>5
<1>7. \A isDir : Walk!MatchScopes(collected, q, isDir) <=> Barred(ignore, q, isDir)
  BY <1>0, <1>2, <1>3, <1>6, VerdictIs DEF GatheredTo
<1> QED BY <1>7 DEF q, p

\* The directories above an entry are all entered just when none is of the
\* repository's own and the matcher excludes none.
LEMMA AboveAgree ==
  ASSUME WalkInv, walker = "done", NEW i \in 1..Len(Entries)
  PROVE  /\ Entered(ignore, Parent(Path(i))) =>
              \A n \in 1..(Len(Path(i)) - 1) :
                ~Walk!MatchScopes(collected, Upto(Path(i), n), TRUE) /\ Opened(ignore, Upto(Path(i), n))
         /\ (\A n \in 1..(Len(Path(i)) - 1) : Path(i)[n] \notin Walk!Own) =>
              (Entered(ignore, Parent(Path(i))) <=> ~Walk!AncestorDirExcluded(Path(i)))
<1> DEFINE p == Path(i)
           up == Parent(p)
<1>1. p \in Paths /\ p # <<>> /\ Len(p) \in Nat
  BY EntryFacts DEF WalkInv, Paths
<1>2. /\ up \in Paths /\ Len(up) = Len(p) - 1 /\ Prefix(up, p)
      /\ \A n \in 0..(Len(p) - 1) : Upto(up, n) = Upto(p, n)
  BY <1>1, ParentIs
<1>3. ASSUME NEW n \in 1..(Len(p) - 1)
      PROVE  /\ n \in 1..Len(p) /\ n - 1 \in 0..(Len(p) - 1) /\ n \in 1..Len(up) /\ Upto(up, n) = Upto(p, n)
             /\ Upto(p, n) \in Paths /\ Len(Upto(p, n)) = n /\ Upto(p, n)[n] = p[n]
             /\ Upto(p, n) # <<>> /\ Parent(Upto(p, n)) = Upto(p, n - 1)
  <2>1. n \in 1..Len(p) /\ n \in 0..Len(p) /\ n \in 0..(Len(p) - 1) /\ n - 1 \in 0..(Len(p) - 1) /\ n \in 1..n
        /\ n - 1 \in 0..n /\ n # 0
    BY <1>1
  <2>2. Upto(p, n) \in Paths /\ Len(Upto(p, n)) = n /\ Prefix(Upto(p, n), p) /\ Upto(p, n)[n] = p[n]
    BY <1>1, <2>1, UptoFacts
  <2>3. Upto(p, n) # <<>>
    BY <2>1, <2>2
  <2>4. Upto(Upto(p, n), n - 1) = Upto(p, n - 1)
    BY <1>1, <2>1, <2>2, UptoOf
  <2> QED BY <1>1, <1>2, <2>1, <2>2, <2>3, <2>4 DEF Parent
<1>4. ASSUME NEW n \in 1..(Len(p) - 1), Entered(ignore, Upto(p, n - 1))
      PROVE  Walk!MatchScopes(collected, Upto(p, n), TRUE) <=> Barred(ignore, Upto(p, n), TRUE)
  BY <1>3, <1>4, CollectedIs
<1>5. ASSUME Entered(ignore, up), NEW n \in 1..(Len(p) - 1)
      PROVE  ~Walk!MatchScopes(collected, Upto(p, n), TRUE) /\ Opened(ignore, Upto(p, n))
  <2>1. Opened(ignore, Upto(p, n))
    BY <1>2, <1>3, <1>5, EnteredFacts
  <2>2. Entered(ignore, Upto(p, n - 1))
    <3>1. n - 1 \in 0..Len(p) /\ n - 1 \in 0..Len(up) /\ Upto(up, n - 1) = Upto(p, n - 1)
      BY <1>1, <1>2, <1>3
    <3>2. Upto(up, n - 1) \in Paths /\ Prefix(Upto(up, n - 1), up)
      BY <1>2, <3>1, UptoFacts
    <3> QED BY <1>2, <1>5, <3>1, <3>2, EnteredFacts
  <2> QED BY <1>4, <2>1, <2>2 DEF Opened
<1>6. Walk!AncestorDirExcluded(p) <=> \E n \in 1..(Len(p) - 1) : Walk!MatchScopes(collected, Upto(p, n), TRUE)
  BY DEF Walk!AncestorDirExcluded, Upto
<1>7. ASSUME \A n \in 1..(Len(p) - 1) : p[n] \notin Walk!Own, ~Entered(ignore, up)
      PROVE  Walk!AncestorDirExcluded(p)
  <2> DEFINE shut == {n \in 1..(Len(p) - 1) : ~Opened(ignore, Upto(p, n))}
  <2>1. shut # {} /\ shut \subseteq Nat
    <3>1. PICK l \in 1..Len(up) : ~Opened(ignore, Upto(up, l))
      BY <1>7 DEF Entered
    <3>2. l \in 1..(Len(p) - 1)
      BY <1>2
    <3>3. Upto(up, l) = Upto(p, l)
      BY <1>3, <3>2
    <3>4. l \in shut
      BY <3>1, <3>2, <3>3
    <3>5. \A n \in 1..(Len(p) - 1) : n \in Nat
      OBVIOUS
    <3> QED BY <3>4, <3>5
  <2>2. PICK n \in shut : \A m \in shut : n <= m
    <3> HIDE DEF shut
    <3> QED BY <2>1, Least
  <2>3. n \in 1..(Len(p) - 1) /\ ~Opened(ignore, Upto(p, n)) /\ n - 1 \in 0..Len(p)
    BY <1>1, <2>2
  <2>4. Entered(ignore, Upto(p, n - 1))
    <3>1. Upto(p, n - 1) \in Paths /\ Len(Upto(p, n - 1)) = n - 1 /\ Prefix(Upto(p, n - 1), p)
      BY <1>1, <2>3, UptoFacts
    <3> SUFFICES ASSUME NEW l \in 1..(n - 1) PROVE Opened(ignore, Upto(Upto(p, n - 1), l))
      BY <3>1 DEF Entered
    <3>2. l \in 0..(n - 1) /\ l \in 1..(Len(p) - 1) /\ ~(n <= l)
      BY <1>1, <2>3
    <3>3. Upto(Upto(p, n - 1), l) = Upto(p, l)
      BY <1>1, <3>1, <3>2, UptoOf
    <3>4. l \notin shut
      BY <2>2, <3>2
    <3> QED BY <3>2, <3>3, <3>4
  <2>5. Barred(ignore, Upto(p, n), TRUE)
    BY <1>3, <1>7, <2>3 DEF Opened
  <2> QED BY <1>4, <1>6, <2>3, <2>4, <2>5
<1>8. Entered(ignore, up) => ~Walk!AncestorDirExcluded(p)
  BY <1>5, <1>6
<1> QED BY <1>5, <1>7, <1>8

LEMMA WalksSame == WalkInv => Walk!WalkAgrees
<1> SUFFICES ASSUME WalkInv, walker = "done" PROVE Walk!WalkAgrees
  BY DEF Walk!WalkAgrees
<1>0. /\ Walk!EntriesAssumption /\ visit = Len(Entries) + 1
      /\ ListedTo(ignore, unlisted, disk, config, listed, touched, visit)
  BY DEF WalkInv
<1>1. /\ Len(Entries) \in Nat /\ DOMAIN Entries = 1..Len(Entries)
      /\ \A i \in 1..Len(Entries) : Path(i) \in Paths /\ Path(i) # <<>>
      /\ \A i, j \in 1..Len(Entries) : Path(i) = Path(j) => i = j
  BY <1>0, EntryFacts
<1>2. \A i \in 1..Len(Entries) : i < visit
  BY <1>0, <1>1
<1>3. ASSUME NEW p \in Walk!Regular \ touched, Walk!Ordinary(p)
      PROVE  p \in Walk!Range(listed) <=> Walk!ShouldIndex(p)
  <2>1. PICK i \in 1..Len(Entries) : p = Path(i) /\ Entries[i].kind = "file"
    BY <1>1 DEF Walk!Regular, Path
  <2>2. p \in Paths /\ p # <<>> /\ Len(p) \in Nat /\ DOMAIN p = 1..Len(p) /\ Len(p) >= 1
    <3>1. p \in Paths /\ p # <<>>
      BY <1>1, <2>1
    <3> QED BY <3>1, ParentIs DEF Paths
  <2>3. \A n \in 1..Len(p) : p[n] \notin Walk!Own
    <3> SUFFICES ASSUME NEW n \in 1..Len(p) PROVE p[n] \notin Walk!Own
      OBVIOUS
    <3>1. p[n] \in Walk!Range(p)
      BY <2>2 DEF Walk!Range
    <3> QED BY <1>3, <3>1 DEF Walk!Ordinary
  <2>4. p[1] \notin Walk!Own /\ \A n \in 1..(Len(p) - 1) : p[n] \notin Walk!Own
    BY <2>2, <2>3
  <2>5. Entered(ignore, Parent(p)) <=> ~Walk!AncestorDirExcluded(p)
    BY <2>1, <2>4, AboveAgree
  <2>6. Entered(ignore, Parent(p)) => (Walk!MatchScopes(collected, p, FALSE) <=> Barred(ignore, p, FALSE))
    <3>1. Upto(p, Len(p)) = p /\ Len(p) \in 1..Len(p)
      BY <2>2 DEF Upto, Paths
    <3> QED BY <2>1, <3>1, CollectedIs
  <2>7. p \in Walk!Range(listed) <=> Wanted(ignore, p) /\ Sound(disk, config, p)
    <3>1. ASSUME p \in Walk!Range(listed) PROVE Wanted(ignore, p) /\ Sound(disk, config, p)
      BY <1>0, <1>3, <3>1 DEF ListedTo
    <3>2. ASSUME Wanted(ignore, p), Sound(disk, config, p) PROVE p \in Walk!Range(listed)
      BY <1>0, <1>2, <1>3, <2>1, <3>2 DEF ListedTo
    <3> QED BY <3>1, <3>2
  <2> QED BY <1>3, <2>4, <2>5, <2>6, <2>7, SoundIs DEF Wanted, Walk!ShouldIndex
<1>4. ASSUME NEW p \in Walk!Range(listed), NEW n \in 1..(Len(p) - 1)
      PROVE  Walk!ShouldDescend(SubSeq(p, 1, n))
  <2>1. PICK i \in 1..Len(Entries) : p = Path(i) /\ Entered(ignore, Parent(p))
    BY <1>0 DEF ListedTo, Wanted
  <2>2. p \in Paths /\ p # <<>> /\ Len(p) \in Nat /\ Len(p) > 1
    <3>1. p \in Paths /\ p # <<>> /\ Len(p) \in Nat
      BY <1>1, <2>1 DEF Paths
    <3> QED BY <3>1
  <2> DEFINE d == Upto(p, n)
  <2>3. /\ Parent(p) \in Paths /\ Len(Parent(p)) = Len(p) - 1
        /\ \A m \in 0..(Len(p) - 1) : Upto(Parent(p), m) = Upto(p, m)
    BY <2>2, ParentIs
  <2>4. d \in Paths /\ Len(d) = n /\ \A m \in 1..n : d[m] = p[m]
    <3>1. n \in 0..Len(p)
      BY <2>2
    <3> QED BY <2>2, <3>1, UptoFacts
  <2>5. p[1] \notin Walk!Own
    <3>1. 1 \in 1..Len(Parent(p)) /\ 1 \in 0..(Len(p) - 1) /\ 1 \in 0..Len(p) /\ 1 \in 1..1
      BY <2>2, <2>3
    <3>2. Opened(ignore, Upto(p, 1))
      BY <2>1, <2>3, <3>1, EnteredFacts
    <3>3. Len(Upto(p, 1)) = 1 /\ Upto(p, 1)[1] = p[1]
      BY <2>2, <3>1, UptoFacts
    <3> QED BY <3>2, <3>3 DEF Opened
  <2>6. \A m \in 1..(Len(p) - 1) : ~Walk!MatchScopes(collected, Upto(p, m), TRUE)
    BY <2>1, <2>5, AboveAgree
  <2>7. ~Walk!MatchScopes(collected, d, TRUE)
    BY <2>6
  <2>8. ~Walk!AncestorDirExcluded(d)
    <3> SUFFICES ASSUME NEW m \in 1..(Len(d) - 1) PROVE ~Walk!MatchScopes(collected, SubSeq(d, 1, m), TRUE)
      BY DEF Walk!AncestorDirExcluded
    <3>1. m \in 0..Len(d) /\ m \in 1..(Len(p) - 1)
      BY <2>2, <2>4
    <3>2. Prefix(d, p)
      <4>1. n \in 0..Len(p)
        BY <2>2
      <4> QED BY <2>2, <4>1, UptoFacts
    <3>3. Upto(d, m) = Upto(p, m)
      BY <2>2, <2>4, <3>1, <3>2, UptoOf
    <3> QED BY <2>6, <3>1, <3>3 DEF Upto
  <2>9. d[1] \notin Walk!Own
    <3>1. 1 \in 1..n
      OBVIOUS
    <3> QED BY <2>4, <2>5, <3>1
  <2> QED BY <2>7, <2>8, <2>9 DEF Walk!ShouldDescend, Upto
<1> QED BY <1>3, <1>4 DEF Walk!WalkAgrees

\* The matcher admits the files a walk lists, whatever the ignore rules on
\* every level, the unreadable directories and the files rewritten meanwhile.
THEOREM WalksAgree == PartsSpec => []WalkAgrees
<1> DEFINE Inv == part = "walk" => WalkInv
<1>1. PartsInit => Inv
  BY PartsStart, PartsAssumption, WalkInit
<1>2. Inv /\ [PartsNext]_<<part, partsVars>> => Inv'
  BY PartsStep, WalkNext
<1>3. Inv => WalkAgrees
  BY WalksSame DEF WalkAgrees
<1> QED BY <1>1, <1>2, <1>3, PTL DEF PartsSpec

-----------------------------------------------------------------------------
(* The reading of a database's schema.                                        *)

StepNames == {"tables", "constraints", "indexes", "references", "views", "routines", "samples",
              "columns", "links"}
Key(t) == <<t.schema, t.name>>
Own(f) == <<f.schema, f.table>>
Other(f) == <<f.refSchema, f.refTable>>
Order == Ds!Steps[database.engine]
Passed == Len(Order) - Len(queries)
Done(x) == \E i \in 1..Passed : Order[i] = x

\* The queries still to run are the last of the engine's.
QueriesLeft ==
  /\ database.engine \in {"postgres", "mysql", "sqlite"}
  /\ queries \in Seq(StepNames) /\ Len(queries) <= Len(Order)
  /\ \A i \in 1..Len(queries) : queries[i] = Order[Passed + i]

SchemaTypes ==
  /\ database \in Catalogs /\ ddl \in BOOLEAN /\ warnings \in BOOLEAN
  /\ DOMAIN reading = {"tables", "views", "routines"}
  /\ \A k \in DOMAIN reading.tables :
       /\ DOMAIN reading.tables[k] = {"columns", "indexes", "refs", "samples"}
       /\ \A i \in DOMAIN reading.tables[k].columns :
            DOMAIN reading.tables[k].columns[i] = {"name", "pk", "unique", "fk"}
  /\ emitted = "chunks" => queries = <<>>

\* No table is referenced from a schema that is left out.
RefsKept == \A k \in DOMAIN reading.tables : \A r \in reading.tables[k].refs : Ds!Kept(r[1])

KeptOnes == {t \in database.tables : Ds!Kept(t.schema)}
TablesRead == DOMAIN reading.tables = Ds!KeptTables
ColumnsRead ==
  /\ TablesRead
  /\ \A t \in KeptOnes :
       /\ DOMAIN reading.tables[Key(t)].columns = DOMAIN t.cols
       /\ \A i \in DOMAIN t.cols : reading.tables[Key(t)].columns[i].name = t.cols[i]
KeysRead ==
  /\ ColumnsRead
  /\ \A t \in KeptOnes : \A i \in DOMAIN t.cols :
       reading.tables[Key(t)].columns[i].pk <=> t.cols[i] \in t.pk

Links == {f \in database.fks : {Own(f), Other(f)} \subseteq Ds!KeptTables}
Clear(f, i) == /\ Ds!Alone(f, f.cols[i]) /\ Ds!Named(f)
               /\ database.engine # "postgres" \/ Ds!Simple(f)
Target(f, i) == <<f.refSchema, f.refTable, Ds!Declared(f, i)>>
LinksRead ==
  /\ KeysRead
  /\ \A f \in Links : \A i \in DOMAIN f.cols : Clear(f, i) =>
       \A j \in DOMAIN reading.tables[Own(f)].columns :
         reading.tables[Own(f)].columns[j].name = f.cols[i] =>
           reading.tables[Own(f)].columns[j].fk = {Target(f, i)}
RefsRead ==
  /\ TablesRead
  /\ \A f \in Links : \A i \in DOMAIN f.cols :
       <<f.schema, f.table, f.cols[i]>> \in reading.tables[Other(f)].refs

\* What an undisturbed reading has at each of its steps.
Undisturbed == ~ddl /\ ~warnings
ReadSoFar ==
  IF database.engine = "sqlite"
    THEN /\ Done("tables") => TablesRead
         /\ Done("columns") => KeysRead
         /\ Done("links") => LinksRead /\ RefsRead
    ELSE /\ Done("tables") => ColumnsRead
         /\ Done("constraints") => LinksRead
         /\ Done("references") => RefsRead

SchemaInv == SchemaTypes /\ QueriesLeft /\ RefsKept /\ (Undisturbed => ReadSoFar)

-----------------------------------------------------------------------------
LEMMA Orders ==
  ASSUME database.engine \in {"postgres", "mysql", "sqlite"}
  PROVE  /\ Order \in Seq(StepNames)
         /\ \A i, j \in 1..Len(Order) : Order[i] = Order[j] => i = j
         /\ Order[1] = "tables"
         /\ \A i \in 1..Len(Order) :
              /\ Order[i] = "columns" => database.engine = "sqlite" /\ i = 2
              /\ Order[i] = "links" => database.engine = "sqlite" /\ i = 3 /\ Order[2] = "columns"
              /\ Order[i] \in {"constraints", "references"} => database.engine # "sqlite"
<1>1. CASE database.engine = "sqlite"
  <2>1. Order = <<"tables", "columns", "links", "views", "samples">>
    BY <1>1 DEF Order, Ds!Steps
  <2>2. Order \in Seq(StepNames) /\ Len(Order) = 5
    BY <2>1 DEF StepNames
  <2>3. Order[1] = "tables" /\ Order[2] = "columns" /\ Order[3] = "links" /\ Order[4] = "views"
        /\ Order[5] = "samples"
    BY <2>1
  <2> QED BY <1>1, <2>2, <2>3
<1>2. CASE database.engine # "sqlite"
  <2>1. Order = <<"tables", "constraints", "indexes", "references", "views", "routines", "samples">>
    BY <1>2 DEF Order, Ds!Steps
  <2>2. Order \in Seq(StepNames) /\ Len(Order) = 7
    BY <2>1 DEF StepNames
  <2>3. Order[1] = "tables" /\ Order[2] = "constraints" /\ Order[3] = "indexes" /\ Order[4] = "references"
        /\ Order[5] = "views" /\ Order[6] = "routines" /\ Order[7] = "samples"
    BY <2>1
  <2> QED BY <1>2, <2>2, <2>3
<1> QED BY <1>1, <1>2

LEMMA Taken ==
  ASSUME QueriesLeft, NEW name, Ds!At(name), database' = database
  PROVE  /\ QueriesLeft'
         /\ \A x : Done(x)' <=> Done(x) \/ x = name
         /\ ~Done(name)
         /\ name # "tables" => Done("tables")
         /\ name = "tables" => \A x : ~Done(x)
         /\ name = "columns" => database.engine = "sqlite" /\ ~Done("links")
         /\ name = "links" => database.engine = "sqlite" /\ Done("columns")
         /\ name = "constraints" => database.engine # "sqlite"
         /\ name = "references" => database.engine # "sqlite"
<1> DEFINE n == Passed
           L == Len(Order)
<1>1. /\ queries # <<>> /\ queries[1] = name /\ queries' = Tail(queries)
      /\ Order' = Order
  BY DEF Ds!At, Order
<1>2. /\ Order \in Seq(StepNames) /\ L \in Nat
      /\ \A i, j \in 1..L : Order[i] = Order[j] => i = j
      /\ Order[1] = "tables"
      /\ \A i \in 1..L : /\ Order[i] = "columns" => database.engine = "sqlite" /\ i = 2
                         /\ Order[i] = "links" => database.engine = "sqlite" /\ i = 3 /\ Order[2] = "columns"
                         /\ Order[i] \in {"constraints", "references"} => database.engine # "sqlite"
  BY Orders DEF QueriesLeft
<1>3. /\ n \in Nat /\ n + 1 \in 1..L /\ Order[n + 1] = name
      /\ queries' \in Seq(StepNames) /\ Len(queries') = Len(queries) - 1
      /\ \A i \in 1..Len(queries') : queries'[i] = queries[i + 1]
  BY <1>1, <1>2 DEF QueriesLeft, Passed
<1>4. Passed' = n + 1
  BY <1>1, <1>2, <1>3 DEF Passed, QueriesLeft
<1>5. QueriesLeft'
  <2>1. \A i \in 1..Len(queries') : queries'[i] = Order[Passed' + i]
    BY <1>2, <1>3, <1>4 DEF QueriesLeft
  <2> QED BY <1>1, <1>2, <1>3, <2>1 DEF QueriesLeft
<1>6. \A x : Done(x)' <=> \E i \in 1..(n + 1) : Order[i] = x
  BY <1>1, <1>4 DEF Done
<1>7. \A x : Done(x)' <=> Done(x) \/ x = name
  <2>1. \A i : i \in 1..(n + 1) <=> i \in 1..n \/ i = n + 1
    BY <1>3
  <2> QED BY <1>3, <1>6, <2>1, Zenon DEF Done
<1>8. ~Done(name)
  BY <1>2, <1>3 DEF Done
<1>9. name # "tables" => Done("tables")
  BY <1>2, <1>3 DEF Done
<1>10. name = "tables" => \A x : ~Done(x)
  BY <1>2, <1>3 DEF Done
<1>11. name = "columns" => database.engine = "sqlite" /\ ~Done("links")
  BY <1>2, <1>3 DEF Done
<1>12. name = "links" => database.engine = "sqlite" /\ Done("columns")
  BY <1>2, <1>3 DEF Done
<1>13. name \in {"constraints", "references"} => database.engine # "sqlite"
  BY <1>2, <1>3
<1> QED BY <1>5, <1>7, <1>8, <1>9, <1>10, <1>11, <1>12, <1>13

-----------------------------------------------------------------------------
\* The facts are about the columns and the references alone.
LEMMA SameColumns ==
  ASSUME UNCHANGED <<database, allowed>>,
         DOMAIN reading'.tables = DOMAIN reading.tables,
         \A k \in DOMAIN reading.tables : reading'.tables[k].columns = reading.tables[k].columns
  PROVE  /\ TablesRead => TablesRead'
         /\ ColumnsRead => ColumnsRead'
         /\ KeysRead => KeysRead'
         /\ LinksRead => LinksRead'
<1>1. /\ KeptOnes' = KeptOnes /\ Ds!KeptTables' = Ds!KeptTables /\ Links' = Links
  BY DEF KeptOnes, Ds!KeptTables, Ds!Kept, Ds!FilterSchema, Links, Own, Other
<1>2. \A f, i : Clear(f, i)' = Clear(f, i) /\ Target(f, i)' = Target(f, i)
  BY DEF Clear, Target, Ds!Alone, Ds!Named, Ds!Implied, Ds!Simple, Ds!Declared
<1>3. \A t \in KeptOnes : Key(t) \in Ds!KeptTables
  BY DEF KeptOnes, Ds!KeptTables, Key
<1>4. \A f \in Links : Own(f) \in Ds!KeptTables /\ Other(f) \in Ds!KeptTables
  BY DEF Links
<1>5. TablesRead => TablesRead'
  BY <1>1 DEF TablesRead
<1>6. ColumnsRead => ColumnsRead'
  BY <1>1, <1>3, <1>5 DEF ColumnsRead, TablesRead
<1>7. KeysRead => KeysRead'
  BY <1>1, <1>3, <1>6 DEF KeysRead, ColumnsRead, TablesRead
<1>8. LinksRead => LinksRead'
  <2> SUFFICES ASSUME LinksRead, NEW f \in Links, NEW i \in DOMAIN f.cols, Clear(f, i),
                      NEW j \in DOMAIN reading'.tables[Own(f)].columns,
                      reading'.tables[Own(f)].columns[j].name = f.cols[i]
               PROVE  reading'.tables[Own(f)].columns[j].fk = {Target(f, i)}
    BY <1>1, <1>2, <1>7 DEF LinksRead
  <2>1. reading'.tables[Own(f)].columns = reading.tables[Own(f)].columns
    BY <1>4 DEF LinksRead, KeysRead, ColumnsRead, TablesRead
  <2> QED BY <2>1 DEF LinksRead
<1> QED BY <1>5, <1>6, <1>7, <1>8

LEMMA SameReferences ==
  ASSUME UNCHANGED <<database, allowed>>, RefsRead,
         DOMAIN reading'.tables = DOMAIN reading.tables,
         \A k \in DOMAIN reading.tables : reading'.tables[k].refs = reading.tables[k].refs
  PROVE  RefsRead'
<1>1. /\ Ds!KeptTables' = Ds!KeptTables /\ Links' = Links
  BY DEF Ds!KeptTables, Ds!Kept, Ds!FilterSchema, Links, Own, Other
<1>2. \A f \in Links : Other(f) \in Ds!KeptTables
  BY DEF Links
<1> QED BY <1>1, <1>2 DEF RefsRead, TablesRead

\* Where the tables, the columns and the references stay, all stays.
LEMMA SchemaFrame ==
  ASSUME SchemaInv, QueriesLeft', SchemaTypes', UNCHANGED <<database, allowed>>,
         Undisturbed' => Undisturbed,
         DOMAIN reading'.tables = DOMAIN reading.tables,
         \A k \in DOMAIN reading.tables : /\ reading'.tables[k].columns = reading.tables[k].columns
                                          /\ reading'.tables[k].refs = reading.tables[k].refs,
         \A x \in {"tables", "columns", "constraints", "links", "references"} : Done(x)' => Done(x)
  PROVE  SchemaInv'
<1>1. RefsKept'
  BY DEF SchemaInv, RefsKept, Ds!Kept, Ds!FilterSchema
<1>2. ReadSoFar => ReadSoFar'
  BY SameColumns, SameReferences DEF ReadSoFar
<1> QED BY <1>1, <1>2 DEF SchemaInv

LEMMA SchemaInit == Ds!CatalogsAssumption /\ Ds!Init => SchemaInv
<1> SUFFICES ASSUME Ds!CatalogsAssumption, Ds!Init PROVE SchemaInv
  OBVIOUS
<1>1. /\ database \in Catalogs /\ database.engine \in {"postgres", "mysql", "sqlite"}
      /\ queries = Order /\ reading = Ds!Empty /\ emitted = "none" /\ ddl = FALSE /\ warnings = FALSE
  BY DEF Ds!Init, Ds!CatalogsAssumption, Order
<1>2. Order \in Seq(StepNames)
  BY <1>1, Orders
<1>3. Passed = 0 /\ QueriesLeft
  BY <1>1, <1>2 DEF Passed, QueriesLeft
<1>4. \A x : ~Done(x)
  BY <1>3 DEF Done
<1>5. DOMAIN reading = {"tables", "views", "routines"} /\ DOMAIN reading.tables = {}
  BY <1>1 DEF Ds!Empty
<1>6. SchemaTypes /\ RefsKept /\ ReadSoFar
  BY <1>1, <1>4, <1>5 DEF SchemaTypes, RefsKept, ReadSoFar
<1> QED BY <1>3, <1>6 DEF SchemaInv

\* A query that annotates takes the tables of the ones before it.
LEMMA ReadTables ==
  ASSUME SchemaInv, Ds!CatalogsAssumption, Ds!ListTables
  PROVE  SchemaInv'
<1> USE DEF SchemaInv
<1>1. /\ UNCHANGED <<database, allowed, sampled, emitted, ddl, warnings>> /\ Ds!At("tables")
  BY DEF Ds!ListTables, Ds!Reading
<1>2. QueriesLeft' /\ \A x : Done(x)' <=> x = "tables"
  BY <1>1, Taken
<1> DEFINE of(k) == CHOOSE u \in database.tables : <<u.schema, u.name>> = k
           listing(k) == IF database.engine = "sqlite" THEN <<>>
                         ELSE [i \in DOMAIN of(k).cols |-> Ds!Column(of(k).cols[i], FALSE)]
           made(k) == Ds!Table(listing(k))
<1>3. reading' = [reading EXCEPT !.tables = [k \in Ds!KeptTables |-> made(k)]]
  BY DEF Ds!ListTables, Ds!KeptTables, Ds!Kept
<1>4. DOMAIN reading' = DOMAIN reading /\ reading'.tables = [k \in Ds!KeptTables |-> made(k)]
  BY <1>3 DEF SchemaTypes
<1>5. \A t \in database.tables : (CHOOSE u \in database.tables : <<u.schema, u.name>> = Key(t)) = t
  BY DEF Ds!CatalogsAssumption, SchemaTypes, Key
<1>6. \A k \in Ds!KeptTables : /\ DOMAIN made(k) = {"columns", "indexes", "refs", "samples"}
                               /\ made(k).refs = {}
                               /\ \A i \in DOMAIN made(k).columns :
                                    DOMAIN made(k).columns[i] = {"name", "pk", "unique", "fk"}
  <2>1. \A k : /\ DOMAIN made(k) = {"columns", "indexes", "refs", "samples"} /\ made(k).refs = {}
               /\ made(k).columns = listing(k)
    <3> HIDE DEF listing
    <3> QED BY DEF Ds!Table
  <2>2. \A k : \A i \in DOMAIN listing(k) : DOMAIN listing(k)[i] = {"name", "pk", "unique", "fk"}
    <3> TAKE k
    <3>1. CASE database.engine = "sqlite"
      BY <3>1
    <3>2. CASE database.engine # "sqlite"
      <4>1. listing(k) = [i \in DOMAIN of(k).cols |-> Ds!Column(of(k).cols[i], FALSE)]
        BY <3>2
      <4> HIDE DEF listing, of
      <4> QED BY <4>1 DEF Ds!Column
    <3> QED BY <3>1, <3>2
  <2> HIDE DEF made, listing
  <2> QED BY <2>1, <2>2
<1>7. \A t \in KeptOnes : Key(t) \in Ds!KeptTables
  BY DEF KeptOnes, Ds!KeptTables, Key
<1>8. database.engine # "sqlite" => \A t \in KeptOnes :
         made(Key(t)).columns = [i \in DOMAIN t.cols |-> Ds!Column(t.cols[i], FALSE)]
  <2> SUFFICES ASSUME database.engine # "sqlite", NEW t \in KeptOnes
               PROVE  made(Key(t)).columns = [i \in DOMAIN t.cols |-> Ds!Column(t.cols[i], FALSE)]
    OBVIOUS
  <2>1. of(Key(t)) = t
    BY <1>5 DEF KeptOnes
  <2>2. listing(Key(t)) = [i \in DOMAIN t.cols |-> Ds!Column(t.cols[i], FALSE)]
    <3> HIDE DEF of
    <3> QED BY <2>1
  <2> HIDE DEF listing
  <2> QED BY <2>2 DEF Ds!Table
<1>9. Ds!KeptTables' = Ds!KeptTables /\ KeptOnes' = KeptOnes
  BY <1>1 DEF Ds!KeptTables, Ds!Kept, Ds!FilterSchema, KeptOnes
<1>10. SchemaTypes'
  <2> HIDE DEF made
  <2> QED BY <1>1, <1>4, <1>6 DEF SchemaTypes, Ds!At
<1>11. RefsKept'
  <2> HIDE DEF made
  <2> QED BY <1>4, <1>6 DEF RefsKept
<1>12. TablesRead'
  BY <1>4, <1>9 DEF TablesRead
<1>13. database.engine # "sqlite" => ColumnsRead'
  <2> HIDE DEF made
  <2>1. ASSUME database.engine # "sqlite", NEW t \in KeptOnes
        PROVE  /\ DOMAIN reading'.tables[Key(t)].columns = DOMAIN t.cols
               /\ \A i \in DOMAIN t.cols : reading'.tables[Key(t)].columns[i].name = t.cols[i]
    <3>1. reading'.tables[Key(t)].columns = [i \in DOMAIN t.cols |-> Ds!Column(t.cols[i], FALSE)]
      <4>1. reading'.tables[Key(t)] = made(Key(t))
        BY <1>4, <1>7
      <4>2. made(Key(t)).columns = [i \in DOMAIN t.cols |-> Ds!Column(t.cols[i], FALSE)]
        BY <2>1, <1>8
      <4> QED BY <4>1, <4>2
    <3> QED BY <3>1 DEF Ds!Column
  <2> QED BY <1>9, <1>12, <2>1 DEF ColumnsRead
<1>14. ReadSoFar'
  BY <1>1, <1>2, <1>12, <1>13 DEF ReadSoFar
<1> QED BY <1>2, <1>10, <1>11, <1>14

\* The keys a kept table shows are its own.
LEMMA MarkedOwn ==
  ASSUME Ds!CatalogsAssumption, database \in Catalogs, database.engine # "sqlite",
         NEW t \in database.tables, NEW c
  PROVE  Ds!Marked(Key(t), c, "PRIMARY KEY") <=> c \in t.pk
<1>1. t.pk = UNION {key.cols : key \in {h \in database.keys :
                h.type = "PRIMARY KEY" /\ <<h.schema, h.table>> = <<t.schema, t.name>>}}
  BY DEF Ds!CatalogsAssumption
<1>2. Ds!Marked(Key(t), c, "PRIMARY KEY") <=> \E key \in database.keys :
        key.type = "PRIMARY KEY" /\ <<key.schema, key.table>> = <<t.schema, t.name>> /\ c \in key.cols
  BY DEF Ds!Marked, Key
<1> QED BY <1>1, <1>2

\* A clear key is shown with the column it names.
LEMMA PgOwn ==
  ASSUME Ds!CatalogsAssumption, database \in Catalogs, database.engine = "postgres",
         NEW f \in database.fks, NEW i \in DOMAIN f.cols, Clear(f, i)
  PROVE  Ds!PgTargets(Own(f), f.cols[i]) = {Target(f, i)}
<1> DEFINE N(g) == <<g.schema, g.name>>
           c == f.cols[i]
           R == {r \in database.fks : \E g, h \in database.fks :
                    /\ <<g.schema, g.table>> = Own(f) /\ c \in Ds!ToSet(h.cols)
                    /\ {<<e.schema, e.name>> : e \in {g, h}} = {<<r.schema, r.name>>}}
<1>1. /\ f.cols \in Seq(Ds!ToSet(f.cols)) /\ f.refCols \in Seq(Ds!ToSet(f.refCols))
      /\ Len(f.refCols) = Len(f.cols) /\ Len(f.cols) = 1
  BY DEF Ds!CatalogsAssumption, Clear, Ds!Simple
<1>2. i = 1 /\ f.refCols # <<>> /\ Ds!ToSet(f.refCols) = {f.refCols[1]}
  BY <1>1 DEF Ds!ToSet
<1>3. \A g \in database.fks : Own(g) = Own(f) => \A h \in database.fks : N(h) = N(g) => h = g
  BY DEF Clear, Ds!Simple, Own
<1>4. \A g \in database.fks : Own(g) = Own(f) /\ c \in Ds!ToSet(g.cols) => g = f
  BY DEF Clear, Ds!Alone, Own
<1>5. c \in Ds!ToSet(f.cols)
  BY DEF Ds!ToSet
<1>6. ASSUME NEW r \in R PROVE r = f
  <2>1. PICK g, h \in database.fks : /\ Own(g) = Own(f) /\ c \in Ds!ToSet(h.cols)
                                     /\ {N(e) : e \in {g, h}} = {N(r)}
    BY DEF Own
  <2>2. N(g) = N(r) /\ N(h) = N(r)
    <3> HIDE DEF N
    <3> QED BY <2>1
  <2>3. h = g /\ r = g
    <3> HIDE DEF N
    <3> QED BY <1>3, <2>1, <2>2
  <2> QED BY <1>4, <2>1, <2>3
<1>7. f \in R
  <2>1. {<<e.schema, e.name>> : e \in {f, f}} = {<<f.schema, f.name>>}
    OBVIOUS
  <2> QED BY <1>5, <2>1 DEF Own
<1>8. R = {f}
  BY <1>6, <1>7
<1>9. Ds!PgTargets(Own(f), c) = UNION {{<<r.refSchema, r.refTable, rc>> : rc \in Ds!ToSet(r.refCols)} : r \in R}
  BY DEF Ds!PgTargets
<1>10. Ds!PgTargets(Own(f), c) = {<<f.refSchema, f.refTable, rc>> : rc \in Ds!ToSet(f.refCols)}
  BY <1>8, <1>9
<1> QED BY <1>2, <1>10 DEF Target, Ds!Declared

LEMMA MySQLOwn ==
  ASSUME Ds!CatalogsAssumption, database \in Catalogs, database.engine = "mysql",
         NEW f \in database.fks, NEW i \in DOMAIN f.cols, Clear(f, i), Ds!FilterSchema(f.schema)
  PROVE  Ds!MySQLTargets(Own(f), f.cols[i]) = {Target(f, i)}
<1> DEFINE c == f.cols[i]
           G == {g \in database.fks : <<g.schema, g.table>> = Own(f) /\ Ds!FilterSchema(g.schema)}
           J(g) == {j \in 1..Len(g.cols) : g.cols[j] = c}
           T(g) == {<<g.refSchema, g.refTable, g.refCols[j]>> : j \in J(g)}
<1>1. /\ \A g \in database.fks : g.cols \in Seq(Ds!ToSet(g.cols))
      /\ f.refCols \in Seq(Ds!ToSet(f.refCols)) /\ Len(f.refCols) = Len(f.cols)
      /\ \A j \in DOMAIN f.cols : f.cols[j] = c => j = i
  BY DEF Ds!CatalogsAssumption
<1>2. J(f) = {i} /\ f.refCols # <<>>
  BY <1>1
<1>3. ASSUME NEW g \in G, g # f PROVE T(g) = {}
  <2>1. c \notin Ds!ToSet(g.cols)
    BY <1>3 DEF Clear, Ds!Alone, Own
  <2>2. J(g) = {}
    BY <1>1, <2>1 DEF Ds!ToSet
  <2> HIDE DEF J
  <2> QED BY <2>2
<1>4. f \in G
  BY DEF Own
<1>5. T(f) = {Target(f, i)}
  <2> HIDE DEF J
  <2> QED BY <1>2 DEF Target, Ds!Declared
<1>6. Ds!MySQLTargets(Own(f), c) = UNION {T(g) : g \in G}
  BY DEF Ds!MySQLTargets
<1> HIDE DEF T, G
<1> QED BY <1>3, <1>4, <1>5, <1>6

\* What both constraint queries leave of a column.
LEMMA ReadConstraints ==
  ASSUME SchemaInv, Ds!CatalogsAssumption, Ds!AnnotateConstraints
  PROVE  SchemaInv'
<1> USE DEF SchemaInv
<1>1. /\ UNCHANGED <<database, allowed, sampled, emitted, ddl, warnings>> /\ Ds!At("constraints")
  BY DEF Ds!AnnotateConstraints, Ds!Reading
<1>2. /\ QueriesLeft' /\ \A x : Done(x)' <=> Done(x) \/ x = "constraints"
      /\ database.engine \in {"postgres", "mysql"} /\ Done("tables")
  BY <1>1, Taken DEF QueriesLeft
<1> DEFINE marked(k) == Ds!AnnotatedColumns(k)
<1>3. /\ DOMAIN reading' = DOMAIN reading
      /\ reading'.tables = [k \in DOMAIN reading.tables |-> [reading.tables[k] EXCEPT !.columns = marked(k)]]
  <2>1. reading' = [reading EXCEPT !.tables =
                      [k \in DOMAIN reading.tables |-> [reading.tables[k] EXCEPT !.columns = marked(k)]]]
    BY DEF Ds!AnnotateConstraints
  <2> HIDE DEF marked
  <2> QED BY <2>1 DEF SchemaTypes
<1>4. \A k \in DOMAIN reading.tables :
        /\ DOMAIN reading'.tables[k] = DOMAIN reading.tables[k]
        /\ reading'.tables[k].columns = marked(k)
        /\ reading'.tables[k].refs = reading.tables[k].refs
  <2> HIDE DEF marked
  <2> QED BY <1>3 DEF SchemaTypes
<1>5. \A k \in DOMAIN reading.tables : \A i \in DOMAIN marked(k) :
        LET col == reading.tables[k].columns[i]
        IN /\ DOMAIN marked(k)[i] = DOMAIN col /\ marked(k)[i].name = col.name
           /\ marked(k)[i].pk = Ds!Marked(k, col.name, "PRIMARY KEY")
           /\ marked(k)[i].fk = Ds!Targets(k, col.name)
  <2> SUFFICES ASSUME NEW k \in DOMAIN reading.tables, NEW i \in DOMAIN marked(k)
               PROVE  LET col == reading.tables[k].columns[i]
                      IN /\ DOMAIN marked(k)[i] = DOMAIN col /\ marked(k)[i].name = col.name
                         /\ marked(k)[i].pk = Ds!Marked(k, col.name, "PRIMARY KEY")
                         /\ marked(k)[i].fk = Ds!Targets(k, col.name)
    OBVIOUS
  <2>0. i \in DOMAIN reading.tables[k].columns
    BY DEF Ds!AnnotatedColumns
  <2>1. DOMAIN reading.tables[k].columns[i] = {"name", "pk", "unique", "fk"}
    BY <2>0 DEF SchemaTypes
  <2>2. marked(k)[i] = Ds!Annotated(k, reading.tables[k].columns[i])
    BY DEF Ds!AnnotatedColumns
  <2> HIDE DEF marked
  <2> QED BY <2>1, <2>2 DEF Ds!Annotated
<1>6. \A k \in DOMAIN reading.tables : DOMAIN marked(k) = DOMAIN reading.tables[k].columns
  BY DEF Ds!AnnotatedColumns
<1>7. DOMAIN reading'.tables = DOMAIN reading.tables
  BY <1>3
<1> HIDE DEF marked
<1>8. SchemaTypes'
  <2>1. \A k \in DOMAIN reading.tables : \A i \in DOMAIN marked(k) :
          DOMAIN marked(k)[i] = {"name", "pk", "unique", "fk"}
    <3> TAKE k \in DOMAIN reading.tables
    <3> TAKE i \in DOMAIN marked(k)
    <3>1. DOMAIN marked(k)[i] = DOMAIN reading.tables[k].columns[i]
      BY <1>5
    <3> QED BY <1>6, <3>1 DEF SchemaTypes
  <2>2. \A k \in DOMAIN reading'.tables :
          /\ DOMAIN reading'.tables[k] = {"columns", "indexes", "refs", "samples"}
          /\ \A i \in DOMAIN reading'.tables[k].columns :
               DOMAIN reading'.tables[k].columns[i] = {"name", "pk", "unique", "fk"}
    BY <1>4, <1>7, <2>1 DEF SchemaTypes
  <2>3. emitted' # "chunks"
    BY <1>1 DEF Ds!At
  <2> QED BY <1>1, <1>3, <2>2, <2>3 DEF SchemaTypes
<1>9. RefsKept'
  BY <1>1, <1>4, <1>7 DEF RefsKept, Ds!Kept, Ds!FilterSchema
<1>10. Ds!KeptTables' = Ds!KeptTables /\ KeptOnes' = KeptOnes /\ Links' = Links
  BY <1>1 DEF Ds!KeptTables, Ds!Kept, Ds!FilterSchema, KeptOnes, Links, Own, Other
<1>11. \A t \in KeptOnes : Key(t) \in Ds!KeptTables /\ t \in database.tables
  BY DEF KeptOnes, Ds!KeptTables, Key
<1>12. TablesRead => TablesRead'
  BY <1>7, <1>10 DEF TablesRead
<1>13. ColumnsRead => ColumnsRead'
  <2> SUFFICES ASSUME ColumnsRead, NEW t \in KeptOnes
               PROVE  /\ DOMAIN reading'.tables[Key(t)].columns = DOMAIN t.cols
                      /\ \A i \in DOMAIN t.cols : reading'.tables[Key(t)].columns[i].name = t.cols[i]
    BY <1>10, <1>12 DEF ColumnsRead
  <2>1. Key(t) \in DOMAIN reading.tables
    BY <1>11 DEF ColumnsRead, TablesRead
  <2>2. reading'.tables[Key(t)].columns = marked(Key(t))
    BY <1>4, <2>1
  <2> QED BY <1>5, <1>6, <2>1, <2>2 DEF ColumnsRead
<1>14. ColumnsRead => KeysRead'
  <2> SUFFICES ASSUME ColumnsRead, NEW t \in KeptOnes, NEW i \in DOMAIN t.cols
               PROVE  reading'.tables[Key(t)].columns[i].pk <=> t.cols[i] \in t.pk
    BY <1>10, <1>13 DEF KeysRead
  <2>1. Key(t) \in DOMAIN reading.tables /\ i \in DOMAIN marked(Key(t))
    BY <1>6, <1>11 DEF ColumnsRead, TablesRead
  <2>2. reading'.tables[Key(t)].columns[i].pk = Ds!Marked(Key(t), t.cols[i], "PRIMARY KEY")
    BY <1>4, <1>5, <2>1 DEF ColumnsRead
  <2>3. Ds!Marked(Key(t), t.cols[i], "PRIMARY KEY") <=> t.cols[i] \in t.pk
    BY <1>2, <1>11, MarkedOwn DEF SchemaTypes
  <2> QED BY <2>2, <2>3
<1>15. ColumnsRead => LinksRead'
  <2>0. \A f, i : Clear(f, i)' = Clear(f, i) /\ Target(f, i)' = Target(f, i)
    BY <1>1 DEF Clear, Target, Ds!Alone, Ds!Named, Ds!Implied, Ds!Simple, Ds!Declared
  <2> SUFFICES ASSUME ColumnsRead, NEW f \in Links, NEW i \in DOMAIN f.cols, Clear(f, i),
                      NEW j \in DOMAIN reading'.tables[Own(f)].columns,
                      reading'.tables[Own(f)].columns[j].name = f.cols[i]
               PROVE  reading'.tables[Own(f)].columns[j].fk = {Target(f, i)}
    BY <1>10, <1>14, <2>0 DEF LinksRead
  <2>1. Own(f) \in DOMAIN reading.tables /\ f \in database.fks /\ Own(f) \in Ds!KeptTables
    BY DEF Links, ColumnsRead, TablesRead
  <2>2. reading'.tables[Own(f)].columns[j].fk = Ds!Targets(Own(f), f.cols[i])
    BY <1>4, <1>5, <2>1
  <2>3. Ds!FilterSchema(f.schema)
    <3>1. PICK t \in database.tables : Ds!Kept(t.schema) /\ <<t.schema, t.name>> = Own(f)
      BY <2>1 DEF Ds!KeptTables
    <3> QED BY <1>2, <3>1 DEF Ds!Kept, Own
  <2>4. Ds!Targets(Own(f), f.cols[i]) = {Target(f, i)}
    BY <1>2, <2>1, <2>3, PgOwn, MySQLOwn DEF Ds!Targets, SchemaTypes
  <2> QED BY <2>2, <2>4
<1>16. RefsRead => RefsRead'
  BY <1>1, <1>4, <1>7, SameReferences
<1>17. ReadSoFar => ReadSoFar'
  BY <1>1, <1>2, <1>12, <1>13, <1>15, <1>16 DEF ReadSoFar
<1>18. Undisturbed' = Undisturbed
  BY <1>1 DEF Undisturbed
<1> QED BY <1>2, <1>8, <1>9, <1>17, <1>18

\* The queries after the tables' keep them, and put in a value of their own.
LEMMA ReadIndexes ==
  ASSUME SchemaInv, Ds!AnnotateIndexes \/ Ds!QueryViews \/ Ds!QueryRoutines
  PROVE  SchemaInv'
<1> USE DEF SchemaInv
<1>0. UNCHANGED <<database, allowed, sampled, emitted, ddl, warnings>>
  BY DEF Ds!AnnotateIndexes, Ds!QueryViews, Ds!QueryRoutines, Ds!Reading
<1>1. ASSUME NEW name \in {"indexes", "views", "routines"}, Ds!At(name) PROVE
        QueriesLeft' /\ \A x \in {"tables", "columns", "constraints", "links", "references"} : Done(x)' => Done(x)
  BY <1>0, <1>1, Taken
<1>2. QueriesLeft' /\ \A x \in {"tables", "columns", "constraints", "links", "references"} : Done(x)' => Done(x)
  BY <1>1 DEF Ds!AnnotateIndexes, Ds!QueryViews, Ds!QueryRoutines
<1>3. /\ DOMAIN reading' = DOMAIN reading /\ DOMAIN reading'.tables = DOMAIN reading.tables
      /\ \A k \in DOMAIN reading.tables :
           /\ DOMAIN reading'.tables[k] = DOMAIN reading.tables[k]
           /\ reading'.tables[k].columns = reading.tables[k].columns
           /\ reading'.tables[k].refs = reading.tables[k].refs
  <2>1. CASE Ds!AnnotateIndexes
    <3>1. reading' = [reading EXCEPT !.tables =
                        [k \in DOMAIN reading.tables |-> [reading.tables[k] EXCEPT !.indexes = Ds!Indexed(k)]]]
      BY <2>1 DEF Ds!AnnotateIndexes
    <3> QED BY <3>1 DEF SchemaTypes
  <2>2. CASE Ds!QueryViews
    BY <2>2 DEF Ds!QueryViews, SchemaTypes
  <2>3. CASE Ds!QueryRoutines
    BY <2>3 DEF Ds!QueryRoutines, SchemaTypes
  <2> QED BY <2>1, <2>2, <2>3
<1>4. emitted' # "chunks"
  BY <1>0 DEF Ds!AnnotateIndexes, Ds!QueryViews, Ds!QueryRoutines, Ds!At
<1>5. SchemaTypes'
  BY <1>0, <1>3, <1>4 DEF SchemaTypes
<1>6. Undisturbed' = Undisturbed
  BY <1>0 DEF Undisturbed
<1> QED BY <1>0, <1>2, <1>3, <1>5, <1>6, SchemaFrame

LEMMA ReferringOwn ==
  ASSUME NEW f \in database.fks, NEW i \in DOMAIN f.cols
  PROVE  <<f.schema, f.table, f.cols[i]>> \in Ds!AllReferring(Other(f))
<1>1. f.cols[i] \in Ds!ToSet(f.cols)
  BY DEF Ds!ToSet
<1> QED BY <1>1 DEF Ds!AllReferring, Other

LEMMA ReadReferences ==
  ASSUME SchemaInv, Ds!CatalogsAssumption, Ds!AnnotateFKReferences
  PROVE  SchemaInv'
<1> USE DEF SchemaInv
<1>1. /\ UNCHANGED <<database, allowed, sampled, emitted, ddl, warnings>> /\ Ds!At("references")
  BY DEF Ds!AnnotateFKReferences, Ds!Reading
<1>2. /\ QueriesLeft' /\ \A x : Done(x)' <=> Done(x) \/ x = "references"
      /\ database.engine \in {"postgres", "mysql"} /\ Done("tables")
  BY <1>1, Taken DEF QueriesLeft
<1> DEFINE referring(k) == {r \in Ds!AllReferring(k) : Ds!FilterSchema(r[1])}
<1>3. reading' = [reading EXCEPT !.tables =
                    [k \in DOMAIN reading.tables |-> [reading.tables[k] EXCEPT !.refs = referring(k)]]]
  BY DEF Ds!AnnotateFKReferences
<1>4. /\ DOMAIN reading' = DOMAIN reading /\ DOMAIN reading'.tables = DOMAIN reading.tables
      /\ \A k \in DOMAIN reading.tables :
           /\ DOMAIN reading'.tables[k] = DOMAIN reading.tables[k]
           /\ reading'.tables[k].columns = reading.tables[k].columns
           /\ reading'.tables[k].refs = referring(k)
  <2> HIDE DEF referring
  <2> QED BY <1>3 DEF SchemaTypes
<1>5. SchemaTypes'
  <2>1. emitted' # "chunks"
    BY <1>1 DEF Ds!At
  <2> QED BY <1>1, <1>4, <2>1 DEF SchemaTypes
<1>6. RefsKept'
  BY <1>1, <1>4 DEF RefsKept, Ds!Kept, Ds!FilterSchema
<1>7. TablesRead => RefsRead'
  <2>1. Ds!KeptTables' = Ds!KeptTables /\ Links' = Links
    BY <1>1 DEF Ds!KeptTables, Ds!Kept, Ds!FilterSchema, Links, Own, Other
  <2> SUFFICES ASSUME TablesRead, NEW f \in Links, NEW i \in DOMAIN f.cols
               PROVE  <<f.schema, f.table, f.cols[i]>> \in reading'.tables[Other(f)].refs
    BY <1>4, <2>1 DEF RefsRead, TablesRead
  <2>2. /\ f \in database.fks /\ Own(f) \in Ds!KeptTables /\ Other(f) \in DOMAIN reading.tables
    BY DEF Links, TablesRead
  <2>3. Ds!FilterSchema(f.schema)
    <3>1. PICK t \in database.tables : Ds!Kept(t.schema) /\ <<t.schema, t.name>> = Own(f)
      BY <2>2 DEF Ds!KeptTables
    <3> QED BY <1>2, <3>1 DEF Ds!Kept, Own
  <2>4. <<f.schema, f.table, f.cols[i]>> \in Ds!AllReferring(Other(f))
    BY <2>2, ReferringOwn
  <2> QED BY <1>4, <2>2, <2>3, <2>4
<1>8. ColumnsRead => ColumnsRead'
  BY <1>1, <1>4, SameColumns
<1>9. ColumnsRead => TablesRead
  BY DEF ColumnsRead
<1>10. ReadSoFar => ReadSoFar'
  <2>1. LinksRead => LinksRead'
    BY <1>1, <1>4, SameColumns
  <2> QED BY <1>1, <1>2, <1>7, <1>8, <1>9, <2>1 DEF ReadSoFar
<1>11. Undisturbed' = Undisturbed
  BY <1>1 DEF Undisturbed
<1> QED BY <1>2, <1>5, <1>6, <1>10, <1>11

\* SQLite's first pass over the tables.
LEMMA FilledOwn ==
  ASSUME Ds!CatalogsAssumption, database \in Catalogs, NEW t \in database.tables
  PROVE  Ds!FilledColumns(Key(t)) = [i \in DOMAIN t.cols |-> Ds!Column(t.cols[i], t.cols[i] \in t.pk)]
<1> DEFINE of == {u \in database.tables : <<u.schema, u.name>> = Key(t)}
<1>1. of = {t}
  BY DEF Ds!CatalogsAssumption, Key
<1>2. (CHOOSE u \in of : TRUE) = t /\ of # {}
  BY <1>1
<1> HIDE DEF of
<1>3. Ds!FilledColumns(Key(t)) =
        LET u == CHOOSE w \in of : TRUE
        IN IF of = {} THEN <<>> ELSE [i \in DOMAIN u.cols |-> Ds!Column(u.cols[i], u.cols[i] \in u.pk)]
  BY DEF Ds!FilledColumns, of
<1> QED BY <1>2, <1>3

LEMMA FilledTypes ==
  ASSUME NEW k
  PROVE  \A i \in DOMAIN Ds!FilledColumns(k) : DOMAIN Ds!FilledColumns(k)[i] = {"name", "pk", "unique", "fk"}
<1> DEFINE of == {t \in database.tables : <<t.schema, t.name>> = k}
           t == CHOOSE u \in of : TRUE
<1>1. CASE of = {}
  <2>1. Ds!FilledColumns(k) = <<>>
    BY <1>1 DEF Ds!FilledColumns
  <2> QED BY <2>1
<1>2. CASE of # {}
  <2>1. Ds!FilledColumns(k) = [i \in DOMAIN t.cols |-> Ds!Column(t.cols[i], t.cols[i] \in t.pk)]
    BY <1>2 DEF Ds!FilledColumns
  <2> HIDE DEF t
  <2> QED BY <2>1 DEF Ds!Column
<1> QED BY <1>1, <1>2

LEMMA ReadColumns ==
  ASSUME SchemaInv, Ds!CatalogsAssumption, Ds!SQLiteFillColumns
  PROVE  SchemaInv'
<1> USE DEF SchemaInv
<1>1. /\ UNCHANGED <<database, allowed, sampled, emitted, ddl, warnings>> /\ Ds!At("columns")
  BY DEF Ds!SQLiteFillColumns, Ds!Reading
<1>2. /\ QueriesLeft' /\ \A x : Done(x)' <=> Done(x) \/ x = "columns"
      /\ database.engine = "sqlite" /\ Done("tables") /\ ~Done("links")
  BY <1>1, Taken
<1>3. reading' = [reading EXCEPT !.tables = [k \in DOMAIN reading.tables |->
                    [reading.tables[k] EXCEPT !.columns = Ds!FilledColumns(k), !.indexes = Ds!Indexed(k)]]]
  BY DEF Ds!SQLiteFillColumns
<1>4. /\ DOMAIN reading' = DOMAIN reading /\ DOMAIN reading'.tables = DOMAIN reading.tables
      /\ \A k \in DOMAIN reading.tables :
           /\ DOMAIN reading'.tables[k] = DOMAIN reading.tables[k]
           /\ reading'.tables[k].columns = Ds!FilledColumns(k)
           /\ reading'.tables[k].refs = reading.tables[k].refs
  BY <1>3 DEF SchemaTypes
<1>5. SchemaTypes'
  <2>1. emitted' # "chunks"
    BY <1>1 DEF Ds!At
  <2>2. \A k \in DOMAIN reading'.tables :
          /\ DOMAIN reading'.tables[k] = {"columns", "indexes", "refs", "samples"}
          /\ \A i \in DOMAIN reading'.tables[k].columns :
               DOMAIN reading'.tables[k].columns[i] = {"name", "pk", "unique", "fk"}
    BY <1>4, FilledTypes DEF SchemaTypes
  <2> QED BY <1>1, <1>4, <2>1, <2>2 DEF SchemaTypes
<1>6. RefsKept'
  BY <1>1, <1>4 DEF RefsKept, Ds!Kept, Ds!FilterSchema
<1>7. Ds!KeptTables' = Ds!KeptTables /\ KeptOnes' = KeptOnes
  BY <1>1 DEF Ds!KeptTables, Ds!Kept, Ds!FilterSchema, KeptOnes
<1>8. TablesRead => TablesRead'
  BY <1>4, <1>7 DEF TablesRead
<1>9. TablesRead => KeysRead'
  <2>1. ASSUME TablesRead, NEW t \in KeptOnes
        PROVE  /\ DOMAIN reading'.tables[Key(t)].columns = DOMAIN t.cols
               /\ \A i \in DOMAIN t.cols : /\ reading'.tables[Key(t)].columns[i].name = t.cols[i]
                                           /\ reading'.tables[Key(t)].columns[i].pk <=> t.cols[i] \in t.pk
    <3>1. Key(t) \in DOMAIN reading.tables /\ t \in database.tables
      BY <2>1 DEF TablesRead, KeptOnes, Ds!KeptTables, Key
    <3>2. reading'.tables[Key(t)].columns = [i \in DOMAIN t.cols |-> Ds!Column(t.cols[i], t.cols[i] \in t.pk)]
      BY <1>4, <3>1, FilledOwn DEF SchemaTypes
    <3>3. ASSUME NEW i \in DOMAIN t.cols
          PROVE  /\ reading'.tables[Key(t)].columns[i].name = t.cols[i]
                 /\ reading'.tables[Key(t)].columns[i].pk <=> t.cols[i] \in t.pk
      <4> DEFINE col == reading'.tables[Key(t)].columns[i]
      <4>1. col = Ds!Column(t.cols[i], t.cols[i] \in t.pk)
        BY <3>2
      <4> HIDE DEF col
      <4>2. col.name = t.cols[i] /\ col.pk = (t.cols[i] \in t.pk)
        BY <4>1 DEF Ds!Column
      <4>3. col.pk <=> t.cols[i] \in t.pk
        BY <4>2
      <4> QED BY <4>2, <4>3 DEF col
    <3> QED BY <3>2, <3>3
  <2> QED BY <1>7, <1>8, <2>1 DEF KeysRead, ColumnsRead
<1>10. ReadSoFar => ReadSoFar'
  BY <1>1, <1>2, <1>8, <1>9 DEF ReadSoFar
<1>11. Undisturbed' = Undisturbed
  BY <1>1 DEF Undisturbed
<1> QED BY <1>2, <1>5, <1>6, <1>10, <1>11

\* SQLite's second pass: a key that names no column is shown with the one it
\* implies.
LEMMA ImpliedOwn ==
  ASSUME Ds!CatalogsAssumption, database \in Catalogs, database.engine = "sqlite", KeysRead,
         NEW f \in Links, NEW i \in DOMAIN f.cols, Ds!Named(f)
  PROVE  Ds!SQLiteTarget(f, i) = Target(f, i)
<1>1. f \in database.fks /\ Other(f) \in Ds!KeptTables /\ f.refSchema = ""
  BY DEF Links, Ds!CatalogsAssumption
<1>2. CASE f.refCols # <<>>
  BY <1>1, <1>2 DEF Ds!SQLiteTarget, Target, Ds!Declared
<1>3. CASE f.refCols = <<>>
  <2>1. PICK t \in database.tables : Ds!Kept(t.schema) /\ Key(t) = Other(f)
    BY <1>1 DEF Ds!KeptTables, Key
  <2>2. PICK c : Ds!Implied(f) = {c}
    BY <1>3 DEF Ds!Named
  <2>3. t.pk = {c}
    <3>1. {u \in database.tables : <<u.schema, u.name>> = <<f.refSchema, f.refTable>>} = {t}
      BY <2>1 DEF Ds!CatalogsAssumption, Key, Other
    <3> QED BY <2>2, <3>1 DEF Ds!Implied
  <2>4. Target(f, i) = <<f.refSchema, f.refTable, c>>
    BY <1>3, <2>2 DEF Target, Ds!Declared
  <2> DEFINE columns == reading.tables[Key(t)].columns
             pk == {j \in DOMAIN columns : columns[j].pk}
  <2>5. /\ Key(t) = <<"", f.refTable>> /\ Key(t) \in DOMAIN reading.tables
        /\ DOMAIN columns = DOMAIN t.cols /\ t \in KeptOnes
        /\ \A j \in DOMAIN t.cols : columns[j].name = t.cols[j] /\ (columns[j].pk <=> t.cols[j] = c)
    <3>1. t \in KeptOnes
      BY <2>1 DEF KeptOnes
    <3>2. Key(t) = <<"", f.refTable>> /\ Key(t) \in DOMAIN reading.tables
      BY <1>1, <2>1 DEF KeysRead, ColumnsRead, TablesRead, Other
    <3>3. DOMAIN columns = DOMAIN t.cols
      BY <3>1 DEF KeysRead, ColumnsRead
    <3>4. \A j \in DOMAIN t.cols : columns[j].name = t.cols[j] /\ (columns[j].pk <=> t.cols[j] = c)
      BY <2>3, <3>1 DEF KeysRead, ColumnsRead
    <3> QED BY <3>1, <3>2, <3>3, <3>4
  <2>6. t.cols \in Seq(Ds!ToSet(t.cols)) /\ c \in Ds!ToSet(t.cols)
    BY <2>3 DEF Ds!CatalogsAssumption
  <2>7. pk \in SUBSET Nat /\ pk # {} /\ \A j \in pk : columns[j].name = c
    <3>1. DOMAIN t.cols \subseteq Nat /\ \E j \in DOMAIN t.cols : t.cols[j] = c
      BY <2>6 DEF Ds!ToSet
    <3> HIDE DEF columns
    <3>2. \A j : j \in pk <=> j \in DOMAIN t.cols /\ t.cols[j] = c
      BY <2>5
    <3> HIDE DEF pk
    <3> QED BY <2>5, <3>1, <3>2
  <2>8. columns[Ds!Min(pk)].name = c
    <3> HIDE DEF pk, columns
    <3>1. \E x \in pk : \A y \in pk : x <= y
      BY <2>7, Least
    <3>2. Ds!Min(pk) \in pk
      BY <3>1 DEF Ds!Min
    <3> QED BY <2>7, <3>2
  <2>9. Ds!SQLiteTarget(f, i) = <<"", f.refTable, columns[Ds!Min(pk)].name>>
    <3>1. Ds!Known("", f.refTable) /\ columns = reading.tables[<<"", f.refTable>>].columns
      BY <2>5 DEF Ds!Known
    <3>2. Ds!SQLiteTarget(f, i) =
            LET to == IF f.refCols # <<>> THEN f.refCols[i]
                      ELSE IF pk # {} THEN columns[Ds!Min(pk)].name ELSE "rowid"
            IN <<"", f.refTable, to>>
      BY <3>1 DEF Ds!SQLiteTarget
    <3> HIDE DEF pk, columns
    <3> QED BY <1>3, <2>7, <3>2
  <2> QED BY <1>1, <2>4, <2>8, <2>9
<1> QED BY <1>2, <1>3

LEMMA LinkedOwn ==
  ASSUME Ds!CatalogsAssumption, database \in Catalogs, database.engine = "sqlite", KeysRead,
         NEW f \in Links, NEW i \in DOMAIN f.cols, Clear(f, i),
         NEW col, DOMAIN col = {"name", "pk", "unique", "fk"}, col.name = f.cols[i]
  PROVE  Ds!Referencing(Own(f), col).fk = {Target(f, i)}
<1> DEFINE c == f.cols[i]
           G == {g \in database.fks : <<"", g.table>> = Own(f)}
           J(g) == {j \in DOMAIN g.cols : g.cols[j] = c}
           T(g) == {Ds!SQLiteTarget(g, j) : j \in J(g)}
<1>1. /\ \A g \in database.fks : g.cols \in Seq(Ds!ToSet(g.cols)) /\ g.schema = ""
      /\ \A j \in DOMAIN f.cols : f.cols[j] = c => j = i
      /\ f \in database.fks
  BY DEF Ds!CatalogsAssumption, Links
<1>2. J(f) = {i}
  BY <1>1
<1>3. ASSUME NEW g \in G, g # f PROVE T(g) = {}
  <2>1. Own(g) = Own(f)
    BY <1>1 DEF Own
  <2>2. c \notin Ds!ToSet(g.cols)
    BY <1>1, <1>3, <2>1 DEF Clear, Ds!Alone, Own
  <2>3. J(g) = {}
    BY <1>1, <2>2 DEF Ds!ToSet
  <2> HIDE DEF J
  <2> QED BY <2>3
<1>4. f \in G
  BY <1>1 DEF Own
<1>5. T(f) = {Target(f, i)}
  <2>1. Ds!SQLiteTarget(f, i) = Target(f, i)
    BY ImpliedOwn DEF Clear
  <2> HIDE DEF J
  <2> QED BY <1>2, <2>1
<1>6. Ds!Referencing(Own(f), col).fk = UNION {T(g) : g \in G}
  <2>1. Ds!Referencing(Own(f), col) = [col EXCEPT !.fk = UNION {T(g) : g \in G}]
    BY DEF Ds!Referencing
  <2> HIDE DEF T, G
  <2> QED BY <2>1
<1> HIDE DEF T, G
<1> QED BY <1>3, <1>4, <1>5, <1>6

LEMMA ReferencingTypes ==
  ASSUME SchemaTypes, NEW k \in DOMAIN reading.tables
  PROVE  /\ DOMAIN Ds!ReferencingColumns(k) = DOMAIN reading.tables[k].columns
         /\ \A i \in DOMAIN reading.tables[k].columns :
              /\ Ds!ReferencingColumns(k)[i] = Ds!Referencing(k, reading.tables[k].columns[i])
              /\ DOMAIN Ds!ReferencingColumns(k)[i] = {"name", "pk", "unique", "fk"}
              /\ Ds!ReferencingColumns(k)[i].name = reading.tables[k].columns[i].name
              /\ Ds!ReferencingColumns(k)[i].pk = reading.tables[k].columns[i].pk
<1>1. /\ DOMAIN Ds!ReferencingColumns(k) = DOMAIN reading.tables[k].columns
      /\ \A i \in DOMAIN reading.tables[k].columns :
           Ds!ReferencingColumns(k)[i] = Ds!Referencing(k, reading.tables[k].columns[i])
  BY DEF Ds!ReferencingColumns
<1>2. ASSUME NEW col, DOMAIN col = {"name", "pk", "unique", "fk"}
      PROVE  LET new == Ds!Referencing(k, col)
             IN DOMAIN new = DOMAIN col /\ new.name = col.name /\ new.pk = col.pk
  BY <1>2 DEF Ds!Referencing
<1>3. ASSUME NEW i \in DOMAIN reading.tables[k].columns
      PROVE  /\ DOMAIN Ds!ReferencingColumns(k)[i] = {"name", "pk", "unique", "fk"}
             /\ Ds!ReferencingColumns(k)[i].name = reading.tables[k].columns[i].name
             /\ Ds!ReferencingColumns(k)[i].pk = reading.tables[k].columns[i].pk
  <2> DEFINE col == reading.tables[k].columns[i]
  <2>1. DOMAIN col = {"name", "pk", "unique", "fk"}
    BY DEF SchemaTypes
  <2> HIDE DEF col
  <2>2. LET new == Ds!Referencing(k, col)
        IN DOMAIN new = DOMAIN col /\ new.name = col.name /\ new.pk = col.pk
    BY <1>2, <2>1
  <2>3. Ds!ReferencingColumns(k)[i] = Ds!Referencing(k, col)
    BY <1>1 DEF col
  <2> QED BY <2>1, <2>2, <2>3 DEF col
<1> QED BY <1>1, <1>3

LEMMA ReadLinks ==
  ASSUME SchemaInv, Ds!CatalogsAssumption, Ds!SQLiteFillForeignKeys
  PROVE  SchemaInv'
<1> USE DEF SchemaInv
<1>1. /\ UNCHANGED <<database, allowed, sampled, emitted, ddl, warnings>> /\ Ds!At("links")
  BY DEF Ds!SQLiteFillForeignKeys, Ds!Reading
<1>2. /\ QueriesLeft' /\ \A x : Done(x)' <=> Done(x) \/ x = "links"
      /\ database.engine = "sqlite" /\ Done("tables") /\ Done("columns")
  BY <1>1, Taken
<1> DEFINE referring(k) == {r \in Ds!AllReferring(k) : Ds!Known("", r[2])}
<1>3. reading' = [reading EXCEPT !.tables = [k \in DOMAIN reading.tables |->
                    [reading.tables[k] EXCEPT !.columns = Ds!ReferencingColumns(k), !.refs = referring(k)]]]
  BY DEF Ds!SQLiteFillForeignKeys
<1>4. /\ DOMAIN reading' = DOMAIN reading /\ DOMAIN reading'.tables = DOMAIN reading.tables
      /\ \A k \in DOMAIN reading.tables :
           /\ DOMAIN reading'.tables[k] = DOMAIN reading.tables[k]
           /\ reading'.tables[k].columns = Ds!ReferencingColumns(k)
           /\ reading'.tables[k].refs = referring(k)
  <2> HIDE DEF referring
  <2> QED BY <1>3 DEF SchemaTypes
<1>5. SchemaTypes'
  <2>1. emitted' # "chunks"
    BY <1>1 DEF Ds!At
  <2>2. \A k \in DOMAIN reading'.tables :
          /\ DOMAIN reading'.tables[k] = {"columns", "indexes", "refs", "samples"}
          /\ \A i \in DOMAIN reading'.tables[k].columns :
               DOMAIN reading'.tables[k].columns[i] = {"name", "pk", "unique", "fk"}
    <3> TAKE k \in DOMAIN reading'.tables
    <3>1. k \in DOMAIN reading.tables /\ reading'.tables[k].columns = Ds!ReferencingColumns(k)
      BY <1>4
    <3>2. \A i \in DOMAIN Ds!ReferencingColumns(k) :
            DOMAIN Ds!ReferencingColumns(k)[i] = {"name", "pk", "unique", "fk"}
      BY <3>1, ReferencingTypes
    <3> QED BY <1>4, <3>1, <3>2 DEF SchemaTypes
  <2> QED BY <1>1, <1>4, <2>1, <2>2 DEF SchemaTypes
<1>6. RefsKept'
  BY <1>1, <1>2 DEF RefsKept, Ds!Kept
<1>7. /\ Ds!KeptTables' = Ds!KeptTables /\ KeptOnes' = KeptOnes /\ Links' = Links
  BY <1>1 DEF Ds!KeptTables, Ds!Kept, Ds!FilterSchema, KeptOnes, Links, Own, Other
<1>8. \A f, i : Clear(f, i)' = Clear(f, i) /\ Target(f, i)' = Target(f, i)
  BY <1>1 DEF Clear, Target, Ds!Alone, Ds!Named, Ds!Implied, Ds!Simple, Ds!Declared
<1>9. TablesRead => TablesRead'
  BY <1>4, <1>7 DEF TablesRead
<1>10. KeysRead => KeysRead'
  <2>1. ASSUME KeysRead, NEW t \in KeptOnes
        PROVE  /\ DOMAIN reading'.tables[Key(t)].columns = DOMAIN t.cols
               /\ \A i \in DOMAIN t.cols : /\ reading'.tables[Key(t)].columns[i].name = t.cols[i]
                                           /\ reading'.tables[Key(t)].columns[i].pk <=> t.cols[i] \in t.pk
    <3>1. Key(t) \in DOMAIN reading.tables
      BY <2>1 DEF KeysRead, ColumnsRead, TablesRead, KeptOnes, Ds!KeptTables, Key
    <3>2. reading'.tables[Key(t)].columns = Ds!ReferencingColumns(Key(t))
      BY <1>4, <3>1
    <3>3. /\ DOMAIN reading.tables[Key(t)].columns = DOMAIN t.cols
          /\ \A i \in DOMAIN t.cols : /\ reading.tables[Key(t)].columns[i].name = t.cols[i]
                                      /\ reading.tables[Key(t)].columns[i].pk <=> t.cols[i] \in t.pk
      BY <2>1 DEF KeysRead, ColumnsRead
    <3> QED BY <3>1, <3>2, <3>3, ReferencingTypes
  <2> QED BY <1>7, <1>9, <2>1 DEF KeysRead, ColumnsRead
<1>11. KeysRead => LinksRead'
  <2> SUFFICES ASSUME KeysRead, NEW f \in Links, NEW i \in DOMAIN f.cols, Clear(f, i),
                      NEW j \in DOMAIN reading'.tables[Own(f)].columns,
                      reading'.tables[Own(f)].columns[j].name = f.cols[i]
               PROVE  reading'.tables[Own(f)].columns[j].fk = {Target(f, i)}
    BY <1>7, <1>8, <1>10 DEF LinksRead
  <2>1. Own(f) \in DOMAIN reading.tables
    BY DEF Links, KeysRead, ColumnsRead, TablesRead
  <2> DEFINE col == reading.tables[Own(f)].columns[j]
  <2>2. /\ DOMAIN col = {"name", "pk", "unique", "fk"} /\ col.name = f.cols[i]
        /\ reading'.tables[Own(f)].columns[j] = Ds!Referencing(Own(f), col)
    <3>1. reading'.tables[Own(f)].columns = Ds!ReferencingColumns(Own(f))
      BY <1>4, <2>1
    <3>2. j \in DOMAIN reading.tables[Own(f)].columns
      BY <2>1, <3>1, ReferencingTypes
    <3>3. /\ Ds!ReferencingColumns(Own(f))[j] = Ds!Referencing(Own(f), col)
          /\ Ds!ReferencingColumns(Own(f))[j].name = col.name
      BY <2>1, <3>2, ReferencingTypes
    <3>4. DOMAIN col = {"name", "pk", "unique", "fk"}
      BY <2>1, <3>2 DEF SchemaTypes
    <3> HIDE DEF col
    <3> QED BY <3>1, <3>3, <3>4
  <2> HIDE DEF col
  <2> QED BY <1>2, <2>2, LinkedOwn DEF SchemaTypes
<1>12. TablesRead => RefsRead'
  <2> SUFFICES ASSUME TablesRead, NEW f \in Links, NEW i \in DOMAIN f.cols
               PROVE  <<f.schema, f.table, f.cols[i]>> \in reading'.tables[Other(f)].refs
    BY <1>4, <1>7, <1>9 DEF RefsRead
  <2>1. /\ f \in database.fks /\ Own(f) \in DOMAIN reading.tables /\ Other(f) \in DOMAIN reading.tables
        /\ f.schema = ""
    BY <1>2 DEF Links, TablesRead, Ds!CatalogsAssumption, SchemaTypes
  <2>2. Ds!Known("", f.table)
    BY <2>1 DEF Ds!Known, Own
  <2>3. <<f.schema, f.table, f.cols[i]>> \in Ds!AllReferring(Other(f))
    BY <2>1, ReferringOwn
  <2> QED BY <1>4, <2>1, <2>2, <2>3
<1>13. KeysRead => TablesRead
  BY DEF KeysRead, ColumnsRead
<1>14. ReadSoFar => ReadSoFar'
  BY <1>1, <1>2, <1>9, <1>10, <1>11, <1>12, <1>13 DEF ReadSoFar
<1>15. Undisturbed' = Undisturbed
  BY <1>1 DEF Undisturbed
<1> QED BY <1>2, <1>5, <1>6, <1>14, <1>15

\* Samples leave the columns and the references; failures and DDL disturb.
LEMMA ReadRest ==
  ASSUME SchemaInv, \/ \E k \in DOMAIN reading.tables : Ds!SampleStart(k) \/ Ds!SampleEnd(k)
                    \/ Ds!QueryFails \/ Ds!Render \/ UNCHANGED Ds!vars
  PROVE  SchemaInv'
<1> USE DEF SchemaInv
<1> DEFINE facts == {"tables", "columns", "constraints", "links", "references"}
<1>1. CASE UNCHANGED Ds!vars \/ \E k \in DOMAIN reading.tables : Ds!SampleStart(k)
  <2>1. UNCHANGED <<database, allowed, queries, reading, emitted, ddl, warnings>>
    BY <1>1 DEF Ds!vars, Ds!SampleStart
  <2>2. QueriesLeft' /\ \A x : Done(x)' => Done(x)
    BY <2>1 DEF QueriesLeft, Done, Passed, Order
  <2>3. SchemaTypes' /\ Undisturbed' = Undisturbed
    BY <2>1 DEF SchemaTypes, Undisturbed
  <2> QED BY <2>1, <2>2, <2>3, SchemaFrame
<1>2. ASSUME NEW k \in DOMAIN reading.tables, Ds!SampleEnd(k) PROVE SchemaInv'
  <2>1. PICK got : /\ reading' = [reading EXCEPT !.tables[k].samples = got]
                   /\ warnings' = (warnings \/ got # "all")
    BY <1>2 DEF Ds!SampleEnd
  <2>2. UNCHANGED <<database, allowed, queries, emitted, ddl>>
    BY <1>2 DEF Ds!SampleEnd
  <2>3. QueriesLeft' /\ \A x : Done(x)' => Done(x)
    BY <2>2 DEF QueriesLeft, Done, Passed, Order
  <2>4. /\ DOMAIN reading' = DOMAIN reading /\ DOMAIN reading'.tables = DOMAIN reading.tables
        /\ \A l \in DOMAIN reading.tables :
             /\ DOMAIN reading'.tables[l] = DOMAIN reading.tables[l]
             /\ reading'.tables[l].columns = reading.tables[l].columns
             /\ reading'.tables[l].refs = reading.tables[l].refs
    BY <2>1 DEF SchemaTypes
  <2>5. SchemaTypes' /\ (Undisturbed' => Undisturbed)
    <3>1. warnings' \in BOOLEAN /\ (warnings => warnings')
      BY <2>1 DEF SchemaTypes
    <3>2. Undisturbed' => Undisturbed
      BY <2>2, <3>1 DEF Undisturbed
    <3> QED BY <2>2, <2>4, <3>1, <3>2 DEF SchemaTypes
  <2> QED BY <2>2, <2>3, <2>4, <2>5, SchemaFrame
<1>3. CASE Ds!QueryFails
  <2>1. CASE queries[1] \in {"columns", "links"}
    <3>1. /\ UNCHANGED <<database, allowed, reading, emitted, ddl>> /\ warnings' = TRUE
          /\ Ds!At(queries[1])
      BY <1>3, <2>1 DEF Ds!QueryFails, Ds!At
    <3>2. QueriesLeft'
      BY <3>1, Taken
    <3>3. SchemaTypes' /\ ~Undisturbed'
      BY <3>1 DEF SchemaTypes, Undisturbed, Ds!At
    <3>4. RefsKept'
      BY <3>1 DEF RefsKept, Ds!Kept, Ds!FilterSchema
    <3> QED BY <3>2, <3>3, <3>4
  <2>2. CASE queries[1] \notin {"columns", "links"}
    <3>1. UNCHANGED <<database, allowed, queries, reading, ddl, warnings>> /\ emitted' = "error"
      BY <1>3, <2>2 DEF Ds!QueryFails
    <3>2. QueriesLeft' /\ \A x : Done(x)' => Done(x)
      BY <3>1 DEF QueriesLeft, Done, Passed, Order
    <3>3. SchemaTypes' /\ Undisturbed' = Undisturbed
      BY <3>1 DEF SchemaTypes, Undisturbed
    <3> QED BY <3>1, <3>2, <3>3, SchemaFrame
  <2> QED BY <2>1, <2>2
<1>4. CASE Ds!Render
  <2>1. /\ UNCHANGED <<database, allowed, reading, ddl, warnings>> /\ emitted' = "chunks" /\ queries' = <<>>
        /\ Ds!At("samples")
    BY <1>4 DEF Ds!Render, Ds!At
  <2>2. QueriesLeft' /\ \A x \in facts : Done(x)' => Done(x)
    BY <2>1, Taken
  <2>3. SchemaTypes' /\ Undisturbed' = Undisturbed
    BY <2>1 DEF SchemaTypes, Undisturbed
  <2> QED BY <2>1, <2>2, <2>3, SchemaFrame
<1> QED BY <1>1, <1>2, <1>3, <1>4

LEMMA ReadDdl ==
  ASSUME SchemaInv, Ds!CatalogsAssumption, Ds!Ddl
  PROVE  SchemaInv'
<1> USE DEF SchemaInv
<1>1. /\ database' \in Catalogs /\ database'.engine = database.engine /\ ddl' = TRUE
      /\ UNCHANGED <<allowed, queries, reading, emitted, warnings>>
  BY DEF Ds!Ddl
<1>2. QueriesLeft'
  BY <1>1 DEF QueriesLeft, Passed, Order
<1>3. SchemaTypes' /\ ~Undisturbed'
  BY <1>1 DEF SchemaTypes, Undisturbed
<1>4. RefsKept'
  BY <1>1 DEF RefsKept, Ds!Kept, Ds!FilterSchema
<1> QED BY <1>2, <1>3, <1>4

LEMMA SchemaNext == Ds!CatalogsAssumption /\ SchemaInv /\ [Ds!Next]_Ds!vars => SchemaInv'
<1> SUFFICES ASSUME Ds!CatalogsAssumption, SchemaInv, [Ds!Next]_Ds!vars PROVE SchemaInv'
  OBVIOUS
<1> QED BY ReadTables, ReadConstraints, ReadIndexes, ReadReferences, ReadColumns, ReadLinks, ReadRest,
           ReadDdl DEF Ds!Next

\* A reading that ends has taken all of its steps.
LEMMA SchemaWhole == Ds!CatalogsAssumption /\ SchemaInv => Ds!SchemaIsWhole
<1> SUFFICES ASSUME Ds!CatalogsAssumption, SchemaInv, emitted = "chunks" PROVE Ds!SchemaIsWhole
  BY DEF Ds!SchemaIsWhole
<1> USE DEF SchemaInv
<1>1. \A k \in DOMAIN reading.tables : \A r \in reading.tables[k].refs : Ds!Kept(r[1])
  BY DEF RefsKept
<1>2. ASSUME Undisturbed PROVE LinksRead /\ RefsRead
  <2>1. \A i \in 1..Len(Order) : Done(Order[i])
    BY Orders DEF SchemaTypes, QueriesLeft, Done, Passed
  <2>2. CASE database.engine = "sqlite"
    <3>1. Order = <<"tables", "columns", "links", "views", "samples">>
      BY <2>2 DEF Order, Ds!Steps
    <3>2. Len(Order) = 5 /\ Order[3] = "links"
      BY <3>1
    <3>3. Done("links")
      BY <2>1, <3>2
    <3> QED BY <1>2, <2>2, <3>3 DEF ReadSoFar
  <2>3. CASE database.engine # "sqlite"
    <3>1. Order = <<"tables", "constraints", "indexes", "references", "views", "routines", "samples">>
      BY <2>3 DEF Order, Ds!Steps, QueriesLeft
    <3>2. Len(Order) = 7 /\ Order[2] = "constraints" /\ Order[4] = "references"
      BY <3>1
    <3>3. Done("constraints") /\ Done("references")
      BY <2>1, <3>2
    <3> QED BY <1>2, <2>3, <3>3 DEF ReadSoFar
  <2> QED BY <2>2, <2>3
<1>3. ASSUME Undisturbed PROVE DOMAIN reading.tables = Ds!KeptTables
  BY <1>2, <1>3 DEF RefsRead, TablesRead
<1>4. ASSUME Undisturbed, NEW t \in KeptOnes, NEW c \in Ds!ToSet(t.cols)
      PROVE  Ds!Shown(t.schema, t.name, c).pk <=> c \in t.pk
  <2> DEFINE columns == reading.tables[Key(t)].columns
             i == CHOOSE j \in DOMAIN columns : columns[j].name = c
  <2>1. /\ DOMAIN columns = DOMAIN t.cols
        /\ \A j \in DOMAIN t.cols : columns[j].name = t.cols[j] /\ (columns[j].pk <=> t.cols[j] \in t.pk)
    BY <1>2, <1>4 DEF LinksRead, KeysRead, ColumnsRead
  <2>2. \E j \in DOMAIN columns : columns[j].name = c
    <3>1. PICK j \in DOMAIN t.cols : t.cols[j] = c
      BY DEF Ds!ToSet
    <3> QED BY <2>1, <3>1
  <2>3. i \in DOMAIN columns /\ columns[i].name = c
    <3> HIDE DEF columns
    <3> QED BY <2>2
  <2>4. Ds!Shown(t.schema, t.name, c) = columns[i]
    BY DEF Ds!Shown, Key
  <2> HIDE DEF columns, i
  <2> QED BY <2>1, <2>3, <2>4
<1>5. ASSUME Undisturbed, NEW f \in Links, NEW i \in DOMAIN f.cols, Clear(f, i)
      PROVE  Ds!Shown(f.schema, f.table, f.cols[i]).fk = {Target(f, i)}
  <2> DEFINE columns == reading.tables[Own(f)].columns
             n == CHOOSE j \in DOMAIN columns : columns[j].name = f.cols[i]
  <2>1. PICK t \in KeptOnes : Key(t) = Own(f)
    BY DEF Links, Ds!KeptTables, KeptOnes, Key
  <2>2. f.cols[i] \in Ds!ToSet(t.cols)
    <3>1. Ds!ToSet(f.cols) \subseteq Ds!ToSet(t.cols)
      BY <2>1 DEF SchemaTypes, Ds!CatalogsAssumption, KeptOnes, Key, Own, Links
    <3> QED BY <3>1 DEF Ds!ToSet
  <2>3. \E j \in DOMAIN columns : columns[j].name = f.cols[i]
    <3>1. PICK j \in DOMAIN t.cols : t.cols[j] = f.cols[i]
      BY <2>2 DEF Ds!ToSet
    <3>2. DOMAIN columns = DOMAIN t.cols /\ columns[j].name = t.cols[j]
      BY <1>2, <1>5, <2>1, <3>1 DEF LinksRead, KeysRead, ColumnsRead
    <3> QED BY <3>1, <3>2
  <2>4. n \in DOMAIN columns /\ columns[n].name = f.cols[i]
    <3> HIDE DEF columns
    <3> QED BY <2>3
  <2>5. Ds!Shown(f.schema, f.table, f.cols[i]) = columns[n]
    BY DEF Ds!Shown, Own
  <2>6. \A j \in DOMAIN columns : columns[j].name = f.cols[i] => columns[j].fk = {Target(f, i)}
    BY <1>2, <1>5 DEF LinksRead
  <2> HIDE DEF columns, n
  <2> QED BY <2>4, <2>5, <2>6
<1>6. ASSUME Undisturbed, NEW t \in KeptOnes
      PROVE  {c \in Ds!ToSet(t.cols) : Ds!Shown(t.schema, t.name, c).pk} = t.pk
  <2>1. t.pk \subseteq Ds!ToSet(t.cols)
    BY DEF KeptOnes, SchemaTypes, Ds!CatalogsAssumption
  <2> QED BY <1>4, <1>6, <2>1
<1>7. ASSUME Undisturbed, NEW f \in Links, NEW i \in DOMAIN f.cols
      PROVE  <<f.schema, f.table, f.cols[i]>> \in reading.tables[Other(f)].refs
  BY <1>2, <1>7 DEF RefsRead
<1>8. Links = {g \in database.fks : {<<g.schema, g.table>>, <<g.refSchema, g.refTable>>} \subseteq Ds!KeptTables}
  BY DEF Links, Own, Other
<1> QED BY <1>1, <1>3, <1>5, <1>6, <1>7, <1>8
        DEF Ds!SchemaIsWhole, Undisturbed, Clear, Target, KeptOnes, Other

\* Of any catalogs, allow- and deny-lists and interleaving with DDL and
\* failures, what is rendered of an undisturbed reading is the schema, and no
\* table is shown as referenced from a schema that is left out.
THEOREM ReadingsAreWhole == PartsSpec => []SchemaIsWhole
<1> DEFINE Inv == part = "schema" => SchemaInv
<1>1. PartsInit => Inv
  BY PartsStart, PartsAssumption, SchemaInit
<1>2. Inv /\ [PartsNext]_<<part, partsVars>> => Inv'
  BY PartsStep, PartsAssumption, SchemaNext
<1>3. Inv => SchemaIsWhole
  BY PartsAssumption, SchemaWhole DEF SchemaIsWhole
<1> QED BY <1>1, <1>2, <1>3, PTL DEF PartsSpec
=============================================================================
