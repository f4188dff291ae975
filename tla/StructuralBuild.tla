---------------------------- MODULE StructuralBuild --------------------------
(* The lazily built structural index of a workspace (engine/structural.go):   *)
(* callers start or join one background build, flushes bring the index up to  *)
(* date file by file, a resync drops it, and Close stops it.  The state       *)
(* machine of a RepoBundle without an engine behind it (mcp/bundle.go) is the *)
(* same one with no flushes.                                                  *)
(*                                                                            *)
(* An index is what it was built from: the version of every file it has read. *)
(* Each section the code runs under s.mu is one action.                       *)
EXTENDS Naturals

CONSTANTS Files,      \* the files of the corpus
          Callers,    \* goroutines calling a structural method
          MaxEdits,   \* bound: versions of a file
          MaxBuilds,  \* bound: builds started
          None        \* no index, a file not read yet

ASSUME BoundAssumption == MaxEdits \in Nat /\ MaxBuilds \in Nat
ASSUME UnreadAssumption == None \notin Nat /\ None \notin [Files -> Nat]

VARIABLES
  disk,         \* file -> its version
  owed,         \* files edited, whose flush has not reached apply
  lost,         \* files edited, whose events an overflow has dropped
  cur,          \* structuralState.cur: the published index or None
  building,     \* structuralState.building
  cooling,      \* failedAt is less than the cooldown ago
  queued,       \* structuralState.queued
  pendingReset, \* structuralState.pendingReset
  cancelled,    \* the build's context is done
  run,          \* the build goroutine: "none", "reading", "failed", "built"
  seen,         \* what it has read
  builds,       \* how many builds have started; a build is named by its number
  unsignalled,  \* builds that have ended without having closed their channel
  pc,           \* caller -> "idle", "wait", "done"
  on,           \* caller -> the build whose channel it waits on
  stopping,     \* stop: "no", "wait", "done"
  stopAt        \* how many builds had started when stop was called

treeVars  == <<disk, owed, lost>>
buildVars == <<building, cooling, queued, pendingReset, cancelled, run, seen,
               builds, unsignalled>>
callVars  == <<pc, on>>
stopVars  == <<stopping, stopAt>>
vars == <<treeVars, cur, buildVars, callVars, stopVars>>

Unread == [f \in Files |-> None]

Init ==
  /\ disk = [f \in Files |-> 0] /\ owed = {} /\ lost = {}
  /\ cur = None
  /\ building = FALSE /\ cooling = FALSE
  /\ queued = {} /\ pendingReset = FALSE /\ cancelled = FALSE
  /\ run = "none" /\ seen = Unread /\ builds = 0 /\ unsignalled = {}
  /\ pc = [c \in Callers |-> "idle"]
  /\ on = [c \in Callers |-> 0]
  /\ stopping = "no" /\ stopAt = 0

-----------------------------------------------------------------------------
(* The tree, and the flushes that tell the structural index about it.         *)

Edit(f) ==
  /\ disk[f] < MaxEdits
  /\ disk' = [disk EXCEPT ![f] = @ + 1]
  /\ owed' = owed \cup {f}
  /\ UNCHANGED <<lost, cur, buildVars, callVars, stopVars>>

\* The watcher's queue overflows: a resync will come instead of these files.
Overflow ==
  /\ owed # {}
  /\ lost' = lost \cup owed
  /\ owed' = {}
  /\ UNCHANGED <<disk, cur, buildVars, callVars, stopVars>>

\* Index.Update: the paths are extracted again from the disk.
Updated(idx, F) == [f \in Files |-> IF f \in F THEN disk[f] ELSE idx[f]]

\* apply(paths, false): the batch of a flush, the watcher's or Refresh's.
ApplyPaths(F) ==
  /\ F # {} /\ F \subseteq owed
  /\ owed' = owed \ F
  /\ \/ /\ building
        /\ queued' = queued \cup F
        /\ UNCHANGED cur
     \/ /\ ~building
        /\ cur = None
        /\ UNCHANGED <<cur, queued>>
     \/ /\ ~building
        /\ cur # None
        /\ cur' = Updated(cur, F)
        /\ UNCHANGED queued
  /\ UNCHANGED <<disk, lost, building, cooling, pendingReset, cancelled, run, seen,
                 builds, unsignalled, callVars, stopVars>>

\* apply(_, true): the index, or the one being built, is of no use any more.
ApplyResync ==
  /\ lost # {}
  /\ lost' = {}
  /\ \/ building /\ pendingReset' = TRUE /\ UNCHANGED cur
     \/ ~building /\ cur' = None /\ UNCHANGED pendingReset
  /\ UNCHANGED <<disk, owed, building, cooling, queued, cancelled, run, seen,
                 builds, unsignalled, callVars, stopVars>>

-----------------------------------------------------------------------------
(* A call of get.                                                             *)

\* The caller is given what cur holds, or nil.
Answered(c) == pc' = [pc EXCEPT ![c] = "done"]

GetReady(c) ==
  /\ cur # None
  /\ Answered(c)
  /\ UNCHANGED <<on, buildVars>>

\* A build failed not long ago: no index, and no new build.
GetCooling(c) ==
  /\ cur = None /\ ~building /\ cooling
  /\ Answered(c)
  /\ UNCHANGED <<on, buildVars>>

Waits(c, n) ==
  /\ pc' = [pc EXCEPT ![c] = "wait"]
  /\ on' = [on EXCEPT ![c] = n]

GetStart(c) ==
  /\ cur = None /\ ~building /\ ~cooling
  /\ builds < MaxBuilds
  /\ building' = TRUE /\ cancelled' = FALSE
  /\ run' = "reading" /\ seen' = Unread
  /\ builds' = builds + 1
  /\ Waits(c, builds + 1)
  /\ UNCHANGED <<cooling, queued, pendingReset, unsignalled>>

GetJoin(c) ==
  /\ cur = None /\ building
  /\ Waits(c, builds)
  /\ UNCHANGED buildVars

Get(c) ==
  /\ pc[c] \in {"idle", "done"}
  /\ GetReady(c) \/ GetCooling(c) \/ GetStart(c) \/ GetJoin(c)
  /\ UNCHANGED <<treeVars, cur, stopVars>>

\* <-done, once the build the caller waits for has closed its channel.
Signalled(n) == n \notin unsignalled /\ (n # builds \/ ~building)

Wake(c) ==
  /\ pc[c] = "wait"
  /\ Signalled(on[c])
  /\ Answered(c)
  /\ UNCHANGED <<treeVars, cur, buildVars, on, stopVars>>

\* The first-wait timer, or the caller's context.
GiveUp(c) ==
  /\ pc[c] = "wait"
  /\ Answered(c)
  /\ UNCHANGED <<treeVars, cur, buildVars, on, stopVars>>

-----------------------------------------------------------------------------
(* The build goroutine.                                                       *)

\* The builder reads the files one by one, outside the lock.
Read(f) ==
  /\ run = "reading" /\ ~cancelled /\ seen[f] = None
  /\ seen' = [seen EXCEPT ![f] = disk[f]]
  /\ UNCHANGED <<treeVars, cur, building, cooling, queued, pendingReset, cancelled,
                 run, builds, unsignalled, callVars, stopVars>>

\* It fails, or finds its context done: cancelled by stop, or past its budget.
Builder ==
  /\ run = "reading"
  /\ \/ (\A f \in Files : seen[f] # None) /\ run' = "built"
     \/ run' = "failed"
  /\ UNCHANGED <<treeVars, cur, building, cooling, queued, pendingReset, cancelled,
                 seen, builds, unsignalled, callVars, stopVars>>

\* The locked section of run.
RunFailed ==
  /\ run = "failed"
  /\ cooling' = TRUE
  /\ UNCHANGED cur

RunReset ==
  /\ run = "built" /\ pendingReset
  /\ UNCHANGED <<cur, cooling>>

RunPublish_Unqueued ==                          \* mutant: queued not applied
  /\ run = "built" /\ ~pendingReset
  /\ cur' = seen
  /\ UNCHANGED cooling
RunPublish ==
  /\ run = "built" /\ ~pendingReset
  /\ cur' = Updated(seen, queued)
  /\ UNCHANGED cooling

RunEnd ==
  /\ RunFailed \/ RunReset \/ RunPublish
  /\ queued' = {} /\ pendingReset' = FALSE
  /\ building' = FALSE /\ cancelled' = FALSE
  /\ run' = "none" /\ seen' = Unread
  /\ unsignalled' = unsignalled \cup {builds}
  /\ UNCHANGED <<treeVars, builds, callVars, stopVars>>

\* close(done)
Signal_Dropped == FALSE /\ UNCHANGED vars       \* mutant: never closed
Signal ==
  /\ \E n \in unsignalled : unsignalled' = unsignalled \ {n}
  /\ UNCHANGED <<treeVars, cur, building, cooling, queued, pendingReset, cancelled,
                 run, seen, builds, callVars, stopVars>>

CooldownEnds ==
  /\ cooling
  /\ cooling' = FALSE
  /\ UNCHANGED <<treeVars, cur, building, queued, pendingReset, cancelled, run, seen,
                 builds, unsignalled, callVars, stopVars>>

-----------------------------------------------------------------------------
(* stop, from Workspace.Close: cancel the build, and wait for its channel.    *)

StopCall ==
  /\ stopping = "no"
  /\ cancelled' = building
  /\ stopping' = IF building THEN "wait" ELSE "done"
  /\ stopAt' = builds
  /\ UNCHANGED <<treeVars, cur, building, cooling, queued, pendingReset, run, seen,
                 builds, unsignalled, callVars>>

StopReturn_Early ==                             \* mutant: <-done dropped
  /\ stopping = "wait"
  /\ stopping' = "done"
  /\ UNCHANGED <<treeVars, cur, buildVars, callVars, stopAt>>
StopReturn ==
  /\ stopping = "wait"
  /\ Signalled(stopAt)
  /\ stopping' = "done"
  /\ UNCHANGED <<treeVars, cur, buildVars, callVars, stopAt>>

-----------------------------------------------------------------------------
BuildStep == (\E f \in Files : Read(f)) \/ Builder \/ RunEnd

Next ==
  \/ \E f \in Files : Edit(f)
  \/ Overflow
  \/ \E F \in SUBSET Files : ApplyPaths(F)
  \/ ApplyResync
  \/ \E c \in Callers : Get(c) \/ Wake(c) \/ GiveUp(c)
  \/ BuildStep \/ Signal \/ CooldownEnds
  \/ StopCall \/ StopReturn

\* Goroutines are scheduled; a build has a budget, so it ends.  Nobody has to
\* give up, and flushes need not come.
Fairness ==
  /\ WF_vars(BuildStep) /\ WF_vars(Signal) /\ WF_vars(StopReturn)
  /\ \A c \in Callers : WF_vars(Wake(c))

Spec == Init /\ [][Next]_vars
FairSpec == Spec /\ Fairness

-----------------------------------------------------------------------------
(* Properties.                                                                *)

TypeOK ==
  /\ disk \in [Files -> Nat] /\ owed \subseteq Files /\ lost \subseteq Files
  /\ cur \in [Files -> Nat] \cup {None}
  /\ building = (run # "none") /\ cooling \in BOOLEAN
  /\ queued \subseteq Files /\ pendingReset \in BOOLEAN /\ cancelled \in BOOLEAN
  /\ run \in {"none", "reading", "failed", "built"}
  /\ seen \in [Files -> Nat \cup {None}]
  /\ builds \in Nat /\ unsignalled \subseteq 1..builds
  /\ pc \in [Callers -> {"idle", "wait", "done"}]
  /\ on \in [Callers -> 0..builds]
  /\ stopping \in {"no", "wait", "done"} /\ stopAt \in 0..builds

(* K13, ADR-048: a file that is not waiting for its flush is in the published *)
(* index as it is on disk, whatever was edited, queued or reset while a build *)
(* was reading the tree.                                                      *)
StructuralCurrent ==
  cur # None => \A f \in Files \ (owed \cup lost) : cur[f] = disk[f]

(* audit N7: when stop has returned, every build it found running has exited. *)
StopWaits == stopping = "done" /\ building => builds > stopAt

(* "no build goroutine outlives the bundle (goleak) or reads a deleted temp   *)
(* clone" (mcp/bundle.go:198): once stop has returned no build runs.          *)
NoBuildAfterStop == stopping = "done" => ~building

(* A caller that joined a build is woken whether the build publishes, fails   *)
(* or is discarded, without the timer's help; and stop returns.               *)
WaitersAnswered ==
  /\ \A c \in Callers : pc[c] = "wait" ~> pc[c] = "done"
  /\ stopping = "wait" ~> stopping = "done"
=============================================================================
