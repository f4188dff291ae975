------------------------ MODULE StructuralBuildProofs ------------------------
(* The published structural index is current, and stop waits: for every set   *)
(* of files and callers and any number of edits and builds.                   *)
EXTENDS StructuralBuild, TLAPS

\* The files whose last edit a flush has brought to apply.
Told == Files \ (owed \cup lost)

(* A build under way will publish a current index: a file it has read and     *)
(* that has changed since is queued for it, unless its result is to be        *)
(* dropped or the flush of the file is still to come.                         *)
InFlight ==
  building =>
    /\ cur = None /\ builds >= 1
    /\ ~pendingReset => \A f \in Told \ queued : seen[f] \in {None, disk[f]}

\* A build that has succeeded has read every file.
Whole == run = "built" => \A f \in Files : seen[f] # None

IInv == TypeOK /\ InFlight /\ Whole /\ StructuralCurrent /\ StopWaits

USE DEF Told

-----------------------------------------------------------------------------
\* The invariant holds before anything is built.
THEOREM InitInv == Init => IInv
<1> SUFFICES ASSUME Init PROVE IInv
  OBVIOUS
<1>1. seen \in [Files -> Nat \cup {None}]
  BY DEF Init, Unread
<1>2. /\ on \in [Callers -> 0..builds] /\ unsignalled \subseteq 1..builds
      /\ stopAt \in 0..builds /\ builds \in Nat
  BY DEF Init
<1>3. disk \in [Files -> Nat] /\ pc \in [Callers -> {"idle", "wait", "done"}]
  BY DEF Init
<1>4. building = (run # "none")
  BY DEF Init
<1>5. TypeOK
  BY <1>1, <1>2, <1>3, <1>4, Zenon DEF Init, TypeOK
<1>6. InFlight /\ Whole /\ StructuralCurrent /\ StopWaits
  BY DEF Init, InFlight, Whole, StructuralCurrent, StopWaits
<1> QED BY <1>5, <1>6 DEF IInv

\* An edit is owed to the index until its flush.
LEMMA EditInv ==
  ASSUME IInv, NEW f \in Files, Edit(f)
  PROVE  IInv'
<1> USE DEF IInv
<1>1. TypeOK'
  BY DEF Edit, TypeOK, buildVars, callVars, stopVars
<1>2. InFlight' /\ Whole' /\ StructuralCurrent' /\ StopWaits'
  BY DEF Edit, TypeOK, InFlight, Whole, StructuralCurrent, StopWaits, buildVars, callVars,
         stopVars
<1> QED BY <1>1, <1>2

\* Lost events leave their files out of what the index promises.
LEMMA OverflowInv ==
  ASSUME IInv, Overflow
  PROVE  IInv'
BY DEF IInv, Overflow, TypeOK, InFlight, Whole, StructuralCurrent, StopWaits, buildVars,
       callVars, stopVars

\* What Update returns has the disk's version of the paths it was given.
LEMMA UpdatedIndex ==
  ASSUME TypeOK, NEW idx \in [Files -> Nat], NEW F \in SUBSET Files
  PROVE  /\ Updated(idx, F) \in [Files -> Nat]
         /\ Updated(idx, F) # None
         /\ \A f \in F : Updated(idx, F)[f] = disk[f]
         /\ \A f \in Files \ F : Updated(idx, F)[f] = idx[f]
BY UnreadAssumption DEF Updated, TypeOK

\* A flush is queued for the build under way, or applied to the index.
LEMMA ApplyPathsInv ==
  ASSUME IInv, NEW F \in SUBSET Files, ApplyPaths(F)
  PROVE  IInv'
<1> USE DEF IInv
<1>1. CASE building
  <2>1. queued' = queued \cup F /\ cur' = cur
    BY <1>1 DEF ApplyPaths
  <2>2. TypeOK'
    BY <2>1 DEF ApplyPaths, TypeOK, callVars, stopVars
  <2>3. InFlight' /\ Whole' /\ StructuralCurrent' /\ StopWaits'
    BY <1>1, <2>1 DEF ApplyPaths, TypeOK, InFlight, Whole, StructuralCurrent, StopWaits,
                      callVars, stopVars
  <2> QED BY <2>2, <2>3
<1>2. CASE ~building
  <2>1. /\ queued' = queued
        /\ cur' = IF cur = None THEN None ELSE Updated(cur, F)
    BY <1>2 DEF ApplyPaths
  <2>2. cur # None => /\ cur' \in [Files -> Nat]
                      /\ \A f \in F : cur'[f] = disk[f]
                      /\ \A f \in Files \ F : cur'[f] = cur[f]
    BY <2>1, UpdatedIndex DEF TypeOK
  <2>3. TypeOK'
    BY <2>1, <2>2 DEF ApplyPaths, TypeOK, callVars, stopVars
  <2>4. InFlight' /\ Whole' /\ StopWaits'
    BY <1>2 DEF ApplyPaths, InFlight, Whole, StopWaits, stopVars
  <2>5. StructuralCurrent'
    BY <2>1, <2>2 DEF ApplyPaths, StructuralCurrent
  <2> QED BY <2>3, <2>4, <2>5
<1> QED BY <1>1, <1>2

\* A resync drops the index, or the result of the build under way.
LEMMA ApplyResyncInv ==
  ASSUME IInv, ApplyResync
  PROVE  IInv'
BY DEF IInv, ApplyResync, TypeOK, InFlight, Whole, StructuralCurrent, StopWaits, callVars,
       stopVars

-----------------------------------------------------------------------------
\* A call of get starts at most one build, over the tree as it is.
LEMMA GetInv ==
  ASSUME IInv, NEW c \in Callers, Get(c)
  PROVE  IInv'
<1> USE DEF IInv, treeVars, stopVars
<1>1. CASE GetReady(c) \/ GetCooling(c)
  <2>1. /\ pc' = [pc EXCEPT ![c] = "done"]
        /\ UNCHANGED <<treeVars, cur, on, buildVars, stopVars>>
    BY <1>1 DEF Get, GetReady, GetCooling, Answered
  <2>2. TypeOK'
    BY <2>1 DEF TypeOK, buildVars
  <2> QED BY <2>1, <2>2 DEF buildVars, InFlight, Whole, StructuralCurrent, StopWaits
<1>2. CASE GetStart(c)
  <2>1. /\ cur = None /\ builds' = builds + 1 /\ seen' = Unread /\ run' = "reading"
        /\ pc' = [pc EXCEPT ![c] = "wait"] /\ on' = [on EXCEPT ![c] = builds + 1]
        /\ building' = TRUE /\ cancelled' = FALSE
        /\ UNCHANGED <<treeVars, cur, cooling, queued, pendingReset, unsignalled, stopVars>>
    BY <1>2 DEF Get, GetStart, Waits
  <2>2. Unread \in [Files -> Nat \cup {None}] /\ \A f \in Files : Unread[f] = None
    BY DEF Unread
  <2>3. on' \in [Callers -> 0..builds'] /\ unsignalled' \subseteq 1..builds'
        /\ builds' \in Nat /\ stopAt' \in 0..builds'
    BY <2>1 DEF TypeOK
  <2>4. TypeOK'
    BY <2>1, <2>2, <2>3 DEF TypeOK
  <2>5. InFlight' /\ Whole' /\ StructuralCurrent'
    BY <2>1, <2>2 DEF TypeOK, InFlight, Whole, StructuralCurrent
  <2>6. StopWaits'
    BY <2>1 DEF TypeOK, StopWaits
  <2> QED BY <2>4, <2>5, <2>6
<1>3. CASE GetJoin(c)
  <2>1. /\ pc' = [pc EXCEPT ![c] = "wait"] /\ on' = [on EXCEPT ![c] = builds]
        /\ UNCHANGED <<treeVars, cur, buildVars, stopVars>>
    BY <1>3 DEF Get, GetJoin, Waits
  <2>2. TypeOK'
    BY <2>1 DEF TypeOK, buildVars
  <2> QED BY <2>1, <2>2 DEF buildVars, InFlight, Whole, StructuralCurrent, StopWaits
<1> QED BY <1>1, <1>2, <1>3 DEF Get

\* Waking up and giving up change nothing but the caller.
LEMMA AnswerInv ==
  ASSUME IInv, NEW c \in Callers, Wake(c) \/ GiveUp(c)
  PROVE  IInv'
<1>1. /\ pc' = [pc EXCEPT ![c] = "done"]
      /\ UNCHANGED <<treeVars, cur, on, buildVars, stopVars>>
  BY DEF Wake, GiveUp, Answered
<1>2. TypeOK'
  BY <1>1 DEF IInv, TypeOK, treeVars, buildVars, stopVars
<1> QED BY <1>1, <1>2 DEF IInv, treeVars, buildVars, stopVars, InFlight, Whole,
                          StructuralCurrent, StopWaits

-----------------------------------------------------------------------------
\* What the builder reads is what the disk holds.
LEMMA ReadInv ==
  ASSUME IInv, NEW f \in Files, Read(f)
  PROVE  IInv'
<1> USE DEF IInv
<1>1. TypeOK'
  BY DEF Read, TypeOK, treeVars, callVars, stopVars
<1>2. InFlight' /\ Whole' /\ StructuralCurrent' /\ StopWaits'
  BY DEF Read, TypeOK, InFlight, Whole, StructuralCurrent, StopWaits, treeVars, stopVars
<1> QED BY <1>1, <1>2

\* The builder ends with every file read, or fails.
LEMMA BuilderInv ==
  ASSUME IInv, Builder
  PROVE  IInv'
BY DEF IInv, Builder, TypeOK, InFlight, Whole, StructuralCurrent, StopWaits, treeVars,
       callVars, stopVars

\* What run publishes is current: the queued paths are read again.
LEMMA RunEndInv ==
  ASSUME IInv, RunEnd
  PROVE  IInv'
<1> USE DEF IInv
<1>1. /\ building /\ builds >= 1 /\ cur = None
      /\ queued' = {} /\ pendingReset' = FALSE
      /\ building' = FALSE /\ cancelled' = FALSE
      /\ run' = "none" /\ seen' = Unread
      /\ unsignalled' = unsignalled \cup {builds}
      /\ UNCHANGED <<treeVars, builds, callVars, stopVars>>
  BY DEF RunEnd, RunFailed, RunReset, RunPublish, TypeOK, InFlight
<1>2. Unread \in [Files -> Nat \cup {None}]
  BY DEF Unread
<1>3. cooling' \in BOOLEAN
  BY DEF RunEnd, RunFailed, RunReset, RunPublish, TypeOK
<1>4. /\ cur' \in [Files -> Nat] \cup {None}
      /\ cur' # None => \A f \in Told : cur'[f] = disk[f]
  <2>1. CASE RunFailed \/ RunReset
    BY <1>1, <2>1 DEF RunFailed, RunReset
  <2>2. CASE RunPublish
    <3>1. seen \in [Files -> Nat]
      BY <2>2, UnreadAssumption DEF RunPublish, TypeOK, Whole
    <3>2. cur' = Updated(seen, queued) /\ queued \in SUBSET Files
      BY <2>2 DEF RunPublish, TypeOK
    <3>3. \A f \in Told \ queued : seen[f] = disk[f]
      BY <1>1, <2>2 DEF RunPublish, InFlight, Whole
    <3> QED BY <3>1, <3>2, <3>3, UpdatedIndex
  <2> QED BY <2>1, <2>2 DEF RunEnd
<1>5. TypeOK'
  <2>1. building' = (run' # "none")
    BY <1>1
  <2>2. unsignalled' \subseteq 1..builds'
    BY <1>1 DEF TypeOK
  <2> QED BY <1>1, <1>2, <1>3, <1>4, <2>1, <2>2 DEF TypeOK, treeVars, callVars, stopVars
<1>6. InFlight' /\ Whole' /\ StopWaits'
  BY <1>1 DEF InFlight, Whole, StopWaits
<1>7. StructuralCurrent'
  BY <1>1, <1>4 DEF StructuralCurrent, treeVars
<1> QED BY <1>5, <1>6, <1>7

\* Closing the channel, and the end of the cooldown, preserve it.
LEMMA SignalInv ==
  ASSUME IInv, Signal \/ CooldownEnds
  PROVE  IInv'
BY DEF IInv, Signal, CooldownEnds, TypeOK, InFlight, Whole, StructuralCurrent, StopWaits,
       treeVars, callVars, stopVars

\* stop returns only when the build it found has ended.
LEMMA StopInv ==
  ASSUME IInv, StopCall \/ StopReturn
  PROVE  IInv'
<1> USE DEF IInv
<1>1. CASE StopCall
  <2>1. TypeOK'
    BY <1>1 DEF StopCall, TypeOK, treeVars, callVars
  <2>2. InFlight' /\ Whole' /\ StructuralCurrent' /\ StopWaits'
    BY <1>1 DEF StopCall, InFlight, Whole, StructuralCurrent, StopWaits, treeVars
  <2> QED BY <2>1, <2>2
<1>2. CASE StopReturn
  <2>1. TypeOK'
    BY <1>2 DEF StopReturn, TypeOK, treeVars, buildVars, callVars
  <2>2. InFlight' /\ Whole' /\ StructuralCurrent'
    BY <1>2 DEF StopReturn, InFlight, Whole, StructuralCurrent, treeVars, buildVars
  <2>3. building => builds > stopAt
    BY <1>2 DEF StopReturn, Signalled, TypeOK
  <2>4. StopWaits'
    BY <1>2, <2>3 DEF StopReturn, StopWaits, buildVars
  <2> QED BY <2>1, <2>2, <2>4
<1> QED BY <1>1, <1>2

-----------------------------------------------------------------------------
\* Every step preserves the invariant.
THEOREM NextInv == IInv /\ [Next]_vars => IInv'
<1> SUFFICES ASSUME IInv, [Next]_vars PROVE IInv'
  OBVIOUS
<1>1. ASSUME NEW f \in Files, Edit(f) PROVE IInv'
  BY <1>1, EditInv
<1>2. CASE Overflow
  BY <1>2, OverflowInv
<1>3. ASSUME NEW F \in SUBSET Files, ApplyPaths(F) PROVE IInv'
  BY <1>3, ApplyPathsInv
<1>4. CASE ApplyResync
  BY <1>4, ApplyResyncInv
<1>5. ASSUME NEW c \in Callers, Get(c) \/ Wake(c) \/ GiveUp(c) PROVE IInv'
  BY <1>5, GetInv, AnswerInv
<1>6. CASE BuildStep
  BY <1>6, ReadInv, BuilderInv, RunEndInv DEF BuildStep
<1>7. CASE Signal \/ CooldownEnds
  BY <1>7, SignalInv
<1>8. CASE StopCall \/ StopReturn
  BY <1>8, StopInv
<1>9. CASE UNCHANGED vars
  BY <1>9 DEF vars, treeVars, buildVars, callVars, stopVars, IInv, TypeOK, InFlight,
              Whole, StructuralCurrent, StopWaits
<1> QED BY <1>1, <1>2, <1>3, <1>4, <1>5, <1>6, <1>7, <1>8, <1>9 DEF Next

(* The inductive invariant holds in every reachable state.                    *)
THEOREM StructuralInv == Spec => []IInv
BY InitInv, NextInv, PTL DEF Spec

(* Every variable has its type: a build is marked as running exactly while    *)
(* its goroutine runs (structural.go get and run).                            *)
THEOREM StructuralTypes == Spec => []TypeOK
BY StructuralInv, PTL DEF IInv

(* K13: a file whose flush has reached apply is in the published index as it  *)
(* is on disk.                                                                *)
THEOREM StructuralIsCurrent == Spec => []StructuralCurrent
BY StructuralInv, PTL DEF IInv

(* N7: a build that stop found running has exited when stop returns.          *)
THEOREM StopWaitsForBuild == Spec => []StopWaits
BY StructuralInv, PTL DEF IInv
=============================================================================
