-------------------------- MODULE MCWatchScenarios ---------------------------
(* WatchedIndex for TLC in two scenarios, told apart by a variable that never *)
(* changes: one spends its states on the event loop, with two contents and    *)
(* all edits, the other on what is published, with database chunks, a         *)
(* reranker, a model loaded in the background, Refresh and Close, but one     *)
(* content and fewer edits.                                                   *)
EXTENDS WatchedIndex, TLC

CONSTANTS m1, m2,      \* the files
          d1,          \* the directory they are in
          v1, v2,      \* contents: v1 alone in the second scenario
          x1, r1,      \* a set of database chunks, a reranker
          FewEdits     \* bound: its edits

VARIABLE scenario
scenarioVars == <<vars, scenario>>

OneDir == d1 :> {m1, m2}

\* Only the tree and the loop move.
EventsOnly ==
  /\ UNCHANGED <<warm, closing, extras, reranker>>
  /\ fl'["refresh"] = fl["refresh"]

OneContent == \A f \in Files : disk[f] \in {v1, None}
ServingOnly == OneContent' /\ edits' <= FewEdits

ScenarioInit ==
  /\ Init
  /\ scenario \in {"events", "serving"}
  /\ scenario = "serving" => OneContent

ScenarioNext ==
  /\ Next
  /\ UNCHANGED scenario
  /\ scenario = "events" => EventsOnly
  /\ scenario = "serving" => ServingOnly

ScenarioSpec == ScenarioInit /\ [][ScenarioNext]_scenarioVars
=============================================================================
