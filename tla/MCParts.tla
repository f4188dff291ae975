------------------------------- MODULE MCParts -------------------------------
(* The components that compute, for TLC, each in a run of its own from its own *)
(* initial states: `part` says which one a behaviour runs.  Only one runs, so  *)
(* all share the slots v1 to v11 for their variables, in the order the         *)
(* component declares them; the slots a component does not use are off.        *)
EXTENDS Parts, PartsData

VARIABLES v1, v2, v3, v4, v5, v6, v7, v8, v9, v10, v11
allVars == <<part, partsVars, v1, v2, v3, v4, v5, v6, v7, v8, v9, v10, v11>>

Sy == INSTANCE SymbolIndex WITH
  Files <- SyFiles, Dirs <- {"d", "e"}, DirOf <- SyDirOf,
  TestFiles <- {"e/t"}, Sources <- DOMAIN SyDecls, Decls <- SyDecls,
  PackageOf <- SyPackageOf, BaseOf <- SyBaseOf,
  MaxCallerFiles <- 1, MaxPending <- 2,
  disk <- v1, pending <- v2, index <- v3, ghosts <- v4

Rk == INSTANCE Ranking WITH
  Chunks <- RkChunks, Penalty <- RkPenalty, Stem <- RkStem, Parts <- RkParts,
  ArmMin <- 2, ArmFactor <- 1, FilesCap <- 4,
  RerankN <- 3, MinN <- 2, Threshold <- 2, Requests <- RkRequests,
  request <- v1, answer <- v2

Xc == INSTANCE Extract WITH
  Trees <- XcTrees,
  lang <- v1, tree <- v2, found <- v3

Mf == INSTANCE MigrationFold WITH
  Tables <- {"t", "u"}, Columns <- {"a", "b"}, Schemes <- MfSchemes,
  MaxStatements <- 4,
  scheme <- v1, files <- v2, real <- v3, beyond <- v4, renamed <- v5,
  gone <- v6, reused <- v7, phase <- v8, todo <- v9, unread <- v10,
  state <- v11

Tl == INSTANCE Tools WITH
  Versions <- TlVersions, Defaults <- BOOLEAN, Requests <- TlRequests,
  Pages <- TlPages, DefaultTopK <- 2, MaxTopK <- 3, Overfetch <- 2,
  OverfetchCap <- 4, MaxBulkQueries <- 2, Scaffold <- 1, MaxPage <- 2,
  DefaultCommits <- 2, MaxCommits <- 3, MaxUpdates <- 1,
  index <- v1, structural <- v2, default <- v3, asked <- v4, answer <- v5,
  paging <- v6, updates <- v7

Us == INSTANCE UsageLog WITH
  Processes <- {"p", "q"}, CheckEvery <- 2, Answers <- UsAnswers,
  SizeOf <- [f \in {"a", "b"} |-> 9], Days <- {0, 6, 7}, MaxRecords <- 3,
  MaxRotations <- 1, MaxFails <- 1,
  files <- v1, path <- v2, handle <- v3, since <- v4, day <- v5, sent <- v6,
  fails <- v7, stale <- v8, summary <- v9

Be == INSTANCE Bench WITH
  Lists <- {<<"a", "b">>, <<"b">>}, Setups <- BeSetups, Answers <- BeAnswers, Gold <- BeGold,
  MaxRuns <- 3, MaxKills <- 1, MaxFails <- 1,
  file <- v1, run <- v2, runs <- v3, kills <- v4, fails <- v5, synced <- v6,
  answer <- v7

-----------------------------------------------------------------------------
\* The slots from the given one on are off, and stay so.
Off11 == v11 = 0
Off10 == v10 = 0 /\ Off11
Off9 == v9 = 0 /\ Off10
Off8 == v8 = 0 /\ Off9
Off7 == v7 = 0 /\ Off8
Off6 == v6 = 0 /\ Off7
Off5 == v5 = 0 /\ Off6
Off4 == v4 = 0 /\ Off5
Off3 == v3 = 0 /\ Off4
Off2 == v2 = 0 /\ Off3
Off1 == v1 = 0 /\ Off2

From11 == <<v11>>
From10 == <<v10, From11>>
From9 == <<v9, From10>>
From8 == <<v8, From9>>
From7 == <<v7, From8>>
From6 == <<v6, From7>>
From5 == <<v5, From6>>
From4 == <<v4, From5>>
From3 == <<v3, From4>>
From2 == <<v2, From3>>
From1 == <<v1, From2>>

Init ==
  \/ PartsInit /\ Off1
  \/ part = "symbols" /\ Sy!Init /\ PartsOff /\ Off5
  \/ part = "ranking" /\ Rk!Init /\ PartsOff /\ Off3
  \/ part = "extract" /\ Xc!Init /\ PartsOff /\ Off4
  \/ part = "migrations" /\ Mf!Init /\ PartsOff
  \/ part = "usage" /\ Us!Init /\ PartsOff /\ Off10
  \/ part = "bench" /\ Be!Init /\ PartsOff /\ Off8
  \/ part = "tools" /\ Tl!Init /\ PartsOff /\ Off8

Next ==
  \/ PartsNext /\ UNCHANGED From1
  \/ part = "symbols" /\ Sy!Next /\ UNCHANGED <<part, partsVars, From5>>
  \/ part = "ranking" /\ Rk!Next /\ UNCHANGED <<part, partsVars, From3>>
  \/ part = "extract" /\ Xc!Next /\ UNCHANGED <<part, partsVars, From4>>
  \/ part = "migrations" /\ Mf!Next /\ UNCHANGED <<part, partsVars>>
  \/ part = "usage" /\ Us!Next /\ UNCHANGED <<part, partsVars, From10>>
  \/ part = "bench" /\ Be!Next /\ UNCHANGED <<part, partsVars, From8>>
  \/ part = "tools" /\ Tl!Next /\ UNCHANGED <<part, partsVars, From8>>

Spec == Init /\ [][Next]_allVars

-----------------------------------------------------------------------------
(* Update makes the index a fresh build would, and its queries agree with one *)
(* another (structural Index.Update, lookups.go, tests.go).                   *)
SymbolsAgree == part = "symbols" => Sy!UpdateIsRebuild /\ Sy!LookupsAgree

(* The selection's early exit loses nothing, and no mode or downgrade gives a *)
(* tombstone, a chunk twice or too few (rerankTopK, SearchMode).              *)
SearchIsSound == part = "ranking" => Rk!SearchIsSound

(* In every language the caller that a call site names is the innermost function*)
(* recorded around it, and no call of a body is lost (extract_*.go).          *)
CallsBelong == part = "extract" => Xc!CallsBelong

(* The folded tables read as the tables the migrations left, and what the     *)
(* replay does not cover is kept beside them (fold.go).                       *)
FoldIsReplay == part = "migrations" => Mf!FoldIsReplay

(* Rows shown, dropped and left for the next page add up to what was found    *)
(* (searchCore, applyTokenBudget, pageWindow, handleReferences).              *)
AnswersAddUp == part = "tools" => Tl!AnswersAddUp

(* A rotated log is noticed, a failed write costs two records at the most, and*)
(* the summary counts the others once (usage/stats.go); a benchmark's results *)
(* file, resumed after kills and full disks, holds each record once           *)
(* (bench/contextbench/resume.go).                                            *)
LogAddsUp ==
  /\ part = "usage" => Us!LogAddsUp
  /\ part = "bench" => Be!ResultsResume
=============================================================================
