-------------------------------- MODULE RepoWalk --------------------------------
(* Which files of a repository are indexed (internal/repo: walk.go, ignore.go):*)
(* the walk of a build, and the matcher that the watcher asks about one path.  *)
(* A path is a sequence of names.  A pattern is a sequence of segments, each   *)
(* the set of names it matches; AnyDirs is "**".                               *)
EXTENDS Naturals, Sequences, FiniteSets, SequencesExt, FiniteSetsExt

CONSTANTS
  Entries,   \* the tree, in the order fs.WalkDir visits it: [path, kind]
  Contents,  \* what a regular file may hold
  Disks,     \* what the files hold at first: functions path -> content
  Ignores,   \* directories' ignore files: functions dir -> [git, ken, semble],
             \* each <<>> (no such file) or <<its lines>>
  Configs,   \* [skipGenerated, maxAvgLine, maxFiles] of the environment
  MaxTouches \* bound: files rewritten while a walk runs

VARIABLES
  disk,      \* file -> content
  unlisted,  \* directories that cannot be read
  ignore, config,
  walker,    \* "matcher" (NewMatcher collects), "walk", "done", "failed"
  at,        \* index of the entry the walk visits next
  scopes,    \* scope stack of the walk: seq of [dir, family, rules]
  collected, \* the matcher's scopes
  files,     \* the walk's result so far
  touched    \* files rewritten so far

vars == <<disk, unlisted, ignore, config, walker, at, scopes, collected, files, touched>>

Regular == {Entries[i].path : i \in {j \in DOMAIN Entries : Entries[j].kind = "file"}}
Dirs == {Entries[i].path : i \in {j \in DOMAIN Entries : Entries[j].kind = "dir"}}
Own == {".git", ".ken"}
AnyDirs == {}
Root == <<>>

-----------------------------------------------------------------------------
(* Rules.                                                                     *)

\* compileRule: a pattern with no slash matches at any depth.
CompileRule(line) ==
  [segs |-> IF line.slash \/ Len(line.segs) > 1 THEN line.segs ELSE <<AnyDirs>> \o line.segs,
   negate |-> line.negate, dirOnly |-> line.dirOnly]
\* parseGitignore: a lone "/" or "!" is no rule.
ParseGitignore(lines) ==
  LET kept == SelectSeq(lines, LAMBDA l : l.segs # <<>>)
  IN [i \in 1..Len(kept) |-> CompileRule(kept[i])]

\* The compiled expression matches the path or one of its ancestors: "**" takes
\* any number of directories, at the end at least one name.
Matches(segs, path) ==
  LET upTo[i \in 0..Len(segs), j \in 0..Len(path)] ==
        CASE i = 0 -> j = 0
          [] i > 0 /\ segs[i] = AnyDirs ->
               IF i = Len(segs) THEN \E k \in 0..(j - 1) : upTo[i - 1, k]
                                ELSE \E k \in 0..j : upTo[i - 1, k]
          [] OTHER -> j > 0 /\ path[j] \in segs[i] /\ upTo[i - 1, j - 1]
  IN \E j \in 1..Len(path) : upTo[Len(segs), j]

\* relToScope.
Under(dir, path) == Len(path) > Len(dir) /\ SubSeq(path, 1, Len(dir)) = dir
RelToScope(path, dir) == SubSeq(path, Len(dir) + 1, Len(path))

\* matchScopes: in each family the last rule that matches decides; either
\* family may exclude.
RuleMatches(scope, r, path, isDir) ==
  /\ Under(scope.dir, path)
  /\ scope.rules[r].dirOnly => isDir
  /\ Matches(scope.rules[r].segs, RelToScope(path, scope.dir))
MatchScopes(scs, path, isDir) ==
  \E n \in DOMAIN scs : \E r \in DOMAIN scs[n].rules :
    /\ RuleMatches(scs[n], r, path, isDir) /\ ~scs[n].rules[r].negate
    /\ \A m \in DOMAIN scs : \A q \in DOMAIN scs[m].rules :
         scs[m].family = scs[n].family /\ RuleMatches(scs[m], q, path, isDir) =>
           m < n \/ (m = n /\ q <= r)

\* loadKenIgnoreFS: .kenignore, or .sembleignore when there is none.
KenIgnore(dir) == IF ignore[dir].ken # <<>> THEN ignore[dir].ken ELSE ignore[dir].semble
\* pushScopes: the directory's scopes, those without a rule left out.
Scope(dir, family) ==
  LET doc == IF family = "git" THEN ignore[dir].git ELSE KenIgnore(dir)
  IN [dir |-> dir, family |-> family, rules |-> IF doc = <<>> THEN <<>> ELSE ParseGitignore(doc[1])]
Pushed(scope) == IF scope.rules = <<>> THEN <<>> ELSE <<scope>>
ScopesOf(dir) == Pushed(Scope(dir, "git")) \o Pushed(Scope(dir, "ken"))

\* pruneScopes: drop from the first scope the path is not below.
PruneScopes(scs, path) ==
  LET out == {i \in DOMAIN scs : scs[i].dir # path /\ ~Under(scs[i].dir, path)}
  IN IF out = {} THEN scs ELSE SubSeq(scs, 1, Min(out) - 1)

-----------------------------------------------------------------------------
\* fs.WalkDir visits a directory, then all below it, then what comes after.
Names == UNION {Range(Entries[i].path) : i \in DOMAIN Entries}
EntriesAssumption ==
  /\ DOMAIN Entries = 1..Len(Entries) /\ Len(Entries) \in Nat
  /\ \A i \in DOMAIN Entries : Entries[i].path \in Seq(Names) \ {Root}
  /\ \A i, j \in DOMAIN Entries : Entries[i].path = Entries[j].path => i = j
  /\ \A i \in DOMAIN Entries : \A n \in 1..(Len(Entries[i].path) - 1) :
       \E j \in 1..(i - 1) : Entries[j].kind = "dir" /\ Entries[j].path = SubSeq(Entries[i].path, 1, n)
  /\ \A i, k \in DOMAIN Entries : Under(Entries[i].path, Entries[k].path) =>
       \A j \in (i + 1)..k : Under(Entries[i].path, Entries[j].path)
  /\ \A d \in Disks : d = [p \in Regular |-> d[p]]

-----------------------------------------------------------------------------
(* Contents.                                                                  *)

\* sniffFS, sniffOS; looksMinified and looksGenerated as configured.
Sniffed(content) ==
  \/ content \in {"binary", "unreadable"}
  \/ content = "minified" /\ config.maxAvgLine > 0
  \/ content = "generated" /\ config.skipGenerated
Admitted(path) == disk[path] # "huge" /\ ~Sniffed(disk[path])

-----------------------------------------------------------------------------
(* The matcher.                                                               *)

AncestorDirExcluded_None(p) == FALSE            \* mutant: only the path itself
AncestorDirExcluded(p) == \E n \in 1..(Len(p) - 1) : MatchScopes(collected, SubSeq(p, 1, n), TRUE)

ShouldDescend(dir) ==
  \/ dir = Root
  \/ dir[1] \notin Own /\ ~MatchScopes(collected, dir, TRUE) /\ ~AncestorDirExcluded(dir)

ShouldIndex(p) ==
  /\ p[1] \notin Own
  /\ ~AncestorDirExcluded(p) /\ ~MatchScopes(collected, p, FALSE)
  /\ p \in Regular /\ Admitted(p)

-----------------------------------------------------------------------------
(* The walks: NewMatcher's over the directories, WalkFS over all.             *)

Init ==
  /\ disk \in Disks
  /\ unlisted \in {{}} \cup {{d} : d \in Dirs}
  /\ ignore \in Ignores /\ config \in Configs
  /\ walker = "matcher" /\ at = 1 /\ scopes = ScopesOf(Root) /\ collected = ScopesOf(Root)
  /\ files = <<>> /\ touched = {}

Entry == Entries[at]
Enters(scs) == Last(Entry.path) \notin Own /\ ~MatchScopes(scs, Entry.path, TRUE)
\* The entry after the directory's contents.
Beyond == Min({i \in at..Len(Entries) + 1 : i > at /\ (i > Len(Entries) \/ ~Under(Entry.path, Entries[i].path))})
Active == PruneScopes(scopes, Entry.path)
Fixed == UNCHANGED <<disk, unlisted, ignore, config, touched>>

\* collectGitignores, at one entry; a directory it cannot read it passes over.
Collect ==
  /\ walker = "matcher" /\ at <= Len(Entries)
  /\ IF Entry.kind = "dir" /\ Enters(Active)
       THEN /\ scopes' = Active \o ScopesOf(Entry.path)
            /\ collected' = collected \o ScopesOf(Entry.path)
            /\ at' = IF Entry.path \in unlisted THEN Beyond ELSE at + 1
       ELSE /\ scopes' = Active /\ UNCHANGED collected
            /\ at' = IF Entry.kind = "dir" THEN Beyond ELSE at + 1
  /\ UNCHANGED <<walker, files>> /\ Fixed

NewMatcher ==
  /\ walker = "matcher" /\ at > Len(Entries)
  /\ walker' = "walk" /\ at' = 1 /\ scopes' = ScopesOf(Root)
  /\ UNCHANGED <<collected, files>> /\ Fixed

\* WalkFS, at a directory: one that cannot be read fails the walk.
VisitDir ==
  /\ walker = "walk" /\ at <= Len(Entries) /\ Entry.kind = "dir"
  /\ IF ~Enters(Active)
       THEN at' = Beyond /\ scopes' = Active /\ UNCHANGED <<walker, files>>
     ELSE IF Entry.path \in unlisted
       THEN walker' = "failed" /\ files' = <<>> /\ UNCHANGED <<at, scopes>>
     ELSE at' = at + 1 /\ scopes' = Active \o ScopesOf(Entry.path) /\ UNCHANGED <<walker, files>>
  /\ UNCHANGED collected /\ Fixed

\* WalkFS, at anything else.
VisitFile ==
  /\ walker = "walk" /\ at <= Len(Entries) /\ Entry.kind # "dir"
  /\ scopes' = Active
  /\ IF Entry.kind = "file" /\ ~MatchScopes(Active, Entry.path, FALSE) /\ Admitted(Entry.path)
       THEN IF config.maxFiles > 0 /\ Len(files) + 1 > config.maxFiles
              THEN walker' = "failed" /\ files' = <<>> /\ UNCHANGED at     \* ErrTooManyFiles
              ELSE files' = Append(files, Entry.path) /\ at' = at + 1 /\ UNCHANGED walker
       ELSE at' = at + 1 /\ UNCHANGED <<walker, files>>
  /\ UNCHANGED collected /\ Fixed

WalkDone ==
  /\ walker = "walk" /\ at > Len(Entries)
  /\ walker' = "done" /\ UNCHANGED <<at, scopes, collected, files>> /\ Fixed

\* Someone rewrites a file meanwhile.
Touch(p, c) ==
  /\ walker = "walk" /\ Cardinality(touched) < MaxTouches /\ disk[p] # c
  /\ disk' = [disk EXCEPT ![p] = c] /\ touched' = touched \cup {p}
  /\ UNCHANGED <<unlisted, ignore, config, walker, at, scopes, collected, files>>

Next ==
  \/ Collect \/ NewMatcher \/ VisitDir \/ VisitFile \/ WalkDone
  \/ \E p \in Regular, c \in Contents : Touch(p, c)
Spec == Init /\ [][Next]_vars

-----------------------------------------------------------------------------
(* The watcher applies ShouldIndex to single paths, so that it keeps what a   *)
(* walk would list (ShouldIndex's comment): for every file that was not       *)
(* rewritten meanwhile the two agree, whatever the rules of both families on  *)
(* every level, their negations and the limits; and the walk looked below     *)
(* just the directories that ShouldDescend admits.  Paths with .git or .ken   *)
(* among their names are excepted: the walk skips directories of these names  *)
(* at any depth and lists files of these names, the matcher rejects both, but *)
(* only at the root.                                                          *)
Ordinary(p) == Range(p) \cap Own = {}
WalkAgrees ==
  walker = "done" =>
    /\ \A p \in Regular \ touched : Ordinary(p) => (p \in Range(files) <=> ShouldIndex(p))
    /\ \A p \in Range(files) : \A n \in 1..(Len(p) - 1) : ShouldDescend(SubSeq(p, 1, n))
================================================================================
