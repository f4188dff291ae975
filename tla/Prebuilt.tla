------------------------------- MODULE Prebuilt -------------------------------
(* The pre-built index .ken/index.bin over its life: `ken build-index` writes  *)
(* it (cmd/ken/build_index.go), ken-mcp and an embedded server boot from it or *)
(* index for themselves (loadOrBuildWatched; mcp/run.go), and the database     *)
(* replaces an embedded server's extra chunks.  What a load checks inside the  *)
(* file is IndexFile's; here a file is fit or not.                             *)
EXTENDS Naturals, FiniteSets

CONSTANTS Builders,  \* processes of ken build-index
          Modes, Chunkers,
          Trees,     \* states of the corpus
          Extras,    \* sets of database chunks
          MaxBuilds, MaxKills   \* bounds: builds begun, builders killed

Servers == [kind : {"ken-mcp", "embedded"}, mode : Modes, chunker : Chunkers,
            model : {"none", "broken", "ok"}]

VARIABLES
  tree,     \* the corpus
  out,      \* index.bin: [tree, mode, chunker, fit], or NoFile
  job,      \* builder -> what it has serialised and at which step
  temps,    \* temporary files beside it
  server,   \* the one that is booted, or Down
  served,   \* what it serves: [tree, mode, from, extras], or why it does not
  last,     \* history: the index renamed last
  built,    \* history: the indexes renamed
  begun,    \* bound: builds begun
  kills,    \* history: builders killed
  told      \* history: the extras delivered last, where they were integrated

vars == <<tree, out, job, temps, server, served, last, built, begun, kills, told>>
buildVars == <<job, temps, last, built, begun, kills>>
serverVars == <<server, served, told>>

NoFile == [fit |-> FALSE]
Idle == [step |-> "idle"]
Down == [kind |-> "down"]
Refused(why) == [from |-> "refused", why |-> why]

Init ==
  /\ tree \in Trees /\ out = NoFile
  /\ job = [b \in Builders |-> Idle] /\ temps = {}
  /\ server = Down /\ served = Refused("down")
  /\ last = NoFile /\ built = {} /\ begun = 0 /\ kills = 0 /\ told = {}

-----------------------------------------------------------------------------
(* ken build-index.                                                           *)

\* A mode with vectors needs the model; the index is serialised in memory.
Start(b, m, ch, hasModel) ==
  /\ job[b] = Idle /\ (m = "bm25" \/ hasModel)
  /\ begun < MaxBuilds /\ begun' = begun + 1
  /\ job' = [job EXCEPT ![b] = [step |-> "made",
               index |-> [tree |-> tree, mode |-> m, chunker |-> ch, fit |-> TRUE]]]
  /\ UNCHANGED <<tree, out, temps, last, built, kills, serverVars>>

Temp(b) == [by |-> b, kill |-> kills, index |-> job[b].index]
\* CreateTemp, Write, Sync and Close.
WriteTemp(b) ==
  /\ job[b].step = "made"
  /\ temps' = temps \cup {Temp(b)}
  /\ job' = [job EXCEPT ![b] = [step |-> "written", index |-> @.index, temp |-> Temp(b)]]
  /\ UNCHANGED <<tree, out, last, built, begun, kills, serverVars>>

RenameTemp(b) ==
  /\ job[b].step = "written"
  /\ out' = job[b].index /\ last' = job[b].index /\ built' = built \cup {job[b].index}
  /\ temps' = temps \ {job[b].temp}
  /\ job' = [job EXCEPT ![b] = Idle]
  /\ UNCHANGED <<tree, begun, kills, serverVars>>

\* Any of them fails: the temporary file is removed.
TempFails(b) ==
  /\ job[b] # Idle
  /\ temps' = IF job[b].step = "made" THEN temps ELSE temps \ {job[b].temp}
  /\ job' = [job EXCEPT ![b] = Idle]
  /\ UNCHANGED <<tree, out, last, built, begun, kills, serverVars>>

Kill(b) ==
  /\ job[b] # Idle /\ kills < MaxKills
  /\ kills' = kills + 1
  /\ job' = [job EXCEPT ![b] = Idle]
  /\ UNCHANGED <<tree, out, temps, last, built, begun, serverVars>>

\* The corpus is edited; the file is damaged, or from another version.
Edit(t) ==
  /\ t # tree /\ tree' = t
  /\ UNCHANGED <<out, buildVars, serverVars>>
Spoil ==
  /\ out.fit /\ out' = NoFile
  /\ UNCHANGED <<tree, buildVars, serverVars>>

-----------------------------------------------------------------------------
(* Boot.                                                                      *)

Frozen(t, m, from) == [tree |-> t, mode |-> m, from |-> from, extras |-> {}]
Matches(m, ch) == out.mode = m /\ out.chunker = ch

\* resolveStartupMode: without a model ken-mcp serves bm25.
Resolved(s) == IF s.model = "none" THEN "bm25" ELSE s.mode

\* buildOrLoadSnapshot: the workspace loads the model, or does not open.
BuildOrLoad(s, m) ==
  IF m # "bm25" /\ s.model # "ok" THEN Refused("model") ELSE Frozen("live", m, "tree")

\* loadOrBuildWatched: a model that does not load, or a file that is unfit,
\* leaves the file aside; another mode or chunker is an error.
LoadOrBuildWatched(s) ==
  LET m == Resolved(s) IN
  IF ~out.fit \/ (m # "bm25" /\ s.model # "ok") THEN BuildOrLoad(s, m)
  ELSE IF Matches(m, s.chunker) THEN Frozen(out.tree, m, "file")
  ELSE Refused("mismatch")

\* loadModel, and buildEmbeddedIndex's downgrade.
Loadable(s) == IF s.model = "ok" THEN s.mode ELSE "bm25"

\* tryLoadPrebuilt: whatever is wrong with the file, it is left aside.
TryLoadPrebuilt(s) == out.fit /\ Matches(Loadable(s), s.chunker)
BuildEmbedded(s) ==
  IF TryLoadPrebuilt(s) THEN Frozen(out.tree, Loadable(s), "file")
                        ELSE Frozen(tree, Loadable(s), "tree")

Boot(s) ==
  /\ server = Down /\ server' = s
  /\ served' = IF s.kind = "ken-mcp" THEN LoadOrBuildWatched(s) ELSE BuildEmbedded(s)
  /\ told' = {}
  /\ UNCHANGED <<tree, out, buildVars>>

\* onExtras: the chunks join the index of the boot, in place of those before;
\* when they cannot, the index stays.
OnExtras(x) ==
  /\ server.kind = "embedded"
  /\ \/ served' = [served EXCEPT !.extras = x] /\ told' = x
     \/ UNCHANGED <<served, told>>
  /\ UNCHANGED <<tree, out, buildVars, server>>

Exit ==
  /\ server # Down /\ server' = Down
  /\ served' = Refused("down") /\ told' = {}
  /\ UNCHANGED <<tree, out, buildVars>>

Next ==
  \/ \E b \in Builders :
       \/ \E m \in Modes, ch \in Chunkers, has \in BOOLEAN : Start(b, m, ch, has)
       \/ WriteTemp(b) \/ RenameTemp(b) \/ TempFails(b) \/ Kill(b)
  \/ \E t \in Trees : Edit(t)
  \/ Spoil
  \/ \E s \in Servers : Boot(s)
  \/ \E x \in Extras : OnExtras(x)
  \/ Exit
Spec == Init /\ [][Next]_vars

-----------------------------------------------------------------------------
(* However builds overlap, fail and are killed, index.bin is the index renamed*)
(* last, whole, and only the killed leave a temporary file behind.            *)
FileIsLast ==
  /\ out.fit => out = last
  /\ Cardinality(temps) <=
       kills + Cardinality({b \in Builders : job[b].step = "written"})

(* A server serves the mode it was asked for or bm25 for want of a model, and *)
(* a frozen index only from a finished build of just that mode and chunker;   *)
(* an embedded server always serves, ken-mcp refuses for a mismatch or a model*)
(* only; and the extras are those delivered last, on the index of the boot.   *)
BootServes ==
  /\ served.from \in {"file", "tree"} =>
       /\ served.mode = server.mode \/ (served.mode = "bm25" /\ server.model # "ok")
       /\ served.mode # "bm25" => server.model = "ok"
       /\ served.extras = told
  /\ served.from = "file" =>
       [tree |-> served.tree, mode |-> served.mode, chunker |-> server.chunker, fit |-> TRUE] \in built
  /\ server.kind = "embedded" => served.from # "refused"
  /\ served = Refused("model") => server.mode # "bm25" /\ server.model = "broken"
  /\ served = Refused("mismatch") => built # {}

PrebuiltServes == FileIsLast /\ BootServes
===============================================================================
