------------------------------ MODULE ModelFetch -----------------------------
(* Downloading a model (internal/modelfetch/fetch.go): processes that fetch    *)
(* the same model into the same directory, file by file, each through a temp   *)
(* file that is verified and renamed.                                         *)
EXTENDS Naturals, Sequences, FiniteSets

CONSTANTS Fetchers,    \* processes that call Fetch
          ModelFiles,  \* the sequence modelFiles
          MaxTemps     \* bound: temp files left by killed processes

Names == {ModelFiles[i] : i \in 1..Len(ModelFiles)}

\* modelFiles is a list of files, and not empty.
FilesGiven == ModelFiles \in Seq(Names) /\ ModelFiles # <<>>

VARIABLES
  target,   \* what is under each name: "none", "stub", "whole", "bad"
  at,       \* per fetcher: the index of the file it is at; 0 if not fetching
  pc,       \* per fetcher: "idle", "check", "get", "body", "done", "failed"
  body,     \* what arrived in its temp file, and the headers it came with
  force,    \* Options.Force
  temps,    \* temp files that nobody will remove
  blind     \* history: a bad body came with no header that tells

vars == <<target, at, pc, body, force, temps, blind>>

\* A whole body, one cut short, one of the right length and other content, none
\* at all, or a copy that ended in an error (or a failed sync or close).
Bodies == {"whole", "short", "other", "empty", "error"}
\* "length" is Content-Length or X-Linked-Size, "hash" an ETag that is a SHA-256.
Headers == SUBSET {"length", "hash"}
NoBody == [is |-> "empty", by |-> {}]

Init ==
  /\ target \in [Names -> {"none", "stub", "whole"}]
  /\ at = [p \in Fetchers |-> 0] /\ pc = [p \in Fetchers |-> "idle"]
  /\ body = [p \in Fetchers |-> NoBody]
  /\ force \in [Fetchers -> BOOLEAN]
  /\ temps = 0 /\ blind = FALSE

\* os.Stat and the plausible size: a stub is fetched again.
Present(name) == target[name] \in {"whole", "bad"}

Start(p) ==
  /\ pc[p] = "idle"
  /\ pc' = [pc EXCEPT ![p] = "check"]
  /\ at' = [at EXCEPT ![p] = 1]
  /\ UNCHANGED <<target, body, force, temps, blind>>

\* The next file, or the end.
Advance(p) ==
  /\ at' = [at EXCEPT ![p] = @ + 1]
  /\ pc' = [pc EXCEPT ![p] = IF at[p] = Len(ModelFiles) THEN "done" ELSE "check"]

Check(p) ==
  /\ pc[p] = "check"
  /\ IF ~force[p] /\ Present(ModelFiles[at[p]])
       THEN Advance(p)
       ELSE pc' = [pc EXCEPT ![p] = "get"] /\ UNCHANGED at
  /\ UNCHANGED <<target, body, force, temps, blind>>

Failed(p) == pc' = [pc EXCEPT ![p] = "failed"] /\ UNCHANGED at

\* No connection, a status that is not 200, no temp file.
GetFails(p) ==
  /\ pc[p] = "get" /\ Failed(p)
  /\ UNCHANGED <<target, body, force, temps, blind>>

Download(p, b, h) ==
  /\ pc[p] = "get"
  /\ body' = [body EXCEPT ![p] = [is |-> b, by |-> h]]
  /\ pc' = [pc EXCEPT ![p] = "body"]
  /\ UNCHANGED <<target, at, force, temps, blind>>

\* The headers that betray a body; an empty one and a failed copy need none.
Betrayed(b) == CASE b = "short" -> {"length", "hash"}
                 [] b = "other" -> {"hash"}
                 [] OTHER -> {}
Verified_SizeOnly(r) ==                         \* mutant: the checksum is skipped
  r.is \in {"whole", "short", "other"} /\ r.by \cap Betrayed(r.is) \subseteq {"hash"}
Verified(r) ==
  r.is \in {"whole", "short", "other"} /\ r.by \cap Betrayed(r.is) = {}

Rename(p) ==
  /\ pc[p] = "body" /\ Verified(body[p])
  /\ target' = [target EXCEPT ![ModelFiles[at[p]]] = IF body[p].is = "whole" THEN "whole" ELSE "bad"]
  /\ blind' = (blind \/ (body[p].is # "whole" /\ body[p].by \cap Betrayed(body[p].is) = {}))
  /\ Advance(p)
  /\ body' = [body EXCEPT ![p] = NoBody]
  /\ UNCHANGED <<force, temps>>

\* What does not verify, or cannot be renamed, is removed.
Discard(p) ==
  /\ pc[p] = "body"
  /\ Failed(p)
  /\ body' = [body EXCEPT ![p] = NoBody]
  /\ UNCHANGED <<target, force, temps, blind>>

\* Killed, or the caller cancels and the process exits: its temp file stays.
Kill(p) ==
  /\ pc[p] \notin {"idle", "done", "failed"}
  /\ Failed(p)
  /\ temps' = temps + (IF pc[p] = "body" THEN 1 ELSE 0)
  /\ temps' <= MaxTemps
  /\ body' = [body EXCEPT ![p] = NoBody]
  /\ UNCHANGED <<target, force, blind>>

\* The user, or the next start of the server, tries again.
Again(p, f) ==
  /\ pc[p] \in {"done", "failed"}
  /\ pc' = [pc EXCEPT ![p] = "idle"]
  /\ at' = [at EXCEPT ![p] = 0]
  /\ force' = [force EXCEPT ![p] = f]
  /\ UNCHANGED <<target, body, temps, blind>>

Next ==
  \E p \in Fetchers :
    \/ Start(p) \/ Check(p) \/ GetFails(p) \/ Rename(p) \/ Discard(p) \/ Kill(p)
    \/ \E b \in Bodies, h \in Headers : Download(p, b, h)
    \/ \E f \in BOOLEAN : Again(p, f)

Spec == Init /\ [][Next]_vars

-----------------------------------------------------------------------------
(* However fetches of several processes interleave, fail and are killed, a    *)
(* model file is absent, a stub, or whole, and whoever is told that the model *)
(* is there finds all of it, unless a server sent a wrong body with no header *)
(* that betrays it.                                                           *)
DoneIsWhole ==
  ~blind => /\ \A n \in Names : target[n] # "bad"
            /\ \A p \in Fetchers : pc[p] = "done" => \A n \in Names : target[n] = "whole"
=============================================================================
