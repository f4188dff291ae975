------------------------------ MODULE CloneDirs -------------------------------
(* The clones behind the bundles of RepoCache whose keys are URLs: the Builder *)
(* clones into a directory (mcp/clone.go CloneShallow), the bundle's watcher   *)
(* and structural index go on reading it, and reapEntry ends with the cleanup  *)
(* that removes it.  The directory is named by the URL alone: every bundle of  *)
(* a key, and every turn that builds one, has the same.                        *)
EXTENDS RepoCache

VARIABLES
  trees,   \* the keys whose directory holds a clone
  cloning, \* caller -> where its turn is in CloneShallow
  home     \* bundle -> the key it was built for

cloneVars == <<trees, cloning, home>>

CloneInit ==
  /\ Init
  /\ trees = {}
  /\ cloning = [c \in Callers |-> "none"]
  /\ home \in {[b \in Bundles |-> k] : k \in Keys}

-----------------------------------------------------------------------------
At(c, from, to) ==
  /\ pc[c] = "build" /\ cloning[c] = from
  /\ cloning' = [cloning EXCEPT ![c] = to]
  /\ UNCHANGED <<vars, home>>

\* What the directory holds is removed first, whoever reads it.
Prepare(c) == At(c, "none", "prepared") /\ trees' = trees \ {key[c]}

PlainClone(c) == At(c, "prepared", "cloned") /\ trees' = trees \cup {key[c]}

\* Build returns the bundle, and the cleanup with it.
Built(c) ==
  /\ cloning[c] = "cloned"
  /\ BuildSucceeds(c)
  /\ home' = [home EXCEPT ![held'[c]] = key[c]]
  /\ cloning' = [cloning EXCEPT ![c] = "none"]
  /\ UNCHANGED trees

\* The target is refused; or cloning or indexing fails, and what the directory
\* holds is removed.
Failed(c) ==
  /\ BuildFails(c)
  /\ trees' = IF cloning[c] = "none" THEN trees ELSE trees \ {key[c]}
  /\ cloning' = [cloning EXCEPT ![c] = "none"]
  /\ UNCHANGED home

\* reapEntry's cleanup: os.RemoveAll of the directory of the bundle's key.
RemoveClone(t) ==
  /\ Reap(t)
  /\ trees' = trees \ {home[b] : b \in reaped' \ reaped}
  /\ UNCHANGED <<cloning, home>>

CloneNext ==
  \/ \E c \in Callers :
       \/ Prepare(c) \/ PlainClone(c) \/ Built(c) \/ Failed(c)
       \/ /\ (\E k \in Keys : Begin(c, k)) \/ Lookup(c) \/ Join(c) \/ Start(c)
             \/ Publish(c) \/ Unmark(c) \/ Finish(c) \/ Deliver(c)
          /\ UNCHANGED cloneVars
  \/ \E t \in Threads : RemoveClone(t)
  \/ \E t \in Admins : (Purge(t) \/ Close(t)) /\ UNCHANGED cloneVars

CloneSpec == CloneInit /\ [][CloneNext]_<<vars, cloneVars>>

-----------------------------------------------------------------------------
(* "Determinism is by sha256(url) so concurrent calls don't collide"           *)
(* (mcp/clone.go): a bundle that Get can hand out has its clone on disk, but   *)
(* while another turn replaces it.  The bundle's watcher takes the files of a  *)
(* removed clone out of the index.                                             *)
CachedHasClone ==
  \A k \in Keys :
    items[k] # None /\ (\A c \in Callers : key[c] = k => cloning[c] # "prepared")
      => k \in trees
=============================================================================
