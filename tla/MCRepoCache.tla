----------------------------- MODULE MCRepoCache -----------------------------
(* RepoCache for TLC.                                                         *)
EXTENDS RepoCache, TLC

\* Callers, bundles and keys are interchangeable.
Symmetry == Permutations(Callers) \cup Permutations(Bundles) \cup Permutations(Keys)
=============================================================================
