--------------------------- MODULE MCStructuralBuild -------------------------
(* StructuralBuild for TLC.                                                   *)
EXTENDS StructuralBuild, TLC

\* Callers and files are interchangeable.
Symmetry == Permutations(Callers) \cup Permutations(Files)
=============================================================================
