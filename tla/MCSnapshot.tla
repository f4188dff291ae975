------------------------------ MODULE MCSnapshot ------------------------------
(* Snapshot on a small tree, for TLC.                                         *)
EXTENDS Snapshot, TLC

Symmetry == Permutations(Files)
=============================================================================
