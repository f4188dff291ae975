---------------------------- MODULE MCWatchedIndex ---------------------------
(* WatchedIndex for TLC: a file at the root and a directory of one or two     *)
(* files.                                                                     *)
EXTENDS WatchedIndex, TLC

CONSTANTS a, m1, m2, d1

NoDirs  == [d \in {} |-> {}]
OneFile == d1 :> {m1}
TwoFiles == d1 :> {m1, m2}
=============================================================================
