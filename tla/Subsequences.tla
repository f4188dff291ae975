----------------------------- MODULE Subsequences ----------------------------
(* The elements of a sequence at some of its indices, in order: what a filter  *)
(* keeps, as a recursive function.                                            *)
EXTENDS Naturals, Sequences

Select(s, K) ==
  LET kept[i \in 0..Len(s)] ==
        IF i = 0 THEN <<>> ELSE IF i \in K THEN Append(kept[i - 1], s[i]) ELSE kept[i - 1]
  IN kept[Len(s)]
==============================================================================
