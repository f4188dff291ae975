------------------------------ MODULE MCServer -------------------------------
(* Server for TLC.                                                            *)
EXTENDS Server, TLC

\* Bundles and tool calls are interchangeable.
ServerSymmetry == Permutations(Bundles) \cup Permutations(Agents)
=============================================================================
