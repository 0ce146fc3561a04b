----------------------------- MODULE MCHashRing -----------------------------
(* Small instances of HashRing for TLC. *)
EXTENDS HashRing, TLC

\* Nodes are interchangeable: ringHash ranges over all functions of them.
Symmetry == Permutations(Nodes)
=============================================================================
