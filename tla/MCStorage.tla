----------------------------- MODULE MCStorage -----------------------------
(* Small instances of Storage for TLC. *)
EXTENDS Storage, TLC

\* Interchangeable keys; used only by the run without a liveness property.
Symmetry == Permutations(Keys)
=============================================================================
