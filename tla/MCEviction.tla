----------------------------- MODULE MCEviction -----------------------------
(* Small instances of Eviction for TLC. *)
EXTENDS Eviction

CONSTANTS k1, k2, k3

\* In the first row k1 and k2 collide, in the second k2 and k3: k2 is never
\* counted on its own.
Collisions ==
  [r \in Rows |-> [k \in Keys |->
     IF r = 1 THEN (IF k \in {k1, k2} THEN 1 ELSE 2)
     ELSE (IF k \in {k2, k3} THEN 1 ELSE 2)]]
=============================================================================
