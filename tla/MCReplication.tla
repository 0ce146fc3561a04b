---------------------------- MODULE MCReplication ----------------------------
(***************************************************************************)
(* Instances of Replication for TLC.  With three nodes and a replication   *)
(* factor of 2, each key has a primary and one replica, and one node that  *)
(* consumes the topic without being a target.                              *)
(***************************************************************************)
EXTENDS Replication, TLC

CONSTANTS n1, n2, n3, k1, k2

\* One key on n1 and n2.
OneKey == (k1 :> {n1, n2})
OneWriter == (k1 :> {n1})

\* Two keys on the same two nodes.
TwoKeys == (k1 :> {n1, n2}) @@ (k2 :> {n1, n2})

\* Two keys of one primary.
SamePrimary == [k \in {k1, k2} |-> {n1}]

\* A consumer group per node, or one group for all whose only partition n1 got.
OwnGroups == [n \in Nodes |-> Keys]
SharedGroup == [n \in Nodes |-> IF n = n1 THEN Keys ELSE {}]
=============================================================================
