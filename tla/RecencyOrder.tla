---------------------------- MODULE RecencyOrder ----------------------------
(***************************************************************************)
(* What a recency list promises, without links: the tracked keys in the    *)
(* order of their last use.  A use makes a key the most recent one, a      *)
(* removal or an eviction takes keys out and leaves the order of the rest  *)
(* alone, and only a change of policy may start a new order.               *)
(***************************************************************************)
CONSTANTS Keys, Policies, Null

VARIABLES
  policy,   \* the active policy
  tracked,  \* the keys it orders
  older,    \* pairs of them, <<less recently used, more recently used>>
  used      \* the key of the last step, if that was a use

vars == <<policy, tracked, older, used>>

Init == policy \in Policies /\ tracked = {} /\ older = {} /\ used = Null

\* What is left of an order when only the keys of S stay.
Kept(R, S) == R \cap (S \X S)

\* A use of k, and the evictions that make room for it.
Use(k) ==
  /\ used' = k
  /\ k \in tracked' /\ tracked' \subseteq tracked \cup {k}
  /\ older' = Kept(Kept(older, Keys \ {k}) \cup (tracked \ {k}) \X {k}, tracked')
  /\ UNCHANGED policy

Remove ==
  /\ used' = Null
  /\ tracked' \subseteq tracked
  /\ older' = Kept(older, tracked')
  /\ UNCHANGED policy

\* R is a strict total order of the keys T.
StrictOrder(T, R) ==
  /\ R \subseteq T \X T
  /\ \A x \in T : <<x, x>> \notin R
  /\ \A x, y \in T : x = y \/ <<x, y>> \in R \/ <<y, x>> \in R
  /\ \A x, y, z \in T : <<x, y>> \in R /\ <<y, z>> \in R => <<x, z>> \in R

Switch ==
  /\ used' = Null
  /\ policy' \in Policies \ {policy}
  /\ tracked' \subseteq Keys
  /\ StrictOrder(tracked', older')

Next ==
  \/ \E k \in Keys : Use(k)
  \/ Remove
  \/ Switch

Spec == Init /\ [][Next]_vars
=============================================================================
