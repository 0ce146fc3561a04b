-------------------------------- MODULE LRU --------------------------------
(***************************************************************************)
(* LruEvictionPolicy (packages/eviction): a doubly linked list of keys,    *)
(* most recently used at the head, with every pointer assignment of touch, *)
(* unlink and pushFront.  A key outside nodes has Null links, which are    *)
(* what a new DllNode starts with.                                         *)
(***************************************************************************)
EXTENDS EvictionPolicy, FiniteSets, Sequences

Unlinked == [k \in Keys |-> Null]

LruReset == [nodes |-> {}, prev |-> Unlinked, next |-> Unlinked,
          head |-> Null, tail |-> Null]

UnlinkKeepsTail(l, k) ==
  LET p == l.prev[k]
      n == l.next[k]
  IN [l EXCEPT
        !.prev = [x \in Keys |-> IF x = k THEN Null ELSE IF x = n THEN p ELSE l.prev[x]],
        !.next = [x \in Keys |-> IF x = k THEN Null ELSE IF x = p THEN n ELSE l.next[x]],
        !.head = IF p = Null /\ @ = k THEN n ELSE @]
unlink(l, k) ==
  LET p == l.prev[k]
      n == l.next[k]
  IN [l EXCEPT
        !.prev = [x \in Keys |-> IF x = k THEN Null ELSE IF x = n THEN p ELSE l.prev[x]],
        !.next = [x \in Keys |-> IF x = k THEN Null ELSE IF x = p THEN n ELSE l.next[x]],
        !.head = IF p = Null /\ @ = k THEN n ELSE @,
        !.tail = IF n = Null /\ @ = k THEN p ELSE @]

pushFront(l, k) ==
  [l EXCEPT
     !.prev = [x \in Keys |-> IF x = k THEN Null ELSE IF x = l.head THEN k ELSE l.prev[x]],
     !.next = [l.next EXCEPT ![k] = l.head],
     !.head = k,
     !.tail = IF @ = Null THEN k ELSE @]

TouchNewOnly(l, k) ==
  IF k \in l.nodes THEN l ELSE pushFront([l EXCEPT !.nodes = @ \cup {k}], k)
touch(l, k) ==
  pushFront(IF k \in l.nodes THEN unlink(l, k)
            ELSE [l EXCEPT !.nodes = @ \cup {k}], k)

LruRecordAccess(l, k) == touch(l, k)
LruRecordWrite(l, k) == touch(l, k)

LruRecordRemoval(l, k) ==
  IF k \in l.nodes THEN [unlink(l, k) EXCEPT !.nodes = @ \ {k}] ELSE l

\* seed touches the entries in a given order by lastAccessedAt, oldest first.
LruSeed(ordered) ==
  LET upTo[i \in 0 .. Len(ordered)] ==
        IF i = 0 THEN LruReset ELSE touch(upTo[i - 1], ordered[i])
  IN upTo[Len(ordered)]

\* The nodes met from the tail along prev; the guard ends the walk after
\* nodes.size + 1 steps.
WalkFromTail(l) ==
  LET at[i \in 0 .. Cardinality(l.nodes)] ==
        LET after == at[i - 1]
        IN IF i = 0 THEN l.tail ELSE IF after = Null THEN Null ELSE l.prev[after]
  IN [i \in 1 .. Cardinality(l.nodes) + 1 |-> at[i - 1]]

\* The candidates the walk meets, in its order, up to limit of them.
leastRecentlyUsedCandidates(l, candidateKeys, limit) ==
  LET walk == WalkFromTail(l)
      hits == {i \in DOMAIN walk : walk[i] \in candidateKeys}
      nth(m) == CHOOSE i \in hits : Cardinality({j \in hits : j < i}) = m - 1
      size == IF Cardinality(hits) < limit THEN Cardinality(hits) ELSE limit
  IN [m \in 1 .. size |-> walk[nth(m)]]

LruSelectVictim(l, candidateKeys) ==
  LET matches == leastRecentlyUsedCandidates(l, candidateKeys, 1)
  IN IF matches = <<>> THEN Null ELSE matches[1]

-----------------------------------------------------------------------------
(* What the list stands for *)

\* R, a set of pairs <<less recent, more recent>>, is a strict total order.
TotalOrder(T, R) ==
  /\ R \subseteq T \X T
  /\ \A x \in T : <<x, x>> \notin R
  /\ \A x, y \in T : x = y \/ <<x, y>> \in R \/ <<y, x>> \in R
  /\ \A x, y, z \in T : <<x, y>> \in R /\ <<y, z>> \in R => <<x, z>> \in R

\* Nothing of R lies between x and the more recent y.
Adjacent(T, R, x, y) ==
  /\ <<x, y>> \in R
  /\ \A z \in T : ~(<<x, z>> \in R /\ <<z, y>> \in R)

\* link leads from every key of T to the next more recent one in R, and end is
\* where it stops.
Leads(T, R, link, end) ==
  /\ \A k \in T :
       /\ IF link[k] = Null THEN \A x \in T : <<k, x>> \notin R
          ELSE link[k] \in T /\ Adjacent(T, R, k, link[k])
       /\ end = k <=> link[k] = Null
  /\ \A k \in Keys \ T : link[k] = Null
  /\ end \in T \cup {Null}
  /\ end = Null => T = {}

Converse(R) == {<<e[2], e[1]>> : e \in R}

\* The links of l spell out R, prev towards the most recent key and next
\* towards the least recent one.
Spells(l, R) ==
  /\ TotalOrder(l.nodes, R)
  /\ Leads(l.nodes, R, l.prev, l.head)
  /\ Leads(l.nodes, Converse(R), l.next, l.tail)

\* The keys in the order in which the walk from the tail meets them, and the
\* same order as pairs.
Walked(l) == SubSeq(WalkFromTail(l), 1, Cardinality(l.nodes))

Older(l) ==
  LET w == Walked(l)
  IN UNION {{<<w[i], w[j]>> : i \in 1 .. j - 1} : j \in 1 .. Len(w)}
=============================================================================
