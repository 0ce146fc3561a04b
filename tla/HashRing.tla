------------------------------ MODULE HashRing ------------------------------
(***************************************************************************)
(* ConsistentHashRing (packages/consistent-hash): membership, the sorted   *)
(* array of virtual nodes, the binary search for a key's successor and the *)
(* walk that collects a key's distinct nodes.  ringHash is chosen once, as *)
(* any function of the labels into a small ring, so that collisions, the   *)
(* wrap-around and every arrangement of the virtual nodes occur; a key is  *)
(* its position.  A weight is given in percent.  The status of a node,     *)
(* which the ring keeps and never looks at, is modelled in Gateway.        *)
(***************************************************************************)
EXTENDS Naturals, Sequences, FiniteSets, Functions

CONSTANTS
  Nodes,
  Weights,               \* weights a node can be added with, in percent
  baseVirtualNodeCount,
  Positions              \* the positions on the ring, an interval 0 .. n

ASSUME RingAssumption ==
  /\ IsFiniteSet(Nodes)
  /\ Weights \subseteq Nat \ {0}
  /\ \E m \in Weights : \A w \in Weights : w <= m
  /\ baseVirtualNodeCount \in Nat \ {0}
  /\ Positions \subseteq Nat

\* Math.max(1, Math.round(base * weight)); round takes halves up.
virtualNodeCountFor(weight) ==
  LET rounded == (2 * baseVirtualNodeCount * weight + 100) \div 200
  IN IF rounded < 1 THEN 1 ELSE rounded

MaxVirtual == CHOOSE m \in {virtualNodeCountFor(w) : w \in Weights} :
                \A w \in Weights : virtualNodeCountFor(w) <= m

VARIABLES
  ringHash,  \* label (node, index) -> position
  points,    \* the sorted array
  nodes      \* the Map of node infos, in insertion order

vars == <<ringHash, points, nodes>>

Init ==
  /\ ringHash \in [Nodes \X (0 .. MaxVirtual - 1) -> Positions]
  /\ points = <<>>
  /\ nodes = <<>>

Ids(ns) == {ns[i].nodeId : i \in DOMAIN ns}

-----------------------------------------------------------------------------
(* Membership *)

VirtualNodes(n, weight) ==
  [i \in 1 .. virtualNodeCountFor(weight) |->
     [hash |-> ringHash[<<n, i - 1>>], nodeId |-> n, virtualIndex |-> i - 1]]

\* A stable sort by hash.
SortByHash(s) ==
  LET before(i, j) == s[i].hash < s[j].hash \/ (s[i].hash = s[j].hash /\ i < j)
      place(i) == Cardinality({j \in DOMAIN s : before(j, i)}) + 1
  IN [p \in DOMAIN s |-> s[CHOOSE i \in DOMAIN s : place(i) = p]]

\* The elements that do not belong to node n, in their order.
Drop(s, n) ==
  LET kept[i \in 0 .. Len(s)] ==
        IF i = 0 THEN <<>>
        ELSE IF s[i].nodeId = n THEN kept[i - 1] ELSE Append(kept[i - 1], s[i])
  IN kept[Len(s)]

\* A ring with its points and its node infos; addNode first removes a node
\* that is there.
AppendsAgain(ring, info) ==
  [nodes |-> Append(ring.nodes, info),
   points |-> SortByHash(Drop(ring.points, info.nodeId)
                         \o VirtualNodes(info.nodeId, info.weight))]
KeepsOldPoints(ring, info) ==
  [nodes |-> Append(Drop(ring.nodes, info.nodeId), info),
   points |-> SortByHash(ring.points \o VirtualNodes(info.nodeId, info.weight))]
PushesUnsorted(ring, info) ==
  [nodes |-> Append(Drop(ring.nodes, info.nodeId), info),
   points |-> Drop(ring.points, info.nodeId) \o VirtualNodes(info.nodeId, info.weight)]
UpdatesInPlace(ring, info) ==
  [nodes |-> IF info.nodeId \in Ids(ring.nodes)
             THEN [i \in DOMAIN ring.nodes |->
                     IF ring.nodes[i].nodeId = info.nodeId THEN info ELSE ring.nodes[i]]
             ELSE Append(ring.nodes, info),
   points |-> SortByHash(Drop(ring.points, info.nodeId)
                         \o VirtualNodes(info.nodeId, info.weight))]
Added(ring, info) ==
  [nodes |-> Append(Drop(ring.nodes, info.nodeId), info),
   points |-> SortByHash(Drop(ring.points, info.nodeId)
                         \o VirtualNodes(info.nodeId, info.weight))]

addNode(n, weight) ==
  LET ring == Added([nodes |-> nodes, points |-> points],
                    [nodeId |-> n, weight |-> weight])
  IN /\ nodes' = ring.nodes
     /\ points' = ring.points
     /\ UNCHANGED ringHash

removeNode(n) ==
  /\ nodes' = Drop(nodes, n)
  /\ points' = Drop(points, n)
  /\ UNCHANGED ringHash

\* The ring that results when the nodes of a table join one after the other.
Built(ns) ==
  LET copy[i \in 0 .. Len(ns)] ==
        IF i = 0 THEN [nodes |-> <<>>, points |-> <<>>] ELSE Added(copy[i - 1], ns[i])
  IN copy[Len(ns)]

clone == Built(nodes)

-----------------------------------------------------------------------------
(* Lookup *)

\* The window <<lo, hi>> of the binary search, on indexes from 0, after i
\* rounds; Len(p) rounds suffice, since each one narrows the window.
Search(p, target) ==
  LET window[i \in 0 .. Len(p)] ==
        IF i = 0 THEN <<0, Len(p) - 1>>
        ELSE LET last == window[i - 1]
                 mid == (last[1] + last[2]) \div 2
             IN IF last[1] >= last[2] THEN last
                ELSE IF p[mid + 1].hash < target THEN <<mid + 1, last[2]>>
                ELSE <<last[1], mid>>
  IN window[Len(p)][1]

NeverWraps(p, target) == Search(p, target)
successorIndex(p, target) ==
  IF target > p[Len(p)].hash THEN 0 ELSE Search(p, target)

\* The owner as a set, empty where the code returns null.
getNode(p, key) ==
  IF p = <<>> THEN {} ELSE {p[successorIndex(p, key) + 1].nodeId}

\* One round of the array from the successor, repeated nodes skipped, cut
\* after count.
Round(p, key) ==
  LET start == successorIndex(p, key)
  IN [i \in 1 .. Len(p) |-> p[((start + i - 1) % Len(p)) + 1].nodeId]

KeepsRepeats(p, key, count) ==
  LET round == Round(p, key)
      result[i \in 0 .. Len(p)] ==
        IF i = 0 THEN <<>>
        ELSE IF Len(result[i - 1]) < count THEN Append(result[i - 1], round[i])
        ELSE result[i - 1]
  IN result[Len(p)]
getNodesForKey(p, key, count) ==
  LET round == Round(p, key)
      result[i \in 0 .. Len(p)] ==
        IF i = 0 THEN <<>>
        ELSE LET last == result[i - 1]
             IN IF Len(last) < count /\ round[i] \notin Range(last)
                THEN Append(last, round[i]) ELSE last
  IN result[Len(p)]

\* analyzeKeyMovement: how many of the sample keys change their owner.
movedCount(before, after, sampleKeys) ==
  Cardinality({k \in sampleKeys : getNode(before, k) # getNode(after, k)})

Next ==
  \/ \E n \in Nodes, w \in Weights : addNode(n, w)
  \/ \E n \in Nodes : removeNode(n)

Spec == Init /\ [][Next]_vars

-----------------------------------------------------------------------------
(* Properties *)

\* Every variable has its type.
TypeOK ==
  /\ points \in Seq([hash : Positions, nodeId : Nodes, virtualIndex : Nat])
  /\ nodes \in Seq([nodeId : Nodes, weight : Weights])
  /\ IsInjective([i \in DOMAIN nodes |-> nodes[i].nodeId])

\* After any sequence of joins, updates and removals the array is sorted and
\* holds exactly the virtual nodes of the current weights: an update leaves
\* no point of the old weight behind.
PointsExact ==
  /\ \A i, j \in DOMAIN points : i < j => points[i].hash <= points[j].hash
  /\ IsInjective(points)
  /\ {points[i] : i \in DOMAIN points} =
       UNION {{VirtualNodes(nodes[i].nodeId, nodes[i].weight)[v] :
                 v \in 1 .. virtualNodeCountFor(nodes[i].weight)} : i \in DOMAIN nodes}

\* The binary search finds what a linear scan would: the first point at or
\* after the key, and point 0 if the key lies behind the last one.
SuccessorFound ==
  points # <<>> =>
    \A key \in Positions :
      LET after == {i \in DOMAIN points : points[i].hash >= key}
          first == IF after = {} THEN 1
                   ELSE CHOOSE i \in after : \A j \in after : i <= j
      IN successorIndex(points, key) + 1 = first

\* The nodes of a key are distinct, as many as asked for if there are so
\* many, start with the owner, and the first of a longer list are the
\* shorter list: a replica set of 2 is contained in the 3 failover
\* candidates of the gateway, in the same order.
ReplicasNested ==
  \A key \in Positions : \A count \in 1 .. Cardinality(Nodes) :
    LET list == getNodesForKey(points, key, count)
        longer == getNodesForKey(points, key, count + 1)
    IN /\ IsInjective(list)
       /\ Len(list) = IF Len(nodes) < count THEN Len(nodes) ELSE count
       /\ points # <<>> => getNode(points, key) = {list[1]}
       /\ list = SubSeq(longer, 1, Len(list))

\* A clone, rebuilt from the node table, agrees with the ring in every
\* point, also where virtual nodes of different nodes collide.
CloneAgrees == clone = [nodes |-> nodes, points |-> points]

\* x comes before y.
Precedes(list, x, y) ==
  \E i, j \in DOMAIN list : i < j /\ list[i] = x /\ list[j] = y

\* A step that joins, updates or removes only n leaves the order in which the
\* other nodes serve a key unchanged: keys move only to or from n.
OthersKeepOrder ==
  [][\A n \in Nodes :
       Drop(nodes', n) = Drop(nodes, n) =>
         \A key \in Positions :
           \A list \in {getNodesForKey(points, key, Cardinality(Nodes))} :
             \A after \in {getNodesForKey(points', key, Cardinality(Nodes))} :
               \A x \in Nodes \ {n} :
                 /\ x \in Range(list) <=> x \in Range(after)
                 /\ \A y \in Nodes \ {n} : Precedes(list, x, y) <=> Precedes(after, x, y)]_vars

\* analyzeKeyMovement reports for a join the keys the new node gained, and
\* for a removal the keys the node had.
MovementReported ==
  [][\A n \in Nodes :
       LET owned(p) == Cardinality({k \in Positions : getNode(p, k) = {n}})
           moved == movedCount(points, points', Positions)
       IN /\ n \notin Ids(nodes) /\ n \in Ids(nodes') => moved = owned(points')
          /\ n \in Ids(nodes) /\ n \notin Ids(nodes') => moved = owned(points)]_vars

\* Where no two nodes share a position, the array depends on the members only
\* and not on the order in which they joined, so the gateway and the nodes
\* agree on the nodes of every key.
JoinOrderIrrelevant ==
  (\A i, j \in DOMAIN points :
     points[i].nodeId # points[j].nodeId => points[i].hash # points[j].hash)
  => \A order \in Bijection(DOMAIN nodes, DOMAIN nodes) :
       Built([i \in DOMAIN nodes |-> nodes[order[i]]]).points = points

\* The ring is determined by its members: the array holds exactly their
\* virtual nodes, a clone built from them is equal, and without collisions
\* so is the order of every key's nodes whatever the order of joining.
RingFromMembers == TypeOK /\ PointsExact /\ CloneAgrees /\ JoinOrderIrrelevant

\* A membership change moves only the keys of the node concerned, and
\* analyzeKeyMovement reports how many these are.
MovesOnlyItsKeys == OthersKeepOrder /\ MovementReported
=============================================================================
