--------------------------- MODULE HashRingProofs ---------------------------
(***************************************************************************)
(* Proofs about the consistent hash ring, for any nodes, weights, number   *)
(* of virtual nodes and hash: the array is determined by the node table,   *)
(* the binary search finds the successor, the nodes of a key are nested,   *)
(* and a membership change moves only the keys of its node.                *)
(***************************************************************************)
EXTENDS HashRing, FiniteSetTheorems, TLAPS

-----------------------------------------------------------------------------
(* Induction and recursion *)

\* A set of naturals with 0 and with n + 1 for each of its n has them all.
LEMMA Induction ==
  ASSUME NEW S, 0 \in S, \A n \in Nat : n \in S => n + 1 \in S
  PROVE  \A n \in Nat : n \in S
<1> DEFINE T == Nat \ S
<1>1. SUFFICES ASSUME T # {} PROVE FALSE
  BY Zenon
<1>2. PICK x \in T : \A y \in T : <<y, x>> \notin OpToRel(<, Nat)
  BY Zenon, <1>1, NatLessThanWellFounded, WFMin
<1>3. \A y \in T : ~(y < x)
  BY Zenon, <1>2 DEF OpToRel
<1>4. x # 0 /\ x - 1 \in Nat /\ x - 1 \in S
  BY <1>3
<1>5. QED
  BY <1>4

\* f[i] is what G[1], ..., G[i], one after the other, make of v.
Iterates(f, v, n, G) == \A i \in 0 .. n : f[i] = IF i = 0 THEN v ELSE G[i][f[i - 1]]

\* There is such a function.  The loops of the code are written that way.
LEMMA Iteration ==
  ASSUME NEW V, NEW v \in V, NEW n \in Nat, NEW G \in [1 .. n -> [V -> V]]
  PROVE  \E f \in [0 .. n -> V] : Iterates(f, v, n, G)
<1> DEFINE Upto(f, m) ==
             \A i \in 0 .. n : i <= m => f[i] = IF i = 0 THEN v ELSE G[i][f[i - 1]]
           S == {m \in Nat : \E f \in [0 .. n -> V] : Upto(f, m)}
<1>1. 0 \in S
  <2>1. [i \in 0 .. n |-> v] \in [0 .. n -> V] /\ Upto([i \in 0 .. n |-> v], 0)
    OBVIOUS
  <2>2. QED
    BY <2>1
<1>2. ASSUME NEW m \in Nat, m \in S PROVE m + 1 \in S
  <2>1. PICK f \in [0 .. n -> V] : Upto(f, m)
    BY Zenon, <1>2
  <2>2. CASE m + 1 \in 1 .. n
    <3> DEFINE g == [f EXCEPT ![m + 1] = G[m + 1][f[m]]]
    <3>1. G[m + 1][f[m]] \in V
      <4>1. m \in 0 .. n
        BY <2>2
      <4>2. QED
        BY Zenon, <2>2, <4>1
    <3>2. g \in [0 .. n -> V]
      BY Zenon, <3>1
    <3>3. /\ g[m + 1] = G[m + 1][f[m]]
          /\ \A i \in 0 .. n : i # m + 1 => g[i] = f[i]
      BY <2>2
    <3> HIDE DEF g
    <3>4. ASSUME NEW i \in 0 .. n, i <= m + 1
          PROVE  g[i] = IF i = 0 THEN v ELSE G[i][g[i - 1]]
      <4>1. CASE i = m + 1
        <5>1. m \in 0 .. n /\ m # m + 1 /\ m + 1 # 0 /\ (m + 1) - 1 = m
          BY <2>2
        <5>2. g[m] = f[m]
          BY Zenon, <3>3, <5>1
        <5>3. QED
          BY Zenon, <3>3, <4>1, <5>1, <5>2
      <4>2. CASE i # m + 1
        <5>1. i <= m /\ (i # 0 => i - 1 \in 0 .. n /\ i - 1 # m + 1)
          BY <3>4, <4>2
        <5>2. g[i] = f[i] /\ (i # 0 => g[i - 1] = f[i - 1])
          BY Zenon, <3>3, <4>2, <5>1
        <5>3. f[i] = IF i = 0 THEN v ELSE G[i][f[i - 1]]
          BY Zenon, <2>1, <5>1
        <5>4. QED
          BY Zenon, <5>2, <5>3
      <4>3. QED
        BY Zenon, <4>1, <4>2
    <3>5. m + 1 \in Nat
      OBVIOUS
    <3>6. QED
      BY Zenon, <3>2, <3>4, <3>5
  <2>3. CASE m + 1 \notin 1 .. n
    <3>1. Upto(f, m + 1) /\ m + 1 \in Nat
      <4>1. \A i \in 0 .. n : i <= m + 1 => i <= m
        BY <2>3
      <4>2. QED
        BY <2>1, <4>1
    <3>2. QED
      BY Zenon, <3>1
  <2>4. QED
    BY Zenon, <2>2, <2>3
<1> HIDE DEF S
<1>3. PICK f \in [0 .. n -> V] : Upto(f, n)
  <2>1. n \in S
    BY Zenon, <1>1, <1>2, Induction
  <2>2. QED
    BY Zenon, <2>1 DEF S
<1>4. \A i \in 0 .. n : i <= n
  OBVIOUS
<1>5. QED
  BY Zenon, <1>3, <1>4 DEF Iterates

\* A nonempty set of naturals has a least element.
LEMMA LeastExists ==
  ASSUME NEW S \in SUBSET Nat, S # {}
  PROVE  \E m \in S : \A i \in S : m <= i
<1>1. PICK x \in S : \A y \in S : <<y, x>> \notin OpToRel(<, Nat)
  BY Zenon, NatLessThanWellFounded, WFMin
<1>2. \A y \in S : ~(y < x)
  BY Zenon, <1>1 DEF OpToRel
<1>3. QED
  BY <1>2

-----------------------------------------------------------------------------
(* The order of a sequence *)

\* A sequence without repetitions is determined by its elements and their
\* order.
LEMMA SameOrder ==
  ASSUME NEW V, NEW s \in Seq(V), NEW t \in Seq(V),
         IsInjective(s), IsInjective(t), Range(s) = Range(t),
         \A x, y \in Range(s) : Precedes(s, x, y) => Precedes(t, x, y)
  PROVE  s = t
<1>0. /\ DOMAIN s = 1 .. Len(s) /\ Len(s) \in Nat
      /\ DOMAIN t = 1 .. Len(t) /\ Len(t) \in Nat
  OBVIOUS
<1> DEFINE D == {i \in DOMAIN s : i \notin DOMAIN t \/ t[i] # s[i]}
<1>1. D = {}
  <2>1. SUFFICES ASSUME D # {} PROVE FALSE
    BY Zenon
  <2>2. D \in SUBSET Nat
    BY <1>0
  <2>3. PICK i \in D : \A k \in D : i <= k
    BY Zenon, <2>1, <2>2, LeastExists
  <2>4. /\ i \in DOMAIN s /\ i \in Nat
        /\ \A k \in DOMAIN s : k < i => k \in DOMAIN t /\ t[k] = s[k]
    BY <1>0, <2>3
  <2>5. PICK j \in DOMAIN t : t[j] = s[i]
    BY Zenon, <2>4 DEF Range
  <2>6. j > i
    <3>1. j >= i
      <4>1. ASSUME j < i PROVE FALSE
        <5>1. j \in DOMAIN s
          BY <1>0, <2>4, <2>5, <4>1
        <5>2. s[j] = s[i]
          BY Zenon, <2>4, <2>5, <4>1, <5>1
        <5>3. j = i
          BY Zenon, <2>4, <5>1, <5>2 DEF IsInjective
        <5>4. QED
          BY <4>1, <5>3, <1>0, <2>5
      <4>2. QED
        BY <4>1, <1>0, <2>4, <2>5
    <3>2. j # i
      BY Zenon, <2>3, <2>5
    <3>3. QED
      BY <3>1, <3>2, <1>0, <2>4, <2>5
  <2>7. i \in DOMAIN t
    BY <1>0, <2>4, <2>5, <2>6
  <2>8. PICK k \in DOMAIN s : s[k] = t[i]
    BY Zenon, <2>7 DEF Range
  <2>9. k > i
    <3>1. k # i
      BY Zenon, <2>3, <2>7, <2>8
    <3>2. ASSUME k < i PROVE FALSE
      <4>1. k \in DOMAIN t /\ t[k] = t[i]
        BY Zenon, <2>4, <2>8, <3>2
      <4>2. k = i
        BY Zenon, <2>7, <4>1 DEF IsInjective
      <4>3. QED
        BY Zenon, <3>1, <4>2
    <3>3. QED
      BY <3>1, <3>2, <1>0, <2>4, <2>8
  <2>10. Precedes(t, s[i], t[i])
    <3>1. Precedes(s, s[i], t[i])
      BY Zenon, <2>4, <2>8, <2>9, <1>0 DEF Precedes, >
    <3>2. s[i] \in Range(s) /\ t[i] \in Range(s)
      BY Zenon, <2>4, <2>7 DEF Range
    <3>3. QED
      BY Zenon, <3>1, <3>2
  <2>11. PICK a, b \in DOMAIN t : a < b /\ t[a] = s[i] /\ t[b] = t[i]
    BY Zenon, <2>10 DEF Precedes
  <2>12. a = j /\ b = i
    BY Zenon, <2>5, <2>7, <2>11 DEF IsInjective
  <2>13. QED
    BY <2>4, <2>6, <2>11, <2>12, <1>0, <2>5
<1>2. \A i \in DOMAIN s : i \in DOMAIN t /\ t[i] = s[i]
  BY Zenon, <1>1
<1>3. Len(t) <= Len(s)
  <2>1. ASSUME Len(t) > Len(s) PROVE FALSE
    <3>1. Len(s) + 1 \in DOMAIN t
      BY <1>0, <2>1
    <3>2. PICK k \in DOMAIN s : s[k] = t[Len(s) + 1]
      BY Zenon, <3>1 DEF Range
    <3>3. k = Len(s) + 1
      BY Zenon, <1>2, <3>1, <3>2 DEF IsInjective
    <3>4. QED
      BY <1>0, <3>2, <3>3
  <2>2. QED
    BY <1>0, <2>1
<1>4. Len(s) <= Len(t)
  <2>1. Len(s) # 0 => Len(s) \in DOMAIN s
    BY <1>0
  <2>2. Len(s) # 0 => Len(s) \in DOMAIN t
    BY Zenon, <1>2, <2>1
  <2>3. QED
    BY <1>0, <2>2
<1>5. QED
  BY <1>0, <1>2, <1>3, <1>4

\* d is what is left of the first m elements of s without those of node n: e
\* is the place in s of each element.
Kept(d, s, m, n) ==
  \E e \in [1 .. Len(d) -> 1 .. m] :
    /\ \A i, j \in 1 .. Len(d) : i < j => e[i] < e[j]
    /\ \A i \in 1 .. Len(d) : d[i] = s[e[i]] /\ s[e[i]].nodeId # n
    /\ \A j \in 1 .. m : s[j].nodeId # n => \E i \in 1 .. Len(d) : e[i] = j

\* One more element, of node n.
LEMMA KeptSkip ==
  ASSUME NEW V, NEW s \in Seq(V), NEW n, NEW d \in Seq(V), NEW m \in Nat,
         Kept(d, s, m, n), s[m + 1].nodeId = n
  PROVE  Kept(d, s, m + 1, n)
<1>1. PICK e \in [1 .. Len(d) -> 1 .. m] :
        /\ \A i, j \in 1 .. Len(d) : i < j => e[i] < e[j]
        /\ \A i \in 1 .. Len(d) : d[i] = s[e[i]] /\ s[e[i]].nodeId # n
        /\ \A j \in 1 .. m : s[j].nodeId # n => \E i \in 1 .. Len(d) : e[i] = j
  BY Zenon DEF Kept
<1>2. 1 .. m \subseteq 1 .. m + 1 /\ \A j \in 1 .. m + 1 : j # m + 1 => j \in 1 .. m
  OBVIOUS
<1>3. e \in [1 .. Len(d) -> 1 .. m + 1]
  BY <1>1, <1>2
<1>4. QED
  BY ZenonT(30), <1>1, <1>2, <1>3 DEF Kept

\* One more element, of another node.
LEMMA KeptAppend ==
  ASSUME NEW V, NEW s \in Seq(V), NEW n, NEW d \in Seq(V), NEW m \in Nat,
         Kept(d, s, m, n), s[m + 1].nodeId # n, s[m + 1] \in V
  PROVE  Kept(Append(d, s[m + 1]), s, m + 1, n)
<1>1. PICK e \in [1 .. Len(d) -> 1 .. m] :
        /\ \A i, j \in 1 .. Len(d) : i < j => e[i] < e[j]
        /\ \A i \in 1 .. Len(d) : d[i] = s[e[i]] /\ s[e[i]].nodeId # n
        /\ \A j \in 1 .. m : s[j].nodeId # n => \E i \in 1 .. Len(d) : e[i] = j
  BY Zenon DEF Kept
<1> DEFINE t == Append(d, s[m + 1])
           g == [i \in 1 .. Len(t) |-> IF i = Len(t) THEN m + 1 ELSE e[i]]
<1>2. /\ Len(d) \in Nat /\ Len(t) = Len(d) + 1 /\ t[Len(t)] = s[m + 1]
      /\ \A i \in 1 .. Len(d) : t[i] = d[i]
  OBVIOUS
<1>3. /\ \A i \in 1 .. Len(t) : i # Len(t) => i \in 1 .. Len(d)
      /\ \A i \in 1 .. Len(d) : i \in 1 .. Len(t) /\ i # Len(t)
      /\ Len(t) \in 1 .. Len(t) /\ m + 1 \in 1 .. m + 1
      /\ \A j \in 1 .. m : j \in 1 .. m + 1 /\ j < m + 1
      /\ \A j \in 1 .. m + 1 : j # m + 1 => j \in 1 .. m
      /\ \A i, j \in 1 .. Len(t) : i < j => i # Len(t)
  BY <1>2
<1> HIDE DEF t
<1>4. /\ g[Len(t)] = m + 1 /\ \A i \in 1 .. Len(d) : g[i] = e[i] /\ g[i] \in 1 .. m
      /\ g \in [1 .. Len(t) -> 1 .. m + 1]
  BY Zenon, <1>1, <1>3
<1> HIDE DEF g
<1>5. ASSUME NEW i \in 1 .. Len(t), NEW j \in 1 .. Len(t), i < j PROVE g[i] < g[j]
  <2>1. i \in 1 .. Len(d) /\ g[i] \in 1 .. m /\ g[i] = e[i]
    BY Zenon, <1>3, <1>4, <1>5
  <2>2. CASE j = Len(t)
    BY Zenon, <1>3, <1>4, <2>1, <2>2
  <2>3. CASE j # Len(t)
    BY Zenon, <1>1, <1>3, <1>4, <1>5, <2>1, <2>3
  <2>4. QED
    BY Zenon, <2>2, <2>3
<1>6. \A i \in 1 .. Len(t) : t[i] = s[g[i]] /\ s[g[i]].nodeId # n
  BY Zenon, <1>1, <1>2, <1>3, <1>4
<1>7. \A j \in 1 .. m + 1 : s[j].nodeId # n => \E i \in 1 .. Len(t) : g[i] = j
  BY Zenon, <1>1, <1>3, <1>4
<1>8. Kept(t, s, m + 1, n)
  BY Zenon, <1>4, <1>5, <1>6, <1>7 DEF Kept
<1>9. QED
  BY Zenon, <1>8 DEF t

\* Drop removes the elements of n and nothing else.
LEMMA DropKept ==
  ASSUME NEW V, NEW s \in Seq(V), NEW n
  PROVE  Drop(s, n) \in Seq(V) /\ Kept(Drop(s, n), s, Len(s), n)
<1> DEFINE N == Len(s)
           G == [i \in 1 .. N |-> [d \in Seq(V) |->
                   IF s[i].nodeId = n THEN d ELSE Append(d, s[i])]]
           Eq(f) == f = [i \in 0 .. N |->
                      IF i = 0 THEN <<>>
                      ELSE IF s[i].nodeId = n THEN f[i - 1] ELSE Append(f[i - 1], s[i])]
           u == CHOOSE f : Eq(f)
<1>1. N \in Nat /\ DOMAIN s = 1 .. N /\ <<>> \in Seq(V)
      /\ \A i \in 1 .. N : s[i] \in V
  OBVIOUS
<1>2. G \in [1 .. N -> [Seq(V) -> Seq(V)]]
  BY <1>1
<1>3. \E f : Eq(f)
  <2>1. PICK f \in [0 .. N -> Seq(V)] : Iterates(f, <<>>, N, G)
    BY Zenon, <1>1, <1>2, Iteration
  <2>2. ASSUME NEW i \in 0 .. N, i # 0
        PROVE  G[i][f[i - 1]] = IF s[i].nodeId = n THEN f[i - 1] ELSE Append(f[i - 1], s[i])
    <3>1. i \in 1 .. N /\ i - 1 \in 0 .. N
      BY <2>2, <1>1
    <3>2. QED
      BY Zenon, <3>1
  <2>3. Eq(f)
    BY Zenon, <2>1, <2>2 DEF Iterates
  <2>4. QED
    BY Zenon, <2>3
<1>4. Eq(u)
  BY Zenon, <1>3
<1>5. Drop(s, n) = u[N]
  BY Zenon DEF Drop
<1> HIDE DEF u, G
<1>6. /\ u[0] = <<>>
      /\ \A i \in 0 .. N : i # 0 =>
           u[i] = IF s[i].nodeId = n THEN u[i - 1] ELSE Append(u[i - 1], s[i])
  <2>1. 0 \in 0 .. N
    BY <1>1
  <2>2. QED
    BY Zenon, <1>4, <2>1
<1> HIDE DEF Eq
<1> DEFINE S == {i \in Nat : i \in 0 .. N => u[i] \in Seq(V) /\ Kept(u[i], s, i, n)}
<1>7. 0 \in S
  <2>1. <<>> \in [1 .. Len(<<>>) -> 1 .. 0]
    OBVIOUS
  <2>2. \A i \in 1 .. Len(<<>>) : FALSE
    OBVIOUS
  <2>3. \A i \in 1 .. 0 : FALSE
    OBVIOUS
  <2>4. Kept(<<>>, s, 0, n)
    BY Zenon, <2>1, <2>2, <2>3 DEF Kept
  <2>5. QED
    BY Zenon, <1>1, <1>6, <2>4
<1>8. ASSUME NEW i \in Nat, i \in S PROVE i + 1 \in S
  <2>1. SUFFICES ASSUME i + 1 \in 0 .. N
                 PROVE  u[i + 1] \in Seq(V) /\ Kept(u[i + 1], s, i + 1, n)
    OBVIOUS
  <2>2. i \in 0 .. N /\ i + 1 # 0 /\ (i + 1) - 1 = i /\ i + 1 \in 1 .. N
    BY <1>1, <2>1
  <2>3. u[i] \in Seq(V) /\ Kept(u[i], s, i, n)
    BY Zenon, <1>8, <2>2
  <2>4. u[i + 1] = IF s[i + 1].nodeId = n THEN u[i] ELSE Append(u[i], s[i + 1])
    BY Zenon, <1>6, <2>1, <2>2
  <2>5. s[i + 1] \in V
    BY Zenon, <1>1, <2>2
  <2>6. CASE s[i + 1].nodeId = n
    BY Zenon, <2>3, <2>4, <2>6, KeptSkip
  <2>7. CASE s[i + 1].nodeId # n
    <3>1. u[i + 1] = Append(u[i], s[i + 1])
      BY Zenon, <2>4, <2>7
    <3>2. u[i + 1] \in Seq(V)
      BY <2>3, <2>5, <3>1
    <3>3. QED
      BY Zenon, <2>3, <2>5, <2>7, <3>1, <3>2, KeptAppend
  <2>8. QED
    BY Zenon, <2>6, <2>7
<1>9. N \in S
  <2> HIDE DEF S
  <2>1. QED
    BY Zenon, <1>1, <1>7, <1>8, Induction
<1>10. N \in 0 .. N
  BY <1>1
<1>11. QED
  BY Zenon, <1>5, <1>9, <1>10

\* The elements that Drop leaves and their order.
LEMMA DropFacts ==
  ASSUME NEW V, NEW s \in Seq(V), NEW n
  PROVE  /\ Drop(s, n) \in Seq(V)
         /\ Range(Drop(s, n)) = {x \in Range(s) : x.nodeId # n}
         /\ IsInjective(s) => IsInjective(Drop(s, n))
         /\ \A x, y : Precedes(Drop(s, n), x, y) <=>
                        x.nodeId # n /\ y.nodeId # n /\ Precedes(s, x, y)
<1> DEFINE d == Drop(s, n)
<1>1. d \in Seq(V) /\ Kept(d, s, Len(s), n)
  BY Zenon, DropKept
<1> HIDE DEF d
<1>2. /\ DOMAIN d = 1 .. Len(d) /\ Len(d) \in Nat
      /\ DOMAIN s = 1 .. Len(s) /\ Len(s) \in Nat
  BY <1>1
<1>3. PICK e :
        /\ e \in [DOMAIN d -> DOMAIN s]
        /\ \A i, j \in DOMAIN d : i < j => e[i] < e[j]
        /\ \A i \in DOMAIN d : d[i] = s[e[i]] /\ s[e[i]].nodeId # n
        /\ \A j \in DOMAIN s : s[j].nodeId # n => \E i \in DOMAIN d : e[i] = j
  <2> DEFINE A == 1 .. Len(d)
             B == 1 .. Len(s)
  <2>1. \E e \in [A -> B] :
          /\ \A i, j \in A : i < j => e[i] < e[j]
          /\ \A i \in A : d[i] = s[e[i]] /\ s[e[i]].nodeId # n
          /\ \A j \in B : s[j].nodeId # n => \E i \in A : e[i] = j
    BY Zenon, <1>1 DEF Kept
  <2>2. A = DOMAIN d /\ B = DOMAIN s
    BY Zenon, <1>2
  <2> HIDE DEF A, B
  <2>3. QED
    BY <2>1, <2>2
<1>4. Range(d) = {x \in Range(s) : x.nodeId # n}
  <2>1. ASSUME NEW x \in Range(d) PROVE x \in Range(s) /\ x.nodeId # n
    <3>1. PICK i \in DOMAIN d : x = d[i]
      BY Zenon, <2>1 DEF Range
    <3>2. e[i] \in DOMAIN s /\ s[e[i]] = x /\ x.nodeId # n
      BY Zenon, <1>3, <3>1
    <3>3. QED
      BY Zenon, <3>2 DEF Range
  <2>2. ASSUME NEW x \in Range(s), x.nodeId # n PROVE x \in Range(d)
    <3>1. PICK j \in DOMAIN s : x = s[j]
      BY Zenon, <2>2 DEF Range
    <3>2. PICK i \in DOMAIN d : e[i] = j
      BY Zenon, <1>3, <2>2, <3>1
    <3>3. x = d[i]
      BY Zenon, <1>3, <3>1, <3>2
    <3>4. QED
      BY Zenon, <3>3 DEF Range
  <2>3. QED
    BY Zenon, <2>1, <2>2
<1>5. \A i, j \in DOMAIN d : e[i] < e[j] => i < j
  <2>1. SUFFICES ASSUME NEW i \in DOMAIN d, NEW j \in DOMAIN d, e[i] < e[j], ~(i < j)
                 PROVE  FALSE
    BY Zenon
  <2>2. e[i] \in Nat /\ e[j] \in Nat
    BY <1>2, <1>3, <2>1
  <2>3. i = j \/ j < i
    BY <1>2, <2>1
  <2>4. e[i] = e[j] \/ e[j] < e[i]
    BY Zenon, <1>3, <2>3
  <2>5. QED
    BY <2>1, <2>2, <2>4
<1>6. ASSUME IsInjective(s) PROVE IsInjective(d)
  <2>1. SUFFICES ASSUME NEW i \in DOMAIN d, NEW j \in DOMAIN d, d[i] = d[j] PROVE i = j
    BY Zenon DEF IsInjective
  <2>2. e[i] = e[j]
    <3>1. e[i] \in DOMAIN s /\ e[j] \in DOMAIN s /\ s[e[i]] = s[e[j]]
      BY Zenon, <1>3, <2>1
    <3>2. QED
      BY Zenon, <1>6, <3>1 DEF IsInjective
  <2>3. e[i] \in Nat /\ e[j] \in Nat
    BY <1>2, <1>3
  <2>4. ~(i < j) /\ ~(j < i)
    <3>1. ~(e[i] < e[j]) /\ ~(e[j] < e[i])
      BY <2>2, <2>3
    <3>2. QED
      BY Zenon, <1>3, <3>1
  <2>5. QED
    BY <1>2, <2>4
<1>7. ASSUME NEW x, NEW y
      PROVE  Precedes(d, x, y) <=> x.nodeId # n /\ y.nodeId # n /\ Precedes(s, x, y)
  <2>1. ASSUME Precedes(d, x, y)
        PROVE  x.nodeId # n /\ y.nodeId # n /\ Precedes(s, x, y)
    <3>1. PICK i, j \in DOMAIN d : i < j /\ d[i] = x /\ d[j] = y
      BY Zenon, <2>1 DEF Precedes
    <3>2. /\ e[i] \in DOMAIN s /\ e[j] \in DOMAIN s /\ e[i] < e[j]
          /\ s[e[i]] = x /\ s[e[j]] = y /\ x.nodeId # n /\ y.nodeId # n
      BY Zenon, <1>3, <3>1
    <3>3. QED
      BY Zenon, <3>2 DEF Precedes
  <2>2. ASSUME x.nodeId # n, y.nodeId # n, Precedes(s, x, y) PROVE Precedes(d, x, y)
    <3>1. PICK i, j \in DOMAIN s : i < j /\ s[i] = x /\ s[j] = y
      BY Zenon, <2>2 DEF Precedes
    <3>2. PICK a \in DOMAIN d : e[a] = i
      BY Zenon, <1>3, <2>2, <3>1
    <3>3. PICK b \in DOMAIN d : e[b] = j
      BY Zenon, <1>3, <2>2, <3>1
    <3>4. a < b /\ d[a] = x /\ d[b] = y
      BY Zenon, <1>3, <1>5, <3>1, <3>2, <3>3
    <3>5. QED
      BY Zenon, <3>4 DEF Precedes
  <2>3. QED
    BY Zenon, <2>1, <2>2
<1>8. QED
  BY Zenon, <1>1, <1>4, <1>6, <1>7 DEF d

\* Two sequences without a common element, one behind the other.
LEMMA ConcatFacts ==
  ASSUME NEW V, NEW s \in Seq(V), NEW t \in Seq(V),
         IsInjective(s), IsInjective(t), Range(s) \cap Range(t) = {}
  PROVE  /\ s \o t \in Seq(V)
         /\ Range(s \o t) = Range(s) \cup Range(t)
         /\ IsInjective(s \o t)
         /\ \A x, y : Precedes(s \o t, x, y) <=>
                        \/ Precedes(s, x, y) \/ Precedes(t, x, y)
                        \/ x \in Range(s) /\ y \in Range(t)
<1> DEFINE c == s \o t
           a == Len(s)
<1>1. /\ c \in Seq(V) /\ a \in Nat /\ Len(t) \in Nat
      /\ DOMAIN s = 1 .. a /\ DOMAIN t = 1 .. Len(t) /\ DOMAIN c = 1 .. a + Len(t)
  OBVIOUS
<1>2. \A i \in DOMAIN s : i \in DOMAIN c /\ c[i] = s[i] /\ i <= a
  BY <1>1
<1>3. \A j \in DOMAIN t : a + j \in DOMAIN c /\ c[a + j] = t[j] /\ a < a + j
  BY <1>1
<1>4. \A k \in DOMAIN c : \/ k \in DOMAIN s
                          \/ k - a \in DOMAIN t /\ a + (k - a) = k
  BY <1>1
<1> HIDE DEF c, a
<1>5. \A k \in DOMAIN c : \/ k \in DOMAIN s /\ c[k] = s[k]
                          \/ k - a \in DOMAIN t /\ c[k] = t[k - a] /\ a < k
  BY Zenon, <1>2, <1>3, <1>4
<1>6. Range(c) = Range(s) \cup Range(t)
  <2>1. ASSUME NEW x \in Range(c) PROVE x \in Range(s) \cup Range(t)
    BY Zenon, <1>5, <2>1 DEF Range
  <2>2. ASSUME NEW x \in Range(s) PROVE x \in Range(c)
    BY Zenon, <1>2, <2>2 DEF Range
  <2>3. ASSUME NEW x \in Range(t) PROVE x \in Range(c)
    BY Zenon, <1>3, <2>3 DEF Range
  <2>4. QED
    BY Zenon, <2>1, <2>2, <2>3
<1>7. \A i \in DOMAIN s : \A j \in DOMAIN t : s[i] # t[j]
  BY Zenon DEF Range
<1>8. IsInjective(c)
  <2>1. SUFFICES ASSUME NEW i \in DOMAIN c, NEW j \in DOMAIN c, c[i] = c[j] PROVE i = j
    BY Zenon DEF IsInjective
  <2>2. CASE i \in DOMAIN s /\ c[i] = s[i]
    BY Zenon, <1>5, <1>7, <2>1, <2>2 DEF IsInjective
  <2>3. CASE i - a \in DOMAIN t /\ c[i] = t[i - a] /\ a < i
    <3>1. j - a \in DOMAIN t /\ c[j] = t[j - a]
      BY Zenon, <1>5, <1>7, <2>1, <2>3
    <3>2. i - a = j - a
      BY Zenon, <2>1, <2>3, <3>1 DEF IsInjective
    <3>3. QED
      BY <1>1, <3>2
  <2>4. QED
    BY Zenon, <1>5, <2>2, <2>3
<1>9. ASSUME NEW x, NEW y, Precedes(c, x, y)
      PROVE  \/ Precedes(s, x, y) \/ Precedes(t, x, y)
             \/ x \in Range(s) /\ y \in Range(t)
  <2>1. PICK i, j \in DOMAIN c : i < j /\ c[i] = x /\ c[j] = y
    BY Zenon, <1>9 DEF Precedes
  <2>2. CASE j \in DOMAIN s
    <3>1. i \in DOMAIN s
      BY <1>1, <2>1, <2>2
    <3>2. QED
      BY Zenon, <1>2, <2>1, <2>2, <3>1 DEF Precedes
  <2>3. CASE j - a \in DOMAIN t /\ c[j] = t[j - a]
    <3>1. CASE i \in DOMAIN s
      <4>1. x \in Range(s) /\ y \in Range(t)
        BY Zenon, <1>2, <2>1, <2>3, <3>1 DEF Range
      <4>2. QED
        BY Zenon, <4>1
    <3>2. CASE i - a \in DOMAIN t /\ c[i] = t[i - a]
      <4>1. i - a < j - a
        BY <1>1, <2>1
      <4>2. QED
        BY Zenon, <2>1, <2>3, <3>2, <4>1 DEF Precedes
    <3>3. QED
      BY Zenon, <1>5, <3>1, <3>2
  <2>4. QED
    BY Zenon, <1>5, <2>2, <2>3
<1>10. ASSUME NEW x, NEW y, Precedes(s, x, y) PROVE Precedes(c, x, y)
  BY Zenon, <1>2, <1>10 DEF Precedes
<1>11. ASSUME NEW x, NEW y, Precedes(t, x, y) PROVE Precedes(c, x, y)
  <2>1. PICK i, j \in DOMAIN t : i < j /\ t[i] = x /\ t[j] = y
    BY Zenon, <1>11 DEF Precedes
  <2>2. a + i < a + j
    BY <1>1, <2>1
  <2>3. QED
    BY Zenon, <1>3, <2>1, <2>2 DEF Precedes
<1>12. ASSUME NEW x \in Range(s), NEW y \in Range(t) PROVE Precedes(c, x, y)
  <2>1. PICK i \in DOMAIN s : x = s[i]
    BY Zenon, <1>12 DEF Range
  <2>2. PICK j \in DOMAIN t : y = t[j]
    BY Zenon, <1>12 DEF Range
  <2>3. i < a + j
    BY <1>1, <2>1, <2>2
  <2>4. QED
    BY Zenon, <1>2, <1>3, <2>1, <2>2, <2>3 DEF Precedes
<1>13. \A x, y : Precedes(c, x, y) <=> \/ Precedes(s, x, y) \/ Precedes(t, x, y)
                                       \/ x \in Range(s) /\ y \in Range(t)
  BY Zenon, <1>9, <1>10, <1>11, <1>12
<1>14. QED
  BY Zenon, <1>1, <1>6, <1>8, <1>13 DEF c

-----------------------------------------------------------------------------
(* The stable sort *)

\* The element at i is placed before the one at j.
Before(s, i, j) == s[i].hash < s[j].hash \/ (s[i].hash = s[j].hash /\ i < j)

\* How many are placed before the one at i.
Ahead(s, i) == {j \in DOMAIN s : Before(s, j, i)}
Place(s, i) == Cardinality(Ahead(s, i)) + 1

\* Before is a strict order in which all elements compare.
LEMMA BeforeOrder ==
  ASSUME NEW V, NEW s \in Seq(V), \A i \in DOMAIN s : s[i].hash \in Nat
  PROVE  \A i, j, k \in DOMAIN s :
           /\ ~Before(s, i, i)
           /\ Before(s, i, j) /\ Before(s, j, k) => Before(s, i, k)
           /\ Before(s, i, j) => ~Before(s, j, i)
           /\ i # j => Before(s, i, j) \/ Before(s, j, i)
<1> DEFINE h == [i \in DOMAIN s |-> s[i].hash]
<1>1. DOMAIN s \subseteq Nat /\ \A i \in DOMAIN s : h[i] = s[i].hash /\ h[i] \in Nat
  OBVIOUS
<1>2. \A i, j \in DOMAIN s : Before(s, i, j) <=> h[i] < h[j] \/ (h[i] = h[j] /\ i < j)
  BY <1>1 DEF Before
<1> HIDE DEF h
<1>3. QED
  BY <1>1, <1>2

\* The places are 1 .. Len(s), each taken once, in the order Before.
LEMMA Places ==
  ASSUME NEW V, NEW s \in Seq(V), \A i \in DOMAIN s : s[i].hash \in Nat
  PROVE  /\ \A i \in DOMAIN s : Place(s, i) \in DOMAIN s
         /\ \A p \in DOMAIN s : \E i \in DOMAIN s : Place(s, i) = p
         /\ \A i, j \in DOMAIN s : Place(s, i) < Place(s, j) <=> Before(s, i, j)
<1> DEFINE n == Len(s)
           D == DOMAIN s
<1>1. n \in Nat /\ D = 1 .. n
  OBVIOUS
<1>2. IsFiniteSet(D) /\ Cardinality(D) = n
  BY SMTT(30), <1>1, FS_Interval
<1>3. \A i, j, k \in D :
        /\ ~Before(s, i, i)
        /\ Before(s, i, j) /\ Before(s, j, k) => Before(s, i, k)
        /\ Before(s, i, j) => ~Before(s, j, i)
        /\ i # j => Before(s, i, j) \/ Before(s, j, i)
  BY Zenon, BeforeOrder
<1> HIDE DEF n, D
<1>4. \A i \in D : Ahead(s, i) = {j \in D : Before(s, j, i)}
  BY Zenon DEF Ahead, D
<1>5. \A i \in D : IsFiniteSet(Ahead(s, i)) /\ Cardinality(Ahead(s, i)) \in Nat
  <2>1. ASSUME NEW i \in D PROVE IsFiniteSet(Ahead(s, i))
    <3>1. Ahead(s, i) \in SUBSET D
      BY <1>4, <2>1
    <3>2. QED
      BY Zenon, <1>2, <3>1, FS_Subset
  <2>2. QED
    BY Zenon, <2>1, FS_CardinalityType
<1>6. ASSUME NEW i \in D PROVE Place(s, i) \in D
  <2>1. Ahead(s, i) \in SUBSET (D \ {i})
    BY <1>3, <1>4, <1>6
  <2>2. IsFiniteSet(D \ {i}) /\ Cardinality(D \ {i}) = n - 1
    BY <1>2, <1>6, FS_RemoveElement
  <2>3. Cardinality(Ahead(s, i)) <= n - 1
    BY <2>1, <2>2, FS_Subset
  <2>4. QED
    BY <1>1, <1>5, <1>6, <2>3 DEF Place
<1>7. ASSUME NEW i \in D, NEW j \in D, Before(s, i, j) PROVE Place(s, i) < Place(s, j)
  <2>1. Ahead(s, i) \in SUBSET Ahead(s, j)
    BY Zenon, <1>3, <1>4, <1>7
  <2>2. Ahead(s, i) # Ahead(s, j)
    BY ZenonT(30), <1>3, <1>4, <1>7
  <2>3. /\ Cardinality(Ahead(s, i)) <= Cardinality(Ahead(s, j))
        /\ Cardinality(Ahead(s, i)) # Cardinality(Ahead(s, j))
    BY Zenon, <1>5, <1>7, <2>1, <2>2, FS_Subset
  <2>4. QED
    BY <1>5, <1>7, <2>3 DEF Place
<1>8. \A i, j \in D : Place(s, i) < Place(s, j) <=> Before(s, i, j)
  <2>1. SUFFICES ASSUME NEW i \in D, NEW j \in D, Place(s, i) < Place(s, j), ~Before(s, i, j)
                 PROVE  FALSE
    BY Zenon, <1>7
  <2>2. Place(s, i) \in Nat /\ Place(s, j) \in Nat
    <3>1. D \subseteq Nat
      BY <1>1
    <3>2. QED
      BY Zenon, <1>6, <3>1
  <2>3. i = j \/ Place(s, j) < Place(s, i)
    BY Zenon, <1>3, <1>7, <2>1
  <2>4. QED
    BY <2>1, <2>2, <2>3
<1>9. ASSUME NEW p \in D PROVE \E i \in D : Place(s, i) = p
  <2> DEFINE f == [i \in D |-> Place(s, i)]
  <2>1. f \in [D -> D]
    BY Zenon, <1>6
  <2>2. IsInjective(f)
    <3>1. SUFFICES ASSUME NEW i \in D, NEW j \in D, Place(s, i) = Place(s, j), i # j
                   PROVE  FALSE
      BY Zenon DEF IsInjective
    <3>2. Place(s, i) < Place(s, j) \/ Place(s, j) < Place(s, i)
      BY Zenon, <1>3, <1>7, <3>1
    <3>3. Place(s, i) \in Nat /\ Place(s, j) \in Nat
      <4>1. D \subseteq Nat
        BY <1>1
      <4>2. QED
        BY Zenon, <1>6, <4>1
    <3>4. QED
      BY <3>1, <3>2, <3>3
  <2>3. f \in Injection(D, D)
    BY Zenon, <2>1, <2>2 DEF Injection
  <2>4. f \in Surjection(D, D)
    BY Zenon, <1>2, <2>3, FS_Injection
  <2>5. QED
    BY Zenon, <1>9, <2>4 DEF Surjection
<1>10. QED
  BY Zenon, <1>6, <1>8, <1>9 DEF D

\* What the sort returns: q[p] is the old place of the element now at p.
LEMMA SortPermutes ==
  ASSUME NEW V, NEW s \in Seq(V), \A i \in DOMAIN s : s[i].hash \in Nat
  PROVE  /\ SortByHash(s) \in Seq(V) /\ DOMAIN SortByHash(s) = DOMAIN s
         /\ \E q \in [DOMAIN s -> DOMAIN s] :
              /\ \A p \in DOMAIN s : SortByHash(s)[p] = s[q[p]]
              /\ \A i \in DOMAIN s : \E p \in DOMAIN s : q[p] = i
              /\ \A p, r \in DOMAIN s : p < r <=> Before(s, q[p], q[r])
<1> DEFINE D == DOMAIN s
           q == [p \in D |-> CHOOSE i \in D : Place(s, i) = p]
           t == SortByHash(s)
<1>1. /\ \A i \in D : Place(s, i) \in D
      /\ \A p \in D : \E i \in D : Place(s, i) = p
      /\ \A i, j \in D : Place(s, i) < Place(s, j) <=> Before(s, i, j)
  BY Zenon, Places
<1>2. t = [p \in D |-> s[CHOOSE i \in D : Place(s, i) = p]]
  BY Zenon DEF SortByHash, Place, Ahead, Before
<1>3. D = 1 .. Len(s) /\ Len(s) \in Nat /\ \A i \in D : s[i] \in V
  OBVIOUS
<1> HIDE DEF D, t
<1>4. \A p \in D : q[p] \in D /\ Place(s, q[p]) = p
  BY Zenon, <1>1
<1>5. \A p \in D : t[p] = s[q[p]]
  BY <1>2
<1>6. DOMAIN t = D
  BY <1>2
<1>7. q \in [D -> D]
  BY Zenon, <1>4
<1> HIDE DEF q
<1>8. t \in Seq(V)
  <2>1. t \in [1 .. Len(s) -> V]
    BY <1>2, <1>3, <1>4, <1>5
  <2>2. QED
    BY <1>3, <2>1
<1>9. \A i \in D : \E p \in D : q[p] = i
  <2>1. ASSUME NEW i \in D PROVE q[Place(s, i)] = i
    <3> DEFINE p == Place(s, i)
               k == q[p]
    <3>1. p \in D /\ k \in D /\ Place(s, k) = p
      BY Zenon, <1>1, <1>4, <2>1
    <3>2. p \in Nat /\ ~(p < p)
      BY <1>3, <3>1
    <3>3. ~Before(s, i, k) /\ ~Before(s, k, i)
      BY Zenon, <1>1, <2>1, <3>1, <3>2
    <3>4. i = k
      BY Zenon, <2>1, <3>1, <3>3, BeforeOrder DEF D
    <3>5. QED
      BY Zenon, <3>4
  <2>2. QED
    BY Zenon, <1>1, <2>1
<1>10. \A p, r \in D : p < r <=> Before(s, q[p], q[r])
  <2>1. ASSUME NEW p \in D, NEW r \in D PROVE p < r <=> Before(s, q[p], q[r])
    <3>1. Place(s, q[p]) < Place(s, q[r]) <=> Before(s, q[p], q[r])
      BY Zenon, <1>1, <1>4, <2>1
    <3>2. QED
      BY Zenon, <1>4, <2>1, <3>1
  <2>2. QED
    BY Zenon, <2>1
<1>11. QED
  BY Zenon, <1>5, <1>6, <1>7, <1>8, <1>9, <1>10 DEF D, t

\* The sort keeps the elements, orders them by hash, and leaves those with
\* the same hash in the order they had.
LEMMA SortFacts ==
  ASSUME NEW V, NEW s \in Seq(V), \A i \in DOMAIN s : s[i].hash \in Nat, IsInjective(s)
  PROVE  /\ SortByHash(s) \in Seq(V)
         /\ Range(SortByHash(s)) = Range(s)
         /\ IsInjective(SortByHash(s))
         /\ \A x, y \in Range(s) :
              Precedes(SortByHash(s), x, y) <=>
                x.hash < y.hash \/ (x.hash = y.hash /\ Precedes(s, x, y))
<1> DEFINE t == SortByHash(s)
           D == DOMAIN s
<1>1. t \in Seq(V) /\ DOMAIN t = D
  BY Zenon, SortPermutes
<1>2. PICK q \in [D -> D] :
        /\ \A p \in D : t[p] = s[q[p]]
        /\ \A i \in D : \E p \in D : q[p] = i
        /\ \A p, r \in D : p < r <=> Before(s, q[p], q[r])
  BY Zenon, SortPermutes
<1>3. D \subseteq Nat
  OBVIOUS
<1> HIDE DEF t
<1>4. Range(t) = Range(s)
  <2>1. ASSUME NEW x \in Range(t) PROVE x \in Range(s)
    <3>1. PICK p \in D : x = t[p]
      BY Zenon, <1>1, <2>1 DEF Range
    <3>2. q[p] \in D /\ x = s[q[p]]
      BY Zenon, <1>2, <3>1
    <3>3. QED
      BY Zenon, <3>2 DEF Range
  <2>2. ASSUME NEW x \in Range(s) PROVE x \in Range(t)
    <3>1. PICK i \in D : x = s[i]
      BY Zenon, <2>2 DEF Range
    <3>2. PICK p \in D : q[p] = i
      BY Zenon, <1>2
    <3>3. QED
      BY Zenon, <1>1, <1>2, <3>1, <3>2 DEF Range
  <2>3. QED
    BY Zenon, <2>1, <2>2
<1>5. IsInjective(t)
  <2>1. SUFFICES ASSUME NEW p \in D, NEW r \in D, t[p] = t[r] PROVE p = r
    BY Zenon, <1>1 DEF IsInjective
  <2>2. q[p] \in D /\ q[r] \in D /\ q[p] = q[r]
    <3>1. q[p] \in D /\ q[r] \in D /\ s[q[p]] = s[q[r]]
      BY Zenon, <1>2, <2>1
    <3>2. QED
      BY Zenon, <3>1 DEF IsInjective
  <2>3. ~Before(s, q[p], q[p])
    BY Zenon, <2>2, BeforeOrder
  <2>4. ~(p < r) /\ ~(r < p)
    BY Zenon, <1>2, <2>1, <2>2, <2>3
  <2>5. QED
    BY <1>3, <2>1, <2>4
<1>6. ASSUME NEW x \in Range(s), NEW y \in Range(s)
      PROVE  Precedes(t, x, y) <=> x.hash < y.hash \/ (x.hash = y.hash /\ Precedes(s, x, y))
  <2>1. PICK i \in D : x = s[i]
    BY Zenon, <1>6 DEF Range
  <2>2. PICK j \in D : y = s[j]
    BY Zenon, <1>6 DEF Range
  <2>3. PICK p \in D : q[p] = i
    BY Zenon, <1>2
  <2>4. PICK r \in D : q[r] = j
    BY Zenon, <1>2
  <2>5. Precedes(s, x, y) <=> i < j
    BY Zenon, <2>1, <2>2 DEF Precedes, IsInjective
  <2>6. t[p] = x /\ t[r] = y
    BY Zenon, <1>2, <2>1, <2>2, <2>3, <2>4
  <2>7. Precedes(t, x, y) <=> p < r
    BY Zenon, <1>1, <1>5, <2>3, <2>4, <2>6 DEF Precedes, IsInjective
  <2>8. p < r <=> Before(s, i, j)
    BY Zenon, <1>2, <2>3, <2>4
  <2>9. QED
    BY Zenon, <2>1, <2>2, <2>5, <2>7, <2>8 DEF Before
<1>7. QED
  BY Zenon, <1>1, <1>4, <1>5, <1>6 DEF t

-----------------------------------------------------------------------------
(* The virtual nodes of a node *)

RingPoint == [hash : Positions, nodeId : Nodes, virtualIndex : Nat]
NodeInfo == [nodeId : Nodes, weight : Weights]

\* ringHash covers the labels of every weight.
Hashes == ringHash \in [Nodes \X (0 .. MaxVirtual - 1) -> Positions]

\* A heavier node has at least as many virtual nodes, and each has one.
LEMMA CountGrows ==
  ASSUME NEW v \in Nat, NEW w \in Nat, v <= w
  PROVE  /\ virtualNodeCountFor(v) \in Nat \ {0} /\ virtualNodeCountFor(w) \in Nat \ {0}
         /\ virtualNodeCountFor(v) <= virtualNodeCountFor(w)
<1> DEFINE b == baseVirtualNodeCount
           a == 2 * b * v
           c == 2 * b * w
<1>1. b \in Nat
  BY RingAssumption
<1>2. a \in Nat /\ c \in Nat /\ a <= c
  <2>1. PICK d \in Nat : w = v + d
    <3>1. w - v \in Nat /\ w = v + (w - v)
      OBVIOUS
    <3>2. QED
      BY Zenon, <3>1
  <2> HIDE DEF b
  <2>2. a \in Nat /\ c \in Nat /\ 2 * b * d \in Nat
    BY <1>1
  <2>3. c = a + 2 * b * d
    BY <1>1, <2>1
  <2>4. QED
    BY <2>2, <2>3
<1>3. /\ virtualNodeCountFor(v) = IF (a + 100) \div 200 < 1 THEN 1 ELSE (a + 100) \div 200
      /\ virtualNodeCountFor(w) = IF (c + 100) \div 200 < 1 THEN 1 ELSE (c + 100) \div 200
  BY Zenon DEF virtualNodeCountFor
<1> HIDE DEF a, c
<1>4. (a + 100) \div 200 \in Nat /\ (c + 100) \div 200 \in Nat
      /\ (a + 100) \div 200 <= (c + 100) \div 200
  BY <1>2
<1>5. QED
  BY <1>3, <1>4

\* MaxVirtual bounds the number of virtual nodes of every weight.
LEMMA CountBounded ==
  ASSUME NEW w \in Weights
  PROVE  /\ virtualNodeCountFor(w) \in Nat \ {0} /\ MaxVirtual \in Nat \ {0}
         /\ virtualNodeCountFor(w) <= MaxVirtual
<1> DEFINE C == {virtualNodeCountFor(v) : v \in Weights}
           Bound(m) == \A v \in Weights : virtualNodeCountFor(v) <= m
<1>1. PICK h \in Weights : \A v \in Weights : v <= h
  BY Zenon, RingAssumption
<1>2. Weights \subseteq Nat
  BY RingAssumption
<1>3. \A v \in Weights : /\ virtualNodeCountFor(v) \in Nat \ {0}
                         /\ virtualNodeCountFor(v) <= virtualNodeCountFor(h)
  BY Zenon, <1>1, <1>2, CountGrows
<1>4. virtualNodeCountFor(h) \in C /\ Bound(virtualNodeCountFor(h))
  BY Zenon, <1>1, <1>3
<1>5. MaxVirtual \in C /\ Bound(MaxVirtual)
  BY Zenon, <1>4 DEF MaxVirtual
<1>6. MaxVirtual \in Nat \ {0}
  BY Zenon, <1>3, <1>5
<1>7. QED
  BY Zenon, <1>3, <1>5, <1>6

\* What precedes or follows in a sequence is an element of it.
LEMMA PrecedesRange ==
  ASSUME NEW s, NEW x, NEW y, Precedes(s, x, y)
  PROVE  x \in Range(s) /\ y \in Range(s)
BY Zenon DEF Precedes, Range

\* The virtual nodes of a node are distinct, in the order of their index.
LEMMA VirtualFacts ==
  ASSUME Hashes, NEW n \in Nodes, NEW w \in Weights
  PROVE  /\ VirtualNodes(n, w) \in Seq(RingPoint) /\ IsInjective(VirtualNodes(n, w))
         /\ \A x \in Range(VirtualNodes(n, w)) : x.nodeId = n
         /\ \A x, y \in Range(VirtualNodes(n, w)) :
              Precedes(VirtualNodes(n, w), x, y) <=> x.virtualIndex < y.virtualIndex
<1> DEFINE v == VirtualNodes(n, w)
           k == virtualNodeCountFor(w)
<1>1. k \in Nat \ {0} /\ MaxVirtual \in Nat /\ k <= MaxVirtual
  BY Zenon, CountBounded
<1> HIDE DEF k
<1>2. v = [i \in 1 .. k |-> [hash |-> ringHash[<<n, i - 1>>], nodeId |-> n,
                             virtualIndex |-> i - 1]]
  BY Zenon DEF VirtualNodes, k
<1>3. ASSUME NEW i \in 1 .. k
      PROVE  /\ v[i].hash = ringHash[<<n, i - 1>>] /\ v[i].nodeId = n
             /\ v[i].virtualIndex = i - 1 /\ v[i] \in RingPoint
  <2>1. i - 1 \in 0 .. MaxVirtual - 1 /\ i - 1 \in Nat
    BY <1>1, <1>3
  <2>2. ringHash[<<n, i - 1>>] \in Positions
    BY <2>1 DEF Hashes
  <2>3. v[i] = [hash |-> ringHash[<<n, i - 1>>], nodeId |-> n, virtualIndex |-> i - 1]
    BY <1>2, <1>3
  <2>4. QED
    BY <2>1, <2>2, <2>3 DEF RingPoint
<1>4. DOMAIN v = 1 .. k
  BY <1>2
<1>5. v \in Seq(RingPoint)
  <2>1. v \in [1 .. k -> RingPoint]
    BY Zenon, <1>2, <1>3
  <2>2. QED
    BY <1>1, <2>1
<1> HIDE DEF v
<1>6. ASSUME NEW i \in DOMAIN v, NEW j \in DOMAIN v
      PROVE  /\ v[i].virtualIndex < v[j].virtualIndex <=> i < j
             /\ v[i] = v[j] => i = j
  <2>1. v[i].virtualIndex = i - 1 /\ v[j].virtualIndex = j - 1
    BY Zenon, <1>3, <1>4
  <2>2. i \in Nat /\ j \in Nat
    BY <1>4
  <2>3. i - 1 < j - 1 <=> i < j
    BY <2>2
  <2>4. i - 1 = j - 1 => i = j
    BY <2>2
  <2>5. QED
    BY Zenon, <2>1, <2>3, <2>4
<1>7. IsInjective(v)
  BY Zenon, <1>6 DEF IsInjective
<1>8. \A x \in Range(v) : x.nodeId = n
  BY Zenon, <1>3, <1>4 DEF Range
<1>9. ASSUME NEW x \in Range(v), NEW y \in Range(v)
      PROVE  Precedes(v, x, y) <=> x.virtualIndex < y.virtualIndex
  <2>1. PICK i \in DOMAIN v : x = v[i]
    BY Zenon, <1>9 DEF Range
  <2>2. PICK j \in DOMAIN v : y = v[j]
    BY Zenon, <1>9 DEF Range
  <2>3. Precedes(v, x, y) <=> i < j
    BY Zenon, <1>7, <2>1, <2>2 DEF Precedes, IsInjective
  <2>4. QED
    BY Zenon, <1>6, <2>1, <2>2, <2>3
<1>10. QED
  BY Zenon, <1>5, <1>7, <1>8, <1>9 DEF v

-----------------------------------------------------------------------------
(* The array that belongs to a node table *)

\* ns has no two entries of one node.
Table(ns) ==
  /\ ns \in Seq(NodeInfo) /\ IsInjective(ns)
  /\ \A x, y \in Range(ns) : x.nodeId = y.nodeId => x = y

\* The virtual nodes of a table.
Members(ns) == UNION {Range(VirtualNodes(x.nodeId, x.weight)) : x \in Range(ns)}

\* Node a stands before node b in the table.
Senior(ns, a, b) ==
  \E x, y \in Range(ns) : Precedes(ns, x, y) /\ x.nodeId = a /\ y.nodeId = b

\* The order of the array: by hash; colliding points of one node by index, of
\* two nodes by the order of the table.
Tie(ns, x, y) ==
  IF x.nodeId = y.nodeId THEN x.virtualIndex < y.virtualIndex
  ELSE Senior(ns, x.nodeId, y.nodeId)
Earlier(ns, x, y) == x.hash < y.hash \/ (x.hash = y.hash /\ Tie(ns, x, y))

\* p is the array of the table ns: there is only one.
Canonical(ns, p) ==
  /\ p \in Seq(RingPoint) /\ IsInjective(p) /\ Range(p) = Members(ns)
  /\ \A x, y \in Range(p) : Precedes(p, x, y) <=> Earlier(ns, x, y)

\* The inductive invariant: the array is the one of the node table.
IInv == Hashes /\ Table(nodes) /\ Canonical(nodes, points)

\* One more element at the end.
LEMMA AppendFacts ==
  ASSUME NEW V, NEW s \in Seq(V), NEW x \in V, IsInjective(s), x \notin Range(s)
  PROVE  /\ Append(s, x) \in Seq(V) /\ IsInjective(Append(s, x))
         /\ Range(Append(s, x)) = Range(s) \cup {x}
         /\ \A y, z : Precedes(Append(s, x), y, z) <=>
                        Precedes(s, y, z) \/ (y \in Range(s) /\ z = x)
<1> DEFINE t == <<x>>
           c == s \o t
<1>1. t \in Seq(V) /\ DOMAIN t = {1} /\ t[1] = x /\ Append(s, x) = c
  OBVIOUS
<1> HIDE DEF t
<1>2. Range(t) = {x} /\ IsInjective(t)
  BY <1>1 DEF Range, IsInjective
<1>3. \A y, z : ~Precedes(t, y, z)
  <2>1. \A i, j \in DOMAIN t : ~(i < j)
    BY <1>1
  <2>2. QED
    BY Zenon, <2>1 DEF Precedes
<1>4. Range(s) \cap Range(t) = {}
  BY Zenon, <1>2
<1>5. /\ c \in Seq(V) /\ Range(c) = Range(s) \cup Range(t) /\ IsInjective(c)
      /\ \A y, z : Precedes(c, y, z) <=>
                     \/ Precedes(s, y, z) \/ Precedes(t, y, z)
                     \/ y \in Range(s) /\ z \in Range(t)
  BY Zenon, <1>1, <1>2, <1>4, ConcatFacts
<1> HIDE DEF c
<1>6. \A z : z \in Range(t) <=> z = x
  BY <1>2
<1>7. \A y, z : Precedes(c, y, z) <=>
                  Precedes(s, y, z) \/ (y \in Range(s) /\ z = x)
  BY Zenon, <1>3, <1>5, <1>6
<1>8. QED
  BY <1>1, <1>2, <1>5, <1>7

\* An entry of a table and its points.
LEMMA EntryFacts ==
  ASSUME Hashes, NEW ns, Table(ns), NEW x \in Range(ns)
  PROVE  /\ x \in NodeInfo /\ x.nodeId \in Nodes /\ x.weight \in Weights
         /\ VirtualNodes(x.nodeId, x.weight) \in Seq(RingPoint)
         /\ \A p \in Range(VirtualNodes(x.nodeId, x.weight)) : p.nodeId = x.nodeId
<1>1. PICK i \in DOMAIN ns : x = ns[i]
  BY Zenon DEF Range
<1>2. x \in NodeInfo
  BY <1>1 DEF Table
<1>3. x.nodeId \in Nodes /\ x.weight \in Weights
  BY <1>2 DEF NodeInfo
<1>4. QED
  BY Zenon, <1>2, <1>3, VirtualFacts

\* The points of a table belong to its nodes.
LEMMA MemberFacts ==
  ASSUME Hashes, NEW ns, Table(ns), NEW p \in Members(ns)
  PROVE  \E x \in Range(ns) : p \in Range(VirtualNodes(x.nodeId, x.weight)) /\ p.nodeId = x.nodeId
<1>1. PICK x \in Range(ns) : p \in Range(VirtualNodes(x.nodeId, x.weight))
  BY Zenon DEF Members
<1>2. QED
  BY Zenon, <1>1, EntryFacts

\* A table without node n.
LEMMA DropTable ==
  ASSUME Hashes, NEW ns, Table(ns), NEW n
  PROVE  /\ Table(Drop(ns, n))
         /\ Range(Drop(ns, n)) = {x \in Range(ns) : x.nodeId # n}
         /\ Members(Drop(ns, n)) = {p \in Members(ns) : p.nodeId # n}
         /\ \A a, b : a # n /\ b # n => (Senior(Drop(ns, n), a, b) <=> Senior(ns, a, b))
<1> DEFINE d == Drop(ns, n)
<1>1. ns \in Seq(NodeInfo) /\ IsInjective(ns)
      /\ \A x, y \in Range(ns) : x.nodeId = y.nodeId => x = y
  BY Zenon DEF Table
<1>2. /\ d \in Seq(NodeInfo) /\ Range(d) = {x \in Range(ns) : x.nodeId # n}
      /\ IsInjective(d)
      /\ \A x, y : Precedes(d, x, y) <=> x.nodeId # n /\ y.nodeId # n /\ Precedes(ns, x, y)
  BY Zenon, <1>1, DropFacts
<1> HIDE DEF d
<1>3. \A x : x \in Range(d) <=> x \in Range(ns) /\ x.nodeId # n
  BY Zenon, <1>2
<1>4. Table(d)
  BY Zenon, <1>1, <1>2, <1>3 DEF Table
<1>5. Members(d) = {p \in Members(ns) : p.nodeId # n}
  <2>1. ASSUME NEW p \in Members(d) PROVE p \in Members(ns) /\ p.nodeId # n
    <3>1. PICK x \in Range(d) : p \in Range(VirtualNodes(x.nodeId, x.weight)) /\ p.nodeId = x.nodeId
      BY Zenon, <1>4, <2>1, MemberFacts
    <3>2. x \in Range(ns) /\ x.nodeId # n
      BY Zenon, <1>3, <3>1
    <3>3. QED
      BY Zenon, <3>1, <3>2 DEF Members
  <2>2. ASSUME NEW p \in Members(ns), p.nodeId # n PROVE p \in Members(d)
    <3>1. PICK x \in Range(ns) : p \in Range(VirtualNodes(x.nodeId, x.weight)) /\ p.nodeId = x.nodeId
      BY Zenon, <2>2, MemberFacts
    <3>2. x \in Range(d)
      BY Zenon, <1>3, <2>2, <3>1
    <3>3. QED
      BY Zenon, <3>1, <3>2 DEF Members
  <2>3. QED
    BY Zenon, <2>1, <2>2
<1>6. ASSUME NEW a, NEW b, a # n, b # n PROVE Senior(d, a, b) <=> Senior(ns, a, b)
  BY Zenon, <1>2, <1>3, <1>6 DEF Senior
<1>7. QED
  BY Zenon, <1>2, <1>4, <1>5, <1>6 DEF d

\* A table with one more node.
LEMMA JoinTable ==
  ASSUME Hashes, NEW ns, Table(ns), NEW info \in NodeInfo,
         \A x \in Range(ns) : x.nodeId # info.nodeId
  PROVE  /\ Table(Append(ns, info)) /\ Range(Append(ns, info)) = Range(ns) \cup {info}
         /\ Members(Append(ns, info)) =
              Members(ns) \cup Range(VirtualNodes(info.nodeId, info.weight))
         /\ \A a, b : Senior(Append(ns, info), a, b) <=>
              Senior(ns, a, b) \/ (b = info.nodeId /\ \E x \in Range(ns) : x.nodeId = a)
<1> DEFINE d == Append(ns, info)
<1>1. ns \in Seq(NodeInfo) /\ IsInjective(ns)
      /\ \A x, y \in Range(ns) : x.nodeId = y.nodeId => x = y
  BY Zenon DEF Table
<1>2. info \notin Range(ns)
  BY Zenon
<1>3. /\ d \in Seq(NodeInfo) /\ IsInjective(d) /\ Range(d) = Range(ns) \cup {info}
      /\ \A y, z : Precedes(d, y, z) <=> Precedes(ns, y, z) \/ (y \in Range(ns) /\ z = info)
  BY Zenon, <1>1, <1>2, AppendFacts
<1> HIDE DEF d
<1>4. \A x : x \in Range(d) <=> x \in Range(ns) \/ x = info
  BY Zenon, <1>3
<1>5. Table(d)
  BY Zenon, <1>1, <1>3, <1>4 DEF Table
<1>6. Members(d) = Members(ns) \cup Range(VirtualNodes(info.nodeId, info.weight))
  <2>1. ASSUME NEW p PROVE p \in Members(d) <=>
          p \in Members(ns) \/ p \in Range(VirtualNodes(info.nodeId, info.weight))
    BY Zenon, <1>4 DEF Members
  <2>2. QED
    BY Zenon, <2>1
<1>7. ASSUME NEW a, NEW b
      PROVE  Senior(d, a, b) <=>
               Senior(ns, a, b) \/ (b = info.nodeId /\ \E x \in Range(ns) : x.nodeId = a)
  <2>1. ASSUME Senior(d, a, b)
        PROVE  Senior(ns, a, b) \/ (b = info.nodeId /\ \E x \in Range(ns) : x.nodeId = a)
    <3>1. PICK x, y \in Range(d) : Precedes(d, x, y) /\ x.nodeId = a /\ y.nodeId = b
      BY Zenon, <2>1 DEF Senior
    <3>2. CASE Precedes(ns, x, y)
      <4>1. x \in Range(ns) /\ y \in Range(ns)
        BY Zenon, <3>2, PrecedesRange
      <4>2. QED
        BY Zenon, <3>1, <3>2, <4>1 DEF Senior
    <3>3. QED
      BY Zenon, <1>3, <3>1, <3>2
  <2>2. ASSUME Senior(ns, a, b) PROVE Senior(d, a, b)
    BY Zenon, <1>3, <1>4, <2>2 DEF Senior
  <2>3. ASSUME b = info.nodeId, NEW x \in Range(ns), x.nodeId = a PROVE Senior(d, a, b)
    BY Zenon, <1>3, <1>4, <2>3 DEF Senior
  <2>4. QED
    BY Zenon, <2>1, <2>2, <2>3
<1>8. QED
  BY Zenon, <1>3, <1>5, <1>6, <1>7 DEF d

\* Removing a node from the table and from the array.
LEMMA DropCanonical ==
  ASSUME Hashes, NEW ns, NEW p, Table(ns), Canonical(ns, p), NEW n
  PROVE  Canonical(Drop(ns, n), Drop(p, n))
<1> DEFINE d == Drop(ns, n)
           q == Drop(p, n)
<1>1. /\ p \in Seq(RingPoint) /\ IsInjective(p) /\ Range(p) = Members(ns)
      /\ \A x, y \in Range(p) : Precedes(p, x, y) <=> Earlier(ns, x, y)
  BY Zenon DEF Canonical
<1>2. /\ q \in Seq(RingPoint) /\ Range(q) = {x \in Range(p) : x.nodeId # n}
      /\ IsInjective(q)
      /\ \A x, y : Precedes(q, x, y) <=> x.nodeId # n /\ y.nodeId # n /\ Precedes(p, x, y)
  BY Zenon, <1>1, DropFacts
<1>3. /\ Members(d) = {x \in Members(ns) : x.nodeId # n}
      /\ \A a, b : a # n /\ b # n => (Senior(d, a, b) <=> Senior(ns, a, b))
  BY ZenonT(60), DropTable
<1> HIDE DEF d, q
<1>4. Range(q) = Members(d)
  BY Zenon, <1>1, <1>2, <1>3
<1>5. ASSUME NEW x \in Range(q), NEW y \in Range(q)
      PROVE  Precedes(q, x, y) <=> Earlier(d, x, y)
  <2>1. x \in Range(p) /\ y \in Range(p) /\ x.nodeId # n /\ y.nodeId # n
    BY Zenon, <1>2, <1>5
  <2>2. Earlier(d, x, y) <=> Earlier(ns, x, y)
    BY Zenon, <1>3, <2>1 DEF Earlier, Tie
  <2>3. QED
    BY Zenon, <1>1, <1>2, <2>1, <2>2
<1>6. QED
  BY Zenon, <1>2, <1>4, <1>5 DEF Canonical, d, q

\* A node that was not there joins: its points are sorted in behind the points
\* they collide with.
LEMMA JoinCanonical ==
  ASSUME Hashes, NEW ns, NEW p, Table(ns), Canonical(ns, p), NEW info \in NodeInfo,
         \A x \in Range(ns) : x.nodeId # info.nodeId
  PROVE  Canonical(Append(ns, info),
                   SortByHash(p \o VirtualNodes(info.nodeId, info.weight)))
<1> DEFINE d == Append(ns, info)
           n == info.nodeId
           v == VirtualNodes(info.nodeId, info.weight)
           c == p \o v
           t == SortByHash(c)
<1>1. /\ p \in Seq(RingPoint) /\ IsInjective(p) /\ Range(p) = Members(ns)
      /\ \A x, y \in Range(p) : Precedes(p, x, y) <=> Earlier(ns, x, y)
  BY Zenon DEF Canonical
<1>2. info.nodeId \in Nodes /\ info.weight \in Weights
  BY DEF NodeInfo
<1>3. /\ v \in Seq(RingPoint) /\ IsInjective(v) /\ \A x \in Range(v) : x.nodeId = n
      /\ \A x, y \in Range(v) : Precedes(v, x, y) <=> x.virtualIndex < y.virtualIndex
  BY Zenon, <1>2, VirtualFacts
<1>4. /\ Members(d) = Members(ns) \cup Range(v)
      /\ \A a, b : Senior(d, a, b) <=>
           Senior(ns, a, b) \/ (b = n /\ \E x \in Range(ns) : x.nodeId = a)
  BY Zenon, JoinTable
<1> HIDE DEF d, n, v
<1>5. \A x \in Range(p) : x.nodeId # n /\ \E e \in Range(ns) : e.nodeId = x.nodeId
  <2>1. ASSUME NEW x \in Range(p)
        PROVE  x.nodeId # n /\ \E e \in Range(ns) : e.nodeId = x.nodeId
    <3>1. PICK e \in Range(ns) : x.nodeId = e.nodeId
      BY ZenonT(30), <1>1, <2>1, MemberFacts
    <3>2. QED
      BY Zenon, <3>1 DEF n
  <2>2. QED
    BY Zenon, <2>1
<1>6. Range(p) \cap Range(v) = {}
  BY Zenon, <1>3, <1>5
<1>7. /\ c \in Seq(RingPoint) /\ Range(c) = Range(p) \cup Range(v) /\ IsInjective(c)
      /\ \A x, y : Precedes(c, x, y) <=>
                     \/ Precedes(p, x, y) \/ Precedes(v, x, y)
                     \/ x \in Range(p) /\ y \in Range(v)
  BY Zenon, <1>1, <1>3, <1>6, ConcatFacts
<1> HIDE DEF c
<1>8. \A i \in DOMAIN c : c[i].hash \in Nat
  <2>1. ASSUME NEW i \in DOMAIN c PROVE c[i].hash \in Nat
    <3>1. c[i] \in RingPoint
      BY <1>7, <2>1
    <3>2. c[i].hash \in Positions
      BY <3>1 DEF RingPoint
    <3>3. QED
      BY Zenon, <3>2, RingAssumption
  <2>2. QED
    BY Zenon, <2>1
<1>9. /\ t \in Seq(RingPoint) /\ Range(t) = Range(c) /\ IsInjective(t)
      /\ \A x, y \in Range(c) :
           Precedes(t, x, y) <=> x.hash < y.hash \/ (x.hash = y.hash /\ Precedes(c, x, y))
  BY Zenon, <1>7, <1>8, SortFacts
<1> HIDE DEF t
<1>10. ASSUME NEW x \in Range(c), NEW y \in Range(c), x.hash = y.hash
       PROVE  Precedes(c, x, y) <=> Tie(d, x, y)
  <2>0. /\ Precedes(p, x, y) => x \in Range(p) /\ y \in Range(p)
        /\ Precedes(v, x, y) => x \in Range(v) /\ y \in Range(v)
    BY Zenon, PrecedesRange
  <2>1. CASE x \in Range(p) /\ y \in Range(p)
    <3>1. Precedes(c, x, y) <=> Precedes(p, x, y)
      BY Zenon, <1>6, <1>7, <2>0, <2>1
    <3>2. ~(x.hash < y.hash)
      <4>1. x \in RingPoint
        BY <1>1, <2>1 DEF Range
      <4>2. x.hash \in Positions
        BY <4>1 DEF RingPoint
      <4>3. x.hash \in Nat
        BY Zenon, <4>2, RingAssumption
      <4>4. QED
        BY <1>10, <4>3
    <3>3. Precedes(p, x, y) <=> Tie(ns, x, y)
      BY Zenon, <1>1, <1>10, <2>1, <3>2 DEF Earlier
    <3>4. Tie(ns, x, y) <=> Tie(d, x, y)
      BY Zenon, <1>4, <1>5, <2>1 DEF Tie
    <3>5. QED
      BY Zenon, <3>1, <3>3, <3>4
  <2>2. CASE x \in Range(p) /\ y \in Range(v)
    <3>1. Precedes(c, x, y)
      BY Zenon, <1>7, <2>2
    <3>2. x.nodeId # y.nodeId /\ Senior(d, x.nodeId, y.nodeId)
      BY Zenon, <1>3, <1>4, <1>5, <2>2
    <3>3. QED
      BY Zenon, <3>1, <3>2 DEF Tie
  <2>3. CASE x \in Range(v) /\ y \in Range(p)
    <3>1. ~Precedes(c, x, y)
      BY Zenon, <1>6, <1>7, <2>0, <2>3
    <3>2. x.nodeId = n /\ y.nodeId # n
      BY Zenon, <1>3, <1>5, <2>3
    <3>3. ~Senior(ns, n, y.nodeId)
      BY Zenon DEF Senior, n
    <3>4. ~Senior(d, x.nodeId, y.nodeId)
      BY Zenon, <1>4, <3>2, <3>3
    <3>5. QED
      BY Zenon, <3>1, <3>2, <3>4 DEF Tie
  <2>4. CASE x \in Range(v) /\ y \in Range(v)
    <3>1. Precedes(c, x, y) <=> Precedes(v, x, y)
      BY Zenon, <1>6, <1>7, <2>0, <2>4
    <3>2. x.nodeId = y.nodeId
      BY Zenon, <1>3, <2>4
    <3>3. QED
      BY Zenon, <1>3, <2>4, <3>1, <3>2 DEF Tie
  <2>5. QED
    BY Zenon, <1>7, <1>10, <2>1, <2>2, <2>3, <2>4
<1>11. Range(t) = Members(d)
  BY Zenon, <1>1, <1>4, <1>7, <1>9
<1>12. \A x, y \in Range(t) : Precedes(t, x, y) <=> Earlier(d, x, y)
  BY Zenon, <1>9, <1>10 DEF Earlier
<1>13. Canonical(d, t)
  BY Zenon, <1>9, <1>11, <1>12 DEF Canonical
<1>14. QED
  BY Zenon, <1>13 DEF d, t, c, v

\* addNode, also as an update: the old entry and its points go first.
LEMMA AddedCanonical ==
  ASSUME Hashes, NEW ns, NEW p, Table(ns), Canonical(ns, p),
         NEW info \in NodeInfo
  PROVE  LET after == Added([nodes |-> ns, points |-> p], info)
         IN /\ after = [nodes |-> after.nodes, points |-> after.points]
            /\ after.nodes = Append(Drop(ns, info.nodeId), info)
            /\ Table(after.nodes) /\ Canonical(after.nodes, after.points)
<1> DEFINE n == info.nodeId
           d == Drop(ns, n)
           q == Drop(p, n)
           s == SortByHash(q \o VirtualNodes(info.nodeId, info.weight))
           after == Added([nodes |-> ns, points |-> p], info)
<1>1. /\ Table(d) /\ Range(d) = {x \in Range(ns) : x.nodeId # n}
      /\ Canonical(d, q)
  <2> HIDE DEF n
  <2>1. Table(d)
    BY Zenon, DropTable
  <2>0. Range(d) = {x \in Range(ns) : x.nodeId # n}
    BY Zenon, DropFacts DEF Table
  <2>2. Canonical(d, q)
    BY Zenon, DropCanonical
  <2>3. QED
    BY Zenon, <2>0, <2>1, <2>2
<1>2. \A x \in Range(d) : x.nodeId # info.nodeId
  BY Zenon, <1>1
<1>3. after = [nodes |-> Append(d, info), points |-> s]
  BY DEF Added
<1> HIDE DEF after
<1>4. after.nodes = Append(d, info) /\ after.points = s
  BY <1>3
<1> HIDE DEF d, q
<1>5. Table(Append(d, info)) /\ Canonical(Append(d, info), s)
  BY Zenon, <1>1, <1>2, JoinTable, JoinCanonical
<1>6. /\ after = [nodes |-> after.nodes, points |-> after.points]
      /\ after.nodes = Append(d, info)
      /\ Table(after.nodes) /\ Canonical(after.nodes, after.points)
  BY Zenon, <1>3, <1>4, <1>5
<1>7. QED
  BY Zenon, <1>6 DEF after, d

-----------------------------------------------------------------------------
(* The array is determined by the members *)

\* Two arrays with the same points in the same order are equal.
LEMMA CanonicalUnique ==
  ASSUME NEW ns, NEW p, NEW ms, NEW q, Canonical(ns, p), Canonical(ms, q),
         Members(ns) = Members(ms),
         \A x, y \in Members(ns) : Earlier(ns, x, y) => Earlier(ms, x, y)
  PROVE  p = q
<1>1. /\ p \in Seq(RingPoint) /\ IsInjective(p) /\ Range(p) = Members(ns)
      /\ \A x, y \in Range(p) : Precedes(p, x, y) <=> Earlier(ns, x, y)
      /\ q \in Seq(RingPoint) /\ IsInjective(q) /\ Range(q) = Members(ms)
      /\ \A x, y \in Range(q) : Precedes(q, x, y) <=> Earlier(ms, x, y)
  BY Zenon DEF Canonical
<1>2. Range(p) = Range(q)
  BY Zenon, <1>1
<1>3. \A x, y \in Range(p) : Precedes(p, x, y) => Precedes(q, x, y)
  BY Zenon, <1>1, <1>2
<1>4. QED
  BY Zenon, <1>1, <1>2, <1>3, SameOrder

\* Removing a node that is not there changes nothing.
LEMMA DropAbsent ==
  ASSUME NEW ns, Table(ns), NEW n, \A x \in Range(ns) : x.nodeId # n
  PROVE  Drop(ns, n) = ns
<1> DEFINE d == Drop(ns, n)
<1>1. ns \in Seq(NodeInfo) /\ IsInjective(ns)
  BY Zenon DEF Table
<1>2. /\ d \in Seq(NodeInfo) /\ Range(d) = {x \in Range(ns) : x.nodeId # n}
      /\ IsInjective(d)
      /\ \A x, y : Precedes(d, x, y) <=> x.nodeId # n /\ y.nodeId # n /\ Precedes(ns, x, y)
  BY Zenon, <1>1, DropFacts
<1> HIDE DEF d
<1>3. Range(d) = Range(ns)
  BY Zenon, <1>2
<1>4. d = ns
  BY Zenon, <1>1, <1>2, <1>3, SameOrder
<1>5. QED
  BY Zenon, <1>4 DEF d

\* The empty ring.
LEMMA EmptyRing ==
  Table(<<>>) /\ Canonical(<<>>, <<>>)
<1>1. /\ <<>> \in Seq(NodeInfo) /\ <<>> \in Seq(RingPoint)
      /\ Range(<<>>) = {} /\ IsInjective(<<>>)
  BY DEF Range, IsInjective
<1>2. Members(<<>>) = {}
  BY <1>1 DEF Members
<1>3. QED
  BY Zenon, <1>1, <1>2 DEF Table, Canonical

\* Rings whose array is the one of their table.
Rings == {r \in [nodes : Seq(NodeInfo), points : Seq(RingPoint)] :
            Table(r.nodes) /\ Canonical(r.nodes, r.points)}

\* A join leads from such a ring to such a ring.
LEMMA JoinRing ==
  ASSUME Hashes, NEW r \in Rings, NEW info \in NodeInfo
  PROVE  /\ Added(r, info) \in Rings
         /\ Added(r, info).nodes = Append(Drop(r.nodes, info.nodeId), info)
<1> DEFINE t == r.nodes
           p == r.points
           a == Added([nodes |-> t, points |-> p], info)
<1>1. r = [nodes |-> t, points |-> p] /\ Table(t) /\ Canonical(t, p)
  BY DEF Rings
<1>2. Added(r, info) = a
  BY Zenon, <1>1
<1> HIDE DEF t, p
<1>3. /\ a = [nodes |-> a.nodes, points |-> a.points]
      /\ a.nodes = Append(Drop(t, info.nodeId), info)
      /\ Table(a.nodes) /\ Canonical(a.nodes, a.points)
  BY Zenon, <1>1, AddedCanonical
<1> HIDE DEF a
<1>4. a.nodes \in Seq(NodeInfo) /\ a.points \in Seq(RingPoint)
  BY Zenon, <1>3 DEF Table, Canonical
<1>5. a \in Rings
  BY Zenon, <1>3, <1>4 DEF Rings
<1>6. QED
  BY Zenon, <1>2, <1>3, <1>5 DEF t

\* The ring built from a table has that table, in its order, and its array.
LEMMA BuiltFacts ==
  ASSUME Hashes, NEW ns, Table(ns)
  PROVE  Built(ns) \in Rings /\ Built(ns).nodes = ns
<1> DEFINE N == Len(ns)
           empty == [nodes |-> <<>>, points |-> <<>>]
           G == [i \in 1 .. N |-> [r \in Rings |-> Added(r, ns[i])]]
           Eq(f) == f = [i \in 0 .. N |-> IF i = 0 THEN [nodes |-> <<>>, points |-> <<>>]
                                          ELSE Added(f[i - 1], ns[i])]
           u == CHOOSE f : Eq(f)
<1>1. /\ ns \in Seq(NodeInfo) /\ IsInjective(ns)
      /\ \A x, y \in Range(ns) : x.nodeId = y.nodeId => x = y
  BY Zenon DEF Table
<1>2. N \in Nat /\ DOMAIN ns = 1 .. N /\ \A i \in 1 .. N : ns[i] \in NodeInfo
  BY <1>1
<1>3. empty \in Rings
  BY EmptyRing DEF Rings
<1>4. G \in [1 .. N -> [Rings -> Rings]]
  BY Zenon, <1>2, JoinRing
<1>5. \E f : Eq(f)
  <2>1. PICK f \in [0 .. N -> Rings] : Iterates(f, empty, N, G)
    BY Zenon, <1>2, <1>3, <1>4, Iteration
  <2>2. ASSUME NEW i \in 0 .. N, i # 0 PROVE G[i][f[i - 1]] = Added(f[i - 1], ns[i])
    <3>1. i \in 1 .. N /\ i - 1 \in 0 .. N
      BY <2>2, <1>2
    <3>2. QED
      BY Zenon, <3>1
  <2>3. Eq(f)
    BY Zenon, <2>1, <2>2 DEF Iterates
  <2>4. QED
    BY Zenon, <2>3
<1>6. Eq(u)
  BY Zenon, <1>5
<1>7. Built(ns) = u[N]
  BY Zenon DEF Built
<1> HIDE DEF u, G
<1>8. u[0] = empty /\ \A i \in 0 .. N : i # 0 => u[i] = Added(u[i - 1], ns[i])
  <2>1. 0 \in 0 .. N
    BY <1>2
  <2>2. QED
    BY Zenon, <1>6, <2>1
<1> HIDE DEF Eq
<1> DEFINE S == {i \in Nat : i \in 0 .. N => u[i] \in Rings /\ u[i].nodes = SubSeq(ns, 1, i)}
<1>9. 0 \in S
  <2>1. empty.nodes = SubSeq(ns, 1, 0)
    BY <1>1
  <2>2. QED
    BY Zenon, <1>3, <1>8, <2>1
<1>10. ASSUME NEW i \in Nat, i \in S PROVE i + 1 \in S
  <2>1. SUFFICES ASSUME i + 1 \in 0 .. N
                 PROVE  u[i + 1] \in Rings /\ u[i + 1].nodes = SubSeq(ns, 1, i + 1)
    OBVIOUS
  <2> DEFINE m == SubSeq(ns, 1, i)
  <2>2. i \in 0 .. N /\ i + 1 # 0 /\ (i + 1) - 1 = i /\ i + 1 \in 1 .. N
    BY <1>2, <2>1
  <2>3. u[i] \in Rings /\ u[i].nodes = m
    BY Zenon, <1>10, <2>2
  <2>4. u[i + 1] = Added(u[i], ns[i + 1])
    BY Zenon, <1>8, <2>1, <2>2
  <2>5. u[i + 1] \in Rings /\ u[i + 1].nodes = Append(Drop(m, ns[i + 1].nodeId), ns[i + 1])
    <3>1. ns[i + 1] \in NodeInfo
      BY Zenon, <1>2, <2>2
    <3>2. /\ Added(u[i], ns[i + 1]) \in Rings
          /\ Added(u[i], ns[i + 1]).nodes =
               Append(Drop(u[i].nodes, ns[i + 1].nodeId), ns[i + 1])
      BY Zenon, <2>3, <3>1, JoinRing
    <3>3. QED
      BY Zenon, <2>3, <2>4, <3>2
  <2>6. Table(m)
    BY Zenon, <2>3 DEF Rings
  <2>7. DOMAIN m = 1 .. i /\ (\A k \in 1 .. i : m[k] = ns[k] /\ k \in DOMAIN ns /\ k # i + 1)
    BY <1>1, <1>2, <2>2
  <2>8. Append(m, ns[i + 1]) = SubSeq(ns, 1, i + 1)
    BY <1>1, <1>2, <2>2
  <2> HIDE DEF m
  <2>9. \A x \in Range(m) : x.nodeId # ns[i + 1].nodeId
    <3>1. SUFFICES ASSUME NEW k \in 1 .. i, ns[k].nodeId = ns[i + 1].nodeId PROVE FALSE
      BY Zenon, <2>7 DEF Range
    <3>2. k \in DOMAIN ns /\ i + 1 \in DOMAIN ns /\ k # i + 1
      BY Zenon, <1>2, <2>2, <2>7
    <3>3. ns[k] \in Range(ns) /\ ns[i + 1] \in Range(ns)
      BY Zenon, <3>2 DEF Range
    <3>4. QED
      BY Zenon, <1>1, <3>1, <3>2, <3>3 DEF IsInjective
  <2>10. Drop(m, ns[i + 1].nodeId) = m
    BY Zenon, <2>6, <2>9, DropAbsent
  <2>11. QED
    BY Zenon, <2>5, <2>8, <2>10
<1>11. N \in S
  <2> HIDE DEF S
  <2>1. QED
    BY Zenon, <1>2, <1>9, <1>10, Induction
<1>12. N \in 0 .. N /\ SubSeq(ns, 1, N) = ns
  BY <1>1, <1>2
<1>13. QED
  BY Zenon, <1>7, <1>11, <1>12

\* The invariant says that the array is determined by the members, and that
\* colliding points stand in the order of the table.
LEMMA MembersDetermine ==
  ASSUME IInv
  PROVE  RingFromMembers
<1>1. Hashes /\ Table(nodes) /\ Canonical(nodes, points)
  BY Zenon DEF IInv
<1>2. /\ nodes \in Seq(NodeInfo) /\ IsInjective(nodes)
      /\ \A x, y \in Range(nodes) : x.nodeId = y.nodeId => x = y
  BY Zenon, <1>1 DEF Table
<1>3. /\ points \in Seq(RingPoint) /\ IsInjective(points) /\ Range(points) = Members(nodes)
      /\ \A x, y \in Range(points) : Precedes(points, x, y) <=> Earlier(nodes, x, y)
  BY Zenon, <1>1 DEF Canonical
<1>4. \A i \in DOMAIN points : points[i] \in RingPoint /\ points[i] \in Range(points)
                               /\ points[i].hash \in Nat
  <2>1. ASSUME NEW i \in DOMAIN points
        PROVE  points[i] \in RingPoint /\ points[i].hash \in Positions
    <3>1. points[i] \in RingPoint
      BY <1>3
    <3>2. QED
      BY <3>1 DEF RingPoint
  <2>2. QED
    BY Zenon, <2>1, RingAssumption DEF Range
<1>5. \A i \in DOMAIN nodes : nodes[i] \in NodeInfo /\ nodes[i] \in Range(nodes)
  <2>1. \A i \in DOMAIN nodes : nodes[i] \in NodeInfo
    BY <1>2
  <2>2. QED
    BY Zenon, <2>1 DEF Range
<1>6. TypeOK
  <2>1. IsInjective([i \in DOMAIN nodes |-> nodes[i].nodeId])
    <3>1. ASSUME NEW i \in DOMAIN nodes, NEW j \in DOMAIN nodes,
                 nodes[i].nodeId = nodes[j].nodeId
          PROVE  i = j
      BY Zenon, <1>2, <1>5, <3>1 DEF IsInjective
    <3>2. QED
      BY Zenon, <3>1 DEF IsInjective
  <2>2. QED
    BY Zenon, <1>2, <1>3, <2>1 DEF TypeOK, RingPoint, NodeInfo
<1>7. PointsExact
  <2>1. ASSUME NEW i \in DOMAIN points, NEW j \in DOMAIN points, i < j
        PROVE  points[i].hash <= points[j].hash
    <3>1. Precedes(points, points[i], points[j])
      BY Zenon, <2>1 DEF Precedes
    <3>2. Earlier(nodes, points[i], points[j])
      BY Zenon, <1>3, <1>4, <2>1, <3>1
    <3>3. points[i].hash < points[j].hash \/ points[i].hash = points[j].hash
      BY Zenon, <3>2 DEF Earlier
    <3>4. points[i].hash \in Nat /\ points[j].hash \in Nat
      BY Zenon, <1>4, <2>1
    <3>5. QED
      BY <3>3, <3>4
  <2>2. {points[i] : i \in DOMAIN points} = Members(nodes)
    BY Zenon, <1>3 DEF Range
  <2>3. \A e : Range(VirtualNodes(e.nodeId, e.weight)) =
                 {VirtualNodes(e.nodeId, e.weight)[v] : v \in 1 .. virtualNodeCountFor(e.weight)}
    BY Zenon DEF Range, VirtualNodes
  <2>4. Members(nodes) =
          UNION {{VirtualNodes(nodes[i].nodeId, nodes[i].weight)[v] :
                    v \in 1 .. virtualNodeCountFor(nodes[i].weight)} : i \in DOMAIN nodes}
    <3> DEFINE P(e) == {VirtualNodes(e.nodeId, e.weight)[v] :
                          v \in 1 .. virtualNodeCountFor(e.weight)}
               Q(e) == Range(VirtualNodes(e.nodeId, e.weight))
    <3>0. (\A e : Q(e) = P(e)) /\ Members(nodes) = UNION {Q(e) : e \in Range(nodes)}
      BY Zenon, <2>3 DEF Members
    <3> HIDE DEF P, Q
    <3>1. Members(nodes) = UNION {P(e) : e \in Range(nodes)}
      BY Zenon, <3>0
    <3>2. \A e : e \in Range(nodes) <=> \E i \in DOMAIN nodes : e = nodes[i]
      BY Zenon DEF Range
    <3>3. UNION {P(e) : e \in Range(nodes)} = UNION {P(nodes[i]) : i \in DOMAIN nodes}
      BY Zenon, <3>2
    <3>4. QED
      BY Zenon, <3>1, <3>3 DEF P
  <2>5. QED
    BY Zenon, <1>3, <2>1, <2>2, <2>4 DEF PointsExact
<1>8. CloneAgrees
  <2> DEFINE c == Built(nodes)
  <2>1. c \in Rings /\ c.nodes = nodes
    BY Zenon, <1>1, BuiltFacts
  <2>2. c = [nodes |-> c.nodes, points |-> c.points] /\ Canonical(c.nodes, c.points)
    <3> HIDE DEF c
    <3>1. QED
      BY <2>1 DEF Rings
  <2>3. c.points = points
    BY Zenon, <1>1, <2>1, <2>2, CanonicalUnique
  <2>4. QED
    BY Zenon, <2>1, <2>2, <2>3 DEF CloneAgrees, clone
<1>9. JoinOrderIrrelevant
  <2>1. SUFFICES ASSUME \A i, j \in DOMAIN points :
                          points[i].nodeId # points[j].nodeId => points[i].hash # points[j].hash,
                        NEW order \in Bijection(DOMAIN nodes, DOMAIN nodes)
                 PROVE  Built([i \in DOMAIN nodes |-> nodes[order[i]]]).points = points
    BY Zenon DEF JoinOrderIrrelevant
  <2> DEFINE ms == [i \in DOMAIN nodes |-> nodes[order[i]]]
             c == Built(ms)
  <2>2. /\ order \in [DOMAIN nodes -> DOMAIN nodes] /\ IsInjective(order)
        /\ \A j \in DOMAIN nodes : \E i \in DOMAIN nodes : order[i] = j
    BY Zenon DEF Bijection, Injection, Surjection
  <2>3. /\ DOMAIN ms = DOMAIN nodes
        /\ \A i \in DOMAIN nodes : ms[i] = nodes[order[i]] /\ order[i] \in DOMAIN nodes
    BY <2>2
  <2>4. ms \in Seq(NodeInfo)
    <3>1. DOMAIN nodes = 1 .. Len(nodes) /\ Len(nodes) \in Nat
      BY <1>2
    <3>2. ms \in [1 .. Len(nodes) -> NodeInfo]
      BY <1>5, <2>3, <3>1
    <3>3. QED
      BY <3>1, <3>2
  <2> HIDE DEF ms
  <2>5. Range(ms) = Range(nodes)
    <3>1. ASSUME NEW x \in Range(ms) PROVE x \in Range(nodes)
      <4>1. PICK i \in DOMAIN ms : x = ms[i]
        BY Zenon, <3>1 DEF Range
      <4>2. x = nodes[order[i]] /\ order[i] \in DOMAIN nodes
        BY Zenon, <2>3, <4>1
      <4>3. QED
        BY Zenon, <1>5, <4>2
    <3>2. ASSUME NEW x \in Range(nodes) PROVE x \in Range(ms)
      <4>1. PICK j \in DOMAIN nodes : x = nodes[j]
        BY Zenon, <3>2 DEF Range
      <4>2. PICK i \in DOMAIN nodes : order[i] = j
        BY Zenon, <2>2
      <4>3. i \in DOMAIN ms /\ x = ms[i]
        BY Zenon, <2>3, <4>1, <4>2
      <4>4. QED
        BY Zenon, <4>3 DEF Range
    <3>3. QED
      BY Zenon, <3>1, <3>2
  <2>6. IsInjective(ms)
    <3>1. SUFFICES ASSUME NEW i \in DOMAIN nodes, NEW j \in DOMAIN nodes, ms[i] = ms[j]
                   PROVE  i = j
      BY Zenon, <2>3 DEF IsInjective
    <3>2. order[i] = order[j]
      <4>1. order[i] \in DOMAIN nodes /\ order[j] \in DOMAIN nodes
            /\ nodes[order[i]] = nodes[order[j]]
        BY Zenon, <2>3, <3>1
      <4>2. QED
        BY Zenon, <1>2, <4>1 DEF IsInjective
    <3>3. QED
      BY Zenon, <2>2, <3>2 DEF IsInjective
  <2>7. Table(ms) /\ Members(ms) = Members(nodes)
    BY Zenon, <1>2, <2>4, <2>5, <2>6 DEF Table, Members
  <2>8. c \in Rings /\ c.nodes = ms
    BY Zenon, <1>1, <2>7, BuiltFacts
  <2>9. Canonical(ms, c.points)
    <3>1. Canonical(c.nodes, c.points)
      BY Zenon, <2>8 DEF Rings
    <3>2. QED
      BY Zenon, <2>8, <3>1
  <2> HIDE DEF c
  <2>10. ASSUME NEW x \in Members(nodes), NEW y \in Members(nodes), Earlier(nodes, x, y)
         PROVE  Earlier(ms, x, y)
    <3>1. x \in Range(points) /\ y \in Range(points)
      BY Zenon, <1>3, <2>10
    <3>2. x.nodeId # y.nodeId => x.hash # y.hash
      BY Zenon, <2>1, <3>1 DEF Range
    <3>3. QED
      BY Zenon, <2>10, <3>2 DEF Earlier, Tie
  <2>11. points = c.points
    BY Zenon, <1>1, <2>7, <2>9, <2>10, CanonicalUnique
  <2>12. QED
    BY Zenon, <2>11 DEF c, ms
<1>10. QED
  BY Zenon, <1>6, <1>7, <1>8, <1>9 DEF RingFromMembers

-----------------------------------------------------------------------------
(* The invariant is kept by every change of the membership *)

\* ringHash never changes, so the virtual nodes of a table stay the same.
LEMMA HashKept ==
  ASSUME UNCHANGED ringHash, Hashes, Table(nodes'), Canonical(nodes', points')
  PROVE  IInv'
<1>1. Members(nodes') = Members(nodes)'
  BY ZenonT(30) DEF Members, VirtualNodes
<1>2. Hashes'
  BY Zenon DEF Hashes
<1>3. QED
  BY Zenon, <1>1, <1>2 DEF IInv, Canonical, Table

\* The empty ring is the array of the empty table.
LEMMA InvInit ==
  ASSUME Init
  PROVE  IInv
BY Zenon, EmptyRing DEF Init, IInv, Hashes

\* A step leaves the array of the table it leaves.
LEMMA RingStep ==
  ASSUME IInv, [Next]_vars
  PROVE  UNCHANGED ringHash /\ Table(nodes') /\ Canonical(nodes', points')
<1>1. Hashes /\ Table(nodes) /\ Canonical(nodes, points)
  BY Zenon DEF IInv
<1>2. ASSUME NEW n \in Nodes, NEW w \in Weights, addNode(n, w)
      PROVE  UNCHANGED ringHash /\ Table(nodes') /\ Canonical(nodes', points')
  <2> DEFINE info == [nodeId |-> n, weight |-> w]
             after == Added([nodes |-> nodes, points |-> points], info)
  <2>1. nodes' = after.nodes /\ points' = after.points /\ UNCHANGED ringHash
    BY Zenon, <1>2 DEF addNode
  <2>2. info \in NodeInfo
    BY DEF NodeInfo
  <2> HIDE DEF info
  <2>3. Table(after.nodes) /\ Canonical(after.nodes, after.points)
    BY Zenon, <1>1, <2>2, AddedCanonical
  <2> HIDE DEF after
  <2>4. QED
    BY Zenon, <2>1, <2>3
<1>3. ASSUME NEW n \in Nodes, removeNode(n)
      PROVE  UNCHANGED ringHash /\ Table(nodes') /\ Canonical(nodes', points')
  <2>1. nodes' = Drop(nodes, n) /\ points' = Drop(points, n) /\ UNCHANGED ringHash
    BY Zenon, <1>3 DEF removeNode
  <2>2. Table(Drop(nodes, n)) /\ Canonical(Drop(nodes, n), Drop(points, n))
    BY Zenon, <1>1, DropTable, DropCanonical
  <2>3. QED
    BY Zenon, <2>1, <2>2
<1>4. CASE UNCHANGED vars
  <2>1. nodes' = nodes /\ points' = points /\ UNCHANGED ringHash
    BY Zenon, <1>4 DEF vars
  <2>2. QED
    BY Zenon, <1>1, <2>1
<1>5. QED
  BY Zenon, <1>2, <1>3, <1>4 DEF Next

\* IInv is inductive.
LEMMA Invariance == Spec => []IInv
<1>1. Init => IInv
  BY InvInit
<1>2. IInv /\ [Next]_vars => IInv'
  <2>1. SUFFICES ASSUME IInv, [Next]_vars PROVE IInv'
    OBVIOUS
  <2>2. QED
    BY Zenon, <2>1, RingStep, HashKept DEF IInv
<1>3. QED
  BY <1>1, <1>2, PTL DEF Spec

\* After any sequence of joins, updates and removals, for any hash: the array
\* is sorted and holds exactly the virtual nodes of the members, a clone is
\* equal to the ring also where points collide, and without collisions
\* between nodes the order of joining leaves no trace.
THEOREM RingIsDetermined == Spec => []RingFromMembers
<1>1. IInv => RingFromMembers
  BY MembersDetermine
<1>2. QED
  BY <1>1, Invariance, PTL

-----------------------------------------------------------------------------
(* The binary search *)

\* The array is sorted by hash.
Sorted(p) == \A i, j \in DOMAIN p : i < j => p[i].hash <= p[j].hash

\* One round of the search.
Narrow(p, key, w) ==
  LET mid == (w[1] + w[2]) \div 2
  IN IF w[1] >= w[2] THEN w
     ELSE IF p[mid + 1].hash < key THEN <<mid + 1, w[2]>>
     ELSE <<w[1], mid>>

\* The windows that hold the successor: every point before lo lies before the
\* key, and the point at hi does not.
Windows(p, key) ==
  {w \in (0 .. Len(p) - 1) \X (0 .. Len(p) - 1) :
     /\ w[1] <= w[2] /\ ~(p[w[2] + 1].hash < key)
     /\ \A j \in 1 .. w[1] : p[j].hash < key}

\* A round keeps the successor in the window and makes the window smaller.
LEMMA NarrowFacts ==
  ASSUME NEW p \in Seq(RingPoint), Sorted(p), NEW key \in Nat, NEW w \in Windows(p, key)
  PROVE  /\ Narrow(p, key, w) \in Windows(p, key)
         /\ LET v == Narrow(p, key, w) IN v[1] = v[2] \/ v[2] - v[1] < w[2] - w[1]
<1> DEFINE N == Len(p)
           lo == w[1]
           hi == w[2]
           mid == (lo + hi) \div 2
           h == [i \in 1 .. N |-> p[i].hash]
<1>1. /\ N \in Nat /\ DOMAIN p = 1 .. N /\ w = <<lo, hi>>
      /\ lo \in 0 .. N - 1 /\ hi \in 0 .. N - 1 /\ lo <= hi
      /\ ~(p[hi + 1].hash < key) /\ \A j \in 1 .. lo : p[j].hash < key
  BY DEF Windows
<1>2. \A i \in 1 .. N : h[i] = p[i].hash /\ h[i] \in Nat
  <2>1. ASSUME NEW i \in 1 .. N PROVE p[i].hash \in Nat
    <3>1. p[i] \in RingPoint
      OBVIOUS
    <3>2. p[i].hash \in Positions
      BY <3>1 DEF RingPoint
    <3>3. QED
      BY Zenon, <3>2, RingAssumption
  <2>2. QED
    BY Zenon, <2>1
<1>3. \A i, j \in 1 .. N : i < j => h[i] <= h[j]
  BY Zenon, <1>1, <1>2 DEF Sorted
<1> HIDE DEF h, lo, hi, N
<1>4. CASE lo >= hi
  <2>1. Narrow(p, key, w) = w /\ lo = hi
    <3>1. lo = hi
      BY <1>1, <1>4
    <3>2. QED
      BY Zenon, <1>4, <3>1 DEF Narrow, lo, hi
  <2>2. QED
    BY Zenon, <2>1 DEF lo, hi
<1>5. CASE ~(lo >= hi)
  <2>1. mid \in Nat /\ lo <= mid /\ mid < hi
    BY <1>1, <1>5
  <2>2. Narrow(p, key, w) = IF p[mid + 1].hash < key THEN <<mid + 1, hi>> ELSE <<lo, mid>>
    BY Zenon, <1>5 DEF Narrow, lo, hi
  <2> HIDE DEF mid
  <2>3. /\ mid + 1 \in 0 .. N - 1 /\ mid \in 0 .. N - 1 /\ mid + 1 \in 1 .. N
        /\ mid + 1 <= hi /\ lo <= mid /\ hi - (mid + 1) < hi - lo /\ mid - lo < hi - lo
    BY <1>1, <2>1
  <2>4. CASE p[mid + 1].hash < key
    <3> DEFINE v == <<mid + 1, hi>>
    <3>1. Narrow(p, key, w) = v
      BY Zenon, <2>2, <2>4
    <3>2. \A j \in 1 .. mid + 1 : p[j].hash < key
      <4>1. ASSUME NEW j \in 1 .. mid + 1 PROVE p[j].hash < key
        <5>1. j \in 1 .. N /\ (j = mid + 1 \/ j < mid + 1)
          BY <1>1, <2>3
        <5>2. h[mid + 1] < key /\ h[mid + 1] \in Nat /\ h[j] \in Nat
          BY Zenon, <1>2, <2>3, <2>4, <5>1
        <5>3. j < mid + 1 => h[j] <= h[mid + 1]
          BY Zenon, <1>3, <2>3, <5>1
        <5>4. h[j] < key
          BY <5>1, <5>2, <5>3
        <5>5. QED
          BY Zenon, <1>2, <5>1, <5>4
      <4>2. QED
        BY Zenon, <4>1
    <3>3. v[1] = mid + 1 /\ v[2] = hi /\ v \in (0 .. N - 1) \X (0 .. N - 1)
      BY <1>1, <2>3
    <3> HIDE DEF v
    <3>4. v \in Windows(p, key)
      BY Zenon, <1>1, <2>3, <3>2, <3>3 DEF Windows, N
    <3>5. QED
      BY Zenon, <2>3, <3>1, <3>3, <3>4 DEF lo, hi
  <2>5. CASE ~(p[mid + 1].hash < key)
    <3> DEFINE v == <<lo, mid>>
    <3>1. Narrow(p, key, w) = v
      BY Zenon, <2>2, <2>5
    <3>2. v[1] = lo /\ v[2] = mid /\ v \in (0 .. N - 1) \X (0 .. N - 1)
      BY <1>1, <2>3
    <3> HIDE DEF v
    <3>3. v \in Windows(p, key)
      BY Zenon, <1>1, <2>3, <2>5, <3>2 DEF Windows, N
    <3>4. QED
      BY Zenon, <2>3, <3>1, <3>2, <3>3 DEF lo, hi
  <2>6. QED
    BY Zenon, <2>4, <2>5
<1>6. QED
  BY Zenon, <1>4, <1>5

\* The search ends with the first point that does not lie before the key.
LEMMA SearchFacts ==
  ASSUME NEW p \in Seq(RingPoint), Sorted(p), p # <<>>, NEW key \in Nat,
         ~(p[Len(p)].hash < key)
  PROVE  /\ Search(p, key) \in 0 .. Len(p) - 1
         /\ ~(p[Search(p, key) + 1].hash < key)
         /\ \A j \in 1 .. Search(p, key) : p[j].hash < key
<1> DEFINE N == Len(p)
           V == Windows(p, key)
           all == <<0, N - 1>>
           G == [i \in 1 .. N |-> [w \in V |-> Narrow(p, key, w)]]
           Eq(f) == f = [i \in 0 .. N |-> IF i = 0 THEN <<0, N - 1>>
                                          ELSE Narrow(p, key, f[i - 1])]
           u == CHOOSE f : Eq(f)
<1>1. N \in Nat \ {0} /\ (N - 1) + 1 = N /\ 0 <= N - 1
  OBVIOUS
<1>2. all \in V
  <2>1. all \in (0 .. N - 1) \X (0 .. N - 1) /\ all[1] = 0 /\ all[2] = N - 1
    BY <1>1
  <2>2. \A j \in 1 .. 0 : FALSE
    OBVIOUS
  <2> HIDE DEF all
  <2>3. QED
    BY Zenon, <1>1, <2>1, <2>2 DEF Windows
<1>3. \A w \in V : /\ Narrow(p, key, w) \in V
                   /\ LET v == Narrow(p, key, w) IN v[1] = v[2] \/ v[2] - v[1] < w[2] - w[1]
  BY Zenon, NarrowFacts
<1>4. G \in [1 .. N -> [V -> V]]
  BY Zenon, <1>3
<1>5. \E f : Eq(f)
  <2> HIDE DEF V
  <2>1. PICK f \in [0 .. N -> V] : Iterates(f, all, N, G)
    BY Zenon, <1>1, <1>2, <1>4, Iteration
  <2>2. ASSUME NEW i \in 0 .. N, i # 0 PROVE G[i][f[i - 1]] = Narrow(p, key, f[i - 1])
    <3>1. i \in 1 .. N /\ i - 1 \in 0 .. N
      BY <2>2, <1>1
    <3>2. QED
      BY Zenon, <3>1
  <2>3. Eq(f)
    BY Zenon, <2>1, <2>2 DEF Iterates
  <2>4. QED
    BY Zenon, <2>3
<1>6. Eq(u)
  BY Zenon, <1>5
<1>7. Search(p, key) = u[N][1]
  BY Zenon DEF Search, Narrow
<1> HIDE DEF u, G
<1>8. u[0] = all /\ \A i \in 0 .. N : i # 0 => u[i] = Narrow(p, key, u[i - 1])
  <2>1. 0 \in 0 .. N
    BY <1>1
  <2>2. QED
    BY Zenon, <1>6, <2>1
<1> HIDE DEF Eq
<1>9. \A w \in V : /\ w[1] \in 0 .. N - 1 /\ w[2] \in 0 .. N - 1 /\ w[1] <= w[2]
                   /\ ~(p[w[2] + 1].hash < key) /\ \A j \in 1 .. w[1] : p[j].hash < key
  BY DEF Windows
<1> DEFINE S == {i \in Nat : i \in 0 .. N =>
                   u[i] \in V /\ (u[i][1] = u[i][2] \/ u[i][2] - u[i][1] + i <= N - 1)}
<1>10. 0 \in S
  <2>1. all[2] - all[1] + 0 <= N - 1
    BY <1>1
  <2>2. QED
    BY Zenon, <1>2, <1>8, <2>1
<1> HIDE DEF V
<1>11. ASSUME NEW i \in Nat, i \in S PROVE i + 1 \in S
  <2>1. SUFFICES ASSUME i + 1 \in 0 .. N
                 PROVE  /\ u[i + 1] \in V
                        /\ \/ u[i + 1][1] = u[i + 1][2]
                           \/ u[i + 1][2] - u[i + 1][1] + (i + 1) <= N - 1
    OBVIOUS
  <2>2. i \in 0 .. N /\ i + 1 # 0 /\ (i + 1) - 1 = i
    BY <1>1, <2>1
  <2> DEFINE w == u[i]
             v == u[i + 1]
  <2>3. w \in V /\ (w[1] = w[2] \/ w[2] - w[1] + i <= N - 1)
    BY Zenon, <1>11, <2>2
  <2>4. v = Narrow(p, key, w)
    BY Zenon, <1>8, <2>1, <2>2
  <2> HIDE DEF w, v
  <2>5. v \in V /\ (v[1] = v[2] \/ v[2] - v[1] < w[2] - w[1])
    BY Zenon, <1>3, <2>3, <2>4
  <2>6. v[1] \in Nat /\ v[2] \in Nat /\ v[1] <= v[2] /\ w[1] \in Nat /\ w[2] \in Nat
    <3>1. v[1] \in 0 .. N - 1 /\ v[2] \in 0 .. N - 1 /\ v[1] <= v[2]
          /\ w[1] \in 0 .. N - 1 /\ w[2] \in 0 .. N - 1
      BY Zenon, <1>9, <2>3, <2>5
    <3>2. QED
      BY <1>1, <3>1
  <2>7. v[1] = v[2] \/ v[2] - v[1] + (i + 1) <= N - 1
    BY SMTT(30), <1>1, <2>3, <2>5, <2>6
  <2>8. QED
    BY Zenon, <2>5, <2>7 DEF v
<1>12. N \in S
  <2> HIDE DEF S
  <2>1. N \in Nat
    BY <1>1
  <2>2. QED
    BY Zenon, <1>10, <1>11, <2>1, Induction
<1>13. u[N] \in V /\ (u[N][1] = u[N][2] \/ u[N][2] - u[N][1] + N <= N - 1)
  <2>1. N \in 0 .. N
    BY <1>1
  <2>2. QED
    BY Zenon, <1>12, <2>1
<1>14. u[N][1] = u[N][2]
  <2> DEFINE a == u[N][1]
             b == u[N][2]
  <2>1. a \in 0 .. N - 1 /\ b \in 0 .. N - 1 /\ a <= b /\ (a = b \/ b - a + N <= N - 1)
    BY Zenon, <1>9, <1>13
  <2> HIDE DEF a, b
  <2>2. a = b
    BY <1>1, <2>1
  <2>3. QED
    BY Zenon, <2>2 DEF a, b
<1>15. QED
  BY Zenon, <1>7, <1>9, <1>13, <1>14

\* What the search promises: no point before the successor is at or behind the
\* key, and the successor is, unless the key lies behind the last point.
LEMMA SuccessorFacts ==
  ASSUME NEW p \in Seq(RingPoint), Sorted(p), p # <<>>, NEW key \in Nat
  PROVE  /\ successorIndex(p, key) \in 0 .. Len(p) - 1
         /\ \A j \in 1 .. successorIndex(p, key) : p[j].hash < key
         /\ \/ ~(p[successorIndex(p, key) + 1].hash < key)
            \/ successorIndex(p, key) = 0 /\ \A j \in DOMAIN p : p[j].hash < key
<1> DEFINE N == Len(p)
<1>1. N \in Nat \ {0} /\ DOMAIN p = 1 .. N /\ N \in DOMAIN p
  OBVIOUS
<1>2. \A i \in DOMAIN p : p[i].hash \in Nat
  <2>1. ASSUME NEW i \in DOMAIN p PROVE p[i].hash \in Nat
    <3>1. p[i] \in RingPoint
      OBVIOUS
    <3>2. p[i].hash \in Positions
      BY <3>1 DEF RingPoint
    <3>3. QED
      BY Zenon, <3>2, RingAssumption
  <2>2. QED
    BY Zenon, <2>1
<1>3. key > p[N].hash <=> p[N].hash < key
  BY <1>1, <1>2
<1>4. CASE p[N].hash < key
  <2>1. successorIndex(p, key) = 0
    BY Zenon, <1>3, <1>4 DEF successorIndex
  <2>2. ASSUME NEW j \in DOMAIN p PROVE p[j].hash < key
    <3>1. j = N \/ j < N
      BY <1>1
    <3>2. j < N => p[j].hash <= p[N].hash
      BY Zenon, <1>1 DEF Sorted
    <3>3. p[j].hash \in Nat /\ p[N].hash \in Nat
      BY Zenon, <1>1, <1>2
    <3>4. QED
      BY <1>4, <3>1, <3>2, <3>3
  <2>3. 0 \in 0 .. N - 1 /\ \A j \in 1 .. 0 : FALSE
    BY <1>1
  <2>4. QED
    BY Zenon, <2>1, <2>2, <2>3
<1>5. CASE ~(p[N].hash < key)
  <2>1. successorIndex(p, key) = Search(p, key)
    BY Zenon, <1>3, <1>5 DEF successorIndex
  <2>2. QED
    BY Zenon, <1>5, <2>1, SearchFacts
<1>6. QED
  BY Zenon, <1>4, <1>5

\* The array of the ring is sorted.
LEMMA RingSorted ==
  ASSUME IInv
  PROVE  points \in Seq(RingPoint) /\ Sorted(points)
<1>1. PointsExact /\ TypeOK
  BY Zenon, MembersDetermine DEF RingFromMembers
<1>2. QED
  BY Zenon, <1>1 DEF PointsExact, Sorted, TypeOK, RingPoint

\* The binary search finds what a linear scan over the array would, for an
\* array of any length and every key, before, between and behind the points.
THEOREM LookupsFindTheSuccessor == Spec => []SuccessorFound
<1>1. IInv => SuccessorFound
  <2>1. SUFFICES ASSUME IInv, points # <<>>, NEW key \in Positions
                 PROVE  LET after == {i \in DOMAIN points : points[i].hash >= key}
                            first == IF after = {} THEN 1
                                     ELSE CHOOSE i \in after : \A j \in after : i <= j
                        IN successorIndex(points, key) + 1 = first
    BY Zenon DEF SuccessorFound
  <2> DEFINE after == {i \in DOMAIN points : points[i].hash >= key}
             k == successorIndex(points, key)
             least == CHOOSE i \in after : \A j \in after : i <= j
  <2>2. points \in Seq(RingPoint) /\ Sorted(points) /\ key \in Nat
    BY Zenon, <2>1, RingSorted, RingAssumption
  <2>3. /\ k \in 0 .. Len(points) - 1 /\ \A j \in 1 .. k : points[j].hash < key
        /\ \/ ~(points[k + 1].hash < key)
           \/ k = 0 /\ \A j \in DOMAIN points : points[j].hash < key
    BY Zenon, <2>1, <2>2, SuccessorFacts
  <2>4. \A i \in DOMAIN points : points[i].hash \in Nat
    <3>1. ASSUME NEW i \in DOMAIN points PROVE points[i].hash \in Nat
      <4>1. points[i] \in RingPoint
        BY <2>2
      <4>2. points[i].hash \in Positions
        BY <4>1 DEF RingPoint
      <4>3. QED
        BY Zenon, <4>2, RingAssumption
    <3>2. QED
      BY Zenon, <3>1
  <2>5. \A i \in DOMAIN points : i \in after <=> ~(points[i].hash < key)
    BY <2>2, <2>4
  <2>6. DOMAIN points = 1 .. Len(points) /\ Len(points) \in Nat /\ after \subseteq DOMAIN points
    BY <2>2
  <2> HIDE DEF after, k
  <2>7. CASE after = {}
    <3>1. k = 0
      <4>1. k + 1 \in DOMAIN points
        BY <2>3, <2>6
      <4>2. QED
        BY Zenon, <2>3, <2>5, <2>7, <4>1
    <3>2. k + 1 = IF after = {} THEN 1 ELSE least
      BY <2>7, <3>1
    <3>3. QED
      BY Zenon, <3>2 DEF after, k
  <2>8. CASE after # {}
    <3>1. k + 1 \in DOMAIN points
      BY <2>3, <2>6
    <3>2. k + 1 \in after
      BY Zenon, <2>3, <2>5, <2>6, <2>8, <3>1
    <3>3. \A j \in after : k + 1 <= j
      <4>1. ASSUME NEW j \in after, ~(k + 1 <= j) PROVE FALSE
        <5>1. j \in 1 .. k /\ j \in DOMAIN points
          BY <2>3, <2>6, <4>1
        <5>2. QED
          BY Zenon, <2>3, <2>5, <4>1, <5>1
      <4>2. QED
        BY Zenon, <4>1
    <3>4. least \in after /\ \A j \in after : least <= j
      BY Zenon, <3>2, <3>3
    <3> HIDE DEF least
    <3>5. k + 1 = least
      <4>1. k + 1 <= least /\ least <= k + 1
        BY Zenon, <3>2, <3>3, <3>4
      <4>2. least \in Nat /\ k + 1 \in Nat
        BY <2>6, <3>1, <3>4
      <4>3. QED
        BY <4>1, <4>2
    <3>6. k + 1 = IF after = {} THEN 1 ELSE least
      BY Zenon, <2>8, <3>5
    <3>7. QED
      BY Zenon, <3>6 DEF after, k, least
  <2>9. QED
    BY Zenon, <2>7, <2>8
<1>2. QED
  BY <1>1, Invariance, PTL

-----------------------------------------------------------------------------
(* The walk around the ring *)

\* The i-th of N places from the place behind s, around the end.
At(s, i, N) == IF s + i <= N THEN s + i ELSE s + i - N

\* The array as a walk from the successor of the key meets it.
Rotated(p, key) == [i \in 1 .. Len(p) |-> p[At(successorIndex(p, key), i, Len(p))]]

\* idx = (idx + 1) % length, i times.
LEMMA AtFacts ==
  ASSUME NEW N \in Nat \ {0}, NEW s \in 0 .. N - 1, NEW i \in 1 .. N
  PROVE  ((s + i - 1) % N) + 1 = At(s, i, N) /\ At(s, i, N) \in 1 .. N
<1> DEFINE a == s + i - 1
<1>1. a \in Nat /\ a < 2 * N
  OBVIOUS
<1> HIDE DEF a
<1>2. a % N = IF a < N THEN a ELSE a - N
  <2>1. CASE a < N
    BY <1>1, <2>1
  <2>2. CASE ~(a < N)
    BY <1>1, <2>2
  <2>3. QED
    BY <2>1, <2>2
<1>3. QED
  BY <1>1, <1>2 DEF At, a

\* The walk meets every point once; Round is the nodes of the points it meets.
LEMMA RotatedFacts ==
  ASSUME NEW p \in Seq(RingPoint), Sorted(p), NEW key \in Nat
  PROVE  /\ Rotated(p, key) \in Seq(RingPoint) /\ DOMAIN Rotated(p, key) = DOMAIN p
         /\ Range(Rotated(p, key)) = Range(p)
         /\ Round(p, key) = [i \in 1 .. Len(p) |-> Rotated(p, key)[i].nodeId]
<1> DEFINE N == Len(p)
           s == successorIndex(p, key)
           t == Rotated(p, key)
<1>1. N \in Nat /\ DOMAIN p = 1 .. N /\ \A j \in 1 .. N : p[j] \in RingPoint
  OBVIOUS
<1>2. \A i \in 1 .. N : s \in 0 .. N - 1 /\ N \in Nat \ {0}
  <2>1. ASSUME NEW i \in 1 .. N PROVE s \in 0 .. N - 1 /\ N \in Nat \ {0}
    <3>1. p # <<>> /\ N \in Nat \ {0}
      BY <1>1, <2>1
    <3>2. QED
      BY Zenon, <3>1, SuccessorFacts
  <2>2. QED
    BY Zenon, <2>1
<1>3. t = [i \in 1 .. N |-> p[At(s, i, N)]]
  BY Zenon DEF Rotated
<1>4. Round(p, key) = [i \in 1 .. N |-> p[((s + i - 1) % N) + 1].nodeId]
  BY Zenon DEF Round
<1> HIDE DEF s, t
<1>5. \A i \in 1 .. N : ((s + i - 1) % N) + 1 = At(s, i, N) /\ At(s, i, N) \in 1 .. N
  <2> HIDE DEF N
  <2>1. QED
    BY Zenon, <1>2, AtFacts
<1>6. DOMAIN t = 1 .. N /\ \A i \in 1 .. N : t[i] = p[At(s, i, N)]
  BY <1>3
<1>7. t \in Seq(RingPoint)
  <2>1. \A i \in 1 .. N : p[At(s, i, N)] \in RingPoint
    BY Zenon, <1>1, <1>5
  <2>2. t \in [1 .. N -> RingPoint]
    BY Zenon, <1>3, <2>1
  <2>3. QED
    BY <1>1, <2>2
<1>8. Range(t) = Range(p)
  <2>1. ASSUME NEW x \in Range(t) PROVE x \in Range(p)
    <3>1. PICK i \in 1 .. N : x = t[i]
      BY Zenon, <1>6, <2>1 DEF Range
    <3>2. At(s, i, N) \in DOMAIN p /\ x = p[At(s, i, N)]
      BY Zenon, <1>1, <1>5, <1>6, <3>1
    <3>3. QED
      BY Zenon, <3>2 DEF Range
  <2>2. ASSUME NEW x \in Range(p) PROVE x \in Range(t)
    <3>1. PICK j \in 1 .. N : x = p[j]
      BY Zenon, <1>1, <2>2 DEF Range
    <3> DEFINE i == IF j > s THEN j - s ELSE j - s + N
    <3>2. s \in 0 .. N - 1
      BY Zenon, <1>2, <3>1
    <3>3. i \in 1 .. N /\ At(s, i, N) = j
      BY SMTT(30), <1>1, <3>1, <3>2 DEF At
    <3> HIDE DEF i
    <3>4. QED
      BY Zenon, <1>6, <3>1, <3>3 DEF Range
  <2>3. QED
    BY Zenon, <2>1, <2>2
<1>9. Round(p, key) = [i \in 1 .. N |-> t[i].nodeId]
  BY ZenonT(30), <1>4, <1>5, <1>6
<1>10. QED
  BY Zenon, <1>1, <1>6, <1>7, <1>8, <1>9 DEF t

\* One step of the loop of getNodesForKey, and its run over the nodes r.
Visit(last, x, count) ==
  IF Len(last) < count /\ x \notin Range(last) THEN Append(last, x) ELSE last
Walks(f, r, N, count) ==
  /\ f \in [0 .. N -> Seq(Nodes)] /\ f[0] = <<>>
  /\ \A i \in 1 .. N : f[i] = Visit(f[i - 1], r[i], count)
Walked(l, r, N, count) == \E f : Walks(f, r, N, count) /\ l = f[N]

\* The loop of getNodesForKey.
LEMMA WalkExists ==
  ASSUME NEW p \in Seq(RingPoint), NEW key, NEW count \in Nat,
         Round(p, key) \in [1 .. Len(p) -> Nodes]
  PROVE  Walked(getNodesForKey(p, key, count), Round(p, key), Len(p), count)
<1> DEFINE N == Len(p)
           r == Round(p, key)
           V == Seq(Nodes)
           G == [i \in 1 .. N |-> [l \in V |-> Visit(l, r[i], count)]]
           Eq(f) == f = [i \in 0 .. N |-> IF i = 0 THEN <<>>
                                          ELSE Visit(f[i - 1], r[i], count)]
           u == CHOOSE f : Eq(f)
<1>1. N \in Nat /\ <<>> \in V
  OBVIOUS
<1>2. getNodesForKey(p, key, count) = u[N]
  BY Zenon DEF getNodesForKey, Visit
<1> HIDE DEF r
<1>3. \A i \in 1 .. N : r[i] \in Nodes
  BY Zenon DEF r
<1>4. \A i \in 1 .. N : \A l \in V : Visit(l, r[i], count) \in V
  BY <1>3 DEF Visit
<1> HIDE DEF V
<1>5. G \in [1 .. N -> [V -> V]]
  BY Zenon, <1>4
<1>6. \E f : Eq(f)
  <2>1. PICK f \in [0 .. N -> V] : Iterates(f, <<>>, N, G)
    BY Zenon, <1>1, <1>5, Iteration
  <2>2. ASSUME NEW i \in 0 .. N, i # 0 PROVE G[i][f[i - 1]] = Visit(f[i - 1], r[i], count)
    <3>1. i \in 1 .. N /\ i - 1 \in 0 .. N
      BY <2>2, <1>1
    <3>2. QED
      BY Zenon, <3>1
  <2>3. Eq(f)
    BY Zenon, <2>1, <2>2 DEF Iterates
  <2>4. QED
    BY Zenon, <2>3
<1>7. Eq(u)
  BY Zenon, <1>6
<1> HIDE DEF u, G
<1>8. u[0] = <<>> /\ \A i \in 1 .. N : u[i] = Visit(u[i - 1], r[i], count)
  <2>1. 0 \in 0 .. N /\ \A i \in 1 .. N : i \in 0 .. N /\ i # 0
    BY <1>1
  <2>2. QED
    BY Zenon, <1>7, <2>1
<1>9. DOMAIN u = 0 .. N /\ u = [i \in 0 .. N |-> u[i]]
  BY <1>7
<1> HIDE DEF Eq
<1> DEFINE S == {i \in Nat : i \in 0 .. N => u[i] \in V}
<1>10. 0 \in S
  BY Zenon, <1>1, <1>8
<1>11. ASSUME NEW i \in Nat, i \in S PROVE i + 1 \in S
  <2>1. SUFFICES ASSUME i + 1 \in 0 .. N PROVE u[i + 1] \in V
    OBVIOUS
  <2>2. i \in 0 .. N /\ (i + 1) - 1 = i /\ i + 1 \in 1 .. N
    BY <1>1, <2>1
  <2>3. u[i] \in V
    BY Zenon, <1>11, <2>2
  <2>4. QED
    BY Zenon, <1>4, <1>8, <2>2, <2>3
<1>12. \A i \in 0 .. N : u[i] \in V
  <2>1. \A i \in 0 .. N : i \in Nat
    OBVIOUS
  <2>2. \A i \in Nat : i \in S
    <3> HIDE DEF S
    <3>1. QED
      BY Zenon, <1>10, <1>11, Induction
  <2>3. QED
    BY Zenon, <2>1, <2>2
<1>13. u \in [0 .. N -> V]
  BY Zenon, <1>9, <1>12
<1>14. Walks(u, r, N, count)
  BY Zenon, <1>8, <1>13 DEF Walks, V
<1>15. QED
  BY Zenon, <1>2, <1>14 DEF r, Walked

\* What the walk has collected after i steps: distinct nodes, at most count,
\* all of them met, and all that were met if there was room.
Collected(l, r, i, count) ==
  /\ IsInjective(l) /\ Len(l) <= count
  /\ \A x \in Range(l) : \E j \in 1 .. i : r[j] = x
  /\ Len(l) < count => \A j \in 1 .. i : r[j] \in Range(l)
  /\ i > 0 /\ count > 0 => Len(l) > 0 /\ l[1] = r[1]

\* One more step of the walk collects the node found there, unless it is known
\* or the list is full.
LEMMA VisitCollects ==
  ASSUME NEW r, NEW i \in Nat, NEW count \in Nat, NEW l \in Seq(Nodes),
         r[i + 1] \in Nodes, Collected(l, r, i, count)
  PROVE  Collected(Visit(l, r[i + 1], count), r, i + 1, count)
<1> DEFINE x == r[i + 1]
           v == Visit(l, x, count)
<1>1. /\ IsInjective(l) /\ Len(l) <= count /\ Len(l) \in Nat
      /\ \A y \in Range(l) : \E j \in 1 .. i : r[j] = y
      /\ Len(l) < count => \A j \in 1 .. i : r[j] \in Range(l)
      /\ i > 0 /\ count > 0 => Len(l) > 0 /\ l[1] = r[1]
  <2>1. Len(l) \in Nat
    OBVIOUS
  <2>2. QED
    BY Zenon, <2>1 DEF Collected
<1>2. /\ \A j \in 1 .. i : j \in 1 .. i + 1
      /\ i + 1 \in 1 .. i + 1 /\ \A j \in 1 .. i + 1 : j \in 1 .. i \/ j = i + 1
  OBVIOUS
<1>3. CASE Len(l) < count /\ x \notin Range(l)
  <2>1. v = Append(l, x)
    BY Zenon, <1>3 DEF Visit
  <2> HIDE DEF x, v
  <2>2. x \in Nodes
    BY Zenon DEF x
  <2>3. IsInjective(v) /\ Range(v) = Range(l) \cup {x}
    BY ZenonT(30), <1>1, <1>3, <2>1, <2>2, AppendFacts
  <2>4. Len(v) = Len(l) + 1 /\ (Len(l) > 0 => v[1] = l[1]) /\ (Len(l) = 0 => v[1] = x)
    BY <2>1, <2>2
  <2>5. Len(v) <= count /\ Len(v) > 0
    BY <1>1, <1>3, <2>4
  <2>6. \A y \in Range(v) : \E j \in 1 .. i + 1 : r[j] = y
    <3>1. \A y \in Range(v) : y \in Range(l) \/ y = x
      BY Zenon, <2>3
    <3>2. QED
      BY ZenonT(30), <1>1, <1>2, <3>1 DEF x
  <2>7. \A j \in 1 .. i + 1 : r[j] \in Range(v)
    <3>1. x \in Range(v) /\ \A y \in Range(l) : y \in Range(v)
      BY Zenon, <2>3
    <3>2. QED
      BY ZenonT(30), <1>1, <1>2, <1>3, <3>1 DEF x
  <2>8. v[1] = r[1]
    <3>1. CASE Len(l) > 0
      <4>1. i > 0
        <5>1. l[1] \in Range(l)
          BY <3>1 DEF Range
        <5>2. PICK j \in 1 .. i : r[j] = l[1]
          BY Zenon, <1>1, <5>1
        <5>3. QED
          BY <5>2
      <4>2. count > 0
        BY <1>1, <1>3
      <4>3. QED
        BY ZenonT(30), <1>1, <2>4, <3>1, <4>1, <4>2
    <3>2. CASE ~(Len(l) > 0)
      <4>1. Len(l) = 0 /\ count > 0
        BY SMTT(30), <1>1, <1>3, <3>2
      <4>2. i = 0
        BY <1>1, <4>1
      <4>3. i + 1 = 1
        BY <4>2
      <4>4. QED
        BY ZenonT(30), <2>4, <4>1, <4>3 DEF x
    <3>3. QED
      BY Zenon, <3>1, <3>2
  <2>9. Collected(v, r, i + 1, count)
    BY ZenonT(30), <2>3, <2>5, <2>6, <2>7, <2>8 DEF Collected
  <2>10. QED
    BY Zenon, <2>9 DEF v, x
<1>4. CASE ~(Len(l) < count /\ x \notin Range(l))
  <2>1. v = l
    BY Zenon, <1>4 DEF Visit
  <2> HIDE DEF v
  <2>2. \A y \in Range(l) : \E j \in 1 .. i + 1 : r[j] = y
    BY Zenon, <1>1, <1>2
  <2>3. Len(l) < count => \A j \in 1 .. i + 1 : r[j] \in Range(l)
    BY Zenon, <1>1, <1>2, <1>4
  <2>4. ASSUME count > 0 PROVE Len(l) > 0 /\ l[1] = r[1]
    <3>1. i > 0
      <4>1. SUFFICES ASSUME i = 0 PROVE FALSE
        OBVIOUS
      <4>2. Range(l) = {}
        <5>1. \A j \in 1 .. i : FALSE
          BY <4>1
        <5>2. QED
          BY Zenon, <1>1, <5>1
      <4>3. Len(l) = count
        <5>1. ~(Len(l) < count)
          BY Zenon, <1>4, <4>2
        <5>2. QED
          BY SMTT(30), <1>1, <5>1
      <4>4. l[1] \in Range(l)
        BY <2>4, <4>3 DEF Range
      <4>5. QED
        BY Zenon, <4>2, <4>4
    <3>2. QED
      BY Zenon, <1>1, <2>4, <3>1
  <2>5. Collected(l, r, i + 1, count)
    BY ZenonT(30), <1>1, <2>2, <2>3, <2>4 DEF Collected
  <2>6. QED
    BY Zenon, <2>1, <2>5 DEF v
<1>5. QED
  BY Zenon, <1>3, <1>4

\* The walk keeps this up to its end.
LEMMA WalkCollects ==
  ASSUME NEW N \in Nat, NEW r \in [1 .. N -> Nodes], NEW count \in Nat, NEW f,
         Walks(f, r, N, count)
  PROVE  f[N] \in Seq(Nodes) /\ Collected(f[N], r, N, count)
<1>1. /\ f \in [0 .. N -> Seq(Nodes)] /\ f[0] = <<>>
      /\ \A i \in 1 .. N : f[i] = Visit(f[i - 1], r[i], count)
  BY Zenon DEF Walks
<1> DEFINE S == {i \in Nat : i \in 0 .. N => Collected(f[i], r, i, count)}
<1>2. 0 \in S
  <2>1. /\ IsInjective(<<>>) /\ Range(<<>>) = {} /\ Len(<<>>) <= count
        /\ (\A j \in 1 .. 0 : FALSE) /\ ~(0 > 0)
    BY DEF IsInjective, Range
  <2>2. Collected(<<>>, r, 0, count)
    BY Zenon, <2>1 DEF Collected
  <2>3. QED
    BY Zenon, <1>1, <2>2
<1>3. ASSUME NEW i \in Nat, i \in S PROVE i + 1 \in S
  <2>1. SUFFICES ASSUME i + 1 \in 0 .. N PROVE Collected(f[i + 1], r, i + 1, count)
    OBVIOUS
  <2>2. i \in 0 .. N /\ (i + 1) - 1 = i /\ i + 1 \in 1 .. N
    BY <2>1
  <2>3. Collected(f[i], r, i, count) /\ f[i] \in Seq(Nodes) /\ r[i + 1] \in Nodes
    BY Zenon, <1>1, <1>3, <2>2
  <2>4. f[i + 1] = Visit(f[i], r[i + 1], count)
    BY Zenon, <1>1, <2>2
  <2>5. QED
    BY ZenonT(30), <2>3, <2>4, VisitCollects
<1>4. N \in S
  <2> HIDE DEF S
  <2>1. QED
    BY Zenon, <1>2, <1>3, Induction
<1>5. N \in 0 .. N
  OBVIOUS
<1>6. QED
  BY Zenon, <1>1, <1>4, <1>5

\* l, cut at count, is the beginning of m, cut later.
Begins(l, m, count) ==
  /\ Len(l) <= Len(m) /\ \A k \in 1 .. Len(l) : l[k] = m[k]
  /\ Len(l) < count => l = m

\* A step keeps the shorter list a beginning of the longer one.
LEMMA VisitBegins ==
  ASSUME NEW x \in Nodes, NEW count \in Nat, NEW l \in Seq(Nodes), NEW m \in Seq(Nodes),
         Begins(l, m, count)
  PROVE  Begins(Visit(l, x, count), Visit(m, x, count + 1), count)
<1>1. Len(l) \in Nat /\ Len(m) \in Nat
  OBVIOUS
<1>2. /\ Len(l) <= Len(m) /\ \A k \in 1 .. Len(l) : l[k] = m[k]
      /\ Len(l) < count => l = m
  BY Zenon DEF Begins
<1>3. CASE Len(l) < count
  <2>1. Len(l) < count + 1 /\ l = m
    BY <1>1, <1>2, <1>3
  <2>2. Visit(l, x, count) = Visit(m, x, count + 1)
    BY Zenon, <1>3, <2>1 DEF Visit
  <2> DEFINE v == Visit(l, x, count)
  <2>3. v \in Seq(Nodes)
    BY DEF Visit
  <2> HIDE DEF v
  <2>4. Begins(v, v, count)
    BY <2>3 DEF Begins
  <2>5. QED
    BY Zenon, <2>2, <2>4 DEF v
<1>4. CASE ~(Len(l) < count)
  <2>1. Visit(l, x, count) = l
    BY Zenon, <1>4 DEF Visit
  <2> DEFINE v == Visit(m, x, count + 1)
  <2>2. /\ Len(v) \in Nat /\ Len(m) <= Len(v)
        /\ \A k \in 1 .. Len(m) : v[k] = m[k]
    BY DEF Visit
  <2> HIDE DEF v
  <2>3. Len(l) <= Len(v) /\ \A k \in 1 .. Len(l) : l[k] = v[k]
    <3>1. \A k \in 1 .. Len(l) : k \in 1 .. Len(m)
      BY <1>1, <1>2
    <3>2. Len(l) <= Len(v)
      BY <1>1, <1>2, <2>2
    <3>3. QED
      BY ZenonT(30), <1>2, <2>2, <3>1, <3>2
  <2>4. Begins(l, v, count)
    BY Zenon, <1>4, <2>3 DEF Begins
  <2>5. QED
    BY Zenon, <2>1, <2>4 DEF v
<1>5. QED
  BY Zenon, <1>3, <1>4

\* A walk for one more node begins with the shorter walk.
LEMMA WalkBegins ==
  ASSUME NEW N \in Nat, NEW r \in [1 .. N -> Nodes], NEW count \in Nat, NEW f, NEW g,
         Walks(f, r, N, count), Walks(g, r, N, count + 1)
  PROVE  Begins(f[N], g[N], count)
<1>1. /\ f \in [0 .. N -> Seq(Nodes)] /\ f[0] = <<>>
      /\ \A i \in 1 .. N : f[i] = Visit(f[i - 1], r[i], count)
      /\ g \in [0 .. N -> Seq(Nodes)] /\ g[0] = <<>>
      /\ \A i \in 1 .. N : g[i] = Visit(g[i - 1], r[i], count + 1)
  BY Zenon DEF Walks
<1> DEFINE S == {i \in Nat : i \in 0 .. N => Begins(f[i], g[i], count)}
<1>2. 0 \in S
  <2>1. Begins(<<>>, <<>>, count)
    BY DEF Begins
  <2>2. QED
    BY Zenon, <1>1, <2>1
<1>3. ASSUME NEW i \in Nat, i \in S PROVE i + 1 \in S
  <2>1. SUFFICES ASSUME i + 1 \in 0 .. N PROVE Begins(f[i + 1], g[i + 1], count)
    OBVIOUS
  <2>2. i \in 0 .. N /\ (i + 1) - 1 = i /\ i + 1 \in 1 .. N
    BY <2>1
  <2>3. /\ Begins(f[i], g[i], count) /\ f[i] \in Seq(Nodes) /\ g[i] \in Seq(Nodes)
        /\ r[i + 1] \in Nodes
    BY Zenon, <1>1, <1>3, <2>2
  <2>4. f[i + 1] = Visit(f[i], r[i + 1], count) /\ g[i + 1] = Visit(g[i], r[i + 1], count + 1)
    BY Zenon, <1>1, <2>2
  <2>5. QED
    BY Zenon, <2>3, <2>4, VisitBegins
<1>4. N \in S
  <2> HIDE DEF S
  <2>1. QED
    BY Zenon, <1>2, <1>3, Induction
<1>5. N \in 0 .. N
  OBVIOUS
<1>6. QED
  BY Zenon, <1>4, <1>5

-----------------------------------------------------------------------------
(* The nodes of a key *)

\* A sequence without repetitions is as long as it has elements.
LEMMA DistinctLength ==
  ASSUME NEW V, NEW s \in Seq(V), IsInjective(s)
  PROVE  IsFiniteSet(Range(s)) /\ Cardinality(Range(s)) = Len(s)
<1>1. Len(s) \in Nat /\ DOMAIN s = 1 .. Len(s) /\ s \in [1 .. Len(s) -> Range(s)]
  BY DEF Range
<1>2. s \in Bijection(1 .. Len(s), Range(s))
  <2>1. s \in Injection(1 .. Len(s), Range(s))
    BY Zenon, <1>1 DEF Injection
  <2>2. \A x \in Range(s) : \E i \in 1 .. Len(s) : s[i] = x
    BY Zenon, <1>1 DEF Range
  <2>3. QED
    BY Zenon, <1>1, <2>1, <2>2 DEF Bijection, Surjection
<1>3. IsFiniteSet(1 .. Len(s)) /\ Cardinality(1 .. Len(s)) = Len(s)
  BY SMTT(30), <1>1, FS_Interval
<1>4. ExistsBijection(1 .. Len(s), Range(s))
  BY Zenon, <1>2 DEF ExistsBijection
<1>5. QED
  BY Zenon, <1>3, <1>4, FS_Bijection

\* As many nodes as entries, and each has a point.
LEMMA IdsFacts ==
  ASSUME Hashes, NEW ns, Table(ns)
  PROVE  /\ IsFiniteSet(Ids(ns)) /\ Cardinality(Ids(ns)) = Len(ns)
         /\ Ids(ns) \subseteq Nodes
         /\ Ids(ns) = {x.nodeId : x \in Members(ns)}
<1> DEFINE s == [i \in DOMAIN ns |-> ns[i].nodeId]
<1>1. /\ ns \in Seq(NodeInfo) /\ IsInjective(ns)
      /\ \A x, y \in Range(ns) : x.nodeId = y.nodeId => x = y
  BY Zenon DEF Table
<1>2. DOMAIN ns = 1 .. Len(ns) /\ Len(ns) \in Nat
  BY <1>1
<1>3. \A i \in DOMAIN ns : ns[i] \in Range(ns) /\ ns[i].nodeId \in Nodes /\ ns[i].weight \in Weights
  <2>1. \A i \in DOMAIN ns : ns[i] \in Range(ns)
    BY Zenon DEF Range
  <2>2. QED
    BY Zenon, <2>1, EntryFacts
<1>4. s \in Seq(Nodes) /\ Len(s) = Len(ns)
  <2>1. s \in [1 .. Len(ns) -> Nodes]
    BY Zenon, <1>2, <1>3
  <2>2. QED
    BY SMTT(30), <1>2, <2>1
<1>5. IsInjective(s)
  <2>1. ASSUME NEW i \in DOMAIN ns, NEW j \in DOMAIN ns, ns[i].nodeId = ns[j].nodeId
        PROVE  i = j
    BY Zenon, <1>1, <1>3, <2>1 DEF IsInjective
  <2>2. QED
    BY Zenon, <2>1 DEF IsInjective
<1>6. Range(s) = Ids(ns)
  BY Zenon DEF Range, Ids
<1>7. IsFiniteSet(Ids(ns)) /\ Cardinality(Ids(ns)) = Len(ns)
  <2> HIDE DEF s
  <2>1. QED
    BY ZenonT(30), <1>4, <1>5, <1>6, DistinctLength
<1>8. Ids(ns) \subseteq Nodes
  BY Zenon, <1>3 DEF Ids
<1>9. ASSUME NEW n \in Ids(ns) PROVE \E x \in Members(ns) : x.nodeId = n
  <2>1. PICK i \in DOMAIN ns : n = ns[i].nodeId
    BY Zenon, <1>9 DEF Ids
  <2> DEFINE e == ns[i]
             v == VirtualNodes(e.nodeId, e.weight)
  <2>2. /\ e \in Range(ns) /\ e.nodeId = n /\ e.weight \in Weights
        /\ \A x \in Range(v) : x.nodeId = e.nodeId
    BY Zenon, <1>3, <2>1, EntryFacts
  <2> HIDE DEF e
  <2>3. 1 \in DOMAIN v
    <3>1. virtualNodeCountFor(e.weight) \in Nat \ {0}
      BY Zenon, <2>2, CountBounded
    <3>2. 1 \in 1 .. virtualNodeCountFor(e.weight)
      BY <3>1
    <3>3. QED
      BY Zenon, <3>2 DEF VirtualNodes
  <2>4. v[1] \in Range(v)
    BY Zenon, <2>3 DEF Range
  <2>5. v[1] \in Members(ns) /\ v[1].nodeId = n
    BY Zenon, <2>2, <2>4 DEF Members
  <2>6. QED
    BY Zenon, <2>5
<1>10. ASSUME NEW x \in Members(ns) PROVE x.nodeId \in Ids(ns)
  <2>1. PICK e \in Range(ns) : x.nodeId = e.nodeId
    BY Zenon, <1>10, MemberFacts
  <2>2. QED
    BY Zenon, <2>1 DEF Range, Ids
<1>11. QED
  BY Zenon, <1>7, <1>8, <1>9, <1>10

\* The walk meets exactly the members of the ring.
LEMMA RoundFacts ==
  ASSUME Hashes, NEW ns, NEW p, Table(ns), Canonical(ns, p), Sorted(p), NEW key \in Nat
  PROVE  /\ Round(p, key) \in [1 .. Len(p) -> Nodes]
         /\ Ids(ns) = Range(Round(p, key))
<1> DEFINE r == Round(p, key)
           t == Rotated(p, key)
           N == Len(p)
<1>1. p \in Seq(RingPoint) /\ Range(p) = Members(ns)
  BY Zenon DEF Canonical
<1>2. /\ t \in Seq(RingPoint) /\ DOMAIN t = DOMAIN p /\ Range(t) = Range(p)
      /\ r = [i \in 1 .. N |-> t[i].nodeId]
  BY ZenonT(30), <1>1, RotatedFacts
<1> HIDE DEF r, t
<1>3. DOMAIN t = 1 .. N
  BY SMTT(30), <1>1, <1>2
<1>4. \A i \in 1 .. N : r[i] = t[i].nodeId /\ t[i] \in Range(t)
  BY Zenon, <1>2, <1>3 DEF Range
<1>5. Ids(ns) = Range(r)
  <2>1. Ids(ns) = {x.nodeId : x \in Range(t)}
    <3>1. Ids(ns) = {x.nodeId : x \in Members(ns)}
      BY Zenon, IdsFacts
    <3>2. QED
      BY Zenon, <1>1, <1>2, <3>1
  <2>2. ASSUME NEW x \in Range(t) PROVE x.nodeId \in Range(r)
    <3>1. PICK j \in 1 .. N : x = t[j]
      BY Zenon, <1>3, <2>2 DEF Range
    <3>2. j \in DOMAIN r /\ x.nodeId = r[j]
      BY Zenon, <1>2, <1>4, <3>1
    <3>3. QED
      BY Zenon, <3>2 DEF Range
  <2>3. ASSUME NEW n \in Range(r) PROVE \E x \in Range(t) : n = x.nodeId
    <3>1. PICK j \in 1 .. N : n = r[j]
      BY Zenon, <1>2, <2>3 DEF Range
    <3>2. QED
      BY Zenon, <1>4, <3>1
  <2>4. QED
    BY ZenonT(30), <2>1, <2>2, <2>3
<1>6. r \in [1 .. N -> Nodes]
  <2>1. Ids(ns) \subseteq Nodes
    BY Zenon, IdsFacts
  <2>2. \A i \in 1 .. N : t[i].nodeId \in Nodes
    <3>1. ASSUME NEW i \in 1 .. N PROVE r[i] \in Range(r)
      BY Zenon, <1>2 DEF Range
    <3>2. QED
      BY ZenonT(30), <1>4, <1>5, <2>1, <3>1
  <2>3. QED
    BY Zenon, <1>2, <2>2
<1>7. QED
  BY Zenon, <1>5, <1>6 DEF r

\* A lookup returns distinct members of the ring, as many as asked for if the
\* ring has so many, the owner first.
Listed(l, ns, p, key, count) ==
  /\ l \in Seq(Nodes) /\ IsInjective(l) /\ Range(l) \subseteq Ids(ns)
  /\ Len(l) = IF Len(ns) < count THEN Len(ns) ELSE count
  /\ p # <<>> => getNode(p, key) = {l[1]}

\* getNodesForKey lists distinct members, as many as asked for or all, the
\* owner first.
LEMMA ListFacts ==
  ASSUME Hashes, NEW ns, NEW p, Table(ns), Canonical(ns, p), Sorted(p),
         NEW key \in Nat, NEW count \in Nat \ {0}
  PROVE  Listed(getNodesForKey(p, key, count), ns, p, key, count)
<1> DEFINE r == Round(p, key)
           N == Len(p)
           l == getNodesForKey(p, key, count)
<1>1. /\ r \in [1 .. N -> Nodes] /\ Ids(ns) = Range(r)
      /\ \A n : n \in Ids(ns) <=> \E j \in 1 .. N : r[j] = n
  <2>1. r \in [1 .. N -> Nodes] /\ Ids(ns) = Range(r)
    BY Zenon, RoundFacts
  <2> HIDE DEF r
  <2>2. QED
    BY <2>1 DEF Range
<1>2. p \in Seq(RingPoint)
  BY Zenon DEF Canonical
<1>3. N \in Nat /\ count \in Nat /\ count > 0
  BY <1>2
<1>4. PICK f : Walks(f, r, N, count) /\ l = f[N]
  <2>1. Walked(l, r, N, count)
    BY ZenonT(30), <1>1, <1>2, <1>3, WalkExists
  <2>2. QED
    BY Zenon, <2>1 DEF Walked
<1>5. l \in Seq(Nodes) /\ Collected(l, r, N, count)
  <2> HIDE DEF N, r, l
  <2>1. QED
    BY ZenonT(30), <1>1, <1>3, <1>4, WalkCollects
<1>6. p # <<>> => getNode(p, key) = {r[1]}
  <2>1. SUFFICES ASSUME p # <<>> PROVE getNode(p, key) = {r[1]}
    BY Zenon
  <2> DEFINE s == successorIndex(p, key)
  <2>2. s \in 0 .. N - 1 /\ N \in Nat \ {0}
    <3>1. N \in Nat \ {0}
      BY <1>2, <2>1
    <3>2. QED
      BY ZenonT(30), <1>2, <2>1, <3>1, SuccessorFacts
  <2>3. r[1] = p[((s + 1 - 1) % N) + 1].nodeId
    <3>1. 1 \in 1 .. N
      BY <2>2
    <3>2. QED
      BY Zenon, <3>1 DEF Round
  <2> HIDE DEF s
  <2>4. ((s + 1 - 1) % N) + 1 = s + 1
    <3>1. 1 \in 1 .. N
      BY <2>2
    <3>2. ((s + 1 - 1) % N) + 1 = At(s, 1, N)
      BY ZenonT(30), <2>2, <3>1, AtFacts
    <3>3. At(s, 1, N) = s + 1
      BY <2>2 DEF At
    <3>4. QED
      BY Zenon, <3>2, <3>3
  <2>5. QED
    BY ZenonT(30), <2>1, <2>3, <2>4 DEF getNode, s
<1> HIDE DEF r, l
<1>7. /\ IsInjective(l) /\ Len(l) <= count
      /\ \A x \in Range(l) : \E j \in 1 .. N : r[j] = x
      /\ Len(l) < count => \A j \in 1 .. N : r[j] \in Range(l)
      /\ N > 0 /\ count > 0 => Len(l) > 0 /\ l[1] = r[1]
  BY Zenon, <1>5 DEF Collected
<1>8. Range(l) \subseteq Ids(ns)
  BY ZenonT(30), <1>1, <1>7
<1>9. Len(l) = IF Len(ns) < count THEN Len(ns) ELSE count
  <2>1. IsFiniteSet(Ids(ns)) /\ Cardinality(Ids(ns)) = Len(ns)
    BY Zenon, IdsFacts
  <2>2. Cardinality(Range(l)) = Len(l)
    BY Zenon, <1>5, <1>7, DistinctLength
  <2>3. Len(l) <= Len(ns)
    <3>1. Range(l) \in SUBSET Ids(ns)
      BY Zenon, <1>8
    <3>2. Cardinality(Range(l)) <= Cardinality(Ids(ns))
      BY Zenon, <2>1, <3>1, FS_Subset
    <3>3. QED
      BY Zenon, <2>1, <2>2, <3>2
  <2>4. Len(l) < count => Len(l) = Len(ns)
    <3>1. ASSUME Len(l) < count PROVE Range(l) = Ids(ns)
      BY ZenonT(30), <1>1, <1>7, <1>8, <3>1
    <3>2. QED
      BY Zenon, <2>1, <2>2, <3>1
  <2>5. Len(l) \in Nat /\ Len(ns) \in Nat
    BY <1>5 DEF Table
  <2>6. QED
    BY SMTT(30), <1>3, <1>7, <2>3, <2>4, <2>5
<1>10. p # <<>> => getNode(p, key) = {l[1]}
  <2>1. SUFFICES ASSUME p # <<>> PROVE l[1] = r[1]
    BY Zenon, <1>6
  <2>2. N > 0
    BY SMTT(30), <1>2, <2>1
  <2>3. QED
    BY Zenon, <1>3, <1>7, <2>2
<1>11. QED
  BY ZenonT(30), <1>5, <1>7, <1>8, <1>9, <1>10 DEF l, Listed

\* For every key and every number of nodes asked for: the lookup returns
\* distinct nodes, as many as there are, starting with the owner, and a longer
\* lookup only adds nodes at the end.
THEOREM ReplicasAreNested == Spec => []ReplicasNested
<1>1. IInv => ReplicasNested
  <2>1. SUFFICES ASSUME IInv, NEW key \in Positions, NEW count \in 1 .. Cardinality(Nodes)
                 PROVE  LET list == getNodesForKey(points, key, count)
                            longer == getNodesForKey(points, key, count + 1)
                        IN /\ IsInjective(list)
                           /\ Len(list) = IF Len(nodes) < count THEN Len(nodes) ELSE count
                           /\ points # <<>> => getNode(points, key) = {list[1]}
                           /\ list = SubSeq(longer, 1, Len(list))
    BY Zenon DEF ReplicasNested
  <2> DEFINE list == getNodesForKey(points, key, count)
             longer == getNodesForKey(points, key, count + 1)
             r == Round(points, key)
             N == Len(points)
  <2>2. /\ Hashes /\ Table(nodes) /\ Canonical(nodes, points) /\ Sorted(points)
        /\ points \in Seq(RingPoint)
    BY Zenon, <2>1, RingSorted DEF IInv
  <2>3. key \in Nat
    BY Zenon, RingAssumption
  <2>4. count \in Nat \ {0} /\ count \in Nat /\ count + 1 \in Nat /\ N \in Nat
    <3>1. N \in Nat
      BY <2>2
    <3>2. QED
      BY <3>1
  <2>5. /\ list \in Seq(Nodes) /\ IsInjective(list)
        /\ Len(list) = IF Len(nodes) < count THEN Len(nodes) ELSE count
        /\ points # <<>> => getNode(points, key) = {list[1]}
    <3>1. Listed(list, nodes, points, key, count)
      BY Zenon, <2>2, <2>3, <2>4, ListFacts
    <3>2. QED
      BY Zenon, <3>1 DEF Listed
  <2>6. r \in [1 .. N -> Nodes]
    BY ZenonT(30), <2>2, <2>3, RoundFacts
  <2>7. Walked(list, r, N, count) /\ Walked(longer, r, N, count + 1)
    BY ZenonT(30), <2>2, <2>4, <2>6, WalkExists
  <2> HIDE DEF list, longer, r, N
  <2>8. PICK f : Walks(f, r, N, count) /\ list = f[N]
    BY Zenon, <2>7 DEF Walked
  <2>9. PICK g : Walks(g, r, N, count + 1) /\ longer = g[N]
    BY Zenon, <2>7 DEF Walked
  <2>10. Begins(list, longer, count) /\ longer \in Seq(Nodes)
    BY ZenonT(30), <2>4, <2>6, <2>8, <2>9, WalkBegins, WalkCollects
  <2>11. list = SubSeq(longer, 1, Len(list))
    <3>1. Len(list) <= Len(longer) /\ \A k \in 1 .. Len(list) : list[k] = longer[k]
      BY Zenon, <2>10 DEF Begins
    <3>2. QED
      BY SMTT(30), <2>5, <2>10, <3>1
  <2>12. QED
    BY Zenon, <2>5, <2>11 DEF list, longer
<1>2. QED
  BY <1>1, Invariance, PTL

-----------------------------------------------------------------------------
(* A membership change moves only the keys of its node *)

\* From the key on, the walk meets x before y: points behind the key come
\* first, then those it reaches around the end.
Clockwise(ns, key, x, y) ==
  IF x.hash < key <=> y.hash < key THEN Earlier(ns, x, y) ELSE y.hash < key

\* The place in the walk of the point at place a of the array.
Back(s, a, N) == IF a > s THEN a - s ELSE a - s + N

\* Back is where a position of the array comes in the walk from s.
LEMMA BackFacts ==
  ASSUME NEW N \in Nat \ {0}, NEW s \in 0 .. N - 1, NEW a \in 1 .. N
  PROVE  /\ Back(s, a, N) \in 1 .. N /\ At(s, Back(s, a, N), N) = a
         /\ Back(s, At(s, a, N), N) = a
BY DEF Back, At

\* The walk meets the points clockwise.
LEMMA RotatedOrder ==
  ASSUME NEW ns, NEW p, Canonical(ns, p), Sorted(p), NEW key \in Nat
  PROVE  /\ IsInjective(Rotated(p, key))
         /\ \A x, y \in Range(p) : Precedes(Rotated(p, key), x, y) <=> Clockwise(ns, key, x, y)
<1> DEFINE N == Len(p)
           s == successorIndex(p, key)
           t == Rotated(p, key)
<1>1. /\ p \in Seq(RingPoint) /\ IsInjective(p)
      /\ \A x, y \in Range(p) : Precedes(p, x, y) <=> Earlier(ns, x, y)
  BY Zenon DEF Canonical
<1>2. N \in Nat /\ DOMAIN p = 1 .. N
  BY <1>1
<1>3. \A i \in 1 .. N : p[i].hash \in Nat /\ p[i] \in Range(p)
  <2>1. ASSUME NEW i \in 1 .. N PROVE p[i].hash \in Nat
    <3>1. p[i] \in RingPoint
      BY <1>1
    <3>2. p[i].hash \in Positions
      BY <3>1 DEF RingPoint
    <3>3. QED
      BY Zenon, <3>2, RingAssumption
  <2>2. QED
    BY Zenon, <1>2, <2>1 DEF Range
<1>4. ASSUME NEW i \in 1 .. N
      PROVE  /\ N \in Nat \ {0} /\ s \in 0 .. N - 1
             /\ \A j \in 1 .. s : p[j].hash < key
             /\ ~(p[s + 1].hash < key) \/ (s = 0 /\ \A j \in DOMAIN p : p[j].hash < key)
  <2>1. p # <<>> /\ N \in Nat \ {0}
    BY SMTT(30), <1>1, <1>2, <1>4
  <2>2. QED
    BY ZenonT(30), <1>1, <2>1, SuccessorFacts
<1>5. DOMAIN t = 1 .. N /\ \A i \in 1 .. N : t[i] = p[At(s, i, N)]
  BY DEF Rotated
<1> HIDE DEF s, t, N
<1>6. \A a \in 1 .. N : /\ Back(s, a, N) \in 1 .. N /\ At(s, Back(s, a, N), N) = a
                        /\ Back(s, At(s, a, N), N) = a /\ At(s, a, N) \in 1 .. N
  BY ZenonT(60), <1>4, BackFacts, AtFacts
<1>7. IsInjective(t)
  <2>1. SUFFICES ASSUME NEW i \in 1 .. N, NEW j \in 1 .. N, t[i] = t[j] PROVE i = j
    BY Zenon, <1>5 DEF IsInjective
  <2>2. At(s, i, N) = At(s, j, N)
    <3>1. /\ At(s, i, N) \in DOMAIN p /\ At(s, j, N) \in DOMAIN p
          /\ p[At(s, i, N)] = p[At(s, j, N)]
      BY ZenonT(30), <1>2, <1>5, <1>6, <2>1
    <3>2. QED
      BY Zenon, <1>1, <3>1 DEF IsInjective
  <2>3. QED
    BY Zenon, <1>6, <2>1, <2>2
<1>8. ASSUME NEW x \in Range(p), NEW y \in Range(p)
      PROVE  Precedes(t, x, y) <=> Clockwise(ns, key, x, y)
  <2>1. PICK a \in 1 .. N : x = p[a]
    BY Zenon, <1>2, <1>8 DEF Range
  <2>2. PICK b \in 1 .. N : y = p[b]
    BY Zenon, <1>2, <1>8 DEF Range
  <2>3. Earlier(ns, x, y) <=> a < b
    <3>1. Precedes(p, x, y) <=> a < b
      BY ZenonT(30), <1>1, <1>2, <2>1, <2>2 DEF Precedes, IsInjective
    <3>2. QED
      BY Zenon, <1>1, <1>8, <3>1
  <2>4. Precedes(t, x, y) <=> Back(s, a, N) < Back(s, b, N)
    <3>1. /\ Back(s, a, N) \in DOMAIN t /\ t[Back(s, a, N)] = x
          /\ Back(s, b, N) \in DOMAIN t /\ t[Back(s, b, N)] = y
      BY Zenon, <1>5, <1>6, <2>1, <2>2
    <3>2. QED
      BY ZenonT(30), <1>7, <3>1 DEF Precedes, IsInjective
  <2>5. N \in Nat \ {0} /\ s \in 0 .. N - 1
    BY Zenon, <1>4, <2>1
  <2>6. CASE ~(p[s + 1].hash < key)
    <3>1. \A c \in 1 .. N : p[c].hash < key <=> c <= s
      <4>1. ASSUME NEW c \in 1 .. N, c <= s PROVE p[c].hash < key
        <5>1. c \in 1 .. s
          BY <2>5, <4>1
        <5>2. QED
          BY Zenon, <1>4, <4>1, <5>1
      <4>2. ASSUME NEW c \in 1 .. N, ~(c <= s) PROVE ~(p[c].hash < key)
        <5>1. s + 1 \in 1 .. N /\ (c = s + 1 \/ s + 1 < c)
          BY <2>5, <4>2
        <5>2. s + 1 < c => p[s + 1].hash <= p[c].hash
          BY Zenon, <1>2, <4>2, <5>1 DEF Sorted
        <5>3. p[s + 1].hash \in Nat /\ p[c].hash \in Nat
          BY Zenon, <1>3, <4>2, <5>1
        <5>4. QED
          BY SMTT(30), <2>6, <5>1, <5>2, <5>3
      <4>3. QED
        BY Zenon, <4>1, <4>2
    <3>2. (x.hash < key <=> a <= s) /\ (y.hash < key <=> b <= s)
      BY ZenonT(30), <2>1, <2>2, <3>1
    <3>3. Back(s, a, N) < Back(s, b, N) <=>
            IF a <= s <=> b <= s THEN a < b ELSE b <= s
      BY SMTT(30), <2>1, <2>2, <2>5 DEF Back
    <3>4. QED
      BY Zenon, <2>3, <2>4, <3>2, <3>3 DEF Clockwise
  <2>7. CASE s = 0 /\ \A j \in DOMAIN p : p[j].hash < key
    <3>1. x.hash < key /\ y.hash < key
      BY ZenonT(30), <1>2, <2>1, <2>2, <2>7
    <3>2. Back(s, a, N) < Back(s, b, N) <=> a < b
      BY SMTT(30), <2>1, <2>2, <2>5, <2>7 DEF Back
    <3>3. QED
      BY ZenonT(30), <2>3, <2>4, <3>1, <3>2 DEF Clockwise
  <2>8. QED
    BY ZenonT(30), <1>4, <2>1, <2>6, <2>7
<1>9. QED
  BY Zenon, <1>7, <1>8 DEF t

\* Among the first i of the walk, x is met before y is.
Leads(r, i, x, y) ==
  /\ \E k \in 1 .. i : r[k] = y
  /\ \E j \in 1 .. i : r[j] = x /\ \A k \in 1 .. j : r[k] # y

\* The list holds the nodes met, in the order they are met first.
Ordered(l, r, i) ==
  /\ IsInjective(l)
  /\ \A x \in Nodes : x \in Range(l) <=> \E j \in 1 .. i : r[j] = x
  /\ \A x, y \in Nodes : Precedes(l, x, y) <=> Leads(r, i, x, y)

\* A list of distinct nodes has room for one that it lacks.
LEMMA RoomLeft ==
  ASSUME NEW l \in Seq(Nodes), IsInjective(l), NEW x \in Nodes, x \notin Range(l)
  PROVE  Len(l) < Cardinality(Nodes)
<1>1. IsFiniteSet(Nodes)
  BY Zenon, RingAssumption
<1>2. IsFiniteSet(Range(l)) /\ Cardinality(Range(l)) = Len(l)
  BY Zenon, DistinctLength
<1>3. Range(l) \in SUBSET Nodes
  BY DEF Range
<1>4. Cardinality(Range(l)) <= Cardinality(Nodes) /\ Cardinality(Range(l)) # Cardinality(Nodes)
  BY ZenonT(30), <1>1, <1>3, FS_Subset
<1>5. Cardinality(Nodes) \in Nat /\ Len(l) \in Nat
  <2>1. Cardinality(Nodes) \in Nat
    BY Zenon, <1>1, FS_CardinalityType
  <2>2. QED
    BY <2>1
<1>6. QED
  BY SMTT(30), <1>2, <1>4, <1>5

\* A step keeps the list in the order in which the walk meets the nodes.
LEMMA VisitOrders ==
  ASSUME NEW r, NEW i \in Nat, NEW l \in Seq(Nodes), r[i + 1] \in Nodes, Ordered(l, r, i)
  PROVE  Ordered(Visit(l, r[i + 1], Cardinality(Nodes)), r, i + 1)
<1> DEFINE z == r[i + 1]
           v == Visit(l, z, Cardinality(Nodes))
<1>1. /\ IsInjective(l)
      /\ \A x \in Nodes : x \in Range(l) <=> \E j \in 1 .. i : r[j] = x
      /\ \A x, y \in Nodes : Precedes(l, x, y) <=> Leads(r, i, x, y)
  BY Zenon DEF Ordered
<1>2. /\ \A j \in 1 .. i : j \in 1 .. i + 1 /\ ~(i + 1 <= j)
      /\ i + 1 \in 1 .. i + 1 /\ \A j \in 1 .. i + 1 : j \in 1 .. i \/ j = i + 1
      /\ \A j \in 1 .. i : \A k \in 1 .. j : k \in 1 .. i /\ k \in 1 .. i + 1
      /\ \A k \in 1 .. i : k \in 1 .. i + 1
  OBVIOUS
<1>3. z \in Nodes
  OBVIOUS
<1>4. CASE z \in Range(l)
  <2>1. v = l
    BY Zenon, <1>4 DEF Visit
  <2>2. PICK m \in 1 .. i : r[m] = z
    BY Zenon, <1>1, <1>3, <1>4
  <2>3. \A k \in 1 .. m : k \in 1 .. i /\ k \in 1 .. i + 1
    BY Zenon, <1>2, <2>2
  <2> HIDE DEF v
  <2>4. \A x \in Nodes : (\E j \in 1 .. i : r[j] = x) <=> (\E j \in 1 .. i + 1 : r[j] = x)
    BY Zenon, <1>2, <2>2 DEF z
  <2>5. ASSUME NEW x \in Nodes, NEW y \in Nodes PROVE Leads(r, i, x, y) <=> Leads(r, i + 1, x, y)
    <3>1. ASSUME Leads(r, i, x, y) PROVE Leads(r, i + 1, x, y)
      BY Zenon, <1>2, <3>1 DEF Leads
    <3>2. ASSUME Leads(r, i + 1, x, y) PROVE Leads(r, i, x, y)
      <4>1. PICK j \in 1 .. i + 1 : r[j] = x /\ \A k \in 1 .. j : r[k] # y
        BY Zenon, <3>2 DEF Leads
      <4>2. \E k \in 1 .. i : r[k] = y
        BY ZenonT(30), <2>4, <3>2 DEF Leads
      <4>3. CASE j \in 1 .. i
        BY ZenonT(30), <4>1, <4>2, <4>3 DEF Leads
      <4>4. CASE j = i + 1
        <5>1. r[m] = x /\ \A k \in 1 .. m : r[k] # y
          BY ZenonT(30), <2>2, <2>3, <4>1, <4>4 DEF z
        <5>2. QED
          BY Zenon, <2>2, <4>2, <5>1 DEF Leads
      <4>5. QED
        BY ZenonT(30), <1>2, <4>1, <4>3, <4>4
    <3>3. QED
      BY ZenonT(30), <3>1, <3>2
  <2>6. Ordered(l, r, i + 1)
    BY Zenon, <1>1, <2>4, <2>5 DEF Ordered
  <2>7. QED
    BY Zenon, <2>1, <2>6 DEF v
<1>5. CASE z \notin Range(l)
  <2>1. v = Append(l, z)
    BY ZenonT(30), <1>1, <1>5, RoomLeft DEF Visit
  <2>2. /\ IsInjective(v) /\ Range(v) = Range(l) \cup {z}
        /\ \A x, y : Precedes(v, x, y) <=> Precedes(l, x, y) \/ (x \in Range(l) /\ y = z)
    <3> HIDE DEF z, v
    <3>1. l \in Seq(Nodes) /\ z \in Nodes /\ IsInjective(l) /\ z \notin Range(l)
      BY ZenonT(30), <1>1, <1>3, <1>5
    <3>2. /\ IsInjective(Append(l, z)) /\ Range(Append(l, z)) = Range(l) \cup {z}
          /\ \A x, y : Precedes(Append(l, z), x, y) <=>
                        Precedes(l, x, y) \/ (x \in Range(l) /\ y = z)
      BY Zenon, <3>1, AppendFacts
    <3>3. QED
      BY <2>1, <3>2
  <2> HIDE DEF v
  <2>3. \A j \in 1 .. i : r[j] # z
    BY Zenon, <1>1, <1>3, <1>5
  <2>4. \A x \in Nodes : x \in Range(v) <=> \E j \in 1 .. i + 1 : r[j] = x
    <3>1. \A x \in Nodes : x \in Range(v) <=> x \in Range(l) \/ x = z
      BY Zenon, <2>2
    <3>2. \A x \in Nodes : (\E j \in 1 .. i + 1 : r[j] = x) <=> (\E j \in 1 .. i : r[j] = x) \/ x = z
      BY Zenon, <1>2 DEF z
    <3>3. QED
      BY Zenon, <1>1, <3>1, <3>2
  <2>5. ASSUME NEW x \in Nodes, NEW y \in Nodes PROVE Precedes(v, x, y) <=> Leads(r, i + 1, x, y)
    <3>1. CASE y = z
      <4>1. ~Precedes(l, x, y)
        BY ZenonT(30), <1>5, <3>1, PrecedesRange
      <4>2. Leads(r, i + 1, x, y) <=> x \in Range(l)
        <5>1. ASSUME Leads(r, i + 1, x, y) PROVE x \in Range(l)
          <6>1. PICK j \in 1 .. i + 1 : r[j] = x /\ \A k \in 1 .. j : r[k] # y
            BY Zenon, <5>1 DEF Leads
          <6>2. j # i + 1
            BY ZenonT(30), <1>2, <3>1, <6>1 DEF z
          <6>3. QED
            BY ZenonT(30), <1>1, <1>2, <6>1, <6>2
        <5>2. ASSUME x \in Range(l) PROVE Leads(r, i + 1, x, y)
          <6>1. PICK j \in 1 .. i : r[j] = x
            BY ZenonT(30), <1>1, <5>2
          <6>2. \A k \in 1 .. j : r[k] # y
            BY ZenonT(30), <1>2, <2>3, <3>1, <6>1
          <6>3. QED
            BY ZenonT(30), <1>2, <3>1, <6>1, <6>2 DEF Leads, z
        <5>3. QED
          BY Zenon, <5>1, <5>2
      <4>3. QED
        BY ZenonT(30), <2>2, <3>1, <4>1, <4>2
    <3>2. CASE y # z
      <4>1. Leads(r, i + 1, x, y) <=> Leads(r, i, x, y)
        <5>1. ASSUME Leads(r, i, x, y) PROVE Leads(r, i + 1, x, y)
          BY ZenonT(30), <1>2, <5>1 DEF Leads
        <5>2. ASSUME Leads(r, i + 1, x, y) PROVE Leads(r, i, x, y)
          <6>1. PICK j \in 1 .. i + 1 : r[j] = x /\ \A k \in 1 .. j : r[k] # y
            BY Zenon, <5>2 DEF Leads
          <6>2. PICK k \in 1 .. i : r[k] = y
            BY ZenonT(30), <1>2, <3>2, <5>2 DEF Leads, z
          <6>3. j \in 1 .. i
            BY Zenon, <1>2, <6>1, <6>2
          <6>4. QED
            BY ZenonT(30), <6>1, <6>2, <6>3 DEF Leads
        <5>3. QED
          BY ZenonT(30), <5>1, <5>2
      <4>2. QED
        BY ZenonT(30), <1>1, <2>2, <3>2, <4>1
    <3>3. QED
      BY Zenon, <3>1, <3>2
  <2>6. Ordered(v, r, i + 1)
    BY Zenon, <2>2, <2>4, <2>5 DEF Ordered
  <2>7. QED
    BY Zenon, <2>6 DEF v, z
<1>6. QED
  BY Zenon, <1>4, <1>5

\* With room for every node the list of getNodesForKey is never cut.
LEMMA WalkOrders ==
  ASSUME NEW N \in Nat, NEW r \in [1 .. N -> Nodes], NEW f,
         Walks(f, r, N, Cardinality(Nodes))
  PROVE  Ordered(f[N], r, N)
<1> DEFINE c == Cardinality(Nodes)
           S == {i \in Nat : i \in 0 .. N => Ordered(f[i], r, i)}
<1>1. /\ f \in [0 .. N -> Seq(Nodes)] /\ f[0] = <<>>
      /\ \A i \in 1 .. N : f[i] = Visit(f[i - 1], r[i], c)
  BY Zenon DEF Walks
<1>2. 0 \in S
  <2>1. /\ IsInjective(<<>>) /\ Range(<<>>) = {} /\ DOMAIN <<>> = {}
        /\ \A j \in 1 .. 0 : FALSE
    BY DEF IsInjective, Range
  <2>2. Ordered(<<>>, r, 0)
    BY Zenon, <2>1 DEF Ordered, Leads, Precedes
  <2>3. QED
    BY <1>1, <2>2
<1>3. \A i \in Nat : i \in S => i + 1 \in S
  <2>1. SUFFICES ASSUME NEW i \in S, i + 1 \in 0 .. N PROVE Ordered(f[i + 1], r, i + 1)
    OBVIOUS
  <2>2. /\ i \in Nat /\ i \in 0 .. N /\ i + 1 \in 1 .. N /\ (i + 1) - 1 = i
    BY SMTT(30), <2>1
  <2>3. Ordered(f[i], r, i) /\ f[i] \in Seq(Nodes) /\ r[i + 1] \in Nodes
    BY SMTT(30), <1>1, <2>1, <2>2
  <2>4. f[i + 1] = Visit(f[i], r[i + 1], c)
    BY Zenon, <1>1, <2>2
  <2>5. QED
    BY ZenonT(30), <2>2, <2>3, <2>4, VisitOrders
<1> HIDE DEF S
<1>4. \A i \in Nat : i \in S
  BY ZenonT(30), <1>2, <1>3, Induction
<1>5. QED
  <2>1. N \in 0 .. N /\ N \in S
    BY <1>4
  <2>2. QED
    BY <2>1 DEF S

\* Some point of x comes before all points of y, of which there is one.
Serves(ns, key, x, y) ==
  /\ \E Q \in Members(ns) : Q.nodeId = y
  /\ \E P \in Members(ns) :
       P.nodeId = x /\ \A Q \in Members(ns) : Q.nodeId = y => Clockwise(ns, key, P, Q)

\* The list of all nodes of a key: the members, in the order of Serves.
Complete(l, ns, key) ==
  /\ \A x \in Nodes : x \in Range(l) <=> x \in Ids(ns)
  /\ \A x, y \in Nodes : Precedes(l, x, y) <=> Serves(ns, key, x, y)

\* The list of all nodes has every member, in the clockwise order of their
\* nearest points.
LEMMA ServesFacts ==
  ASSUME Hashes, NEW ns, NEW p, Table(ns), Canonical(ns, p), Sorted(p), NEW key \in Nat
  PROVE  Complete(getNodesForKey(p, key, Cardinality(Nodes)), ns, key)
<1> DEFINE r == Round(p, key)
           t == Rotated(p, key)
           N == Len(p)
           c == Cardinality(Nodes)
           l == getNodesForKey(p, key, c)
<1>1. p \in Seq(RingPoint) /\ Range(p) = Members(ns) /\ N \in Nat /\ DOMAIN p = 1 .. N
  <2>1. p \in Seq(RingPoint) /\ Range(p) = Members(ns)
    BY Zenon DEF Canonical
  <2>2. QED
    BY <2>1
<1>2. r \in [1 .. N -> Nodes] /\ Ids(ns) = Range(r)
  BY Zenon, RoundFacts
<1>3. /\ DOMAIN t = DOMAIN p /\ Range(t) = Range(p)
      /\ r = [i \in 1 .. N |-> t[i].nodeId]
  BY Zenon, <1>1, RotatedFacts
<1>4. /\ IsInjective(t)
      /\ \A x, y \in Range(p) : Precedes(t, x, y) <=> Clockwise(ns, key, x, y)
  BY Zenon, RotatedOrder
<1>5. c \in Nat
  BY Zenon, RingAssumption, FS_CardinalityType
<1>6. Walked(l, r, N, c)
  BY ZenonT(30), <1>1, <1>2, <1>5, WalkExists
<1>7. Ordered(l, r, N)
  <2> HIDE DEF l, r, N, c
  <2>1. PICK f : Walks(f, r, N, c) /\ l = f[N]
    BY Zenon, <1>6 DEF Walked
  <2>2. Ordered(f[N], r, N)
    BY Zenon, <1>1, <1>2, <2>1, WalkOrders DEF c
  <2>3. QED
    BY Zenon, <2>1, <2>2
<1> HIDE DEF l, r, t, N, c
<1>8. DOMAIN t = 1 .. N /\ DOMAIN r = 1 .. N /\ Range(t) = Members(ns)
  BY Zenon, <1>1, <1>2, <1>3
<1>9. \A i \in 1 .. N : r[i] = t[i].nodeId /\ t[i] \in Members(ns)
  BY Zenon, <1>3, <1>8 DEF Range
<1>10. \A P \in Members(ns) : \E i \in 1 .. N : t[i] = P
  BY Zenon, <1>8 DEF Range
<1>11. ASSUME NEW i \in 1 .. N, NEW j \in 1 .. N
       PROVE  Clockwise(ns, key, t[i], t[j]) <=> i < j
  <2>1. Precedes(t, t[i], t[j]) <=> i < j
    BY Zenon, <1>4, <1>8 DEF Precedes, IsInjective
  <2>2. t[i] \in Range(p) /\ t[j] \in Range(p)
    BY Zenon, <1>1, <1>9
  <2>3. QED
    BY Zenon, <1>4, <2>1, <2>2
<1>12. \A x \in Nodes : x \in Range(l) <=> x \in Ids(ns)
  <2>1. \A x : x \in Range(r) <=> \E j \in 1 .. N : r[j] = x
    BY Zenon, <1>8 DEF Range
  <2>2. QED
    BY Zenon, <1>2, <1>7, <2>1 DEF Ordered
<1>13. ASSUME NEW x \in Nodes, NEW y \in Nodes
       PROVE  Leads(r, N, x, y) <=> Serves(ns, key, x, y)
  <2>1. (\E k \in 1 .. N : r[k] = y) <=> (\E Q \in Members(ns) : Q.nodeId = y)
    <3>1. ASSUME NEW k \in 1 .. N, r[k] = y PROVE \E Q \in Members(ns) : Q.nodeId = y
      BY Zenon, <1>9, <3>1
    <3>2. ASSUME NEW Q \in Members(ns), Q.nodeId = y PROVE \E k \in 1 .. N : r[k] = y
      <4>1. PICK k \in 1 .. N : t[k] = Q
        BY Zenon, <1>10, <3>2
      <4>2. QED
        BY Zenon, <1>9, <3>2, <4>1
    <3>3. QED
      BY Zenon, <3>1, <3>2
  <2>2. ASSUME Leads(r, N, x, y) PROVE Serves(ns, key, x, y)
    <3>1. PICK j \in 1 .. N : r[j] = x /\ \A k \in 1 .. j : r[k] # y
      BY Zenon, <2>2 DEF Leads
    <3>2. ASSUME NEW Q \in Members(ns), Q.nodeId = y PROVE Clockwise(ns, key, t[j], Q)
      <4>1. PICK k \in 1 .. N : t[k] = Q
        BY Zenon, <1>10, <3>2
      <4>2. r[k] = y
        BY Zenon, <1>9, <3>2, <4>1
      <4>3. k \notin 1 .. j
        BY Zenon, <3>1, <4>2
      <4>4. j < k
        BY SMTT(30), <1>1, <3>1, <4>1, <4>3
      <4>5. QED
        BY Zenon, <1>11, <3>1, <4>1, <4>4
    <3>3. t[j] \in Members(ns) /\ t[j].nodeId = x
      BY Zenon, <1>9, <3>1
    <3>4. QED
      BY Zenon, <2>1, <2>2, <3>2, <3>3 DEF Serves, Leads
  <2>3. ASSUME Serves(ns, key, x, y) PROVE Leads(r, N, x, y)
    <3>1. PICK P \in Members(ns) :
            P.nodeId = x /\ \A Q \in Members(ns) : Q.nodeId = y => Clockwise(ns, key, P, Q)
      BY Zenon, <2>3 DEF Serves
    <3>2. PICK j \in 1 .. N : t[j] = P
      BY Zenon, <1>10, <3>1
    <3>3. ASSUME NEW k \in 1 .. j PROVE r[k] # y
      <4>1. k \in 1 .. N /\ ~(j < k)
        BY SMTT(30), <1>1, <3>2, <3>3
      <4>2. ~Clockwise(ns, key, P, t[k])
        BY Zenon, <1>11, <3>2, <4>1
      <4>3. QED
        BY ZenonT(30), <1>9, <3>1, <4>1, <4>2
    <3>4. r[j] = x
      BY Zenon, <1>9, <3>1, <3>2
    <3>5. QED
      BY ZenonT(30), <2>1, <2>3, <3>2, <3>3, <3>4 DEF Serves, Leads
  <2>4. QED
    BY Zenon, <2>2, <2>3
<1>14. Complete(l, ns, key)
  BY Zenon, <1>7, <1>12, <1>13 DEF Complete, Ordered
<1>15. QED
  BY Zenon, <1>14 DEF l, c

\* Two tables that differ in node n only have the same points of the other
\* nodes, which every key meets in the same order.
Alike(ns, ms, n, key) ==
  /\ \A P : P.nodeId # n => (P \in Members(ns) <=> P \in Members(ms))
  /\ \A P, Q : P.nodeId # n /\ Q.nodeId # n =>
       (Clockwise(ns, key, P, Q) <=> Clockwise(ms, key, P, Q))

\* Tables that differ in n only have the same other points, in the same
\* clockwise order.
LEMMA DropAlike ==
  ASSUME Hashes, NEW ns, NEW ms, Table(ns), Table(ms), NEW n, Drop(ms, n) = Drop(ns, n), NEW key
  PROVE  Alike(ns, ms, n, key)
<1> DEFINE d == Drop(ns, n)
<1>1. /\ Members(d) = {p \in Members(ns) : p.nodeId # n}
      /\ \A a, b : a # n /\ b # n => (Senior(d, a, b) <=> Senior(ns, a, b))
  BY ZenonT(60), DropTable
<1>2. /\ Members(d) = {p \in Members(ms) : p.nodeId # n}
      /\ \A a, b : a # n /\ b # n => (Senior(d, a, b) <=> Senior(ms, a, b))
  <2>1. /\ Members(Drop(ms, n)) = {p \in Members(ms) : p.nodeId # n}
        /\ \A a, b : a # n /\ b # n => (Senior(Drop(ms, n), a, b) <=> Senior(ms, a, b))
    BY ZenonT(60), DropTable
  <2>2. QED
    BY Zenon, <2>1
<1> HIDE DEF d
<1>3. \A P : P.nodeId # n => (P \in Members(ns) <=> P \in Members(ms))
  <2>1. \A P : P \in Members(d) <=> P \in Members(ns) /\ P.nodeId # n
    BY Zenon, <1>1
  <2>2. \A P : P \in Members(d) <=> P \in Members(ms) /\ P.nodeId # n
    BY Zenon, <1>2
  <2>3. QED
    BY Zenon, <2>1, <2>2
<1>4. ASSUME NEW P, NEW Q, P.nodeId # n, Q.nodeId # n
      PROVE  Clockwise(ns, key, P, Q) <=> Clockwise(ms, key, P, Q)
  <2>1. Senior(ns, P.nodeId, Q.nodeId) <=> Senior(ms, P.nodeId, Q.nodeId)
    BY Zenon, <1>1, <1>2, <1>4
  <2>2. Tie(ns, P, Q) <=> Tie(ms, P, Q)
    BY Zenon, <2>1 DEF Tie
  <2>3. Earlier(ns, P, Q) <=> Earlier(ms, P, Q)
    BY Zenon, <2>2 DEF Earlier
  <2>4. QED
    BY Zenon, <2>3 DEF Clockwise
<1>5. QED
  BY Zenon, <1>3, <1>4 DEF Alike

\* The array of a table is sorted by hash.
LEMMA CanonicalSorted ==
  ASSUME NEW ns, NEW p, Canonical(ns, p)
  PROVE  Sorted(p)
<1>1. /\ p \in Seq(RingPoint)
      /\ \A x, y \in Range(p) : Precedes(p, x, y) <=> Earlier(ns, x, y)
  BY Zenon DEF Canonical
<1>2. SUFFICES ASSUME NEW i \in DOMAIN p, NEW j \in DOMAIN p, i < j
               PROVE  p[i].hash <= p[j].hash
  BY Zenon DEF Sorted
<1>3. p[i] \in Range(p) /\ p[j] \in Range(p) /\ Precedes(p, p[i], p[j])
  BY Zenon, <1>2 DEF Range, Precedes
<1>4. p[i].hash < p[j].hash \/ p[i].hash = p[j].hash
  BY Zenon, <1>1, <1>3 DEF Earlier
<1>5. p[i] \in RingPoint /\ p[j] \in RingPoint
  BY <1>1, <1>2
<1>6. p[i].hash \in Positions /\ p[j].hash \in Positions
  BY <1>5 DEF RingPoint
<1>7. p[i].hash \in Nat /\ p[j].hash \in Nat
  BY Zenon, <1>6, RingAssumption
<1>8. QED
  BY <1>4, <1>7

\* Where n is neither, the order of two nodes is the same in both rings.
LEMMA OrderKept ==
  ASSUME NEW ns, NEW ms, NEW n, NEW key, Alike(ns, ms, n, key),
         NEW x \in Nodes \ {n}, NEW y \in Nodes \ {n}, Serves(ns, key, x, y)
  PROVE  Serves(ms, key, x, y)
<1>1. PICK Q \in Members(ns) : Q.nodeId = y
  BY Zenon DEF Serves
<1>2. PICK P \in Members(ns) :
        P.nodeId = x /\ \A R \in Members(ns) : R.nodeId = y => Clockwise(ns, key, P, R)
  BY Zenon DEF Serves
<1>3. x # n /\ y # n
  OBVIOUS
<1>4. Q \in Members(ms) /\ P \in Members(ms)
  BY Zenon, <1>1, <1>2, <1>3 DEF Alike
<1>5. ASSUME NEW R \in Members(ms), R.nodeId = y PROVE Clockwise(ms, key, P, R)
  <2>1. R \in Members(ns)
    BY Zenon, <1>3, <1>5 DEF Alike
  <2>2. Clockwise(ns, key, P, R)
    BY Zenon, <1>2, <1>5, <2>1
  <2>3. P.nodeId # n /\ R.nodeId # n
    BY Zenon, <1>2, <1>3, <1>5
  <2>4. QED
    BY Zenon, <2>2, <2>3 DEF Alike
<1>6. QED
  BY ZenonT(30), <1>1, <1>2, <1>4, <1>5 DEF Serves

\* A table is like itself, and likeness is mutual.
LEMMA AlikeMutual ==
  ASSUME NEW ns, NEW ms, NEW n, NEW key, Alike(ns, ms, n, key)
  PROVE  Alike(ms, ns, n, key)
BY Zenon DEF Alike

\* The members but for n are the same.
LEMMA IdsAlike ==
  ASSUME Hashes, NEW ns, NEW ms, Table(ns), Table(ms), NEW n, NEW key,
         Alike(ns, ms, n, key), NEW x, x # n, x \in Ids(ns)
  PROVE  x \in Ids(ms)
<1>1. Ids(ns) = {P.nodeId : P \in Members(ns)} /\ Ids(ms) = {P.nodeId : P \in Members(ms)}
  BY Zenon, IdsFacts
<1>2. PICK P \in Members(ns) : x = P.nodeId
  BY Zenon, <1>1
<1>3. P \in Members(ms)
  BY Zenon, <1>2 DEF Alike
<1>4. QED
  BY Zenon, <1>1, <1>2, <1>3

\* A step that touches only n keeps the order of the other nodes.
LEMMA OthersStep ==
  ASSUME IInv, [Next]_vars
  PROVE  \A key \in Positions :
           LET list == getNodesForKey(points, key, Cardinality(Nodes))
               after == getNodesForKey(points', key, Cardinality(Nodes))
           IN \A n \in Nodes :
                Drop(nodes', n) = Drop(nodes, n) =>
                  \A x \in Nodes \ {n} :
                    /\ x \in Range(list) <=> x \in Range(after)
                    /\ \A y \in Nodes \ {n} : Precedes(list, x, y) <=> Precedes(after, x, y)
<1>1. SUFFICES ASSUME NEW key \in Positions, NEW n \in Nodes, Drop(nodes', n) = Drop(nodes, n)
      PROVE LET list == getNodesForKey(points, key, Cardinality(Nodes))
                after == getNodesForKey(points', key, Cardinality(Nodes))
            IN \A x \in Nodes \ {n} :
                 /\ x \in Range(list) <=> x \in Range(after)
                 /\ \A y \in Nodes \ {n} : Precedes(list, x, y) <=> Precedes(after, x, y)
  BY Zenon
<1> DEFINE list == getNodesForKey(points, key, Cardinality(Nodes))
           after == getNodesForKey(points', key, Cardinality(Nodes))
<1>2. /\ Hashes /\ Table(nodes) /\ Canonical(nodes, points)
      /\ Table(nodes') /\ Canonical(nodes', points') /\ key \in Nat
  BY Zenon, RingStep, RingAssumption DEF IInv
<1>3. Complete(list, nodes, key)
  BY Zenon, <1>2, CanonicalSorted, ServesFacts
<1>4. Complete(after, nodes', key)
  BY Zenon, <1>2, CanonicalSorted, ServesFacts
<1>5. Alike(nodes, nodes', n, key) /\ Alike(nodes', nodes, n, key)
  BY Zenon, <1>1, <1>2, DropAlike, AlikeMutual
<1> HIDE DEF list, after
<1>6. ASSUME NEW x \in Nodes \ {n} PROVE x \in Range(list) <=> x \in Range(after)
  <2>1. x \in Nodes /\ x # n
    BY Zenon, <1>6
  <2>2. x \in Ids(nodes) => x \in Ids(nodes')
    BY Zenon, <1>2, <1>5, <2>1, IdsAlike
  <2>3. x \in Ids(nodes') => x \in Ids(nodes)
    BY Zenon, <1>2, <1>5, <2>1, IdsAlike
  <2>4. QED
    BY ZenonT(30), <1>3, <1>4, <2>1, <2>2, <2>3 DEF Complete
<1>7. ASSUME NEW x \in Nodes \ {n}, NEW y \in Nodes \ {n}
      PROVE  Precedes(list, x, y) <=> Precedes(after, x, y)
  <2>1. Serves(nodes, key, x, y) => Serves(nodes', key, x, y)
    BY Zenon, <1>5, <1>7, OrderKept
  <2>2. Serves(nodes', key, x, y) => Serves(nodes, key, x, y)
    BY Zenon, <1>5, <1>7, OrderKept
  <2>3. x \in Nodes /\ y \in Nodes
    BY Zenon, <1>7
  <2>4. QED
    BY ZenonT(30), <1>3, <1>4, <2>1, <2>2, <2>3 DEF Complete
<1>8. QED
  BY Zenon, <1>6, <1>7 DEF list, after

\* The node of a key: the one whose point the key meets first.
Leading(ns, key, P) ==
  P \in Members(ns) /\ \A Q \in Members(ns) : Q # P => Clockwise(ns, key, P, Q)

\* getNode answers with the leading point, and there is one unless the ring
\* is empty.
LEMMA OwnerFacts ==
  ASSUME NEW ns, NEW p, Canonical(ns, p), NEW key \in Nat
  PROVE  /\ Members(ns) = {} => getNode(p, key) = {}
         /\ Members(ns) # {} => \E P : Leading(ns, key, P)
         /\ \A P : Leading(ns, key, P) => getNode(p, key) = {P.nodeId}
<1> DEFINE t == Rotated(p, key)
           N == Len(p)
           s == successorIndex(p, key)
<1>1. p \in Seq(RingPoint) /\ Range(p) = Members(ns) /\ Sorted(p)
  BY Zenon, CanonicalSorted DEF Canonical
<1>2. N \in Nat /\ DOMAIN p = 1 .. N
  BY <1>1
<1>3. /\ DOMAIN t = DOMAIN p /\ Range(t) = Range(p) /\ IsInjective(t)
      /\ \A x, y \in Range(p) : Precedes(t, x, y) <=> Clockwise(ns, key, x, y)
  BY Zenon, <1>1, RotatedFacts, RotatedOrder
<1>4. CASE p = <<>>
  <2>1. Members(ns) = {}
    BY <1>1, <1>4 DEF Range
  <2>2. getNode(p, key) = {}
    BY Zenon, <1>4 DEF getNode
  <2>3. QED
    BY Zenon, <2>1, <2>2 DEF Leading
<1>5. CASE p # <<>>
  <2>1. N \in Nat \ {0} /\ 1 \in 1 .. N
    BY <1>1, <1>2, <1>5
  <2>2. s \in 0 .. N - 1
    BY Zenon, <1>1, <1>5, SuccessorFacts
  <2>3. At(s, 1, N) = s + 1
    <3> HIDE DEF s, N
    <3>1. QED
      BY <2>1, <2>2 DEF At
  <2>4. t[1] = p[s + 1]
    <3>1. t[1] = p[At(s, 1, N)]
      BY Zenon, <2>1 DEF Rotated
    <3>2. QED
      BY Zenon, <2>3, <3>1
  <2>5. getNode(p, key) = {t[1].nodeId}
    BY Zenon, <1>5, <2>4 DEF getNode
  <2> HIDE DEF t, s, N
  <2>6. 1 \in DOMAIN t /\ t[1] \in Members(ns)
    BY Zenon, <1>1, <1>2, <1>3, <2>1 DEF Range
  <2>7. ASSUME NEW Q \in Members(ns), Q # t[1]
        PROVE  Clockwise(ns, key, t[1], Q) /\ ~Clockwise(ns, key, Q, t[1])
    <3>1. PICK k \in 1 .. N : Q = t[k]
      BY Zenon, <1>1, <1>2, <1>3, <2>7 DEF Range
    <3>2. 1 < k /\ ~(k < 1)
      <4>1. k # 1
        BY Zenon, <2>7, <3>1
      <4>2. QED
        BY SMTT(30), <1>2, <3>1, <4>1
    <3>3. Precedes(t, t[1], Q) /\ ~Precedes(t, Q, t[1])
      BY ZenonT(30), <1>2, <1>3, <2>6, <3>1, <3>2 DEF Precedes, IsInjective
    <3>4. QED
      BY ZenonT(30), <1>1, <1>3, <2>6, <2>7, <3>3
  <2>8. Leading(ns, key, t[1])
    BY Zenon, <2>6, <2>7 DEF Leading
  <2>9. \A P : Leading(ns, key, P) => P = t[1]
    BY Zenon, <2>6, <2>7 DEF Leading
  <2>10. QED
    BY ZenonT(30), <2>5, <2>6, <2>8, <2>9
<1>6. QED
  BY Zenon, <1>4, <1>5

\* Two rings, the second with a node n more.
Grown(ns, p, ms, q, n) ==
  /\ Table(ns) /\ Canonical(ns, p) /\ Table(ms) /\ Canonical(ms, q)
  /\ Drop(ms, n) = Drop(ns, n) /\ n \notin Ids(ns) /\ n \in Ids(ms)

\* A key changes its node exactly if its node is now n.
MovesTo(p, q, key, n) == getNode(p, key) # getNode(q, key) <=> getNode(q, key) = {n}

\* Only the keys of the node n move.
LEMMA OwnerMoves ==
  ASSUME Hashes, NEW ns, NEW ms, NEW p, NEW q, NEW n, Grown(ns, p, ms, q, n), NEW key \in Nat
  PROVE  MovesTo(p, q, key, n)
<1>0. /\ Table(ns) /\ Canonical(ns, p) /\ Table(ms) /\ Canonical(ms, q)
      /\ Drop(ms, n) = Drop(ns, n) /\ n \notin Ids(ns) /\ n \in Ids(ms)
  BY Zenon DEF Grown
<1>1. Alike(ns, ms, n, key)
  BY Zenon, <1>0, DropAlike
<1>2. /\ Members(ns) = {} => getNode(p, key) = {}
      /\ Members(ns) # {} => \E P : Leading(ns, key, P)
      /\ \A P : Leading(ns, key, P) => getNode(p, key) = {P.nodeId}
  BY Zenon, <1>0, OwnerFacts
<1>3. /\ Members(ms) # {} => \E P : Leading(ms, key, P)
      /\ \A P : Leading(ms, key, P) => getNode(q, key) = {P.nodeId}
  BY Zenon, <1>0, OwnerFacts
<1>4. Ids(ns) = {P.nodeId : P \in Members(ns)} /\ Ids(ms) = {P.nodeId : P \in Members(ms)}
  BY Zenon, <1>0, IdsFacts
<1>5. Members(ms) # {}
  BY Zenon, <1>0, <1>4
<1>6. PICK P : Leading(ms, key, P)
  BY Zenon, <1>3, <1>5
<1>7. getNode(q, key) = {P.nodeId}
  BY Zenon, <1>3, <1>6
<1>8. CASE P.nodeId = n
  <2>1. getNode(p, key) # {n}
    <3>1. CASE Members(ns) = {}
      BY Zenon, <1>2, <3>1
    <3>2. CASE Members(ns) # {}
      <4>1. PICK R : Leading(ns, key, R)
        BY Zenon, <1>2, <3>2
      <4>2. R.nodeId \in Ids(ns) /\ getNode(p, key) = {R.nodeId}
        BY Zenon, <1>2, <1>4, <4>1 DEF Leading
      <4>3. QED
        BY Zenon, <1>0, <4>2
    <3>3. QED
      BY Zenon, <3>1, <3>2
  <2>2. QED
    BY Zenon, <1>7, <1>8, <2>1 DEF MovesTo
<1>9. CASE P.nodeId # n
  <2>1. P \in Members(ns)
    BY Zenon, <1>1, <1>6, <1>9 DEF Leading, Alike
  <2>2. ASSUME NEW Q \in Members(ns), Q # P PROVE Clockwise(ns, key, P, Q)
    <3>1. Q.nodeId # n
      BY Zenon, <1>0, <1>4, <2>2
    <3>2. Q \in Members(ms)
      BY Zenon, <1>1, <2>2, <3>1 DEF Alike
    <3>3. Clockwise(ms, key, P, Q)
      BY Zenon, <1>6, <2>2, <3>2 DEF Leading
    <3>4. QED
      BY ZenonT(30), <1>1, <1>9, <3>1, <3>3 DEF Alike
  <2>3. Leading(ns, key, P)
    BY Zenon, <2>1, <2>2 DEF Leading
  <2>4. getNode(p, key) = {P.nodeId} /\ {P.nodeId} # {n}
    BY ZenonT(30), <1>2, <1>9, <2>3
  <2>5. QED
    BY Zenon, <1>7, <2>4 DEF MovesTo
<1>10. QED
  BY Zenon, <1>8, <1>9

\* A node that has just joined leaves the table it joined.
LEMMA DropLast ==
  ASSUME NEW ns, Table(ns), NEW info \in NodeInfo, \A x \in Range(ns) : x.nodeId # info.nodeId
  PROVE  Drop(Append(ns, info), info.nodeId) = ns
<1> DEFINE a == Append(ns, info)
           n == info.nodeId
           d == Drop(a, n)
<1>1. ns \in Seq(NodeInfo) /\ IsInjective(ns)
  BY Zenon DEF Table
<1>2. info \notin Range(ns)
  BY Zenon
<1>3. /\ a \in Seq(NodeInfo) /\ IsInjective(a) /\ Range(a) = Range(ns) \cup {info}
      /\ \A y, z : Precedes(a, y, z) <=> Precedes(ns, y, z) \/ (y \in Range(ns) /\ z = info)
  BY Zenon, <1>1, <1>2, AppendFacts
<1> HIDE DEF a
<1>4. /\ d \in Seq(NodeInfo) /\ Range(d) = {x \in Range(a) : x.nodeId # n}
      /\ IsInjective(d)
      /\ \A x, y : Precedes(d, x, y) <=> x.nodeId # n /\ y.nodeId # n /\ Precedes(a, x, y)
  BY Zenon, <1>3, DropFacts
<1> HIDE DEF d
<1>5. Range(d) = Range(ns)
  BY Zenon, <1>3, <1>4
<1>6. \A x, y \in Range(d) : Precedes(d, x, y) => Precedes(ns, x, y)
  BY Zenon, <1>3, <1>4
<1>7. d = ns
  BY ZenonT(30), <1>1, <1>4, <1>5, <1>6, SameOrder
<1>8. QED
  BY Zenon, <1>7 DEF d, a

\* A step that makes n a member, or ends its membership, touches only n.
LEMMA OnlyOneChanges ==
  ASSUME IInv, [Next]_vars, NEW n, ~(n \in Ids(nodes) <=> n \in Ids(nodes'))
  PROVE  Drop(nodes', n) = Drop(nodes, n)
<1>1. Hashes /\ Table(nodes) /\ Table(nodes')
  BY Zenon, RingStep DEF IInv
<1>0. ASSUME NEW m
      PROVE  /\ Table(Drop(nodes, m))
             /\ Range(Drop(nodes, m)) = {x \in Range(nodes) : x.nodeId # m}
  <2>1. Hashes /\ Table(nodes)
    BY ZenonT(30), <1>1
  <2>2. Table(Drop(nodes, m))
    BY Zenon, <2>1, DropTable
  <2>3. nodes \in Seq(NodeInfo)
    BY Zenon, <2>1 DEF Table
  <2>4. Range(Drop(nodes, m)) = {x \in Range(nodes) : x.nodeId # m}
    BY ZenonT(30), <2>3, DropFacts
  <2>5. QED
    BY Zenon, <2>2, <2>4
<1>2. \A ns, x : x \in Ids(ns) <=> \E e \in Range(ns) : e.nodeId = x
  BY Zenon DEF Ids, Range
<1>3. ASSUME NEW m \in Nodes, NEW w \in Weights, addNode(m, w)
      PROVE  Drop(nodes', n) = Drop(nodes, n)
  <2> DEFINE info == [nodeId |-> m, weight |-> w]
             d == Drop(nodes, m)
  <2>1. nodes' = Append(d, info)
    BY <1>3 DEF addNode, Added
  <2>2. info \in NodeInfo /\ info.nodeId = m
    BY DEF NodeInfo
  <2> HIDE DEF info
  <2>3. Table(d) /\ Range(d) = {x \in Range(nodes) : x.nodeId # m}
    BY Zenon, <1>0
  <2>4. Range(nodes') = Range(d) \cup {info}
    <3>1. \A x \in Range(d) : x.nodeId # info.nodeId
      BY Zenon, <2>2, <2>3
    <3> HIDE DEF d
    <3>2. Range(Append(d, info)) = Range(d) \cup {info}
      BY ZenonT(30), <1>1, <2>2, <2>3, <3>1, JoinTable
    <3>3. QED
      BY Zenon, <2>1, <3>2
  <2>5. n = m
    <3>1. SUFFICES ASSUME n # m PROVE n \in Ids(nodes) <=> n \in Ids(nodes')
      BY Zenon
    <3>2. ASSUME NEW e, e.nodeId = n PROVE e \in Range(nodes) <=> e \in Range(nodes')
      BY ZenonT(30), <2>2, <2>3, <2>4, <3>1, <3>2
    <3>3. QED
      BY Zenon, <1>2, <3>2
  <2>6. n \in Ids(nodes')
    BY ZenonT(30), <1>2, <2>2, <2>4, <2>5
  <2>7. Drop(nodes, n) = nodes
    BY ZenonT(30), <1>1, <1>2, <2>6, DropAbsent
  <2>8. nodes' = Append(nodes, info)
    BY ZenonT(30), <2>1, <2>5, <2>7
  <2>9. Drop(Append(nodes, info), n) = nodes
    <3>1. \A x \in Range(nodes) : x.nodeId # info.nodeId
      BY ZenonT(30), <1>2, <2>2, <2>5, <2>6
    <3>2. QED
      BY ZenonT(30), <1>1, <2>2, <2>5, <3>1, DropLast
  <2>10. QED
    BY ZenonT(30), <2>7, <2>8, <2>9
<1>4. ASSUME NEW m \in Nodes, removeNode(m)
      PROVE  Drop(nodes', n) = Drop(nodes, n)
  <2>1. nodes' = Drop(nodes, m)
    BY Zenon, <1>4 DEF removeNode
  <2>2. Range(nodes') = {x \in Range(nodes) : x.nodeId # m}
    BY ZenonT(30), <1>0, <2>1
  <2>3. n = m
    <3>1. SUFFICES ASSUME n # m PROVE n \in Ids(nodes) <=> n \in Ids(nodes')
      BY Zenon
    <3>2. ASSUME NEW e, e.nodeId = n PROVE e \in Range(nodes) <=> e \in Range(nodes')
      BY Zenon, <2>2, <3>1, <3>2
    <3>3. QED
      BY ZenonT(30), <1>2, <3>2
  <2>4. Drop(nodes', n) = nodes'
    BY ZenonT(30), <1>1, <2>2, <2>3, DropAbsent
  <2>5. QED
    BY ZenonT(30), <2>1, <2>3, <2>4
<1>5. CASE UNCHANGED vars
  BY Zenon, <1>5 DEF vars
<1>6. QED
  BY ZenonT(30), <1>3, <1>4, <1>5 DEF Next

\* The number of keys reported as moved.
LEMMA MovementStep ==
  ASSUME IInv, [Next]_vars, NEW n \in Nodes
  PROVE  /\ n \notin Ids(nodes) /\ n \in Ids(nodes') =>
              movedCount(points, points', Positions) =
              Cardinality({k \in Positions : getNode(points', k) = {n}})
         /\ n \in Ids(nodes) /\ n \notin Ids(nodes') =>
              movedCount(points, points', Positions) =
              Cardinality({k \in Positions : getNode(points, k) = {n}})
<1> DEFINE moved == {k \in Positions : getNode(points, k) # getNode(points', k)}
<1>1. movedCount(points, points', Positions) = Cardinality(moved)
  BY Zenon DEF movedCount
<1>2. /\ Hashes /\ Table(nodes) /\ Canonical(nodes, points)
      /\ Table(nodes') /\ Canonical(nodes', points') /\ \A key \in Positions : key \in Nat
  BY Zenon, RingStep, RingAssumption DEF IInv
<1>3. ASSUME n \notin Ids(nodes), n \in Ids(nodes')
      PROVE  moved = {k \in Positions : getNode(points', k) = {n}}
  <2>1. Drop(nodes', n) = Drop(nodes, n)
    BY Zenon, <1>3, OnlyOneChanges
  <2>2. ASSUME NEW k \in Positions
        PROVE  getNode(points, k) # getNode(points', k) <=> getNode(points', k) = {n}
    <3>1. k \in Nat
      BY Zenon, <1>2
    <3>2. Grown(nodes, points, nodes', points', n)
      BY Zenon, <1>2, <1>3, <2>1 DEF Grown
    <3>3. MovesTo(points, points', k, n)
      BY ZenonT(30), <1>2, <3>1, <3>2, OwnerMoves
    <3>4. QED
      BY Zenon, <3>3 DEF MovesTo
  <2>3. QED
    BY Zenon, <2>2
<1>4. ASSUME n \in Ids(nodes), n \notin Ids(nodes')
      PROVE  moved = {k \in Positions : getNode(points, k) = {n}}
  <2>1. Drop(nodes, n) = Drop(nodes', n)
    BY ZenonT(30), <1>4, OnlyOneChanges
  <2>2. ASSUME NEW k \in Positions
        PROVE  getNode(points', k) # getNode(points, k) <=> getNode(points, k) = {n}
    <3>1. k \in Nat
      BY Zenon, <1>2
    <3>2. Grown(nodes', points', nodes, points, n)
      BY Zenon, <1>2, <1>4, <2>1 DEF Grown
    <3>3. MovesTo(points', points, k, n)
      BY ZenonT(30), <1>2, <3>1, <3>2, OwnerMoves
    <3>4. QED
      BY ZenonT(30), <3>3 DEF MovesTo
  <2>3. QED
    BY Zenon, <2>2
<1>5. QED
  BY ZenonT(30), <1>1, <1>3, <1>4

\* A node that joins takes keys only for itself and one that leaves gives up
\* only its own: the others serve every key in the order they had, for any
\* hash, any weights and any history, and analyzeKeyMovement counts the keys
\* of the node that came or went.
THEOREM KeysMoveOnlyWithTheirNode == Spec => MovesOnlyItsKeys
<1>1. IInv /\ [Next]_vars =>
        [\A n \in Nodes :
           Drop(nodes', n) = Drop(nodes, n) =>
             \A key \in Positions :
               \A list \in {getNodesForKey(points, key, Cardinality(Nodes))} :
                 \A after \in {getNodesForKey(points', key, Cardinality(Nodes))} :
                   \A x \in Nodes \ {n} :
                     /\ x \in Range(list) <=> x \in Range(after)
                     /\ \A y \in Nodes \ {n} :
                          Precedes(list, x, y) <=> Precedes(after, x, y)]_vars
  <2>1. SUFFICES ASSUME IInv, [Next]_vars, NEW n \in Nodes,
                        Drop(nodes', n) = Drop(nodes, n), NEW key \in Positions,
                        NEW list, list = getNodesForKey(points, key, Cardinality(Nodes)),
                        NEW after, after = getNodesForKey(points', key, Cardinality(Nodes)),
                        NEW x \in Nodes \ {n}
                 PROVE  /\ x \in Range(list) <=> x \in Range(after)
                        /\ \A y \in Nodes \ {n} :
                             Precedes(list, x, y) <=> Precedes(after, x, y)
    BY Zenon
  <2>2. QED
    BY Zenon, <2>1, OthersStep
<1>2. IInv /\ [Next]_vars =>
        [\A n \in Nodes :
           LET owned(p) == Cardinality({k \in Positions : getNode(p, k) = {n}})
               moved == movedCount(points, points', Positions)
           IN /\ n \notin Ids(nodes) /\ n \in Ids(nodes') => moved = owned(points')
              /\ n \in Ids(nodes) /\ n \notin Ids(nodes') => moved = owned(points)]_vars
  BY Zenon, MovementStep
<1>3. QED
  BY <1>1, <1>2, Invariance, PTL DEF Spec, MovesOnlyItsKeys, OthersKeepOrder, MovementReported
=============================================================================
