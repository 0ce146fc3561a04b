--------------------------- MODULE EvictionProofs ---------------------------
(***************************************************************************)
(* Proofs about the eviction policies as the store drives them: for any    *)
(* keys, capacity, hash and bounds, through every mix of sets, hits,       *)
(* deletes, clears and switches, the structures of the active policy stay  *)
(* intact, the store finds room, the victim is a coldest candidate, and    *)
(* the linked list implements the recency order of RecencyOrder.           *)
(***************************************************************************)
EXTENDS Eviction, FiniteSetTheorems, TLAPS

\* A leaf is left to Zenon unless it names another prover.
USE ZenonT(30)

\* The constants one by one.
LEMMA Parameters ==
  /\ Null \notin Keys /\ Rows # {} /\ hash \in [Rows -> [Keys -> Columns]]
  /\ Capacity \in Nat \ {0} /\ MaxCounter \in Nat \ {0} /\ agingThreshold \in Nat \ {0}
  /\ bottomK \in Nat \ {0} /\ MaxReplay \in Nat \ {0} /\ MaxFrequency \in Nat \ {0}
  /\ MaxNow \in Nat
BY EvictionAssumption

\* The metadata an entry of the store can have at time n.
Entries(n) == [lastAccessedAt : 0 .. n, frequency : 0 .. MaxFrequency]

\* e is an entry last used at time n, f times in all.
IsEntry(e, n, f) ==
  e \in Entries(n) /\ e.lastAccessedAt = n /\ e.frequency = f

\* The metadata a use writes.
LEMMA EntryWritten ==
  ASSUME NEW n \in Nat, NEW f \in 0 .. MaxFrequency
  PROVE  IsEntry([lastAccessedAt |-> n, frequency |-> f], n, f)
BY SMT DEF Entries, IsEntry

\* How often an entry was used is within bounds.
LEMMA EntryFrequency ==
  ASSUME NEW n, NEW e \in Entries(n)
  PROVE  e.frequency \in 0 .. MaxFrequency
BY SMT DEF Entries

\* An entry stays one as time passes.
LEMMA EntryLater ==
  ASSUME NEW n \in Nat, NEW e \in Entries(n)
  PROVE  e \in Entries(n + 1)
BY SMT DEF Entries

\* A count below a bound may go up by one, and no count is below zero.
LEMMA CountUp ==
  /\ \A b \in Nat : \A a \in 0 .. b : a < b => a + 1 \in 0 .. b
  /\ \A b \in Nat : 0 \in 0 .. b
BY SMT

-----------------------------------------------------------------------------
(* Induction and recursion *)

\* A set of naturals with 0 and with n + 1 for each of its n has them all.
LEMMA Induction ==
  ASSUME NEW S, 0 \in S, \A n \in Nat : n \in S => n + 1 \in S
  PROVE  \A n \in Nat : n \in S
<1> DEFINE T == Nat \ S
<1>1. SUFFICES ASSUME T # {} PROVE FALSE
  OBVIOUS
<1>2. PICK x \in T : \A y \in T : <<y, x>> \notin OpToRel(<, Nat)
  BY <1>1, NatLessThanWellFounded, WFMin
<1>3. \A y \in T : ~(y < x)
  BY <1>2 DEF OpToRel
<1>4. x # 0 /\ x - 1 \in Nat /\ x - 1 \in S
  BY SMT, <1>3
<1>5. QED
  BY SMT, <1>4

\* f[i] is what G[1], ..., G[i], one after the other, make of v.
Iterates(f, v, n, G) == \A i \in 0 .. n : f[i] = IF i = 0 THEN v ELSE G[i][f[i - 1]]

\* There is such a function.  The loops of the code are written that way.
LEMMA Iteration ==
  ASSUME NEW V, NEW v \in V, NEW n \in Nat, NEW G \in [1 .. n -> [V -> V]]
  PROVE  \E f \in [0 .. n -> V] : Iterates(f, v, n, G)
<1> DEFINE Upto(f, m) ==
             \A i \in 0 .. n : i <= m => f[i] = IF i = 0 THEN v ELSE G[i][f[i - 1]]
           S == {m \in Nat : \E f \in [0 .. n -> V] : Upto(f, m)}
<1>1. 0 \in S
  <2>1. [i \in 0 .. n |-> v] \in [0 .. n -> V] /\ Upto([i \in 0 .. n |-> v], 0)
    BY SMT
  <2>2. QED
    BY <2>1
<1>2. ASSUME NEW m \in Nat, m \in S PROVE m + 1 \in S
  <2>1. PICK f \in [0 .. n -> V] : Upto(f, m)
    BY <1>2
  <2>2. CASE m + 1 \in 1 .. n
    <3> DEFINE g == [f EXCEPT ![m + 1] = G[m + 1][f[m]]]
    <3>1. G[m + 1][f[m]] \in V
      <4>1. m \in 0 .. n
        BY SMT, <2>2
      <4>2. QED
        BY <2>2, <4>1
    <3>2. g \in [0 .. n -> V]
      BY <3>1
    <3>3. /\ g[m + 1] = G[m + 1][f[m]]
          /\ \A i \in 0 .. n : i # m + 1 => g[i] = f[i]
      BY SMT, <2>2
    <3> HIDE DEF g
    <3>4. ASSUME NEW i \in 0 .. n, i <= m + 1
          PROVE  g[i] = IF i = 0 THEN v ELSE G[i][g[i - 1]]
      <4>1. CASE i = m + 1
        <5>1. m \in 0 .. n /\ m # m + 1 /\ m + 1 # 0 /\ (m + 1) - 1 = m
          BY SMT, <2>2
        <5>2. g[m] = f[m]
          BY <3>3, <5>1
        <5>3. QED
          BY <3>3, <4>1, <5>1, <5>2
      <4>2. CASE i # m + 1
        <5>1. i <= m /\ (i # 0 => i - 1 \in 0 .. n /\ i - 1 # m + 1)
          BY SMT, <3>4, <4>2
        <5>2. g[i] = f[i] /\ (i # 0 => g[i - 1] = f[i - 1])
          BY <3>3, <4>2, <5>1
        <5>3. f[i] = IF i = 0 THEN v ELSE G[i][f[i - 1]]
          BY <2>1, <5>1
        <5>4. QED
          BY <5>2, <5>3
      <4>3. QED
        BY <4>1, <4>2
    <3>5. m + 1 \in Nat
      BY SMT
    <3>6. QED
      BY <3>2, <3>4, <3>5
  <2>3. CASE m + 1 \notin 1 .. n
    <3>1. Upto(f, m + 1) /\ m + 1 \in Nat
      <4>1. \A i \in 0 .. n : i <= m + 1 => i <= m
        BY SMT, <2>3
      <4>2. QED
        BY SMT, <2>1, <4>1
    <3>2. QED
      BY <3>1
  <2>4. QED
    BY <2>2, <2>3
<1> HIDE DEF S
<1>3. PICK f \in [0 .. n -> V] : Upto(f, n)
  <2>1. n \in S
    BY <1>1, <1>2, Induction
  <2>2. QED
    BY <2>1 DEF S
<1>4. \A i \in 0 .. n : i <= n
  BY SMT
<1>5. QED
  BY <1>3, <1>4 DEF Iterates

-----------------------------------------------------------------------------
(* Ranks *)

\* A nonempty set of naturals has a least element.
LEMMA LeastExists ==
  ASSUME NEW S \in SUBSET Nat, S # {}
  PROVE  \E m \in S : \A i \in S : m <= i
<1> DEFINE T == {0 .. i : i \in S}
<1>1. ASSUME NEW i \in S PROVE 0 .. i \in FiniteSubsetsOf(Nat)
  <2>1. IsFiniteSet(0 .. i)
    BY SMT, FS_Interval
  <2>2. QED
    BY SMT, <2>1 DEF FiniteSubsetsOf
<1>2. T \subseteq FiniteSubsetsOf(Nat) /\ T # {}
  BY <1>1
<1>3. PICK x \in T : \A y \in T : ~(<<y, x>> \in StrictSubsetOrdering(Nat))
  BY <1>2, FS_StrictSubsetOrderingWellFounded, WFMin
<1>4. PICK m \in S : x = 0 .. m
  OBVIOUS
<1>5. ASSUME NEW i \in S, i < m PROVE FALSE
  <2>1. 0 .. i \subseteq 0 .. m /\ m \in 0 .. m /\ m \notin 0 .. i
    BY SMT, <1>5
  <2>2. <<0 .. i, 0 .. m>> \in StrictSubsetOrdering(Nat)
    BY SMT, <2>1 DEF StrictSubsetOrdering
  <2>3. QED
    BY <1>3, <1>4, <2>2
<1>6. QED
  BY SMT, <1>5

\* The members of H below i: its rank is how many there are.
Lower(H, i) == {j \in H : j < i}

-----------------------------------------------------------------------------
(* The linked list *)

\* The order after a use of k, and after its removal.
Dropped(R, k) == {e \in R : e[1] # k /\ e[2] # k}

AfterUse(T, R, k) == Dropped(R, k) \cup ((T \ {k}) \X {k})

\* What unlink makes of one direction a, with end ea, of which b is the other,
\* and what pushFront makes of the links next and their end.
Cut(a, b, k) ==
  [x \in Keys |-> IF x = k THEN Null ELSE IF x = b[k] THEN a[k] ELSE a[x]]

CutEnd(a, ea, b, k) == IF a[k] = Null /\ ea = k THEN b[k] ELSE ea

Grown(b, k, ea) == [b EXCEPT ![k] = ea]

GrownEnd(eb, k) == IF eb = Null THEN k ELSE eb

Fronted(a, k, ea) ==
  [x \in Keys |-> IF x = k THEN Null ELSE IF x = ea THEN k ELSE a[x]]

Links == [Keys -> Keys \cup {Null}]

Lists == [nodes : SUBSET Keys, prev : Links, next : Links,
          head : Keys \cup {Null}, tail : Keys \cup {Null}]

-----------------------------------------------------------------------------
(* Orders *)

\* Reversing pairs twice, and what a reversed pair is.
LEMMA ConversePairs ==
  ASSUME NEW T, NEW R \in SUBSET (T \X T)
  PROVE  /\ Converse(R) \in SUBSET (T \X T)
         /\ \A x, y : <<x, y>> \in Converse(R) <=> <<y, x>> \in R
BY SMT DEF Converse

-----------------------------------------------------------------------------
(* The operations and the pointer assignments they make *)

\* The list before anything is recorded, and after reset.
LEMMA ResetSpells ==
  ASSUME Null \notin Keys
  PROVE  LruReset \in Lists /\ Spells(LruReset, {})
<1>1. /\ LruReset.nodes = {} /\ LruReset.head = Null /\ LruReset.tail = Null
      /\ \A k \in Keys : LruReset.prev[k] = Null /\ LruReset.next[k] = Null
  BY DEF LruReset, Unlinked
<1>2. LruReset \in Lists
  BY DEF LruReset, Unlinked, Lists, Links
<1>3. Converse({}) = {}
  BY DEF Converse
<1>4. QED
  BY <1>1, <1>2, <1>3 DEF Spells, TotalOrder, Leads

\* unlink takes k out of the order; the map of nodes is the caller's business.
LEMMA UnlinkSpells ==
  \A l \in Lists : \A R : \A k \in l.nodes :
    /\ Null \notin Keys /\ Spells(l, R)
    => /\ unlink(l, k) \in Lists /\ unlink(l, k).nodes = l.nodes
       /\ TotalOrder(l.nodes \ {k}, Dropped(R, k))
       /\ Leads(l.nodes \ {k}, Dropped(R, k), unlink(l, k).prev, unlink(l, k).head)
       /\ Leads(l.nodes \ {k}, Converse(Dropped(R, k)),
                unlink(l, k).next, unlink(l, k).tail)
\* A reversed total order is one.
<1>ConverseTotal. ASSUME NEW T, NEW R, TotalOrder(T, R)
                  PROVE  TotalOrder(T, Converse(R))
  <2> USE <1>ConverseTotal
  <2>1. R \in SUBSET (T \X T)
    BY DEF TotalOrder
  <2>2. QED
    BY <2>1, ConversePairs DEF TotalOrder
\* What is left of a total order without k is one.
<1>DroppedTotal. ASSUME NEW T, NEW R, TotalOrder(T, R), NEW k
                 PROVE  /\ TotalOrder(T \ {k}, Dropped(R, k))
                        /\ \A x, y \in T \ {k} : <<x, y>> \in Dropped(R, k) <=> <<x, y>> \in R
                        /\ Converse(Dropped(R, k)) = Dropped(Converse(R), k)
  <2> USE <1>DroppedTotal
  <2>1. \A x, y \in T \ {k} : <<x, y>> \in Dropped(R, k) <=> <<x, y>> \in R
    BY DEF Dropped
  <2>2. Dropped(R, k) \subseteq (T \ {k}) \X (T \ {k})
    BY DEF Dropped, TotalOrder
  <2>3. Converse(Dropped(R, k)) = Dropped(Converse(R), k)
    BY SMT DEF Converse, Dropped
  <2>4. QED
    BY <2>1, <2>2, <2>3 DEF TotalOrder
\* The two directions agree: if b leads from k to x, then a from x to k.
<1>LinksAgree. ASSUME NEW T \in SUBSET Keys, NEW R, TotalOrder(T, R), Null \notin Keys,
                      NEW a, NEW ea, Leads(T, R, a, ea),
                      NEW b, NEW eb, Leads(T, Converse(R), b, eb),
                      NEW k \in T, NEW x \in T
               PROVE  b[k] = x <=> a[x] = k
  <2> USE <1>LinksAgree
  <2>1. /\ R \in SUBSET (T \X T)
        /\ \A y, z : <<y, z>> \in Converse(R) <=> <<z, y>> \in R
    BY ConversePairs DEF TotalOrder
  <2>2. ASSUME b[k] = x PROVE a[x] = k
    <3>1. <<x, k>> \in R /\ \A z \in T : ~(<<x, z>> \in R /\ <<z, k>> \in R)
      <4>1. Adjacent(T, Converse(R), k, x)
        BY <2>2 DEF Leads
      <4>2. QED
        BY <2>1, <4>1 DEF Adjacent
    <3>2. a[x] \in T /\ Adjacent(T, R, x, a[x])
      BY <3>1 DEF Leads
    <3>3. QED
      BY <3>1, <3>2 DEF Adjacent, TotalOrder
  <2>3. ASSUME a[x] = k PROVE b[k] = x
    <3>1. <<x, k>> \in R /\ \A z \in T : ~(<<x, z>> \in R /\ <<z, k>> \in R)
      BY <2>3 DEF Leads, Adjacent
    <3>2. b[k] \in T /\ Adjacent(T, Converse(R), k, b[k])
      BY <2>1, <3>1 DEF Leads
    <3>3. <<b[k], k>> \in R /\ \A z \in T : ~(<<b[k], z>> \in R /\ <<z, k>> \in R)
      BY <2>1, <3>2 DEF Adjacent
    <3>4. QED
      BY <3>1, <3>2, <3>3 DEF TotalOrder
  <2>4. QED
    BY <2>2, <2>3
\* Taking k out of one direction, as unlink does for prev and for next.
<1>UnlinkHalf. ASSUME NEW T \in SUBSET Keys, NEW R, TotalOrder(T, R), Null \notin Keys,
                      NEW a \in Links, NEW ea, Leads(T, R, a, ea),
                      NEW b \in Links, NEW eb, Leads(T, Converse(R), b, eb),
                      NEW k \in T
               PROVE  Leads(T \ {k}, Dropped(R, k), Cut(a, b, k), CutEnd(a, ea, b, k))
  <2> USE <1>UnlinkHalf
  <2> DEFINE S == T \ {k}
             Q == Dropped(R, k)
             c == [x \in Keys |-> IF x = k THEN Null ELSE IF x = b[k] THEN a[k] ELSE a[x]]
             ec == IF a[k] = Null /\ ea = k THEN b[k] ELSE ea
  <2>1. \A x, y \in S : <<x, y>> \in Q <=> <<x, y>> \in R
    BY <1>DroppedTotal
  <2>2. \A x \in S : c[x] = IF x = b[k] THEN a[k] ELSE a[x]
    OBVIOUS
  <2> HIDE DEF c
  <2>3. \A x \in S : x = b[k] <=> a[x] = k
    BY SMT, <1>LinksAgree
  <2>4. b[k] \in S \cup {Null}
    BY ConversePairs DEF Leads, Adjacent, TotalOrder
  <2>5. ASSUME NEW x \in S, x = b[k]
        PROVE  /\ IF c[x] = Null THEN \A y \in S : <<x, y>> \notin Q
                  ELSE c[x] \in S /\ Adjacent(S, Q, x, c[x])
               /\ ec = x <=> c[x] = Null
    <3>1. /\ c[x] = a[k] /\ a[x] = k /\ <<x, k>> \in R
          /\ \A z \in T : ~(<<x, z>> \in R /\ <<z, k>> \in R)
      BY SMT, <2>2, <2>3, <2>5 DEF Leads, Adjacent
    <3>2. CASE a[k] = Null
      <4>1. \A y \in T : <<k, y>> \notin R
        BY <3>2 DEF Leads
      <4>2. \A y \in S : <<x, y>> \notin R
        BY <3>1, <4>1 DEF TotalOrder
      <4>3. ec = x
        BY <2>5, <3>2 DEF Leads
      <4>4. QED
        BY <2>1, <3>1, <3>2, <4>2, <4>3
    <3>3. CASE a[k] # Null
      <4>1. /\ a[k] \in T /\ <<k, a[k]>> \in R
            /\ \A z \in T : ~(<<k, z>> \in R /\ <<z, a[k]>> \in R)
        BY <3>3 DEF Leads, Adjacent
      <4>2. a[k] \in S /\ <<x, a[k]>> \in R
        BY <3>1, <4>1 DEF TotalOrder
      <4>3. \A z \in S : ~(<<x, z>> \in R /\ <<z, a[k]>> \in R)
        BY <3>1, <4>1 DEF TotalOrder
      <4>4. ec = ea /\ ea # x
        BY <3>1, <3>3 DEF Leads
      <4>5. QED
        BY SMTT(30), <2>1, <3>1, <3>3, <4>2, <4>3, <4>4 DEF Adjacent
    <3>4. QED
      BY <3>2, <3>3
  <2>6. ASSUME NEW x \in S, x # b[k]
        PROVE  /\ IF c[x] = Null THEN \A y \in S : <<x, y>> \notin Q
                  ELSE c[x] \in S /\ Adjacent(S, Q, x, c[x])
               /\ ec = x <=> c[x] = Null
    <3>1. c[x] = a[x] /\ a[x] # k
      BY <2>2, <2>3, <2>6
    <3>2. /\ IF a[x] = Null THEN \A y \in T : <<x, y>> \notin R
             ELSE a[x] \in T /\ Adjacent(T, R, x, a[x])
          /\ ea = x <=> a[x] = Null
      BY DEF Leads
    <3>3. ec = x <=> ea = x
      BY <2>6
    <3>4. QED
      BY <2>1, <3>1, <3>2, <3>3 DEF Adjacent
  <2>7. \A x \in Keys \ S : c[x] = Null
    BY <2>4 DEF Leads, c
  <2>8. ec \in S \cup {Null}
    BY <2>4 DEF Leads
  <2>9. ASSUME ec = Null PROVE S = {}
    <3>1. a[k] = Null /\ ea = k /\ b[k] = Null
      BY <2>9 DEF Leads
    <3>2. \A x \in T : <<k, x>> \notin R /\ <<x, k>> \notin R
      BY <3>1, ConversePairs DEF Leads, TotalOrder
    <3>3. QED
      BY <3>2 DEF TotalOrder
  <2>10. QED
    <3>1. Leads(S, Q, c, ec)
      BY <2>5, <2>6, <2>7, <2>8, <2>9 DEF Leads
    <3>2. c = Cut(a, b, k) /\ ec = CutEnd(a, ea, b, k)
      BY DEF Cut, CutEnd, c
    <3> HIDE DEF ec
    <3>3. QED
      BY <3>1, <3>2
<1>Main. ASSUME Null \notin Keys, NEW l \in Lists, NEW R, Spells(l, R), NEW k \in l.nodes
         PROVE  /\ unlink(l, k) \in Lists /\ unlink(l, k).nodes = l.nodes
                /\ TotalOrder(l.nodes \ {k}, Dropped(R, k))
                /\ Leads(l.nodes \ {k}, Dropped(R, k), unlink(l, k).prev, unlink(l, k).head)
                /\ Leads(l.nodes \ {k}, Converse(Dropped(R, k)),
                         unlink(l, k).next, unlink(l, k).tail)
  <2> USE <1>Main
  <2>1. /\ l.nodes \in SUBSET Keys /\ l.prev \in Links /\ l.next \in Links
        /\ l.head \in Keys \cup {Null} /\ l.tail \in Keys \cup {Null} /\ k \in Keys
    BY DEF Lists
  <2>2. /\ TotalOrder(l.nodes, R) /\ Leads(l.nodes, R, l.prev, l.head)
        /\ Leads(l.nodes, Converse(R), l.next, l.tail)
    BY DEF Spells
  <2>3. Converse(Converse(R)) = R
    <3>1. R \in SUBSET (l.nodes \X l.nodes)
      BY <2>2 DEF TotalOrder
    <3>2. /\ Converse(Converse(R)) \in SUBSET (l.nodes \X l.nodes)
          /\ \A x, y : <<x, y>> \in Converse(Converse(R)) <=> <<x, y>> \in R
      BY <3>1, ConversePairs
    <3>3. QED
      BY SMT, <3>1, <3>2
  <2>4. /\ TotalOrder(l.nodes, Converse(R))
        /\ TotalOrder(l.nodes \ {k}, Dropped(R, k))
        /\ Converse(Dropped(R, k)) = Dropped(Converse(R), k)
    BY <2>2, <1>ConverseTotal, <1>DroppedTotal
  <2> DEFINE p == Cut(l.prev, l.next, k)
             n == Cut(l.next, l.prev, k)
             h == CutEnd(l.prev, l.head, l.next, k)
             t == CutEnd(l.next, l.tail, l.prev, k)
  <2>5. /\ unlink(l, k).nodes = l.nodes
        /\ unlink(l, k).prev = p /\ unlink(l, k).next = n
        /\ unlink(l, k).head = h /\ unlink(l, k).tail = t
        /\ unlink(l, k) \in Lists
    <3>1. /\ p \in Links /\ n \in Links
          /\ h \in Keys \cup {Null} /\ t \in Keys \cup {Null}
      BY <2>1 DEF Links, Cut, CutEnd
    <3>2. unlink(l, k) = [l EXCEPT !.prev = p, !.next = n, !.head = h, !.tail = t]
      BY DEF unlink, Cut, CutEnd
    <3> HIDE DEF p, n, h, t
    <3>3. QED
      BY <3>1, <3>2 DEF Lists
  <2>6. Leads(l.nodes \ {k}, Dropped(R, k), p, h)
    BY SMTT(30), <2>1, <2>2, <1>UnlinkHalf
  <2>7. Leads(l.nodes \ {k}, Dropped(Converse(R), k), n, t)
    BY SMTT(30), <2>1, <2>2, <2>3, <2>4, <1>UnlinkHalf
  <2>8. QED
    BY <2>4, <2>5, <2>6, <2>7
<1> QED
  BY <1>Main

\* pushFront makes k, which is not in the order, the most recent key.
LEMMA PushFrontSpells ==
  \A l \in Lists, k \in Keys : \A R :
    /\ Null \notin Keys /\ k \in l.nodes /\ TotalOrder(l.nodes \ {k}, R)
    /\ Leads(l.nodes \ {k}, R, l.prev, l.head)
    /\ Leads(l.nodes \ {k}, Converse(R), l.next, l.tail)
    => /\ pushFront(l, k) \in Lists /\ pushFront(l, k).nodes = l.nodes
       /\ Spells(pushFront(l, k), R \cup ((l.nodes \ {k}) \X {k}))
\* A total order with a new greatest element is one.
<1>GreatestTotal. ASSUME NEW T, NEW R, TotalOrder(T, R), NEW k, k \notin T
                  PROVE  /\ TotalOrder(T \cup {k}, R \cup (T \X {k}))
                         /\ \A x, y \in T : <<x, y>> \in R \cup (T \X {k}) <=> <<x, y>> \in R
                         /\ \A x \in T : <<x, k>> \in R \cup (T \X {k})
                         /\ \A x \in T \cup {k} : <<k, x>> \notin R \cup (T \X {k})
  <2> USE <1>GreatestTotal
  <2>1. /\ \A x, y \in T : <<x, y>> \in R \cup (T \X {k}) <=> <<x, y>> \in R
        /\ \A x \in T : <<x, k>> \in R \cup (T \X {k})
        /\ \A x \in T \cup {k} : <<k, x>> \notin R \cup (T \X {k})
    BY DEF TotalOrder
  <2>2. R \cup (T \X {k}) \subseteq (T \cup {k}) \X (T \cup {k})
    BY DEF TotalOrder
  <2>3. QED
    BY <2>1, <2>2 DEF TotalOrder
\* A new key in front: prev leads to it from the old head.
<1>PushPrev. ASSUME NEW T \in SUBSET Keys, NEW R, TotalOrder(T, R), Null \notin Keys,
                    NEW a \in Links, NEW ea, Leads(T, R, a, ea),
                    NEW k \in Keys \ T
             PROVE  Leads(T \cup {k}, R \cup (T \X {k}), Fronted(a, k, ea), k)
  <2> USE <1>PushPrev
  <2> DEFINE S == T \cup {k}
             Q == R \cup (T \X {k})
             c == Fronted(a, k, ea)
  <2>1. /\ \A x, y \in T : <<x, y>> \in Q <=> <<x, y>> \in R
        /\ \A x \in T : <<x, k>> \in Q
        /\ \A x \in S : <<k, x>> \notin Q
    BY <1>GreatestTotal
  <2>2. c[k] = Null /\ \A x \in T : c[x] = IF x = ea THEN k ELSE a[x]
    BY DEF Fronted
  <2> HIDE DEF Q, c
  <2>3. ASSUME NEW x \in T, x = ea
        PROVE  c[x] = k /\ Adjacent(S, Q, x, k)
    BY <2>1, <2>2, <2>3 DEF Leads, Adjacent
  <2>4. ASSUME NEW x \in T, x # ea
        PROVE  c[x] \in T /\ Adjacent(S, Q, x, c[x])
    <3>1. c[x] = a[x] /\ a[x] \in T /\ Adjacent(T, R, x, a[x])
      BY <2>2, <2>4 DEF Leads
    <3>2. QED
      BY <2>1, <3>1 DEF Adjacent
  <2>5. \A x \in Keys \ S : c[x] = Null
    BY DEF c, Leads, Fronted
  <2>6. Leads(S, Q, c, k)
    BY SMT, <2>1, <2>2, <2>3, <2>4, <2>5 DEF Leads
  <2>7. QED
    BY <2>6 DEF Q, c
\* A new key in front: next leads from it to the old head.
<1>PushNext. ASSUME NEW T \in SUBSET Keys, NEW R, TotalOrder(T, R), Null \notin Keys,
                    NEW a \in Links, NEW ea, Leads(T, R, a, ea),
                    NEW b \in Links, NEW eb, Leads(T, Converse(R), b, eb),
                    NEW k \in Keys \ T
             PROVE  Leads(T \cup {k}, Converse(R \cup (T \X {k})), Grown(b, k, ea), GrownEnd(eb, k))
  <2> USE <1>PushNext
  <2> DEFINE S == T \cup {k}
             Q == R \cup (T \X {k})
             V == Converse(Q)
             d == [b EXCEPT ![k] = ea]
             ed == IF eb = Null THEN k ELSE eb
  <2>1. /\ TotalOrder(S, Q)
        /\ \A x, y \in T : <<x, y>> \in Q <=> <<x, y>> \in R
        /\ \A x \in T : <<x, k>> \in Q
        /\ \A x \in S : <<k, x>> \notin Q
    BY SMTT(60), <1>GreatestTotal
  <2>2. /\ \A x, y : <<x, y>> \in V <=> <<y, x>> \in Q
        /\ \A x, y : <<x, y>> \in Converse(R) <=> <<y, x>> \in R
    <3>1. Q \in SUBSET (S \X S) /\ R \in SUBSET (T \X T)
      BY <2>1 DEF TotalOrder
    <3> HIDE DEF Q, S
    <3>2. QED
      BY <3>1, ConversePairs
  <2>3. d[k] = ea /\ \A x \in Keys \ {k} : d[x] = b[x]
    BY DEF Links
  <2> HIDE DEF Q, V, d
  <2>4. ASSUME NEW x \in T
        PROVE  /\ IF d[x] = Null THEN \A y \in S : <<x, y>> \notin V
                  ELSE d[x] \in S /\ Adjacent(S, V, x, d[x])
               /\ ed = x <=> d[x] = Null
    <3>1. /\ d[x] = b[x]
          /\ IF b[x] = Null THEN \A y \in T : <<x, y>> \notin Converse(R)
             ELSE b[x] \in T /\ Adjacent(T, Converse(R), x, b[x])
          /\ eb = x <=> b[x] = Null
      BY SMTT(30), <2>3 DEF Leads
    <3>2. ed = x <=> eb = x
      BY DEF Leads
    <3>3. CASE b[x] = Null
      BY <2>1, <2>2, <3>1, <3>2, <3>3
    <3>4. CASE b[x] # Null
      BY <2>1, <2>2, <3>1, <3>2, <3>4 DEF Adjacent
    <3>5. QED
      BY <3>3, <3>4
  <2>5. /\ IF d[k] = Null THEN \A y \in S : <<k, y>> \notin V
           ELSE d[k] \in S /\ Adjacent(S, V, k, d[k])
        /\ ed = k <=> d[k] = Null
    <3>1. CASE ea = Null
      <4>1. T = {} /\ eb = Null
        BY <3>1 DEF Leads
      <4>2. QED
        BY SMTT(30), <2>1, <2>2, <2>3, <3>1, <4>1
    <3>2. CASE ea # Null
      <4>1. /\ ea \in T /\ \A y \in T : <<ea, y>> \notin R
            /\ eb # Null /\ eb \in T
        BY <3>2 DEF Leads
      <4>2. <<k, ea>> \in V /\ \A z \in S : ~(<<k, z>> \in V /\ <<z, ea>> \in V)
        BY <2>1, <2>2, <4>1
      <4>3. QED
        BY SMTT(30), <2>3, <3>2, <4>1, <4>2 DEF Adjacent
    <3>3. QED
      BY <3>1, <3>2
  <2>6. /\ \A x \in Keys \ S : d[x] = Null
        /\ ed \in S \cup {Null} /\ ed # Null
    BY <2>3 DEF Leads
  <2>7. Leads(S, V, d, ed)
    BY <2>4, <2>5, <2>6 DEF Leads
  <2>8. QED
    BY <2>7 DEF Q, V, d, Grown, GrownEnd
<1>Main. ASSUME Null \notin Keys, NEW l \in Lists, NEW k \in Keys, k \in l.nodes,
                NEW R, TotalOrder(l.nodes \ {k}, R),
                Leads(l.nodes \ {k}, R, l.prev, l.head),
                Leads(l.nodes \ {k}, Converse(R), l.next, l.tail)
         PROVE  /\ pushFront(l, k) \in Lists /\ pushFront(l, k).nodes = l.nodes
                /\ Spells(pushFront(l, k), R \cup ((l.nodes \ {k}) \X {k}))
  <2> USE <1>Main
  <2> DEFINE T == l.nodes \ {k}
             p == Fronted(l.prev, k, l.head)
             n == Grown(l.next, k, l.head)
             t == GrownEnd(l.tail, k)
  <2>1. /\ T \in SUBSET Keys /\ k \in Keys \ T /\ T \cup {k} = l.nodes
        /\ l.prev \in Links /\ l.next \in Links
        /\ l.head \in Keys \cup {Null} /\ l.tail \in Keys \cup {Null}
    BY DEF Lists
  <2>2. /\ pushFront(l, k).nodes = l.nodes
        /\ pushFront(l, k).prev = p /\ pushFront(l, k).next = n
        /\ pushFront(l, k).head = k /\ pushFront(l, k).tail = t
        /\ pushFront(l, k) \in Lists
    <3>1. p \in Links /\ n \in Links /\ t \in Keys \cup {Null}
      BY <2>1 DEF Links, Grown, GrownEnd, Fronted
    <3>2. pushFront(l, k) = [l EXCEPT !.prev = p, !.next = n, !.head = k, !.tail = t]
      BY DEF pushFront, Grown, GrownEnd, Fronted
    <3> HIDE DEF p, n, t
    <3>3. QED
      BY <3>1, <3>2 DEF Lists
  <2> HIDE DEF T
  <2>3. TotalOrder(T, R) /\ Leads(T, R, l.prev, l.head) /\ Leads(T, Converse(R), l.next, l.tail)
    BY DEF T
  <2>4. TotalOrder(l.nodes, R \cup (T \X {k}))
    BY SMTT(30), <2>1, <2>3, <1>GreatestTotal
  <2>5. Leads(l.nodes, R \cup (T \X {k}), p, k)
    BY SMT, <2>1, <2>3, <1>PushPrev
  <2>6. Leads(l.nodes, Converse(R \cup (T \X {k})), n, t)
    BY SMT, <2>1, <2>3, <1>PushNext
  <2> HIDE DEF p, n, t
  <2>7. Spells(pushFront(l, k), R \cup (T \X {k}))
    BY <2>2, <2>4, <2>5, <2>6 DEF Spells
  <2>8. QED
    BY <2>2, <2>7 DEF T
<1> QED
  BY <1>Main

\* touch, that is recordAccess and recordWrite, of a known or a new key.
LEMMA TouchSpells ==
  ASSUME Null \notin Keys, NEW l \in Lists, NEW R, Spells(l, R), NEW k \in Keys
  PROVE  touch(l, k) \in Lists /\ Spells(touch(l, k), AfterUse(l.nodes, R, k))
<1>1. CASE k \in l.nodes
  <2> DEFINE u == unlink(l, k)
  <2>1. /\ u \in Lists /\ u.nodes = l.nodes
        /\ TotalOrder(u.nodes \ {k}, Dropped(R, k))
        /\ Leads(u.nodes \ {k}, Dropped(R, k), u.prev, u.head)
        /\ Leads(u.nodes \ {k}, Converse(Dropped(R, k)), u.next, u.tail)
    BY <1>1, UnlinkSpells
  <2>2. touch(l, k) = pushFront(u, k)
    BY SMTT(30), <1>1 DEF touch
  <2> HIDE DEF u
  <2>3. QED
    BY SMT, <1>1, <2>1, <2>2, PushFrontSpells DEF AfterUse
<1>2. CASE k \notin l.nodes
  <2> DEFINE u == [l EXCEPT !.nodes = @ \cup {k}]
  <2>1. /\ u \in Lists /\ u.nodes = l.nodes \cup {k}
        /\ u.prev = l.prev /\ u.next = l.next /\ u.head = l.head /\ u.tail = l.tail
    BY DEF Lists
  <2>2. touch(l, k) = pushFront(u, k)
    BY <1>2 DEF touch
  <2> HIDE DEF u
  <2>3. /\ k \in u.nodes /\ u.nodes \ {k} = l.nodes /\ l.nodes \ {k} = l.nodes
    BY <1>2, <2>1
  <2>4. Dropped(R, k) = R
    BY SMT, <1>2 DEF Spells, TotalOrder, Dropped
  <2>5. QED
    BY SMT, <2>1, <2>2, <2>3, <2>4, PushFrontSpells DEF AfterUse, Spells
<1>3. QED
  BY SMTT(30), <1>1, <1>2

\* recordRemoval of a known or an unknown key.
LEMMA RemovalSpells ==
  ASSUME Null \notin Keys, NEW l \in Lists, NEW R, Spells(l, R), NEW k \in Keys
  PROVE  LruRecordRemoval(l, k) \in Lists /\ Spells(LruRecordRemoval(l, k), Dropped(R, k))
<1>1. CASE k \in l.nodes
  <2> DEFINE u == unlink(l, k)
             v == [u EXCEPT !.nodes = @ \ {k}]
  <2>1. /\ u \in Lists /\ u.nodes = l.nodes
        /\ TotalOrder(l.nodes \ {k}, Dropped(R, k))
        /\ Leads(l.nodes \ {k}, Dropped(R, k), u.prev, u.head)
        /\ Leads(l.nodes \ {k}, Converse(Dropped(R, k)), u.next, u.tail)
    BY <1>1, UnlinkSpells
  <2>2. LruRecordRemoval(l, k) = v
    BY <1>1 DEF LruRecordRemoval
  <2> HIDE DEF u
  <2>3. /\ v \in Lists /\ v.nodes = l.nodes \ {k}
        /\ v.prev = u.prev /\ v.next = u.next /\ v.head = u.head /\ v.tail = u.tail
    BY <2>1 DEF Lists
  <2> HIDE DEF v
  <2>4. QED
    BY SMTT(30), <2>1, <2>2, <2>3 DEF Spells
<1>2. CASE k \notin l.nodes
  <2>1. Dropped(R, k) = R /\ LruRecordRemoval(l, k) = l
    BY SMT, <1>2 DEF Spells, TotalOrder, Dropped, LruRecordRemoval
  <2>2. QED
    BY <2>1
<1>3. QED
  BY SMTT(30), <1>1, <1>2

-----------------------------------------------------------------------------
(* The walk from the tail *)

Below(T, R, x) == {y \in T : <<y, x>> \in R}

\* The steps of the walk.
Walks(l, w) ==
  /\ w \in [1 .. Cardinality(l.nodes) + 1 -> Keys \cup {Null}]
  /\ w[1] = l.tail
  /\ \A i \in 1 .. Cardinality(l.nodes) :
       w[i + 1] = IF w[i] = Null THEN Null ELSE l.prev[w[i]]

\* The walk from the tail starts at the tail and follows next.
LEMMA WalkSteps ==
  ASSUME NEW l \in Lists, IsFiniteSet(l.nodes)
  PROVE  Walks(l, WalkFromTail(l))
<1> DEFINE n == Cardinality(l.nodes)
           V == Keys \cup {Null}
           G == [i \in 1 .. n |-> [v \in V |-> IF v = Null THEN Null ELSE l.prev[v]]]
           Eq(f) == f = [i \in 0 .. n |->
                           IF i = 0 THEN l.tail
                           ELSE IF f[i - 1] = Null THEN Null ELSE l.prev[f[i - 1]]]
           at == CHOOSE f : Eq(f)
<1>1. n \in Nat /\ l.tail \in V /\ l.prev \in [Keys -> V]
  BY FS_CardinalityType DEF Lists, Links
<1>2. G \in [1 .. n -> [V -> V]]
  BY <1>1
<1> HIDE DEF n, V
<1>3. PICK f \in [0 .. n -> V] : Iterates(f, l.tail, n, G)
  <2> HIDE DEF G
  <2>1. QED
    BY <1>1, <1>2, Iteration
<1>4. Eq(f)
  <2>1. \A i \in 0 .. n : i # 0 => i \in 1 .. n /\ i - 1 \in 0 .. n
    BY SMT, <1>1
  <2>2. ASSUME NEW i \in 0 .. n, i # 0
        PROVE  G[i][f[i - 1]] = IF f[i - 1] = Null THEN Null ELSE l.prev[f[i - 1]]
    BY <2>1, <2>2
  <2>3. \A i \in 0 .. n : f[i] = IF i = 0 THEN l.tail
                           ELSE IF f[i - 1] = Null THEN Null ELSE l.prev[f[i - 1]]
    <3> HIDE DEF G
    <3>1. \A i \in 0 .. n : f[i] = IF i = 0 THEN l.tail ELSE G[i][f[i - 1]]
      BY <1>3 DEF Iterates
    <3>2. QED
      BY <2>2, <3>1
  <2>4. f = [i \in 0 .. n |-> f[i]]
    OBVIOUS
  <2>5. QED
    BY <2>3, <2>4
<1>5. Eq(at)
  BY <1>4
<1>6. WalkFromTail(l) = [i \in 1 .. n + 1 |-> at[i - 1]]
  BY DEF WalkFromTail, n
<1> HIDE DEF at
<1>7. \A i \in 0 .. n : at[i] = IF i = 0 THEN l.tail
                           ELSE IF at[i - 1] = Null THEN Null ELSE l.prev[at[i - 1]]
  BY <1>5
<1> DEFINE S == {i \in Nat : i \in 0 .. n => at[i] \in V}
<1>8. \A i \in Nat : i \in S
  <2>1. 0 \in S
    BY <1>1, <1>7
  <2>2. ASSUME NEW i \in Nat, i \in S PROVE i + 1 \in S
    <3>1. i + 1 \in Nat /\ i + 1 # 0 /\ (i + 1) - 1 = i /\ (i + 1 \in 0 .. n => i \in 0 .. n)
      BY SMT, <1>1
    <3>2. ASSUME i + 1 \in 0 .. n PROVE at[i + 1] \in V
      <4>1. at[i] \in V
        BY <2>2, <3>1, <3>2
      <4>2. at[i + 1] = IF at[i] = Null THEN Null ELSE l.prev[at[i]]
        BY <1>7, <3>1, <3>2
      <4>3. QED
        BY <1>1, <4>1, <4>2 DEF V
    <3>3. QED
      BY <3>1, <3>2
  <2> HIDE DEF S
  <2>3. QED
    BY <2>1, <2>2, Induction
<1> DEFINE w == WalkFromTail(l)
<1>9. w \in [1 .. n + 1 -> V]
  <2>1. \A i \in 1 .. n + 1 : i - 1 \in Nat /\ i - 1 \in 0 .. n
    BY SMT, <1>1
  <2>2. QED
    BY <1>6, <1>8, <2>1
<1>10. \A i \in 0 .. n : w[i + 1] = at[i]
  <2>1. \A i \in 0 .. n : i + 1 \in 1 .. n + 1 /\ (i + 1) - 1 = i
    BY SMT, <1>1
  <2>2. QED
    BY <1>6, <2>1
<1>11. w[1] = l.tail
  <2>1. 0 \in 0 .. n /\ 0 + 1 = 1
    BY SMT, <1>1
  <2>2. QED
    BY <1>7, <1>10, <2>1
<1>12. ASSUME NEW i \in 1 .. n
       PROVE  w[i + 1] = IF w[i] = Null THEN Null ELSE l.prev[w[i]]
  <2>1. i \in 0 .. n /\ i - 1 \in 0 .. n /\ (i - 1) + 1 = i /\ i # 0
    BY SMT, <1>1
  <2>2. w[i + 1] = at[i] /\ w[i] = at[i - 1]
    BY <1>10, <2>1
  <2>3. QED
    BY <1>7, <2>1, <2>2
<1>13. QED
  BY <1>9, <1>11, <1>12 DEF Walks, n, V

\* The walk meets the keys from the least to the most recent, and then Null.
Ranked(T, R, w) ==
  /\ \A i \in 1 .. Cardinality(T) :
       w[i] \in T /\ Cardinality(Below(T, R, w[i])) = i - 1
  /\ w[Cardinality(T) + 1] = Null

\* The walk meets every key, in the order the links spell.
Enumerates(T, R, w) ==
  /\ \A i \in 1 .. Cardinality(T) : w[i] \in T
  /\ \A i, j \in 1 .. Cardinality(T) : <<w[i], w[j]>> \in R <=> i < j
  /\ \A x \in T : \E i \in 1 .. Cardinality(T) : w[i] = x
  /\ w[Cardinality(T) + 1] = Null

\* The walk from the tail meets every key once, the least recent first.
LEMMA WalkEnumerates ==
  \A l \in Lists : \A R :
    /\ IsFiniteSet(l.nodes) /\ Spells(l, R)
    => Enumerates(l.nodes, R, WalkFromTail(l))
\* The less recent keys of a key, and those of the next more recent one.
<1>BelowNext. ASSUME NEW T, IsFiniteSet(T), NEW R, TotalOrder(T, R), NEW x \in T
              PROVE  /\ IsFiniteSet(Below(T, R, x)) /\ Cardinality(Below(T, R, x)) \in Nat
                     /\ Cardinality(Below(T, R, x)) < Cardinality(T)
                     /\ (\A y \in T : <<x, y>> \notin R) =>
                          Cardinality(T) = Cardinality(Below(T, R, x)) + 1
                     /\ \A y \in T : Adjacent(T, R, x, y) =>
                          Cardinality(Below(T, R, y)) = Cardinality(Below(T, R, x)) + 1
  <2> USE <1>BelowNext
  <2> DEFINE B == Below(T, R, x)
  <2>1. B \in SUBSET T /\ x \notin B
    BY DEF Below, TotalOrder
  <2>2. IsFiniteSet(B) /\ Cardinality(B) \in Nat /\ Cardinality(T) \in Nat
    BY <2>1, FS_Subset, FS_CardinalityType
  <2>3. IsFiniteSet(B \cup {x}) /\ Cardinality(B \cup {x}) = Cardinality(B) + 1
    BY <2>1, <2>2, FS_AddElement
  <2>4. Cardinality(B \cup {x}) <= Cardinality(T)
    <3>1. B \cup {x} \in SUBSET T
      BY <2>1
    <3>2. QED
      BY <3>1, FS_Subset
  <2>5. ASSUME \A y \in T : <<x, y>> \notin R
        PROVE  T = B \cup {x}
    BY <2>5 DEF Below, TotalOrder
  <2>6. ASSUME NEW y \in T, Adjacent(T, R, x, y)
        PROVE  Below(T, R, y) = B \cup {x}
    <3>1. <<x, y>> \in R /\ \A z \in T : ~(<<x, z>> \in R /\ <<z, y>> \in R)
      BY <2>6 DEF Adjacent
    <3>2. \A z \in T : <<z, y>> \in R <=> z = x \/ <<z, x>> \in R
      BY <3>1 DEF TotalOrder
    <3>3. QED
      BY <3>2 DEF Below
  <2>7. Cardinality(B) < Cardinality(T)
    BY SMT, <2>2, <2>3, <2>4
  <2> HIDE DEF B
  <2>8. QED
    BY <2>2, <2>3, <2>5, <2>6, <2>7 DEF B
<1>WalkRanks. ASSUME NEW l \in Lists, IsFiniteSet(l.nodes), NEW R, Spells(l, R)
              PROVE  Ranked(l.nodes, R, WalkFromTail(l))
  <2> USE <1>WalkRanks
  <2> DEFINE T == l.nodes
             n == Cardinality(T)
             w == WalkFromTail(l)
  <2>1. Walks(l, w) /\ n \in Nat /\ T \in SUBSET Keys /\ Null \notin Keys
    BY WalkSteps, FS_CardinalityType, Parameters DEF Lists
  <2> HIDE DEF w
  <2>2. TotalOrder(T, R) /\ Leads(T, R, l.prev, l.head) /\ Leads(T, Converse(R), l.next, l.tail)
    BY DEF Spells
  <2>3. \A x, y : <<x, y>> \in Converse(R) <=> <<y, x>> \in R
    <3>1. R \in SUBSET (T \X T)
      BY <2>2 DEF TotalOrder
    <3>2. QED
      BY <3>1, ConversePairs
  <2>4. ASSUME n > 0 PROVE w[1] \in T /\ Cardinality(Below(T, R, w[1])) = 0
    <3>1. T # {}
      BY SMT, <2>4, FS_EmptySet
    <3>2. w[1] = l.tail /\ l.tail \in T
      BY <2>1, <2>2, <3>1 DEF Walks, Leads
    <3>3. \A x \in T : <<l.tail, x>> \notin Converse(R)
      BY <2>2, <3>2 DEF Leads
    <3>4. Below(T, R, l.tail) = {}
      BY <2>3, <3>3 DEF Below
    <3>5. QED
      BY <3>2, <3>4, FS_EmptySet
  <2>5. ASSUME NEW i \in 1 .. n, w[i] \in T, Cardinality(Below(T, R, w[i])) = i - 1
        PROVE  IF i = n THEN w[i + 1] = Null
               ELSE w[i + 1] \in T /\ Cardinality(Below(T, R, w[i + 1])) = i
    <3>1. w[i + 1] = l.prev[w[i]]
      BY <2>1, <2>5 DEF Walks
    <3>2. /\ (\A y \in T : <<w[i], y>> \notin R) => n = (i - 1) + 1
          /\ \A y \in T : Adjacent(T, R, w[i], y) =>
               /\ Cardinality(Below(T, R, y)) = (i - 1) + 1
               /\ Cardinality(Below(T, R, y)) < n
      <4>1. /\ (\A y \in T : <<w[i], y>> \notin R) =>
                 n = Cardinality(Below(T, R, w[i])) + 1
            /\ \A y \in T : Adjacent(T, R, w[i], y) =>
                 Cardinality(Below(T, R, y)) = Cardinality(Below(T, R, w[i])) + 1
        BY <2>2, <2>5, <1>BelowNext
      <4>2. \A y \in T : Cardinality(Below(T, R, y)) < n
        BY <2>2, <1>BelowNext
      <4>3. QED
        BY <2>5, <4>1, <4>2
    <3>3. (i - 1) + 1 = i
      BY SMT, <2>1
    <3>4. CASE l.prev[w[i]] = Null
      <4>1. \A y \in T : <<w[i], y>> \notin R
        BY <2>2, <2>5, <3>4 DEF Leads
      <4>2. QED
        BY <3>1, <3>2, <3>3, <3>4, <4>1
    <3>5. CASE l.prev[w[i]] # Null
      <4>1. l.prev[w[i]] \in T /\ Adjacent(T, R, w[i], l.prev[w[i]])
        BY <2>2, <2>5, <3>5 DEF Leads
      <4>2. Cardinality(Below(T, R, w[i + 1])) = i /\ i < n
        BY <3>1, <3>2, <3>3, <4>1
      <4>3. i # n
        BY SMT, <2>1, <4>2
      <4>4. QED
        BY <3>1, <4>1, <4>2, <4>3
    <3>6. QED
      BY <3>4, <3>5
  <2> DEFINE S == {i \in Nat : i + 1 \in 1 .. n =>
                     w[i + 1] \in T /\ Cardinality(Below(T, R, w[i + 1])) = i}
  <2>6. \A i \in Nat : i \in S
    <3>1. 0 \in S
      <4>1. 0 \in Nat /\ 0 + 1 = 1 /\ (1 \in 1 .. n => n > 0)
        BY SMT, <2>1
      <4>2. QED
        BY <2>4, <4>1
    <3>2. ASSUME NEW i \in Nat, i \in S PROVE i + 1 \in S
      <4>1. i + 1 \in Nat
        BY SMT
      <4>2. ASSUME (i + 1) + 1 \in 1 .. n
            PROVE  w[(i + 1) + 1] \in T /\ Cardinality(Below(T, R, w[(i + 1) + 1])) = i + 1
        <5>1. i + 1 \in 1 .. n /\ i + 1 # n /\ (i + 1) - 1 = i
          BY SMT, <2>1, <4>2
        <5>2. QED
          BY <2>5, <3>2, <5>1
      <4>3. QED
        BY <4>1, <4>2
    <3> HIDE DEF S
    <3>3. QED
      BY <3>1, <3>2, Induction
  <2>7. ASSUME NEW i \in 1 .. n
        PROVE  w[i] \in T /\ Cardinality(Below(T, R, w[i])) = i - 1
    <3>1. i - 1 \in Nat /\ (i - 1) + 1 = i
      BY SMT, <2>1
    <3>2. i - 1 \in S
      BY <2>6, <3>1
    <3>3. QED
      BY <3>1, <3>2
  <2>8. w[n + 1] = Null
    <3>1. CASE n = 0
      <4>1. T = {}
        BY <3>1, FS_EmptySet
      <4>2. w[1] = Null
        BY <2>1, <2>2, <4>1 DEF Walks, Leads
      <4>3. QED
        BY SMT, <3>1, <4>2
    <3>2. CASE n # 0
      <4>1. n \in 1 .. n
        BY SMT, <2>1, <3>2
      <4>2. QED
        BY <2>5, <2>7, <4>1
    <3>3. QED
      BY <3>1, <3>2
  <2>9. QED
    BY <2>7, <2>8 DEF Ranked, w
\* A more recent key has more less recent ones.
<1>BelowOrdered. ASSUME NEW T, IsFiniteSet(T), NEW R, TotalOrder(T, R), NEW x \in T, NEW y \in T,
                        <<x, y>> \in R
                 PROVE  Cardinality(Below(T, R, x)) < Cardinality(Below(T, R, y))
  <2> USE <1>BelowOrdered
  <2> DEFINE B == Below(T, R, x)
  <2>1. B \cup {x} \in SUBSET Below(T, R, y) /\ x \notin B
    BY DEF Below, TotalOrder
  <2>2. /\ IsFiniteSet(B) /\ Cardinality(B) \in Nat
        /\ IsFiniteSet(Below(T, R, y)) /\ Cardinality(Below(T, R, y)) \in Nat
    BY <1>BelowNext
  <2>3. Cardinality(B \cup {x}) = Cardinality(B) + 1
    BY <2>1, <2>2, FS_AddElement
  <2>4. Cardinality(B \cup {x}) <= Cardinality(Below(T, R, y))
    BY <2>1, <2>2, FS_Subset
  <2>5. QED
    BY SMT, <2>2, <2>3, <2>4
<1>Main. ASSUME NEW l \in Lists, IsFiniteSet(l.nodes), NEW R, Spells(l, R)
         PROVE  Enumerates(l.nodes, R, WalkFromTail(l))
  <2> USE <1>Main
  <2> DEFINE T == l.nodes
             n == Cardinality(T)
             w == WalkFromTail(l)
             rank == [x \in T |-> Cardinality(Below(T, R, x))]
  <2>1. Ranked(T, R, w) /\ n \in Nat /\ TotalOrder(T, R)
    BY <1>WalkRanks, FS_CardinalityType DEF Spells
  <2> HIDE DEF w, T
  <2>2. \A i \in 1 .. n : w[i] \in T /\ rank[w[i]] = i - 1
    BY <2>1 DEF Ranked
  <2>3. \A x \in T : rank[x] \in Nat /\ rank[x] < n
    BY <2>1, <1>BelowNext DEF T
  <2>4. \A x, y \in T : <<x, y>> \in R => rank[x] < rank[y]
    BY <2>1, <1>BelowOrdered DEF T
  <2>5. \A x, y \in T : x = y \/ <<x, y>> \in R \/ <<y, x>> \in R
    BY <2>1 DEF TotalOrder
  <2> HIDE DEF rank, n
  <2>6. \A x, y \in T : <<x, y>> \in R <=> rank[x] < rank[y]
    <3>1. ASSUME NEW x \in T, NEW y \in T, rank[x] < rank[y] PROVE <<x, y>> \in R
      <4>1. rank[x] \in Nat /\ rank[y] \in Nat
        BY <2>3
      <4>2. x # y /\ ~(rank[y] < rank[x])
        BY SMT, <3>1, <4>1
      <4>3. QED
        BY <2>4, <2>5, <4>2
    <3>2. QED
      BY <2>4, <3>1
  <2>7. ASSUME NEW i \in 1 .. n, NEW j \in 1 .. n PROVE <<w[i], w[j]>> \in R <=> i < j
    <3>1. i - 1 < j - 1 <=> i < j
      BY SMT, <2>1
    <3>2. QED
      BY <2>2, <2>6, <3>1
  <2>8. ASSUME NEW x \in T PROVE \E i \in 1 .. n : w[i] = x
    <3>1. rank[x] + 1 \in 1 .. n /\ (rank[x] + 1) - 1 = rank[x]
      BY SMT, <2>1, <2>3
    <3>2. w[rank[x] + 1] \in T /\ rank[w[rank[x] + 1]] = rank[x]
      BY <2>2, <3>1
    <3>3. ~(rank[x] < rank[x])
      BY SMT, <2>3
    <3>4. w[rank[x] + 1] = x
      BY <2>5, <2>6, <3>2, <3>3
    <3>5. QED
      BY <3>1, <3>4
  <2>9. w[n + 1] = Null
    BY <2>1 DEF Ranked, n
  <2>10. QED
    BY <2>2, <2>7, <2>8, <2>9 DEF Enumerates, w, T, n
<1> QED
  BY <1>Main

\* So the order of the walk is the one the links spell.
LEMMA OlderSpelled ==
  ASSUME NEW l \in Lists, IsFiniteSet(l.nodes), NEW R, Spells(l, R)
  PROVE  Older(l) = R
<1> DEFINE T == l.nodes
           n == Cardinality(T)
           w == WalkFromTail(l)
           v == Walked(l)
<1>1. /\ Enumerates(T, R, w) /\ n \in Nat /\ TotalOrder(T, R)
      /\ w \in [1 .. n + 1 -> Keys \cup {Null}]
  BY WalkEnumerates, WalkSteps, FS_CardinalityType DEF Spells, Walks
<1> HIDE DEF w, T
<1>2. Len(v) = n /\ \A i \in 1 .. n : v[i] = w[i]
  <2>1. w \in Seq(Keys \cup {Null}) /\ Len(w) = n + 1
    BY SMT, <1>1
  <2>2. v = SubSeq(w, 1, n)
    BY DEF Walked, w, T
  <2> HIDE DEF v, n
  <2>3. QED
    BY SMT, <1>1, <2>1, <2>2
<1> HIDE DEF v
<1>3. Older(l) = UNION {{<<v[i], v[j]>> : i \in 1 .. j - 1} : j \in 1 .. n}
  BY <1>2 DEF Older, v
<1>4. \A i, j \in 1 .. n : <<w[i], w[j]>> \in R <=> i < j
  BY <1>1 DEF Enumerates
<1>5. ASSUME NEW e \in Older(l) PROVE e \in R
  <2>1. PICK j \in 1 .. n : \E i \in 1 .. j - 1 : e = <<v[i], v[j]>>
    BY <1>3
  <2>2. PICK i \in 1 .. j - 1 : e = <<v[i], v[j]>>
    BY <2>1
  <2>3. i \in 1 .. n /\ i < j
    BY SMT, <1>1
  <2>4. QED
    BY <1>2, <1>4, <2>2, <2>3
<1>6. ASSUME NEW e \in R PROVE e \in Older(l)
  <2>1. PICK x \in T, y \in T : e = <<x, y>>
    BY SMT, <1>1 DEF TotalOrder
  <2>2. PICK i \in 1 .. n : w[i] = x
    BY <1>1 DEF Enumerates
  <2>3. PICK j \in 1 .. n : w[j] = y
    BY <1>1 DEF Enumerates
  <2>4. i < j
    BY <1>4, <2>1, <2>2, <2>3
  <2>5. i \in 1 .. j - 1
    BY SMT, <1>1, <2>4
  <2>6. e = <<v[i], v[j]>>
    BY <1>2, <2>1, <2>2, <2>3
  <2>7. e \in {<<v[a], v[j]>> : a \in 1 .. j - 1}
    BY <2>5, <2>6
  <2>8. {<<v[a], v[j]>> : a \in 1 .. j - 1} \in
          {{<<v[a], v[c]>> : a \in 1 .. c - 1} : c \in 1 .. n}
    OBVIOUS
  <2>9. e \in UNION {{<<v[a], v[c]>> : a \in 1 .. c - 1} : c \in 1 .. n}
    BY <2>7, <2>8
  <2>10. QED
    BY <1>3, <2>9
<1>7. QED
  BY <1>5, <1>6

-----------------------------------------------------------------------------
(* Candidates and victims of the list *)

\* b lists the candidates C by recency, up to limit of them.
BottomOf(C, R, limit, b) ==
  /\ \E s \in Nat : b \in [1 .. s -> C]
  /\ C # {} => 1 \in DOMAIN b
  /\ \A m \in DOMAIN b : m <= limit /\ Cardinality(Below(C, R, b[m])) = m - 1
  /\ \A x \in C : Cardinality(Below(C, R, x)) < limit => \E m \in DOMAIN b : b[m] = x

\* H are the places of w where it meets a candidate.
HitsOf(T, w, C, H) ==
  /\ H \in SUBSET (1 .. Cardinality(T))
  /\ \A i \in 1 .. Cardinality(T) : i \in H <=> w[i] \in C

\* leastRecentlyUsedCandidates collects them.
LEMMA CandidatesFound ==
  \A l \in Lists : \A R : \A C \in SUBSET l.nodes, limit \in Nat \ {0} :
    /\ IsFiniteSet(l.nodes) /\ Spells(l, R)
    => BottomOf(C, R, limit, leastRecentlyUsedCandidates(l, C, limit))
\* Ranks are below the size of H and in the order of the members.
<1>RanksOrdered.
      ASSUME NEW H \in SUBSET Nat, IsFiniteSet(H)
      PROVE  /\ \A i \in Nat : IsFiniteSet(Lower(H, i)) /\ Cardinality(Lower(H, i)) \in Nat
             /\ \A i \in H : Cardinality(Lower(H, i)) < Cardinality(H)
             /\ \A i, j \in H : i < j <=> Cardinality(Lower(H, i)) < Cardinality(Lower(H, j))
  <2> USE <1>RanksOrdered
  <2>0. \A i \in H : i \in Nat
    OBVIOUS
  <2>1. ASSUME NEW i \in Nat
        PROVE  IsFiniteSet(Lower(H, i)) /\ Cardinality(Lower(H, i)) \in Nat
    <3>1. Lower(H, i) \in SUBSET H
      BY DEF Lower
    <3>2. QED
      BY <3>1, FS_Subset, FS_CardinalityType
  <2>2. ASSUME NEW S, IsFiniteSet(S), NEW i \in H, Lower(H, i) \in SUBSET S, i \in S
        PROVE  Cardinality(Lower(H, i)) < Cardinality(S)
    <3>1. Lower(H, i) # S
      BY SMT, <2>2 DEF Lower
    <3>2. Cardinality(Lower(H, i)) <= Cardinality(S) /\ Cardinality(Lower(H, i)) # Cardinality(S)
      BY <2>2, <3>1, FS_Subset
    <3>3. Cardinality(Lower(H, i)) \in Nat /\ Cardinality(S) \in Nat
      BY <2>0, <2>1, <2>2, FS_CardinalityType
    <3>4. QED
      BY SMT, <3>2, <3>3
  <2>3. ASSUME NEW i \in H PROVE Cardinality(Lower(H, i)) < Cardinality(H)
    <3>1. Lower(H, i) \in SUBSET H
      BY DEF Lower
    <3>2. QED
      BY <2>2, <3>1
  <2>4. ASSUME NEW i \in H, NEW j \in H, i < j
        PROVE  Cardinality(Lower(H, i)) < Cardinality(Lower(H, j))
    <3>1. Lower(H, i) \in SUBSET Lower(H, j) /\ i \in Lower(H, j)
      <4>1. \A x \in H : x < i => x < j
        BY SMT, <2>0, <2>4
      <4>2. QED
        BY <2>4, <4>1 DEF Lower
    <3>2. j \in Nat
      OBVIOUS
    <3>3. QED
      BY <2>1, <2>2, <3>1, <3>2
  <2>5. ASSUME NEW i \in H, NEW j \in H, ~(i < j)
        PROVE  ~(Cardinality(Lower(H, i)) < Cardinality(Lower(H, j)))
    <3>1. CASE i = j
      BY SMT, <2>1, <3>1
    <3>2. CASE j < i
      <4>1. Cardinality(Lower(H, j)) < Cardinality(Lower(H, i))
        BY <2>4, <3>2
      <4>2. QED
        BY SMT, <2>1, <4>1
    <3>3. i = j \/ j < i
      BY SMT, <2>5
    <3>4. QED
      BY <3>1, <3>2, <3>3
  <2>6. QED
    BY <2>1, <2>3, <2>4, <2>5
\* Every rank below the size occurs.
<1>RanksOccur. ASSUME NEW H \in SUBSET Nat, IsFiniteSet(H)
               PROVE  \A m \in Nat : m < Cardinality(H) => \E i \in H : Cardinality(Lower(H, i)) = m
  <2> USE <1>RanksOccur
  <2> DEFINE S == {m \in Nat : m < Cardinality(H) =>
                                  \E i \in H : Cardinality(Lower(H, i)) = m}
  <2>0. Cardinality(H) \in Nat
    BY FS_CardinalityType
  <2>1. 0 \in S
    <3>1. SUFFICES ASSUME 0 < Cardinality(H)
                   PROVE  \E i \in H : Cardinality(Lower(H, i)) = 0
      OBVIOUS
    <3>2. H # {}
      BY SMT, <3>1, FS_EmptySet
    <3>3. PICK i \in H : \A j \in H : i <= j
      BY <3>2, LeastExists
    <3>4. Lower(H, i) = {}
      <4>1. \A j \in H : i \in Nat /\ j \in Nat
        OBVIOUS
      <4>2. \A j \in H : ~(j < i)
        BY SMT, <3>3, <4>1
      <4>3. QED
        BY <4>2 DEF Lower
    <3>5. QED
      BY <3>4, FS_EmptySet
  <2>2. ASSUME NEW m \in Nat, m \in S PROVE m + 1 \in S
    <3>1. SUFFICES ASSUME m + 1 < Cardinality(H)
                   PROVE  \E i \in H : Cardinality(Lower(H, i)) = m + 1
      BY SMT
    <3>2. PICK i \in H : Cardinality(Lower(H, i)) = m
      BY SMT, <2>0, <2>2, <3>1
    <3>a. i \in Nat /\ \A j \in H : j \in Nat
      OBVIOUS
    <3>3. IsFiniteSet(Lower(H, i)) /\ i \notin Lower(H, i)
      BY SMT, <1>RanksOrdered DEF Lower
    <3>4. Cardinality(Lower(H, i) \cup {i}) = m + 1
      BY <3>2, <3>3, FS_AddElement
    <3> DEFINE U == {j \in H : i < j}
    <3>5. U # {}
      <4>1. SUFFICES ASSUME U = {} PROVE FALSE
        OBVIOUS
      <4>2. H = Lower(H, i) \cup {i}
        <5>1. \A j \in H : j = i \/ j < i
          <6>1. \A j \in H : ~(i < j)
            BY <4>1
          <6>2. QED
            BY SMT, <3>a, <6>1
        <5>2. QED
          BY <5>1 DEF Lower
      <4>3. QED
        BY SMT, <2>0, <3>1, <3>4, <4>2
    <3>6. PICK k \in U : \A j \in U : k <= j
      <4>1. U \in SUBSET Nat
        OBVIOUS
      <4> HIDE DEF U
      <4>2. QED
        BY <3>5, <4>1, LeastExists
    <3>7. Lower(H, k) = Lower(H, i) \cup {i}
      <4>1. k \in H /\ i < k /\ \A j \in H : i < j => k <= j
        BY <3>6
      <4>2. \A j \in H : j < k <=> j < i \/ j = i
        BY SMT, <3>a, <4>1
      <4>3. QED
        BY <4>2 DEF Lower
    <3>8. QED
      BY <3>4, <3>6, <3>7
  <2> HIDE DEF S
  <2>3. \A m \in Nat : m \in S
    BY <2>1, <2>2, Induction
  <2>4. QED
    BY <2>3 DEF S
\* As many hits of the walk come before one as there are less recent
\* candidates.
<1>HitsRanked. ASSUME NEW T, Cardinality(T) \in Nat, NEW R, NEW w, Enumerates(T, R, w),
                      NEW C \in SUBSET T, NEW H, HitsOf(T, w, C, H), NEW i \in H
               PROVE  Cardinality(Lower(H, i)) = Cardinality(Below(C, R, w[i]))
  <2> USE <1>HitsRanked
  <2> DEFINE n == Cardinality(T)
             A == Lower(H, i)
             B == Below(C, R, w[i])
             f == [j \in A |-> w[j]]
  <2>1. /\ \A j \in 1 .. n : j \in H <=> w[j] \in C
        /\ \A j \in H : j \in 1 .. n /\ w[j] \in C
        /\ \A j, m \in 1 .. n : <<w[j], w[m]>> \in R <=> j < m
        /\ \A x \in T : \E j \in 1 .. n : w[j] = x
    BY DEF Enumerates, HitsOf
  <2>2. f \in [A -> B]
    BY <2>1 DEF Lower, Below
  <2>3. ASSUME NEW j \in A, NEW m \in A, f[j] = f[m] PROVE j = m
    <3>1. j \in 1 .. n /\ m \in 1 .. n /\ w[j] = w[m]
      BY <2>1, <2>3 DEF Lower
    <3>2. (j < m <=> j < j) /\ (m < j <=> j < j)
      BY <2>1, <3>1
    <3>3. QED
      BY SMT, <3>1, <3>2
  <2>4. ASSUME NEW x \in B PROVE \E j \in A : f[j] = x
    <3>1. x \in C /\ <<x, w[i]>> \in R
      BY DEF Below
    <3>2. PICK j \in 1 .. n : w[j] = x
      BY <2>1, <3>1
    <3>3. j \in A
      BY <2>1, <3>1, <3>2 DEF Lower
    <3>4. QED
      BY <3>2, <3>3
  <2>5. f \in Bijection(A, B)
    <3> HIDE DEF A, B, f
    <3>1. QED
      BY <2>2, <2>3, <2>4 DEF Bijection, Injection, Surjection, IsInjective
  <2>6. IsFiniteSet(A)
    <3>1. A \in SUBSET (1 .. n)
      BY <2>1 DEF Lower
    <3>2. IsFiniteSet(1 .. n)
      BY SMT, FS_Interval
    <3>3. QED
      BY <3>1, <3>2, FS_Subset
  <2>7. ExistsBijection(A, B)
    BY <2>5 DEF ExistsBijection
  <2>8. QED
    BY <2>6, <2>7, FS_Bijection
<1>Main. ASSUME NEW l \in Lists, IsFiniteSet(l.nodes), NEW R, Spells(l, R),
                NEW C \in SUBSET l.nodes, NEW limit \in Nat \ {0}
         PROVE  BottomOf(C, R, limit, leastRecentlyUsedCandidates(l, C, limit))
  <2> USE <1>Main
  <2> DEFINE T == l.nodes
             n == Cardinality(T)
             w == WalkFromTail(l)
             H == {i \in DOMAIN w : w[i] \in C}
             nth(m) == CHOOSE i \in H : Cardinality({j \in H : j < i}) = m - 1
             size == IF Cardinality(H) < limit THEN Cardinality(H) ELSE limit
             b == leastRecentlyUsedCandidates(l, C, limit)
  <2>1. /\ Enumerates(T, R, w) /\ n \in Nat
        /\ w \in [1 .. n + 1 -> Keys \cup {Null}]
        /\ T \in SUBSET Keys /\ Null \notin Keys
    BY WalkEnumerates, WalkSteps, FS_CardinalityType, Parameters DEF Walks, Lists
  <2>2. b = [m \in 1 .. size |-> w[nth(m)]]
    BY DEF leastRecentlyUsedCandidates
  <2> HIDE DEF w, T, b
  <2>3. H \in SUBSET (1 .. n) /\ \A i \in 1 .. n : i \in H <=> w[i] \in C
    <3>1. \A i \in 1 .. n + 1 : i \in 1 .. n \/ i = n + 1
      BY SMT, <2>1
    <3>2. w[n + 1] = Null /\ Null \notin C /\ DOMAIN w = 1 .. n + 1
      BY <2>1 DEF Enumerates, T
    <3>3. \A i \in 1 .. n : i \in 1 .. n + 1
      BY SMT, <2>1
    <3>4. QED
      BY <3>1, <3>2, <3>3
  <2> HIDE DEF H
  <2>4. /\ H \in SUBSET Nat /\ IsFiniteSet(H) /\ Cardinality(H) \in Nat
    <3>1. IsFiniteSet(1 .. n)
      BY SMT, <2>1, FS_Interval
    <3>2. \A i \in 1 .. n : i \in Nat
      BY SMT, <2>1
    <3>3. QED
      BY <2>3, <3>1, <3>2, FS_Subset, FS_CardinalityType
  <2>5. ASSUME NEW i \in H
        PROVE  Cardinality(Lower(H, i)) = Cardinality(Below(C, R, w[i]))
    <3>1. C \in SUBSET T
      BY DEF T
    <3>2. HitsOf(T, w, C, H)
      BY <2>3 DEF HitsOf
    <3>3. QED
      BY SMT, <2>1, <3>1, <3>2, <1>HitsRanked
  <2>6. size \in Nat /\ size <= limit /\ size <= Cardinality(H)
    BY SMT, <2>4
  <2>7. ASSUME NEW m \in 1 .. size
        PROVE  nth(m) \in H /\ Cardinality(Lower(H, nth(m))) = m - 1
    <3>1. m - 1 \in Nat /\ m - 1 < Cardinality(H)
      BY SMT, <2>4, <2>6
    <3>2. \E i \in H : Cardinality(Lower(H, i)) = m - 1
      BY <2>4, <3>1, <1>RanksOccur
    <3>3. nth(m) = CHOOSE i \in H : Cardinality(Lower(H, i)) = m - 1
      BY DEF Lower
    <3> HIDE DEF nth
    <3>4. QED
      BY <3>2, <3>3
  <2>8. ASSUME NEW m \in 1 .. size
        PROVE  b[m] \in C /\ m <= limit /\ Cardinality(Below(C, R, b[m])) = m - 1
    <3>1. b[m] = w[nth(m)]
      BY <2>2
    <3> HIDE DEF nth
    <3>2. nth(m) \in H /\ Cardinality(Lower(H, nth(m))) = m - 1
      BY <2>7
    <3>3. m <= limit
      BY SMT, <2>6
    <3>4. QED
      BY <2>3, <2>5, <3>1, <3>2, <3>3
  <2>9. DOMAIN b = 1 .. size
    BY <2>2
  <2>10. ASSUME NEW x \in C, Cardinality(Below(C, R, x)) < limit
         PROVE  \E m \in 1 .. size : b[m] = x
    <3>1. PICK i \in 1 .. n : w[i] = x
      BY <2>1 DEF Enumerates, T
    <3>2. i \in H /\ Cardinality(Lower(H, i)) = Cardinality(Below(C, R, x))
      BY <2>3, <2>5, <3>1
    <3> DEFINE r == Cardinality(Lower(H, i))
    <3>3. r \in Nat /\ r < Cardinality(H) /\ r < limit
      BY <2>4, <2>10, <3>2, <1>RanksOrdered
    <3>4. r + 1 \in 1 .. size /\ (r + 1) - 1 = r
      <4> HIDE DEF r
      <4>1. QED
        BY SMT, <2>4, <3>3
    <3>5. nth(r + 1) \in H /\ Cardinality(Lower(H, nth(r + 1))) = r /\ b[r + 1] = w[nth(r + 1)]
      <4> HIDE DEF nth, r
      <4>1. nth(r + 1) \in H /\ Cardinality(Lower(H, nth(r + 1))) = (r + 1) - 1
        BY <2>7, <3>4
      <4>2. b[r + 1] = w[nth(r + 1)]
        BY <2>2, <3>4
      <4>3. QED
        BY <3>4, <4>1, <4>2
    <3> HIDE DEF nth
    <3>6. \A j \in H : Cardinality(Lower(H, j)) = r => j = i
      <4>1. ASSUME NEW j \in H, Cardinality(Lower(H, j)) = r PROVE j = i
        <5>1. /\ i < j <=> Cardinality(Lower(H, i)) < Cardinality(Lower(H, j))
              /\ j < i <=> Cardinality(Lower(H, j)) < Cardinality(Lower(H, i))
          BY <2>4, <3>2, <1>RanksOrdered
        <5>2. ~(r < r) /\ i \in Nat /\ j \in Nat
          BY SMT, <2>4, <3>2, <3>3
        <5>3. ~(i < j) /\ ~(j < i)
          BY <4>1, <5>1, <5>2
        <5>4. QED
          BY SMT, <5>2, <5>3
      <4>2. QED
        BY <4>1
    <3> HIDE DEF r
    <3>7. b[r + 1] = x
      BY <3>1, <3>5, <3>6
    <3>8. QED
      BY <3>4, <3>7
  <2>11. C # {} => 1 \in 1 .. size
    <3>1. SUFFICES ASSUME C # {} PROVE 1 \in 1 .. size
      OBVIOUS
    <3>2. PICK x \in C : TRUE
      BY <3>1
    <3>3. \E i \in 1 .. n : w[i] = x
      BY <2>1 DEF Enumerates, T
    <3>4. H # {}
      BY <2>3, <3>3
    <3>5. Cardinality(H) # 0
      BY <2>4, <3>4, FS_EmptySet
    <3>6. QED
      BY SMT, <2>4, <3>5
  <2> HIDE DEF size, nth
  <2>12. b \in [1 .. size -> C]
    <3>1. b = [m \in 1 .. size |-> b[m]]
      BY <2>2
    <3>2. QED
      BY <2>8, <3>1
  <2>13. QED
    BY <2>6, <2>8, <2>9, <2>10, <2>11, <2>12 DEF BottomOf, b
<1> QED
  BY <1>Main

\* The victim of LRU is the least recent candidate.
LEMMA LruVictim ==
  ASSUME NEW l \in Lists, IsFiniteSet(l.nodes), NEW R, Spells(l, R),
         NEW C \in SUBSET l.nodes, C # {}
  PROVE  /\ LruSelectVictim(l, C) \in C
         /\ \A x \in C \ {LruSelectVictim(l, C)} : <<LruSelectVictim(l, C), x>> \in R
<1> DEFINE b == leastRecentlyUsedCandidates(l, C, 1)
           v == LruSelectVictim(l, C)
<1>1. BottomOf(C, R, 1, b)
  <2>1. 1 \in Nat \ {0}
    BY SMT
  <2>2. QED
    BY <2>1, CandidatesFound
<1>2. v = IF b = <<>> THEN Null ELSE b[1]
  BY DEF LruSelectVictim
<1> HIDE DEF b, v
<1>3. PICK s \in Nat : b \in [1 .. s -> C]
  BY <1>1 DEF BottomOf
<1>4. 1 \in DOMAIN b /\ Cardinality(Below(C, R, b[1])) = 1 - 1
  BY <1>1 DEF BottomOf
<1>5. v = b[1] /\ v \in C
  <2>1. b # <<>>
    BY SMT, <1>3, <1>4
  <2>2. QED
    BY <1>2, <1>3, <1>4, <2>1
<1>6. Below(C, R, v) = {}
  <2>1. TotalOrder(l.nodes, R)
    BY DEF Spells
  <2>2. IsFiniteSet(Below(C, R, v))
    <3>1. Below(C, R, v) \in SUBSET l.nodes
      BY DEF Below
    <3>2. QED
      BY <3>1, FS_Subset
  <2>3. Cardinality(Below(C, R, v)) = 0
    BY SMT, <1>4, <1>5
  <2>4. QED
    BY <2>2, <2>3, FS_EmptySet
<1>7. \A x \in C \ {v} : <<v, x>> \in R
  <2>1. \A x \in C : <<x, v>> \notin R
    BY <1>6 DEF Below
  <2>2. QED
    BY <1>5, <2>1 DEF Spells, TotalOrder
<1>8. QED
  BY <1>5, <1>7 DEF v

-----------------------------------------------------------------------------
(* Seeding the list *)

\* A touch of any list, in order or not, keeps its type and adds the key.
LEMMA TouchType ==
  ASSUME NEW l \in Lists, NEW k \in Keys
  PROVE  touch(l, k) \in Lists /\ touch(l, k).nodes = l.nodes \cup {k}
<1>1. ASSUME NEW m \in Lists
      PROVE  pushFront(m, k) \in Lists /\ pushFront(m, k).nodes = m.nodes
  <2> DEFINE p == Fronted(m.prev, k, m.head)
             n == Grown(m.next, k, m.head)
             t == GrownEnd(m.tail, k)
  <2>1. p \in Links /\ n \in Links /\ t \in Keys \cup {Null}
    BY DEF Lists, Links, Grown, GrownEnd, Fronted
  <2>2. pushFront(m, k) = [m EXCEPT !.prev = p, !.next = n, !.head = k, !.tail = t]
    BY DEF pushFront, Grown, GrownEnd, Fronted
  <2> HIDE DEF p, n, t
  <2>3. QED
    BY <2>1, <2>2 DEF Lists
<1>2. unlink(l, k) \in Lists /\ unlink(l, k).nodes = l.nodes
  <2> DEFINE p == Cut(l.prev, l.next, k)
             n == Cut(l.next, l.prev, k)
             h == CutEnd(l.prev, l.head, l.next, k)
             t == CutEnd(l.next, l.tail, l.prev, k)
  <2>1. p \in Links /\ n \in Links /\ h \in Keys \cup {Null} /\ t \in Keys \cup {Null}
    BY DEF Lists, Links, Cut, CutEnd
  <2>2. unlink(l, k) = [l EXCEPT !.prev = p, !.next = n, !.head = h, !.tail = t]
    BY DEF unlink, Cut, CutEnd
  <2> HIDE DEF p, n, h, t
  <2>3. QED
    BY <2>1, <2>2 DEF Lists
<1>3. CASE k \in l.nodes
  <2>1. touch(l, k) = pushFront(unlink(l, k), k)
    BY <1>3 DEF touch
  <2>2. l.nodes = l.nodes \cup {k}
    BY <1>3
  <2>3. QED
    BY <1>1, <1>2, <2>1, <2>2
<1>4. CASE k \notin l.nodes
  <2> DEFINE u == [l EXCEPT !.nodes = @ \cup {k}]
  <2>1. u \in Lists /\ u.nodes = l.nodes \cup {k}
    BY DEF Lists
  <2>2. touch(l, k) = pushFront(u, k)
    BY <1>4 DEF touch
  <2> HIDE DEF u
  <2>3. QED
    BY <1>1, <2>1, <2>2
<1>5. QED
  BY <1>3, <1>4

\* recordRemoval takes the key out.
LEMMA RemovalNodes ==
  ASSUME NEW l \in Lists, NEW k \in Keys
  PROVE  LruRecordRemoval(l, k).nodes = l.nodes \ {k}
<1>1. CASE k \in l.nodes
  <2>1. unlink(l, k).nodes = l.nodes
    BY DEF unlink, Lists
  <2> DEFINE u == unlink(l, k)
  <2>2. u \in [nodes : SUBSET Keys, prev : Links, next : Links,
               head : Keys \cup {Null}, tail : Keys \cup {Null}]
    <3>1. l.prev[k] \in Keys \cup {Null} /\ l.next[k] \in Keys \cup {Null}
      BY DEF Lists, Links
    <3>2. QED
      BY <3>1 DEF unlink, Lists, Links
  <2>3. LruRecordRemoval(l, k) = [u EXCEPT !.nodes = @ \ {k}]
    BY <1>1 DEF LruRecordRemoval
  <2> HIDE DEF u
  <2>4. LruRecordRemoval(l, k).nodes = u.nodes \ {k}
    BY <2>2, <2>3
  <2>5. QED
    BY <2>1, <2>4 DEF u
<1>2. CASE k \notin l.nodes
  BY <1>2 DEF LruRecordRemoval
<1>3. QED
  BY <1>1, <1>2

\* The order of the first i places of q.
Ordered(q, i) ==
  {e \in Keys \X Keys : \E a, b \in 1 .. i : a < b /\ e = <<q[a], q[b]>>}

\* The keys in the first i places of q.
FirstOf(q, i) == {q[j] : j \in 1 .. i}

\* An arrangement is a sequence that has every element once.
LEMMA Arranged ==
  ASSUME NEW D, IsFiniteSet(D), NEW q \in Arrangements(D)
  PROVE  /\ Cardinality(D) \in Nat /\ Len(q) = Cardinality(D)
         /\ q \in [1 .. Cardinality(D) -> D]
         /\ \A i, j \in 1 .. Cardinality(D) : q[i] = q[j] => i = j
         /\ \A x \in D : \E i \in 1 .. Cardinality(D) : q[i] = x
<1> DEFINE n == Cardinality(D)
<1>1. n \in Nat /\ q \in [1 .. n -> D] /\ IsInjective(q)
  BY FS_CardinalityType DEF Arrangements
<1>2. \A i, j \in 1 .. n : q[i] = q[j] => i = j
  BY <1>1 DEF IsInjective
<1> HIDE DEF n
<1>3. Len(q) = n
  <2>1. q \in Seq(D)
    BY SMT, <1>1
  <2>2. QED
    BY SMT, <1>1, <2>1
<1>4. q \in Surjection(1 .. n, D)
  <2>1. q \in Injection(1 .. n, D)
    BY <1>1 DEF Injection
  <2>2. Cardinality(1 .. n) = Cardinality(D)
    <3>1. IF 1 > n THEN Cardinality(1 .. n) = 0 ELSE Cardinality(1 .. n) = n - 1 + 1
      BY SMT, <1>1, FS_Interval
    <3>2. Cardinality(1 .. n) = n
      BY SMT, <1>1, <3>1
    <3>3. QED
      BY <3>2 DEF n
  <2>3. QED
    BY <2>1, <2>2, FS_Injection
<1>5. \A x \in D : \E i \in 1 .. n : q[i] = x
  BY <1>4 DEF Surjection
<1>6. QED
  BY <1>1, <1>2, <1>3, <1>5 DEF n

\* A list seeded with an arrangement spells its order.
LEMMA SeedSpells ==
  \A D \in SUBSET Keys : \A q \in Arrangements(D) :
    IsFiniteSet(D)
    => /\ LruSeed(q) \in Lists /\ LruSeed(q).nodes = D
       /\ Spells(LruSeed(q), Ordered(q, Cardinality(D)))
\* A touch of the next key of q.
<1>OrderedNext. ASSUME NEW D \in SUBSET Keys, IsFiniteSet(D), NEW q \in Arrangements(D),
                       NEW i \in Nat, i + 1 \in 1 .. Cardinality(D)
                PROVE  AfterUse(FirstOf(q, i), Ordered(q, i), q[i + 1]) = Ordered(q, i + 1)
  <2> USE <1>OrderedNext
  <2> DEFINE T == {q[j] : j \in 1 .. i}
             k == q[i + 1]
             n == Cardinality(D)
  <2> USE DEF FirstOf
  <2>1. n \in Nat /\ q \in [1 .. n -> D] /\ \A a, b \in 1 .. n : q[a] = q[b] => a = b
    BY Arranged
  <2> HIDE DEF n
  <2>2. i + 1 \in 1 .. n
    BY DEF n
  <2>3. /\ \A j \in 1 .. i : j \in 1 .. n /\ j \in 1 .. i + 1 /\ j # i + 1 /\ j < i + 1
        /\ \A j \in 1 .. i + 1 : j = i + 1 \/ j \in 1 .. i
        /\ i + 1 \in 1 .. i + 1 /\ ~(i + 1 < i + 1)
        /\ \A j \in 1 .. i : ~(i + 1 < j)
    BY SMT, <2>1, <2>2
  <2>4. k \notin T /\ k \in Keys /\ T \subseteq Keys
    BY <2>1, <2>3, <2>2
  <2>5. ASSUME NEW e \in AfterUse(T, Ordered(q, i), k) PROVE e \in Ordered(q, i + 1)
    <3>1. CASE e \in Ordered(q, i)
      BY <2>3, <3>1 DEF Ordered
    <3>2. CASE e \in (T \ {k}) \X {k}
      <4>1. PICK j \in 1 .. i : e = <<q[j], k>>
        <5>1. PICK t \in T : e = <<t, k>>
          BY SMT, <3>2
        <5>2. QED
          BY <5>1
      <4>2. e \in Keys \X Keys
        BY <2>4, <3>2
      <4>3. QED
        BY <2>3, <4>1, <4>2 DEF Ordered
    <3>3. QED
      BY <2>5, <3>1, <3>2 DEF AfterUse, Dropped
  <2>6. ASSUME NEW e \in Ordered(q, i + 1) PROVE e \in AfterUse(T, Ordered(q, i), k)
    <3>1. PICK a \in 1 .. i + 1, b \in 1 .. i + 1 : a < b /\ e = <<q[a], q[b]>>
      BY DEF Ordered
    <3>2. e \in Keys \X Keys
      BY DEF Ordered
    <3>3. a \in 1 .. i
      BY <2>3, <3>1
    <3>4. q[a] \in T /\ q[a] # k
      BY <2>4, <3>3
    <3>5. CASE b = i + 1
      <4>1. e = <<q[a], k>>
        BY <3>1, <3>5
      <4>2. e \in (T \ {k}) \X {k}
        BY <3>4, <4>1
      <4>3. QED
        BY <4>2 DEF AfterUse
    <3>6. CASE b \in 1 .. i
      <4>1. e \in Ordered(q, i)
        BY <3>1, <3>2, <3>3, <3>6 DEF Ordered
      <4>2. q[b] # k
        BY <2>4, <3>6
      <4>3. e[1] # k /\ e[2] # k
        BY <3>1, <3>4, <4>2
      <4>4. QED
        BY <4>1, <4>3 DEF AfterUse, Dropped
    <3>7. QED
      BY <2>3, <3>5, <3>6
  <2>7. QED
    BY <2>5, <2>6
<1>Main. ASSUME NEW D \in SUBSET Keys, IsFiniteSet(D), NEW q \in Arrangements(D)
         PROVE  /\ LruSeed(q) \in Lists /\ LruSeed(q).nodes = D
                /\ Spells(LruSeed(q), Ordered(q, Cardinality(D)))
  <2> USE <1>Main
  <2> DEFINE n == Cardinality(D)
             G == [i \in 1 .. n |-> [l \in Lists |-> touch(l, q[i])]]
             Eq(f) == f = [i \in 0 .. n |->
                             IF i = 0 THEN LruReset ELSE touch(f[i - 1], q[i])]
             u == CHOOSE f : Eq(f)
  <2>1. /\ n \in Nat /\ Len(q) = n /\ q \in [1 .. n -> D]
        /\ \A i, j \in 1 .. n : q[i] = q[j] => i = j
        /\ \A x \in D : \E i \in 1 .. n : q[i] = x
    BY Arranged
  <2>2. LruSeed(q) = u[n]
    BY <2>1 DEF LruSeed
  <2>3. LruReset \in Lists /\ Spells(LruReset, {}) /\ LruReset.nodes = {}
    BY ResetSpells, Parameters DEF LruReset
  <2> HIDE DEF n
  <2>4. G \in [1 .. n -> [Lists -> Lists]]
    BY <2>1, TouchType
  <2>5. PICK f \in [0 .. n -> Lists] : Iterates(f, LruReset, n, G)
    <3> HIDE DEF G
    <3>1. QED
      BY <2>1, <2>3, <2>4, Iteration
  <2>6. Eq(f)
    <3>1. \A i \in 0 .. n : i # 0 => i \in 1 .. n /\ i - 1 \in 0 .. n
      BY SMT, <2>1
    <3>2. ASSUME NEW i \in 0 .. n, i # 0 PROVE G[i][f[i - 1]] = touch(f[i - 1], q[i])
      BY <3>1, <3>2
    <3>3. \A i \in 0 .. n : f[i] = IF i = 0 THEN LruReset ELSE touch(f[i - 1], q[i])
      <4> HIDE DEF G
      <4>1. QED
        BY <2>5, <3>2 DEF Iterates
    <3>4. f = [i \in 0 .. n |-> f[i]]
      OBVIOUS
    <3>5. QED
      BY <3>3, <3>4
  <2>7. Eq(u)
    BY <2>6
  <2> HIDE DEF u
  <2>8. \A i \in 0 .. n : u[i] = IF i = 0 THEN LruReset ELSE touch(u[i - 1], q[i])
    BY <2>7
  <2> DEFINE P(i) == u[i] \in Lists /\ u[i].nodes = FirstOf(q, i) /\ Spells(u[i], Ordered(q, i))
             S == {i \in Nat : i \in 0 .. n => P(i)}
  <2>9. 0 \in S
    <3>1. 0 \in 0 .. n /\ 1 .. 0 = {}
      BY SMT, <2>1
    <3>2. FirstOf(q, 0) = {} /\ Ordered(q, 0) = {}
      BY <3>1 DEF FirstOf, Ordered
    <3>3. QED
      BY <2>3, <2>8, <3>1, <3>2
  <2>10. ASSUME NEW i \in Nat, i \in S PROVE i + 1 \in S
    <3>1. SUFFICES ASSUME i + 1 \in 0 .. n PROVE P(i + 1)
      BY SMT
    <3>2. i + 1 \in 1 .. n /\ i \in 0 .. n /\ (i + 1) - 1 = i /\ i + 1 # 0
      BY SMT, <2>1, <3>1
    <3>3. P(i)
      BY <2>10, <3>2
    <3>4. u[i + 1] = touch(u[i], q[i + 1]) /\ q[i + 1] \in Keys
      BY <2>1, <2>8, <3>1, <3>2
    <3>5. /\ u[i + 1] \in Lists
          /\ Spells(u[i + 1], AfterUse(FirstOf(q, i), Ordered(q, i), q[i + 1]))
      <4>1. Null \notin Keys
        BY Parameters
      <4>2. Spells(u[i], Ordered(q, i)) /\ u[i] \in Lists /\ u[i].nodes = FirstOf(q, i)
        BY <3>3
      <4>3. Spells(touch(u[i], q[i + 1]), AfterUse(u[i].nodes, Ordered(q, i), q[i + 1]))
        BY <3>4, <4>1, <4>2, TouchSpells
      <4>4. touch(u[i], q[i + 1]) \in Lists
        BY <3>4, <4>2, TouchType
      <4>5. QED
        BY <3>4, <4>2, <4>3, <4>4
    <3>6. u[i + 1].nodes = FirstOf(q, i) \cup {q[i + 1]}
      BY <3>3, <3>4, TouchType
    <3>7. FirstOf(q, i + 1) = FirstOf(q, i) \cup {q[i + 1]}
      <4>1. \A j : j \in 1 .. i + 1 <=> j = i + 1 \/ j \in 1 .. i
        BY SMT
      <4>2. QED
        BY <4>1 DEF FirstOf
    <3>8. AfterUse(FirstOf(q, i), Ordered(q, i), q[i + 1]) = Ordered(q, i + 1)
      BY <3>2, <1>OrderedNext DEF n
    <3>9. QED
      BY <3>5, <3>6, <3>7, <3>8
  <2> HIDE DEF S
  <2>11. n \in S
    BY <2>1, <2>9, <2>10, Induction
  <2>12. P(n)
    <3>1. n \in 0 .. n
      BY SMT, <2>1
    <3>2. QED
      BY <2>11, <3>1 DEF S
  <2>13. FirstOf(q, n) = D
    <3>1. \A j \in 1 .. n : q[j] \in D
      BY <2>1
    <3>2. ASSUME NEW x \in D PROVE x \in FirstOf(q, n)
      BY <2>1 DEF FirstOf
    <3>3. QED
      BY <3>1, <3>2 DEF FirstOf
  <2>14. QED
    BY <2>2, <2>12, <2>13 DEF n
<1> QED
  BY <1>Main

-----------------------------------------------------------------------------
(* The inductive invariant: NeverUndercounts and ExactWhereAlone cell by   *)
(* cell, so that no minimum is involved.                                   *)

Counters == 0 .. MaxCounter

Sketches == [table : [Rows -> [Columns -> Counters]],
             additionsSinceAging : Nat, truth : [Keys -> Counters]]

OwnCell(k, r) == \A j \in Keys \ {k} : indexFor(j, r) # indexFor(k, r)

CellInv(s) ==
  /\ s \in Sketches
  /\ s.additionsSinceAging < agingThreshold
  /\ \A k \in Keys, r \in Rows :
       /\ s.truth[k] <= s.table[r][indexFor(k, r)]
       /\ OwnCell(k, r) => s.table[r][indexFor(k, r)] = s.truth[k]
  /\ Bounded(s)

\* The row's column of a key is one.
LEMMA IndexType ==
  ASSUME NEW k \in Keys, NEW r \in Rows
  PROVE  indexFor(k, r) \in Columns
BY Parameters DEF indexFor

\* The estimate of a key is one of its cells and the least of them.
LEMMA EstimateIsLeastCell ==
  ASSUME NEW s \in Sketches, NEW k \in Keys
  PROVE  /\ \E r \in Rows : estimate(s, k) = s.table[r][indexFor(k, r)]
         /\ \A r \in Rows : estimate(s, k) <= s.table[r][indexFor(k, r)]
<1> DEFINE values == {s.table[r][indexFor(k, r)] : r \in Rows}
<1>1. values \in SUBSET Nat /\ values # {}
  BY SMT, IndexType, Parameters DEF Sketches, Counters
<1>2. \E v \in values : \A w \in values : v <= w
  BY <1>1, LeastExists
<1>3. estimate(s, k) \in values /\ \A w \in values : estimate(s, k) <= w
  BY <1>2 DEF estimate
<1>4. QED
  BY <1>3

\* The cells decide about the promises.
LEMMA CellsSuffice ==
  ASSUME NEW s, CellInv(s)
  PROVE  Overestimates(s) /\ ExactWhereAlone(s) /\ Bounded(s)
<1>1. s \in Sketches /\ \A k \in Keys : s.truth[k] \in Nat
  BY SMT DEF CellInv, Sketches, Counters
<1>2. ASSUME NEW k \in Keys PROVE estimate(s, k) \in Nat /\ s.truth[k] <= estimate(s, k)
  <2>1. PICK r \in Rows : estimate(s, k) = s.table[r][indexFor(k, r)]
    BY <1>1, EstimateIsLeastCell
  <2>2. indexFor(k, r) \in Columns
    BY IndexType
  <2>3. QED
    BY SMT, <1>1, <2>1, <2>2 DEF CellInv, Sketches, Counters
<1>3. ASSUME NEW k \in Keys, Alone(k) PROVE estimate(s, k) = s.truth[k]
  <2>1. PICK r \in Rows : OwnCell(k, r)
    BY <1>3 DEF Alone, OwnCell
  <2>2. estimate(s, k) <= s.truth[k]
    BY SMTT(30), <1>1, <2>1, EstimateIsLeastCell DEF CellInv
  <2>3. QED
    BY SMT, <1>1, <1>2, <2>2
<1>4. QED
  BY <1>1, <1>2, <1>3 DEF Overestimates, ExactWhereAlone, CellInv

-----------------------------------------------------------------------------
(* The steps *)

\* The empty sketch.
LEMMA ResetCells == CellInv(resetSketch)
<1>1. /\ resetSketch \in Sketches /\ resetSketch.additionsSinceAging = 0
      /\ \A k \in Keys : resetSketch.truth[k] = 0
      /\ \A r \in Rows, c \in Columns : resetSketch.table[r][c] = 0
  <2>1. 0 \in Counters
    BY SMTT(30), Parameters DEF Counters
  <2>2. QED
    BY <2>1 DEF resetSketch, Sketches
<1>2. QED
  BY SMT, <1>1, IndexType, Parameters DEF CellInv, Bounded

\* increment, with or without aging.
LEMMA IncrementCells ==
  \A s : \A k \in Keys :
    CellInv(s)
    => CellInv(increment(s, k))
\* Counting a use raises every cell of the key, and only cells of its column.
<1>CountedCells. ASSUME NEW s, CellInv(s), NEW k \in Keys
                 PROVE  LET t == Counted(s, k) IN
                        /\ t \in Sketches
                        /\ t.additionsSinceAging = s.additionsSinceAging + 1
                        /\ \A j \in Keys, r \in Rows :
                             /\ t.truth[j] <= t.table[r][indexFor(j, r)]
                             /\ OwnCell(j, r) => t.table[r][indexFor(j, r)] = t.truth[j]
                        /\ \A r \in Rows, c \in Columns :
                             t.table[r][c] <= agingThreshold + t.additionsSinceAging
  <2> USE <1>CountedCells
  <2> DEFINE t == Counted(s, k)
  <2>1. s \in Sketches /\ s.additionsSinceAging \in Nat /\ agingThreshold \in Nat
        /\ MaxCounter \in Nat
    BY Parameters DEF CellInv, Sketches, Counters
  <2>2. \A n \in Nat : Plus1(n) \in Nat /\ n <= Plus1(n) /\ Plus1(n) <= n + 1
    BY SMT, <2>1 DEF Plus1
  <2>3. \A m, n \in Nat : m <= n => Plus1(m) <= Plus1(n)
    BY SMTT(30), <2>1 DEF Plus1
  <2>4. /\ t.additionsSinceAging = s.additionsSinceAging + 1
        /\ \A r \in Rows, c \in Columns :
             t.table[r][c] = IF c = indexFor(k, r) THEN Plus1(s.table[r][c])
                             ELSE s.table[r][c]
        /\ \A j \in Keys : t.truth[j] = IF j = k THEN Plus1(s.truth[j]) ELSE s.truth[j]
    BY <2>1 DEF Counted, Sketches, Counters
  <2>5. t \in Sketches
    <3>1. \A n \in Counters : Plus1(n) \in Counters
      BY SMT, <2>1 DEF Plus1, Counters
    <3>2. s.additionsSinceAging + 1 \in Nat
      BY SMT, <2>1
    <3>3. QED
      BY <2>1, <3>1, <3>2 DEF Counted, Sketches
  <2>6. ASSUME NEW r \in Rows, NEW c \in Columns
        PROVE  t.table[r][c] <= agingThreshold + t.additionsSinceAging
    BY SMTT(30), <2>1, <2>2, <2>4 DEF CellInv, Bounded, Sketches, Counters
  <2>7. ASSUME NEW j \in Keys, NEW r \in Rows
        PROVE  /\ t.truth[j] <= t.table[r][indexFor(j, r)]
               /\ OwnCell(j, r) => t.table[r][indexFor(j, r)] = t.truth[j]
    <3>1. /\ indexFor(j, r) \in Columns
          /\ s.truth[j] \in Nat /\ s.table[r][indexFor(j, r)] \in Nat
          /\ s.truth[j] <= s.table[r][indexFor(j, r)]
          /\ OwnCell(j, r) => s.table[r][indexFor(j, r)] = s.truth[j]
      BY SMT, <2>1, IndexType DEF CellInv, Sketches, Counters
    <3>2. CASE j = k
      BY <2>2, <2>3, <2>4, <3>1, <3>2
    <3>3. CASE j # k
      <4>1. OwnCell(j, r) => indexFor(j, r) # indexFor(k, r)
        BY SMTT(30), <3>3 DEF OwnCell
      <4>2. QED
        BY SMTT(30), <2>2, <2>4, <3>1, <3>3, <4>1
    <3>4. QED
      BY SMTT(30), <3>2, <3>3
  <2>8. QED
    BY SMTT(30), <2>4, <2>5, <2>6, <2>7
\* Aging halves a count and all its cells alike.
<1>AgedCells. ASSUME NEW t \in Sketches,
                     t.additionsSinceAging <= agingThreshold,
                     \A j \in Keys, r \in Rows :
                       /\ t.truth[j] <= t.table[r][indexFor(j, r)]
                       /\ OwnCell(j, r) => t.table[r][indexFor(j, r)] = t.truth[j],
                     \A r \in Rows, c \in Columns :
                       t.table[r][c] <= agingThreshold + t.additionsSinceAging
              PROVE  CellInv(age(t))
  <2> USE <1>AgedCells
  <2>1. /\ agingThreshold \in Nat \ {0} /\ t.additionsSinceAging \in Nat
        /\ \A r \in Rows, c \in Columns : t.table[r][c] \in Nat
        /\ \A j \in Keys : t.truth[j] \in Nat
    BY SMTT(30), Parameters DEF Sketches, Counters
  <2>2. /\ age(t).additionsSinceAging = 0
        /\ \A r \in Rows, c \in Columns : age(t).table[r][c] = t.table[r][c] \div 2
        /\ \A j \in Keys : age(t).truth[j] = t.truth[j] \div 2
    BY DEF age
  <2>3. \A n \in Nat : n \div 2 \in Nat
    BY SMTT(30)
  <2>4. age(t) \in Sketches
    <3>1. \A n \in Counters : n \div 2 \in Counters
      BY SMTT(30), Parameters DEF Counters
    <3>2. 0 \in Nat
      BY SMTT(30)
    <3>3. QED
      BY SMTT(30), <3>1, <3>2 DEF age, Sketches
  <2>5. ASSUME NEW r \in Rows, NEW c \in Columns
        PROVE  age(t).table[r][c] <= agingThreshold
    BY SMTT(30), <2>1, <2>2
  <2>6. ASSUME NEW j \in Keys, NEW r \in Rows
        PROVE  /\ age(t).truth[j] <= age(t).table[r][indexFor(j, r)]
               /\ OwnCell(j, r) => age(t).table[r][indexFor(j, r)] = age(t).truth[j]
    BY SMT, <2>1, <2>2, IndexType
  <2>7. QED
    BY SMTT(30), <2>1, <2>2, <2>4, <2>5, <2>6 DEF CellInv, Bounded
<1>Main. ASSUME NEW s, CellInv(s), NEW k \in Keys
         PROVE  CellInv(increment(s, k))
  <2> USE <1>Main
  <2> DEFINE t == Counted(s, k)
  <2>1. /\ t \in Sketches
        /\ t.additionsSinceAging = s.additionsSinceAging + 1
        /\ \A j \in Keys, r \in Rows :
             /\ t.truth[j] <= t.table[r][indexFor(j, r)]
             /\ OwnCell(j, r) => t.table[r][indexFor(j, r)] = t.truth[j]
        /\ \A r \in Rows, c \in Columns :
             t.table[r][c] <= agingThreshold + t.additionsSinceAging
    BY <1>CountedCells
  <2>2. /\ s.additionsSinceAging \in Nat /\ s.additionsSinceAging < agingThreshold
        /\ agingThreshold \in Nat
    BY SMTT(30), Parameters DEF CellInv, Sketches, Counters
  <2>3. CASE s.additionsSinceAging + 1 >= agingThreshold
    <3>1. increment(s, k) = age(t)
      BY <2>3 DEF increment
    <3> HIDE DEF t
    <3>2. t.additionsSinceAging <= agingThreshold
      BY SMTT(30), <2>1, <2>2
    <3>3. QED
      BY <2>1, <3>1, <3>2, <1>AgedCells
  <2>4. CASE ~(s.additionsSinceAging + 1 >= agingThreshold)
    <3>1. increment(s, k) = t
      BY <2>4 DEF increment
    <3> HIDE DEF t
    <3>2. QED
      BY SMT, <2>1, <2>2, <2>4, <3>1 DEF CellInv, Bounded
  <2>5. QED
    BY SMTT(30), <2>3, <2>4
<1> QED
  BY <1>Main

\* The sketch that a seed of TinyLFU fills is sound.
LEMMA SeedCells ==
  \A D \in SUBSET Keys : \A e \in Arrangements(D) : \A q : \A hits \in [D -> Nat] :
    IsFiniteSet(D)
    => CellInv(TinySeed(e, q, hits).sketch)
\* Replaying a key's uses, and the uses of all entries, keeps the cells sound
\* wherever aging strikes.
<1>ReplayCells. ASSUME NEW s, CellInv(s), NEW k \in Keys, NEW n \in Nat
                PROVE  CellInv(Replay(s, k, n))
  <2> USE <1>ReplayCells
  <2> DEFINE V == {t \in Sketches : CellInv(t)}
             G == [i \in 1 .. n |-> [t \in V |-> increment(t, k)]]
             Eq(f) == f = [i \in 0 .. n |-> IF i = 0 THEN s ELSE increment(f[i - 1], k)]
             u == CHOOSE f : Eq(f)
  <2>1. Replay(s, k, n) = u[n]
    BY DEF Replay
  <2>2. \A t : t \in V <=> CellInv(t)
    BY DEF CellInv
  <2> HIDE DEF V
  <2>3. G \in [1 .. n -> [V -> V]]
    BY <2>2, IncrementCells
  <2>4. PICK f \in [0 .. n -> V] : Iterates(f, s, n, G)
    <3> HIDE DEF G
    <3>1. QED
      BY <2>2, <2>3, Iteration
  <2>5. Eq(f)
    <3>1. \A i \in 0 .. n : i # 0 => i \in 1 .. n /\ i - 1 \in 0 .. n
      BY SMT
    <3>2. ASSUME NEW i \in 0 .. n, i # 0 PROVE G[i][f[i - 1]] = increment(f[i - 1], k)
      BY <3>1, <3>2
    <3>3. \A i \in 0 .. n : f[i] = IF i = 0 THEN s ELSE increment(f[i - 1], k)
      <4> HIDE DEF G
      <4>1. QED
        BY <2>4, <3>2 DEF Iterates
    <3>4. f = [i \in 0 .. n |-> f[i]]
      OBVIOUS
    <3>5. QED
      BY <3>3, <3>4
  <2>6. Eq(u)
    BY <2>5
  <2> HIDE DEF u
  <2>7. u[0] = s /\ \A i \in 0 .. n : i # 0 => u[i] = increment(u[i - 1], k)
    <3>1. 0 \in 0 .. n
      BY SMT
    <3>2. QED
      BY <2>6, <3>1
  <2> DEFINE S == {i \in Nat : i \in 0 .. n => CellInv(u[i])}
  <2>8. 0 \in S
    BY <2>7
  <2>9. ASSUME NEW i \in Nat, i \in S PROVE i + 1 \in S
    <3>1. i + 1 \in Nat /\ (i + 1 \in 0 .. n => i \in 0 .. n /\ i + 1 # 0 /\ (i + 1) - 1 = i)
      BY SMT
    <3>2. QED
      BY <2>7, <2>9, <3>1, IncrementCells
  <2> HIDE DEF S
  <2>10. n \in S
    BY <2>8, <2>9, Induction
  <2>11. n \in 0 .. n
    BY SMT
  <2>12. QED
    BY <2>1, <2>10, <2>11 DEF S
<1>Main. ASSUME NEW D \in SUBSET Keys, IsFiniteSet(D), NEW e \in Arrangements(D),
                NEW q, NEW hits \in [D -> Nat]
         PROVE  CellInv(TinySeed(e, q, hits).sketch)
  <2> USE <1>Main
  <2> DEFINE n == Cardinality(D)
             V == {t \in Sketches : CellInv(t)}
             Step(t, i) == Replay(t, e[i], replayCount(hits[e[i]]))
             G == [i \in 1 .. n |-> [t \in V |-> Step(t, i)]]
             Eq(f) == f = [i \in 0 .. n |-> IF i = 0 THEN resetSketch ELSE Step(f[i - 1], i)]
             u == CHOOSE f : Eq(f)
  <2>1. n \in Nat /\ Len(e) = n /\ e \in [1 .. n -> D]
    BY Arranged
  <2>2. TinySeed(e, q, hits).sketch = u[n]
    BY <2>1 DEF TinySeed
  <2>3. \A t : t \in V <=> CellInv(t)
    BY DEF CellInv
  <2> HIDE DEF V, n
  <2>4. ASSUME NEW t, CellInv(t), NEW i \in 1 .. n PROVE CellInv(Step(t, i))
    <3>1. e[i] \in Keys /\ hits[e[i]] \in Nat
      BY <2>1
    <3>2. replayCount(hits[e[i]]) \in Nat
      BY <3>1, Parameters DEF replayCount
    <3>3. QED
      BY <2>4, <3>1, <3>2, <1>ReplayCells
  <2> HIDE DEF Step
  <2>5. G \in [1 .. n -> [V -> V]]
    BY <2>3, <2>4
  <2>6. PICK f \in [0 .. n -> V] : Iterates(f, resetSketch, n, G)
    <3> HIDE DEF G
    <3>1. QED
      BY <2>1, <2>3, <2>5, Iteration, ResetCells
  <2>7. Eq(f)
    <3>1. \A i \in 0 .. n : i # 0 => i \in 1 .. n /\ i - 1 \in 0 .. n
      BY SMT, <2>1
    <3>2. ASSUME NEW i \in 0 .. n, i # 0 PROVE G[i][f[i - 1]] = Step(f[i - 1], i)
      BY <3>1, <3>2
    <3>3. \A i \in 0 .. n : f[i] = IF i = 0 THEN resetSketch ELSE Step(f[i - 1], i)
      <4> HIDE DEF G
      <4>1. QED
        BY <2>6, <3>2 DEF Iterates
    <3>4. f = [i \in 0 .. n |-> f[i]]
      OBVIOUS
    <3>5. QED
      BY <3>3, <3>4
  <2>8. Eq(u)
    BY <2>7
  <2> HIDE DEF u
  <2>9. u[0] = resetSketch /\ \A i \in 0 .. n : i # 0 => u[i] = Step(u[i - 1], i)
    <3>1. 0 \in 0 .. n
      BY SMT, <2>1
    <3>2. QED
      BY <2>8, <3>1
  <2> DEFINE S == {i \in Nat : i \in 0 .. n => CellInv(u[i])}
  <2>10. 0 \in S
    BY <2>9, ResetCells
  <2>11. ASSUME NEW i \in Nat, i \in S PROVE i + 1 \in S
    <3>1. /\ i + 1 \in Nat
          /\ i + 1 \in 0 .. n =>
               i \in 0 .. n /\ i + 1 \in 1 .. n /\ i + 1 # 0 /\ (i + 1) - 1 = i
      BY SMT, <2>1
    <3>2. ASSUME i + 1 \in 0 .. n PROVE CellInv(u[i + 1])
      <4>1. CellInv(u[i])
        BY <2>11, <3>1, <3>2
      <4>2. u[i + 1] = Step(u[i], i + 1)
        BY <2>9, <3>1, <3>2
      <4>3. QED
        BY <2>4, <3>1, <3>2, <4>1, <4>2
    <3>3. QED
      BY <3>1, <3>2
  <2> HIDE DEF S
  <2>12. n \in S
    BY <2>1, <2>10, <2>11, Induction
  <2>13. n \in 0 .. n
    BY SMT, <2>1
  <2>14. QED
    BY <2>2, <2>12, <2>13 DEF S
<1> QED
  BY <1>Main

-----------------------------------------------------------------------------
(* The frequency buckets *)

LfuType == [frequency : [Keys -> Frequencies],
            buckets : [Frequencies -> SUBSET Keys],
            minFrequency : Frequencies]

-----------------------------------------------------------------------------
(* The frequencies that occur *)

\* minFrequency found by the scan is consistent with buckets that are.
LEMMA ScanConsistent ==
  \A fr \in [Keys -> Frequencies], b \in [Frequencies -> SUBSET Keys] : \A p :
    /\ MaxFrequency \in Nat
    /\ (\A f \in Frequencies : b[f] = {k \in Keys : fr[k] = f /\ f > 0})
    /\ p = [frequency |-> fr, buckets |-> b, minFrequency |-> lowestRemainingFrequency(b)]
    => p \in LfuType /\ Consistent(p)
\* What the scan for the lowest bucket returns.
<1>LowestRemaining. ASSUME MaxFrequency \in Nat, NEW b \in [Frequencies -> SUBSET Keys]
                    PROVE  LET m == lowestRemainingFrequency(b)
                           IN /\ m \in Frequencies
                              /\ IF \A f \in Frequencies : b[f] = {} THEN m = 0
                                 ELSE b[m] # {} /\ \A f \in Frequencies : b[f] # {} => m <= f
  <2> USE <1>LowestRemaining
  <2> DEFINE S == NonEmpty(b)
  <2>1. S \in SUBSET Nat /\ S \subseteq Frequencies
    BY SMT DEF NonEmpty, Frequencies
  <2>2. CASE S = {}
    BY SMT, <2>2 DEF NonEmpty, lowestRemainingFrequency, Frequencies
  <2>3. CASE S # {}
    <3>1. \E m \in S : \A i \in S : m <= i
      BY <2>1, <2>3, LeastExists
    <3>2. lowestRemainingFrequency(b) = CHOOSE f \in S : \A g \in S : f <= g
      BY <2>3 DEF lowestRemainingFrequency
    <3>3. /\ lowestRemainingFrequency(b) \in S
          /\ \A g \in S : lowestRemainingFrequency(b) <= g
      BY SMTT(30), <3>1, <3>2
    <3>4. QED
      BY <2>1, <3>3 DEF NonEmpty
  <2>4. QED
    BY <2>2, <2>3
<1>Main. ASSUME MaxFrequency \in Nat, NEW fr \in [Keys -> Frequencies],
                NEW b \in [Frequencies -> SUBSET Keys],
                \A f \in Frequencies : b[f] = {k \in Keys : fr[k] = f /\ f > 0},
                NEW p, p = [frequency |-> fr, buckets |-> b,
                            minFrequency |-> lowestRemainingFrequency(b)]
         PROVE  p \in LfuType /\ Consistent(p)
  <2> USE <1>Main
  <2> DEFINE m == lowestRemainingFrequency(b)
  <2>1. /\ m \in Frequencies
        /\ IF \A f \in Frequencies : b[f] = {} THEN m = 0
           ELSE b[m] # {} /\ \A f \in Frequencies : b[f] # {} => m <= f
    BY <1>LowestRemaining
  <2>2. /\ p.frequency = fr /\ p.buckets = b /\ p.minFrequency = m /\ p \in LfuType
    BY <2>1 DEF LfuType
  <2> HIDE DEF m
  <2>3. \A k \in Keys : fr[k] \in Nat /\ (fr[k] > 0 => k \in b[fr[k]])
    BY SMT DEF Frequencies
  <2>4. \A f \in Frequencies, k \in Keys : k \in b[f] => fr[k] = f /\ f > 0
    OBVIOUS
  <2>5. IF \A k \in Keys : fr[k] = 0 THEN m = 0
        ELSE /\ \E k \in Keys : fr[k] = m
             /\ \A k \in Keys : fr[k] > 0 => 0 < m /\ m <= fr[k]
    <3>1. CASE \A k \in Keys : fr[k] = 0
      <4>1. \A f \in Frequencies : b[f] = {}
        BY SMTT(30), <2>4, <3>1
      <4>2. QED
        BY SMTT(30), <2>1, <3>1, <4>1
    <3>2. CASE ~ \A k \in Keys : fr[k] = 0
      <4>1. PICK k \in Keys : fr[k] > 0
        BY SMT, <2>3, <3>2
      <4>2. ~ \A f \in Frequencies : b[f] = {}
        BY <2>3, <4>1
      <4>3. b[m] # {} /\ \A f \in Frequencies : b[f] # {} => m <= f
        BY SMTT(30), <2>1, <4>2
      <4>4. \E x \in Keys : fr[x] = m /\ m > 0
        BY SMTT(30), <2>1, <2>4, <4>3
      <4>5. \A x \in Keys : fr[x] > 0 => m <= fr[x]
        BY <2>3, <4>3
      <4>6. QED
        BY SMTT(30), <3>2, <4>4, <4>5
    <3>3. QED
      BY SMTT(30), <3>1, <3>2
  <2>6. QED
    BY SMTT(30), <2>2, <2>5 DEF Consistent
<1> QED
  BY <1>Main

-----------------------------------------------------------------------------
(* The operations *)

\* The policy before anything is recorded.
LEMMA ResetStep ==
  ASSUME MaxFrequency \in Nat
  PROVE  LfuReset \in LfuType /\ Consistent(LfuReset)
<1>1. /\ LfuReset.frequency = [k \in Keys |-> 0] /\ LfuReset.minFrequency = 0
      /\ LfuReset.buckets = [f \in Frequencies |-> {}] /\ LfuReset \in LfuType
  BY SMT DEF LfuReset, LfuType, Frequencies
<1>2. QED
  BY SMT, <1>1 DEF Consistent

\* bump of a known or an unknown key raises its frequency by one.
LEMMA BumpStep ==
  ASSUME MaxFrequency \in Nat, NEW p \in LfuType, Consistent(p), NEW k \in Keys,
         p.frequency[k] < MaxFrequency
  PROVE  /\ bump(p, k) \in LfuType /\ Consistent(bump(p, k))
         /\ bump(p, k).frequency = [p.frequency EXCEPT ![k] = @ + 1]
<1> DEFINE old == p.frequency[k]
           fr == [p.frequency EXCEPT ![k] = old + 1]
           b == [f \in Frequencies |->
                   IF f = old + 1 THEN p.buckets[f] \cup {k}
                   ELSE IF f = old THEN p.buckets[f] \ {k} ELSE p.buckets[f]]
           m == IF old > 0
                THEN IF p.buckets[old] = {k} /\ p.minFrequency = old
                     THEN old + 1 ELSE p.minFrequency
                ELSE 1
           q == bump(p, k)
<1>1. /\ p.frequency \in [Keys -> Frequencies] /\ p.minFrequency \in Frequencies
      /\ p.buckets \in [Frequencies -> SUBSET Keys]
      /\ old \in Frequencies /\ old + 1 \in Frequencies
  BY SMT DEF LfuType, Frequencies
<1>2. /\ q.frequency = fr /\ q.buckets = b /\ q.minFrequency = m /\ q \in LfuType
  <2>1. fr \in [Keys -> Frequencies] /\ b \in [Frequencies -> SUBSET Keys]
    BY SMTT(30), <1>1
  <2>2. m \in Frequencies
    BY SMTT(30), <1>1 DEF Frequencies
  <2>3. q = [frequency |-> fr, buckets |-> b, minFrequency |-> m]
    BY SMTT(30) DEF bump
  <2> HIDE DEF fr, b, m, q
  <2>4. QED
    BY SMTT(30), <2>1, <2>2, <2>3 DEF LfuType
<1>3. \A x \in Keys : fr[x] = IF x = k THEN old + 1 ELSE p.frequency[x]
  BY SMTT(30), <1>1
<1>4. \A f \in Frequencies : p.buckets[f] = {x \in Keys : p.frequency[x] = f /\ f > 0}
  BY SMTT(30) DEF Consistent
<1>5. \A f \in Frequencies : b[f] = {x \in Keys : fr[x] = f /\ f > 0}
  <2> SUFFICES ASSUME NEW f \in Frequencies
               PROVE  b[f] = {x \in Keys : fr[x] = f /\ f > 0}
    BY SMTT(30)
  <2>1. b[f] = IF f = old + 1 THEN p.buckets[f] \cup {k}
               ELSE IF f = old THEN p.buckets[f] \ {k} ELSE p.buckets[f]
    BY SMTT(30)
  <2>2. f \in Nat /\ old \in Nat
    BY SMTT(30), <1>1 DEF Frequencies
  <2>3. QED
    BY SMTT(30), <1>3, <1>4, <2>1, <2>2
<1>6. /\ \E x \in Keys : fr[x] = m
      /\ \A x \in Keys : fr[x] > 0 => 0 < m /\ m <= fr[x]
  <2>1. /\ \A x \in Keys : p.frequency[x] \in Nat
        /\ p.minFrequency \in Nat
    BY SMTT(30), <1>1 DEF Frequencies
  <2>2. CASE old = 0
    <3>1. m = 1 /\ fr[k] = 1
      BY SMT, <1>3, <2>2
    <3>2. \A x \in Keys : fr[x] \in Nat
      <4>1. old + 1 \in Nat
        BY SMTT(30), <2>2
      <4> HIDE DEF fr, old
      <4>2. QED
        BY <1>3, <2>1, <4>1
    <3>3. QED
      BY SMTT(30), <3>1, <3>2
  <2>3. CASE old > 0
    <3>1. /\ \E x \in Keys : p.frequency[x] = p.minFrequency
          /\ \A x \in Keys : p.frequency[x] > 0 =>
               0 < p.minFrequency /\ p.minFrequency <= p.frequency[x]
      BY SMTT(30), <2>3 DEF Consistent
    <3>2. CASE p.buckets[old] = {k} /\ p.minFrequency = old
      <4>1. m = old + 1
        BY SMTT(30), <2>3, <3>2
      <4>2. \A x \in Keys \ {k} : p.frequency[x] # old
        BY SMTT(30), <1>1, <1>4, <2>3, <3>2
      <4>3. \A x \in Keys : p.frequency[x] > 0 => old <= p.frequency[x]
        BY <3>1, <3>2
      <4> HIDE DEF m, fr
      <4>4. QED
        BY SMTT(30), <1>3, <2>1, <2>3, <4>1, <4>2, <4>3
    <3>3. CASE ~(p.buckets[old] = {k} /\ p.minFrequency = old)
      <4>1. m = p.minFrequency
        BY SMTT(30), <2>3, <3>3
      <4>2. \E x \in Keys \ {k} : p.frequency[x] = p.minFrequency
        <5>1. CASE p.minFrequency = old
          BY SMTT(30), <1>1, <1>4, <2>3, <3>3, <5>1
        <5>2. CASE p.minFrequency # old
          BY <3>1, <5>2
        <5>3. QED
          BY SMTT(30), <5>1, <5>2
      <4> HIDE DEF m, fr
      <4>3. \E x \in Keys : fr[x] = m
        BY <1>3, <4>1, <4>2
      <4>4. 0 < p.minFrequency /\ \A x \in Keys : p.frequency[x] > 0 => m <= p.frequency[x]
        BY <2>3, <3>1, <4>1
      <4>5. m <= old + 1 /\ 0 < m
        BY SMTT(30), <2>1, <2>3, <4>1, <4>4
      <4>6. QED
        BY <1>3, <4>3, <4>4, <4>5
    <3>4. QED
      BY <3>2, <3>3
  <2>4. old \in Nat
    BY <2>1
  <2>5. old = 0 \/ old > 0
    <3> HIDE DEF old
    <3>1. QED
      BY SMT, <2>4
  <2> HIDE DEF fr, m, old
  <2>6. QED
    BY <2>2, <2>3, <2>5
<1>7. fr[k] > 0
  BY SMTT(30), <1>1, <1>3 DEF Frequencies
<1> HIDE DEF fr, b, m, q
<1>8. Consistent(q)
  BY SMTT(30), <1>2, <1>5, <1>6, <1>7 DEF Consistent
<1>9. QED
  BY <1>2, <1>8 DEF fr, q

\* initialize of an unknown key is what bump would do.
LEMMA WriteStep ==
  ASSUME MaxFrequency \in Nat, NEW p \in LfuType, Consistent(p), NEW k \in Keys,
         p.frequency[k] < MaxFrequency
  PROVE  /\ LfuRecordWrite(p, k) \in LfuType /\ Consistent(LfuRecordWrite(p, k))
         /\ LfuRecordWrite(p, k).frequency = [p.frequency EXCEPT ![k] = @ + 1]
<1>1. CASE p.frequency[k] > 0
  BY SMTT(30), <1>1, BumpStep DEF LfuRecordWrite
<1>2. CASE ~(p.frequency[k] > 0)
  <2>1. /\ p.frequency \in [Keys -> Frequencies]
        /\ p.buckets \in [Frequencies -> SUBSET Keys]
        /\ p.frequency[k] = 0 /\ {0, 1} \subseteq Frequencies
    BY SMTT(30), <1>2 DEF LfuType, Frequencies
  <2>2. \A f \in Frequencies : p.buckets[f] = {x \in Keys : p.frequency[x] = f /\ f > 0}
    BY DEF Consistent
  <2>3. p.buckets[0] \ {k} = p.buckets[0]
    BY SMTT(30), <2>1, <2>2
  <2> DEFINE old == p.frequency[k]
             a == [p.buckets EXCEPT ![1] = @ \cup {k}]
             b == [f \in Frequencies |->
                     IF f = old + 1 THEN p.buckets[f] \cup {k}
                     ELSE IF f = old THEN p.buckets[f] \ {k} ELSE p.buckets[f]]
  <2>4. a = b
    <3>1. a \in [Frequencies -> SUBSET Keys] /\ b \in [Frequencies -> SUBSET Keys]
      BY SMTT(30), <2>1
    <3>2. ASSUME NEW f \in Frequencies PROVE a[f] = b[f]
      <4>1. old = 0 /\ old + 1 = 1
        BY SMT, <2>1
      <4>2. a[f] = IF f = 1 THEN p.buckets[f] \cup {k} ELSE p.buckets[f]
        BY <2>1
      <4>3. b[f] = IF f = old + 1 THEN p.buckets[f] \cup {k}
                   ELSE IF f = old THEN p.buckets[f] \ {k} ELSE p.buckets[f]
        OBVIOUS
      <4> HIDE DEF a, b, old
      <4>4. QED
        BY SMTT(30), <2>3, <4>1, <4>2, <4>3
    <3> HIDE DEF a, b
    <3>3. QED
      BY SMTT(30), <3>1, <3>2
  <2>5. initialize(p, k) = bump(p, k)
    <3>1. bump(p, k) =
            [frequency |-> [p.frequency EXCEPT ![k] = old + 1], buckets |-> b,
             minFrequency |-> IF old > 0
                              THEN IF p.buckets[old] = {k} /\ p.minFrequency = old
                                   THEN old + 1 ELSE p.minFrequency
                              ELSE 1]
      BY SMTT(30) DEF bump
    <3>2. initialize(p, k) = [frequency |-> [p.frequency EXCEPT ![k] = 1],
                              buckets |-> a, minFrequency |-> 1]
      BY DEF initialize
    <3>3. old = 0 /\ old + 1 = 1 /\ ~(old > 0)
      BY SMTT(30), <2>1
    <3> HIDE DEF a, b, old
    <3>4. QED
      BY SMTT(30), <2>4, <3>1, <3>2, <3>3
  <2>6. QED
    BY SMTT(30), <1>2, <2>5, BumpStep DEF LfuRecordWrite
<1>3. QED
  BY SMTT(30), <1>1, <1>2

\* recordRemoval of a known or an unknown key.
LEMMA RemovalStep ==
  ASSUME MaxFrequency \in Nat, NEW p \in LfuType, Consistent(p), NEW k \in Keys
  PROVE  /\ LfuRecordRemoval(p, k) \in LfuType /\ Consistent(LfuRecordRemoval(p, k))
         /\ \A x \in Keys \ {k} : LfuRecordRemoval(p, k).frequency[x] = p.frequency[x]
<1> DEFINE freq == p.frequency[k]
           fr == [p.frequency EXCEPT ![k] = 0]
           b == [p.buckets EXCEPT ![freq] = @ \ {k}]
           gone == b[freq] = {} /\ p.minFrequency = freq
           m == IF gone THEN lowestRemainingFrequency(b) ELSE p.minFrequency
           q == LfuRecordRemoval(p, k)
<1>1. /\ p.frequency \in [Keys -> Frequencies] /\ p.minFrequency \in Frequencies
      /\ p.buckets \in [Frequencies -> SUBSET Keys]
      /\ freq \in Frequencies /\ 0 \in Frequencies /\ Frequencies \subseteq Nat
  BY SMTT(30) DEF LfuType, Frequencies
<1>2. CASE freq = 0
  BY SMTT(30), <1>2 DEF LfuRecordRemoval
<1>3. CASE freq # 0
  <2>1. q = [frequency |-> fr, buckets |-> b, minFrequency |-> m]
    BY <1>3 DEF LfuRecordRemoval
  <2>2. fr \in [Keys -> Frequencies] /\ b \in [Frequencies -> SUBSET Keys]
    BY <1>1
  <2>3. \A x \in Keys : fr[x] = IF x = k THEN 0 ELSE p.frequency[x]
    BY SMTT(30), <1>1
  <2>4. \A f \in Frequencies : b[f] = IF f = freq THEN p.buckets[f] \ {k} ELSE p.buckets[f]
    BY SMTT(30), <1>1
  <2>5. \A f \in Frequencies : p.buckets[f] = {x \in Keys : p.frequency[x] = f /\ f > 0}
    BY DEF Consistent
  <2>6. ASSUME NEW f \in Frequencies
        PROVE  b[f] = {x \in Keys : fr[x] = f /\ f > 0}
    <3>1. f \in Nat /\ p.buckets[f] = {x \in Keys : p.frequency[x] = f /\ f > 0}
      BY SMTT(30), <1>1, <2>5
    <3>2. b[f] = IF f = freq THEN p.buckets[f] \ {k} ELSE p.buckets[f]
      BY SMTT(30), <2>4
    <3> HIDE DEF b, fr
    <3>3. CASE f = freq
      BY SMTT(30), <2>3, <3>1, <3>2, <3>3
    <3>4. CASE f # freq
      <4>1. ASSUME NEW x \in Keys, f > 0
            PROVE  fr[x] = f <=> p.frequency[x] = f
        <5>1. fr[k] = 0 /\ p.frequency[k] # f
          BY SMTT(30), <2>3, <3>4
        <5>2. \A y \in Keys \ {k} : fr[y] = p.frequency[y]
          BY SMTT(30), <2>3
        <5>3. f # 0
          BY SMTT(30), <3>1, <4>1
        <5>4. QED
          BY SMTT(30), <5>1, <5>2, <5>3
      <4>2. QED
        BY SMTT(30), <3>1, <3>2, <3>4, <4>1
    <3>5. QED
      BY SMTT(30), <3>3, <3>4
  <2>7. CASE gone
    <3>1. q = [frequency |-> fr, buckets |-> b,
               minFrequency |-> lowestRemainingFrequency(b)]
      BY SMTT(30), <2>1, <2>7
    <3> HIDE DEF b, fr, q
    <3>2. q \in LfuType /\ Consistent(q)
      BY SMTT(30), <2>2, <2>6, <3>1, ScanConsistent
    <3>3. QED
      BY SMTT(30), <2>3, <3>1, <3>2 DEF q
  <2>8. CASE ~gone
    <3>1. q.frequency = fr /\ q.buckets = b /\ q.minFrequency = p.minFrequency /\ q \in LfuType
      <4>1. m = p.minFrequency
        BY SMTT(30), <2>8
      <4> HIDE DEF b, fr, m, q
      <4>2. QED
        BY SMTT(30), <1>1, <2>1, <2>2, <4>1 DEF LfuType
    <3>2. /\ \E x \in Keys : p.frequency[x] = p.minFrequency
          /\ \A x \in Keys : p.frequency[x] > 0 =>
               0 < p.minFrequency /\ p.minFrequency <= p.frequency[x]
      BY SMTT(30), <1>3 DEF Consistent
    <3>3. \E x \in Keys \ {k} : p.frequency[x] = p.minFrequency
      <4>1. CASE p.minFrequency = freq
        <5>1. b[freq] # {}
          BY SMTT(30), <2>8, <4>1
        <5>2. QED
          BY SMTT(30), <1>1, <2>4, <2>5, <4>1, <5>1
      <4>2. CASE p.minFrequency # freq
        BY SMTT(30), <3>2, <4>2
      <4>3. QED
        BY SMTT(30), <4>1, <4>2
    <3>4. 0 < p.minFrequency
      <4>1. p.frequency[k] \in Nat /\ p.frequency[k] # 0
        BY <1>1, <1>3
      <4>2. p.frequency[k] > 0
        BY SMTT(30), <4>1
      <4>3. QED
        BY <3>2, <4>2
    <3> HIDE DEF b, fr, q
    <3>5. Consistent(q)
      BY SMTT(30), <1>1, <2>3, <2>6, <3>1, <3>2, <3>3, <3>4 DEF Consistent
    <3>6. QED
      BY SMTT(30), <2>3, <3>1, <3>5 DEF q
  <2>9. QED
    BY SMTT(30), <2>7, <2>8
<1>4. QED
  BY <1>2, <1>3

\* A policy seeded from the hits of the held keys.
LEMMA SeedStep ==
  ASSUME MaxFrequency \in Nat \ {0}, NEW h, DOMAIN h \subseteq Keys,
         h \in [DOMAIN h -> Frequencies]
  PROVE  /\ LfuSeed(h) \in LfuType /\ Consistent(LfuSeed(h))
         /\ \A k \in DOMAIN h : /\ 0 < LfuSeed(h).frequency[k]
                                /\ h[k] <= LfuSeed(h).frequency[k]
<1> DEFINE fr == [k \in Keys |->
                    IF k \notin DOMAIN h THEN 0 ELSE IF h[k] > 1 THEN h[k] ELSE 1]
           b == [f \in Frequencies |-> {k \in DOMAIN h : fr[k] = f}]
           q == LfuSeed(h)
<1>1. \A k \in DOMAIN h : h[k] \in Nat /\ h[k] <= MaxFrequency
  BY SMT DEF Frequencies
<1>2. fr \in [Keys -> Frequencies]
  BY SMTT(30), <1>1 DEF Frequencies
<1>3. \A k \in DOMAIN h : k \in Keys /\ 0 < fr[k] /\ h[k] <= fr[k]
  BY SMT, <1>1
<1>4. \A k \in Keys \ DOMAIN h : fr[k] = 0
  OBVIOUS
<1>5. \A f \in Frequencies : b[f] = {k \in Keys : fr[k] = f /\ f > 0}
  <2> SUFFICES ASSUME NEW f \in Frequencies
               PROVE  b[f] = {k \in Keys : fr[k] = f /\ f > 0}
    OBVIOUS
  <2>1. f \in Nat /\ b[f] = {k \in DOMAIN h : fr[k] = f}
    BY SMT DEF Frequencies
  <2> HIDE DEF fr, b
  <2>2. QED
    BY SMTT(30), <1>3, <1>4, <2>1
<1>6. b \in [Frequencies -> SUBSET Keys]
  OBVIOUS
<1>7. q = [frequency |-> fr, buckets |-> b, minFrequency |-> lowestRemainingFrequency(b)]
  BY DEF LfuSeed
<1> HIDE DEF fr, b, q
<1>8. q \in LfuType /\ Consistent(q)
  BY SMTT(30), <1>2, <1>5, <1>6, <1>7, ScanConsistent
<1>9. q.frequency = fr
  BY <1>7
<1>10. QED
  BY SMTT(30), <1>3, <1>8, <1>9 DEF q

\* The fast path through minFrequency and the walk over the buckets both end
\* at a coldest candidate; the arbitrary choice is never reached.
LEMMA LfuVictim ==
  ASSUME MaxFrequency \in Nat, NEW p \in LfuType, Consistent(p),
         NEW C \in SUBSET Keys, C # {}, \A x \in C : 0 < p.frequency[x],
         NEW v \in LfuSelectVictim(p, C)
  PROVE  v \in C /\ \A x \in C : p.frequency[v] <= p.frequency[x]
<1> DEFINE b == p.buckets
           m == p.minFrequency
           fast == b[m] \cap C
           hit == {f \in Frequencies : b[f] \cap C # {}}
           lowest == CHOOSE f \in hit : \A g \in hit : f <= g
<1>1. /\ Frequencies \subseteq Nat /\ m \in Frequencies
      /\ \A x \in Keys : p.frequency[x] \in Frequencies
  BY SMT DEF LfuType, Frequencies
<1>2. \A f \in Frequencies : b[f] = {x \in Keys : p.frequency[x] = f /\ f > 0}
  BY DEF Consistent
<1>3. \A x \in C : m <= p.frequency[x]
  <2>1. PICK x \in C : p.frequency[x] # 0
    BY SMT, <1>1
  <2>2. \A k \in Keys : p.frequency[k] > 0 =>
          0 < p.minFrequency /\ p.minFrequency <= p.frequency[k]
    BY <1>1, <2>1 DEF Consistent
  <2>3. \A k \in C : p.frequency[k] > 0
    BY <1>1
  <2>4. QED
    BY <2>2, <2>3
<1>4. v \in IF fast # {} THEN fast ELSE IF hit # {} THEN b[lowest] \cap C ELSE C
  BY DEF LfuSelectVictim
<1>5. ASSUME NEW x \in C PROVE p.frequency[x] \in hit
  <2>1. p.frequency[x] \in Frequencies /\ p.frequency[x] > 0
    BY <1>1
  <2>2. x \in b[p.frequency[x]]
    BY <1>2, <2>1
  <2>3. QED
    BY <2>1, <2>2
<1>6. hit \in SUBSET Nat /\ hit # {}
  BY <1>1, <1>5
<1>7. lowest \in hit /\ \A g \in hit : lowest <= g
  <2> HIDE DEF hit
  <2>1. \E f \in hit : \A g \in hit : f <= g
    BY <1>6, LeastExists
  <2>2. QED
    BY <2>1
<1>8. CASE fast # {}
  <2>1. v \in C /\ v \in b[m]
    BY <1>4, <1>8
  <2>2. p.frequency[v] = m
    <3> HIDE DEF b, m
    <3>1. QED
      BY <1>1, <1>2, <2>1
  <2>3. QED
    BY <1>3, <2>1, <2>2
<1>9. CASE fast = {}
  <2>1. v \in b[lowest] \cap C
    BY <1>4, <1>6, <1>9
  <2>2. lowest \in Frequencies
    BY <1>7
  <2> HIDE DEF lowest
  <2>3. p.frequency[v] = lowest
    BY <1>2, <2>1, <2>2
  <2> HIDE DEF hit
  <2>4. QED
    BY <1>5, <1>7, <2>1, <2>3
<1>10. QED
  BY <1>8, <1>9

\* TinyLFU picks one of the bottomK least recent candidates whose estimate is
\* least, so none that is counted exactly was used less often.
LEMMA TinyVictim ==
  ASSUME NEW p, p.recency \in Lists, IsFiniteSet(p.recency.nodes),
         NEW R, Spells(p.recency, R), CellInv(p.sketch),
         NEW C \in SUBSET p.recency.nodes, C # {}
  PROVE  LET v == TinySelectVictim(p, C)
         IN /\ v \in C /\ Cardinality(Below(C, R, v)) < bottomK
            /\ \A x \in C : Cardinality(Below(C, R, x)) < bottomK /\ Alone(x)
                              => p.sketch.truth[v] <= p.sketch.truth[x]
<1> DEFINE b == leastRecentlyUsedCandidates(p.recency, C, bottomK)
           s == p.sketch
           freq(i) == estimate(s, b[i])
           Best(i) == \A j \in DOMAIN b :
                        freq(i) < freq(j) \/ (freq(i) = freq(j) /\ i <= j)
           best == CHOOSE i \in DOMAIN b : Best(i)
           v == TinySelectVictim(p, C)
<1>1. BottomOf(C, R, bottomK, b)
  BY CandidatesFound, Parameters
<1>2. v = IF b = <<>> THEN LruSelectVictim(p.recency, C) ELSE b[best]
  BY DEF TinySelectVictim
<1>3. C \subseteq Keys
  BY DEF Lists
<1> HIDE DEF b, v
<1>4. PICK n \in Nat : b \in [1 .. n -> C]
  BY <1>1 DEF BottomOf
<1>5. 1 \in 1 .. n /\ DOMAIN b = 1 .. n
  BY <1>1, <1>4 DEF BottomOf
<1>6. b # <<>>
  BY SMT, <1>5
<1>7. s \in Sketches /\ \A k \in Keys : estimate(s, k) \in Nat
  <2>1. s \in Sketches
    BY DEF CellInv
  <2>2. ASSUME NEW k \in Keys PROVE estimate(s, k) \in Nat
    <3>1. PICK r \in Rows : estimate(s, k) = s.table[r][indexFor(k, r)]
      BY <2>1, EstimateIsLeastCell
    <3>2. s.table[r][indexFor(k, r)] \in Counters
      <4>1. s.table \in [Rows -> [Columns -> Counters]]
        BY <2>1 DEF Sketches
      <4>2. QED
        BY <4>1, IndexType
    <3>3. QED
      BY SMTT(30), <3>1, <3>2, Parameters DEF Counters
  <2>3. QED
    BY <2>1, <2>2
<1>8. \A i \in 1 .. n : b[i] \in C /\ freq(i) \in Nat
  BY <1>3, <1>4, <1>7
<1> DEFINE E == {freq(i) : i \in 1 .. n}
<1>9. PICK m \in E : \A w \in E : m <= w
  <2>1. E \in SUBSET Nat /\ E # {}
    BY <1>5, <1>8
  <2> HIDE DEF E
  <2>2. QED
    BY <2>1, LeastExists
<1> DEFINE I == {i \in 1 .. n : freq(i) = m}
<1>10. PICK i \in I : \A j \in I : i <= j
  <2>1. I \in SUBSET Nat
    <3>1. \A j \in 1 .. n : j \in Nat
      BY SMT, <1>4
    <3>2. QED
      BY <3>1
  <2>2. I # {}
    BY <1>9
  <2> HIDE DEF I
  <2>3. QED
    BY <2>1, <2>2, LeastExists
<1>11. i \in DOMAIN b /\ Best(i)
  <2>1. \A j \in 1 .. n : m <= freq(j)
    BY <1>9
  <2>2. i \in 1 .. n /\ freq(i) = m
    BY <1>10
  <2>3. ASSUME NEW j \in 1 .. n PROVE freq(i) < freq(j) \/ (freq(i) = freq(j) /\ i <= j)
    <3>1. CASE freq(j) = m
      BY <1>10, <2>2, <3>1
    <3>2. CASE freq(j) # m
      <4> DEFINE x == freq(j)
                 y == freq(i)
      <4>1. x \in Nat /\ y \in Nat /\ y <= x /\ x # y
        BY <1>8, <2>1, <2>2, <3>2
      <4> HIDE DEF x, y
      <4>2. y < x
        BY SMT, <4>1
      <4>3. QED
        BY <4>2 DEF x, y
    <3>3. QED
      BY <3>1, <3>2
  <2>4. QED
    BY <1>5, <2>2, <2>3
<1>12. best \in DOMAIN b /\ Best(best)
  BY <1>11
<1>13. v = b[best]
  BY <1>2, <1>6
<1> HIDE DEF best
<1>14. best \in 1 .. n
  BY <1>5, <1>12
<1>15. v \in C /\ Cardinality(Below(C, R, v)) < bottomK
  <2>1. v \in C
    BY <1>8, <1>13, <1>14
  <2>2. best <= bottomK /\ Cardinality(Below(C, R, v)) = best - 1
    BY <1>1, <1>12, <1>13 DEF BottomOf
  <2>3. QED
    BY SMTT(30), <1>4, <1>14, <2>1, <2>2, Parameters
<1>16. ASSUME NEW x \in C, Cardinality(Below(C, R, x)) < bottomK, Alone(x)
       PROVE  s.truth[v] <= s.truth[x]
  <2>1. PICK j \in DOMAIN b : b[j] = x
    BY <1>1, <1>16 DEF BottomOf
  <2>2. estimate(s, v) <= estimate(s, x)
    <3>1. freq(best) < freq(j) \/ freq(best) = freq(j)
      BY <1>12, <2>1
    <3>2. freq(best) \in Nat /\ freq(j) \in Nat
      BY <1>5, <1>8, <1>14, <2>1
    <3> DEFINE f == freq(best)
               g == freq(j)
    <3> HIDE DEF f, g
    <3>3. (f < g \/ f = g) /\ f \in Nat /\ g \in Nat
      BY <3>1, <3>2 DEF f, g
    <3>4. f <= g
      BY SMT, <3>3
    <3>5. QED
      BY <1>13, <2>1, <3>4 DEF f, g
  <2>3. v \in Keys /\ x \in Keys
    BY <1>3, <1>15
  <2>4. estimate(s, v) >= s.truth[v] /\ estimate(s, x) = s.truth[x]
    BY <1>16, <2>3, CellsSuffice DEF Overestimates, ExactWhereAlone
  <2>5. s.truth[v] \in Nat
    <3>1. s.truth \in [Keys -> Counters]
      BY <1>7 DEF Sketches
    <3>2. s.truth[v] \in Counters
      BY <2>3, <3>1
    <3>3. QED
      BY SMTT(30), <3>2, Parameters DEF Counters
  <2>6. estimate(s, v) \in Nat /\ estimate(s, x) \in Nat
    BY <1>7, <2>3
  <2>7. QED
    BY SMTT(30), <2>2, <2>4, <2>5, <2>6
<1>17. QED
  BY <1>15, <1>16 DEF v

-----------------------------------------------------------------------------
(* The lists, whole: finite, and spelling the order their walk shows *)

ListGood(l) == l \in Lists /\ IsFiniteSet(l.nodes) /\ Spells(l, Older(l))

\* An emptied list is good.
LEMMA GoodReset ==
  ListGood(LruReset) /\ LruReset.nodes = {} /\ Older(LruReset) = {}
<1>1. LruReset \in Lists /\ Spells(LruReset, {})
  BY ResetSpells, Parameters
<1>2. LruReset.nodes = {} /\ IsFiniteSet({})
  BY FS_EmptySet DEF LruReset
<1>3. Older(LruReset) = {}
  BY <1>1, <1>2, OlderSpelled
<1>4. QED
  BY <1>1, <1>2, <1>3 DEF ListGood

\* So is a list after a touch.
LEMMA GoodTouch ==
  ASSUME NEW l, ListGood(l), NEW k \in Keys
  PROVE  /\ ListGood(touch(l, k)) /\ touch(l, k).nodes = l.nodes \cup {k}
         /\ Older(touch(l, k)) = AfterUse(l.nodes, Older(l), k)
<1> DEFINE t == touch(l, k)
<1>1. l \in Lists /\ IsFiniteSet(l.nodes) /\ Spells(l, Older(l)) /\ Null \notin Keys
  BY Parameters DEF ListGood
<1>2. Spells(t, AfterUse(l.nodes, Older(l), k))
  BY <1>1, TouchSpells
<1>3. t \in Lists /\ t.nodes = l.nodes \cup {k}
  BY <1>1, TouchType
<1> HIDE DEF t
<1>4. IsFiniteSet(t.nodes)
  <2>1. IsFiniteSet(l.nodes \cup {k})
    BY <1>1, FS_AddElement
  <2>2. QED
    BY <1>3, <2>1
<1>5. Older(t) = AfterUse(l.nodes, Older(l), k)
  BY <1>2, <1>3, <1>4, OlderSpelled
<1>6. QED
  BY <1>2, <1>3, <1>4, <1>5 DEF ListGood, t

\* So is a list after a removal.
LEMMA GoodRemoval ==
  ASSUME NEW l, ListGood(l), NEW k \in Keys
  PROVE  /\ ListGood(LruRecordRemoval(l, k))
         /\ LruRecordRemoval(l, k).nodes = l.nodes \ {k}
         /\ Older(LruRecordRemoval(l, k)) = Dropped(Older(l), k)
<1> DEFINE t == LruRecordRemoval(l, k)
<1>1. l \in Lists /\ IsFiniteSet(l.nodes) /\ Spells(l, Older(l)) /\ Null \notin Keys
  BY Parameters DEF ListGood
<1>2. t \in Lists /\ Spells(t, Dropped(Older(l), k))
  BY <1>1, RemovalSpells
<1>3. t.nodes = l.nodes \ {k}
  BY <1>1, RemovalNodes
<1> HIDE DEF t
<1>4. IsFiniteSet(t.nodes)
  <2>1. IsFiniteSet(l.nodes \ {k})
    BY <1>1, FS_RemoveElement
  <2>2. QED
    BY <1>3, <2>1
<1>5. Older(t) = Dropped(Older(l), k)
  BY <1>2, <1>4, OlderSpelled
<1>6. QED
  BY <1>2, <1>3, <1>4, <1>5 DEF ListGood, t

\* So is a seeded list.
LEMMA GoodSeed ==
  ASSUME NEW D \in SUBSET Keys, IsFiniteSet(D), NEW q \in Arrangements(D)
  PROVE  /\ ListGood(LruSeed(q)) /\ LruSeed(q).nodes = D
         /\ Older(LruSeed(q)) = Ordered(q, Cardinality(D))
<1>1. /\ LruSeed(q) \in Lists /\ LruSeed(q).nodes = D
      /\ Spells(LruSeed(q), Ordered(q, Cardinality(D)))
  BY SeedSpells
<1>2. Older(LruSeed(q)) = Ordered(q, Cardinality(D))
  BY <1>1, OlderSpelled
<1>3. QED
  BY <1>1, <1>2 DEF ListGood

-----------------------------------------------------------------------------
(* The active policy *)

PolicyList(p) == IF p.type = "LRU" THEN p.lru ELSE p.tiny.recency

KnownTo(p) == IF p.type # "LFU" THEN PolicyList(p).nodes
              ELSE {k \in Keys : p.lfu.frequency[k] > 0}

TinyPolicies == [recency : Lists, sketch : Sketches]

PolicyType == [type : Policies, lru : Lists, lfu : LfuType, tiny : TinyPolicies]

\* What a policy owes whatever happened to it.
PolicyOK(p) ==
  /\ p \in PolicyType
  /\ Consistent(p.lfu)
  /\ CellInv(p.tiny.sketch)
  /\ p.type # "LFU" => ListGood(PolicyList(p))

\* A frequency map after one more use of k.
Bumped(frequency, k) == [frequency EXCEPT ![k] = @ + 1]

\* q is p after one use of k.
AfterUseOf(p, k, q) ==
  /\ PolicyOK(q) /\ q.type = p.type
  /\ KnownTo(q) = KnownTo(p) \cup {k}
  /\ p.type = "LFU" => q.lfu.frequency = Bumped(p.lfu.frequency, k)
  /\ p.type # "LFU" =>
       Older(PolicyList(q)) = AfterUse(PolicyList(p).nodes, Older(PolicyList(p)), k)

\* q is p after the removal of k.
AfterRemovalOf(p, k, q) ==
  /\ PolicyOK(q) /\ q.type = p.type
  /\ KnownTo(p) \ {k} \subseteq KnownTo(q)
  /\ p.type = "LFU" => \A x \in Keys \ {k} : q.lfu.frequency[x] = p.lfu.frequency[x]
  /\ p.type # "LFU" => /\ PolicyList(q).nodes = PolicyList(p).nodes \ {k}
                       /\ Older(PolicyList(q)) = Dropped(Older(PolicyList(p)), k)

\* q is p after one use of k and, at most, the removal of another key.
AfterUseAndRemovalOf(p, k, q) ==
  \E u : /\ AfterUseOf(p, k, u)
         /\ u = q \/ \E v \in Keys \ {k} : AfterRemovalOf(u, v, q)

\* Replacing one part of a policy leaves the others alone.
LEMMA PolicyFields ==
  ASSUME NEW p \in PolicyType
  PROVE  /\ \A l \in Lists :
              /\ [p EXCEPT !.lru = l] \in PolicyType
              /\ [p EXCEPT !.lru = l].lru = l /\ [p EXCEPT !.lru = l].type = p.type
              /\ [p EXCEPT !.lru = l].lfu = p.lfu /\ [p EXCEPT !.lru = l].tiny = p.tiny
         /\ \A f \in LfuType :
              /\ [p EXCEPT !.lfu = f] \in PolicyType
              /\ [p EXCEPT !.lfu = f].lfu = f /\ [p EXCEPT !.lfu = f].type = p.type
              /\ [p EXCEPT !.lfu = f].lru = p.lru /\ [p EXCEPT !.lfu = f].tiny = p.tiny
         /\ \A t \in TinyPolicies :
              /\ [p EXCEPT !.tiny = t] \in PolicyType
              /\ [p EXCEPT !.tiny = t].tiny = t /\ [p EXCEPT !.tiny = t].type = p.type
              /\ [p EXCEPT !.tiny = t].lru = p.lru /\ [p EXCEPT !.tiny = t].lfu = p.lfu
         /\ p.type \in Policies /\ p.lru \in Lists /\ p.lfu \in LfuType
         /\ p.tiny \in TinyPolicies
  BY DEF PolicyType

\* One step of each policy, as a step of the whole.
LEMMA ListUse ==
  ASSUME NEW p, PolicyOK(p), p.type = "LRU", NEW k \in Keys
  PROVE  AfterUseOf(p, k, [p EXCEPT !.lru = touch(@, k)])
<1> DEFINE l == touch(p.lru, k)
           q == [p EXCEPT !.lru = l]
<1>1. p \in PolicyType /\ ListGood(p.lru) /\ PolicyList(p) = p.lru
  BY DEF PolicyOK, PolicyList
<1>2. /\ ListGood(l) /\ l.nodes = p.lru.nodes \cup {k}
      /\ Older(l) = AfterUse(p.lru.nodes, Older(p.lru), k)
  BY <1>1, GoodTouch
<1> HIDE DEF l
<1>3. /\ q \in PolicyType /\ q.lru = l /\ q.type = p.type /\ q.lfu = p.lfu
      /\ q.tiny = p.tiny
  BY <1>1, <1>2, PolicyFields DEF ListGood
<1> HIDE DEF q
<1>4. PolicyList(q) = l
  BY <1>3 DEF PolicyList
<1>5. AfterUseOf(p, k, q)
  BY <1>1, <1>2, <1>3, <1>4 DEF AfterUseOf, PolicyOK, KnownTo
<1>6. QED
  BY <1>5 DEF q, l

\* A use of a key under TinyLFU.
LEMMA TinyUse ==
  ASSUME NEW p, PolicyOK(p), p.type = "TINY_LFU", NEW k \in Keys
  PROVE  AfterUseOf(p, k, [p EXCEPT !.tiny = Used(@, k)])
<1> DEFINE l == touch(p.tiny.recency, k)
           s == increment(p.tiny.sketch, k)
           t == Used(p.tiny, k)
           q == [p EXCEPT !.tiny = t]
<1>1. /\ p \in PolicyType /\ ListGood(p.tiny.recency)
      /\ PolicyList(p) = p.tiny.recency /\ CellInv(p.tiny.sketch)
  BY DEF PolicyOK, PolicyList
<1>2. /\ ListGood(l) /\ l.nodes = p.tiny.recency.nodes \cup {k}
      /\ Older(l) = AfterUse(p.tiny.recency.nodes, Older(p.tiny.recency), k)
  BY <1>1, GoodTouch
<1>3. CellInv(s)
  BY <1>1, IncrementCells
<1>4. t.recency = l /\ t.sketch = s /\ t = [recency |-> l, sketch |-> s]
  BY SMTT(30) DEF Used
<1> HIDE DEF l, s, t
<1>5. t \in TinyPolicies
  BY SMTT(30), <1>2, <1>3, <1>4 DEF TinyPolicies, ListGood, CellInv
<1>6. q \in PolicyType /\ q.tiny = t /\ q.type = p.type /\ q.lfu = p.lfu
  BY <1>1, <1>5, PolicyFields
<1> HIDE DEF q
<1>7. PolicyList(q) = l
  BY <1>4, <1>6 DEF PolicyList
<1>8. AfterUseOf(p, k, q)
  BY <1>1, <1>2, <1>3, <1>4, <1>6, <1>7 DEF AfterUseOf, PolicyOK, KnownTo
<1>9. QED
  BY <1>8 DEF q, t

\* A use of a key under LFU.
LEMMA LfuUse ==
  ASSUME NEW p, PolicyOK(p), p.type = "LFU", NEW k \in Keys,
         NEW f \in LfuType, Consistent(f),
         f.frequency = Bumped(p.lfu.frequency, k),
         NEW q, q = [p EXCEPT !.lfu = f]
  PROVE  AfterUseOf(p, k, q)
<1>1. p \in PolicyType /\ p.lfu \in LfuType
  BY PolicyFields DEF PolicyOK
<1>2. q \in PolicyType /\ q.lfu = f /\ q.type = p.type /\ q.tiny = p.tiny
  BY <1>1, PolicyFields
<1>3. \A x \in Keys : f.frequency[x] > 0 <=> p.lfu.frequency[x] > 0 \/ x = k
  <2>1. p.lfu.frequency \in [Keys -> 0 .. MaxFrequency] /\ MaxFrequency \in Nat
    BY <1>1, Parameters DEF LfuType, Frequencies
  <2>2. QED
    BY SMT, <2>1 DEF Bumped
<1>4. KnownTo(q) = KnownTo(p) \cup {k}
  BY <1>2, <1>3 DEF KnownTo
<1>5. PolicyOK(q)
  BY <1>2 DEF PolicyOK
<1>6. QED
  BY <1>2, <1>4, <1>5 DEF AfterUseOf

\* recordAccess keeps the active policy well formed.
LEMMA AccessKeeps ==
  ASSUME NEW p, PolicyOK(p), NEW k \in Keys, p.lfu.frequency[k] < MaxFrequency
  PROVE  AfterUseOf(p, k, recordAccess(p, k))
<1>1. p.type \in Policies /\ p.lfu \in LfuType /\ Consistent(p.lfu) /\ MaxFrequency \in Nat
  BY PolicyFields, Parameters DEF PolicyOK
<1>2. CASE p.type = "LRU"
  <2>1. recordAccess(p, k) = [p EXCEPT !.lru = touch(@, k)]
    BY <1>2 DEF recordAccess, LruRecordAccess
  <2>2. QED
    BY <1>2, <2>1, ListUse
<1>3. CASE p.type = "LFU"
  <2> DEFINE f == bump(p.lfu, k)
  <2>1. recordAccess(p, k) = [p EXCEPT !.lfu = f]
    BY <1>3 DEF recordAccess, LfuRecordAccess
  <2>2. /\ f \in LfuType /\ Consistent(f)
        /\ f.frequency = Bumped(p.lfu.frequency, k)
    BY <1>1, BumpStep DEF Bumped
  <2> HIDE DEF f
  <2>3. QED
    BY <1>3, <2>1, <2>2, LfuUse
<1>4. CASE p.type = "TINY_LFU"
  <2>1. recordAccess(p, k) = [p EXCEPT !.tiny = Used(@, k)]
    BY SMTT(30), <1>4 DEF recordAccess, TinyRecordAccess
  <2>2. QED
    BY <1>4, <2>1, TinyUse
<1>5. QED
  BY <1>1, <1>2, <1>3, <1>4 DEF Policies

\* So does recordWrite.
LEMMA WriteKeeps ==
  ASSUME NEW p, PolicyOK(p), NEW k \in Keys, p.lfu.frequency[k] < MaxFrequency
  PROVE  AfterUseOf(p, k, recordWrite(p, k))
<1>1. p.type \in Policies /\ p.lfu \in LfuType /\ Consistent(p.lfu) /\ MaxFrequency \in Nat
  BY PolicyFields, Parameters DEF PolicyOK
<1>2. CASE p.type = "LRU"
  <2>1. recordWrite(p, k) = [p EXCEPT !.lru = touch(@, k)]
    BY <1>2 DEF recordWrite, LruRecordWrite
  <2>2. QED
    BY <1>2, <2>1, ListUse
<1>3. CASE p.type = "LFU"
  <2> DEFINE f == LfuRecordWrite(p.lfu, k)
  <2>1. recordWrite(p, k) = [p EXCEPT !.lfu = f]
    BY SMTT(30), <1>3 DEF recordWrite
  <2>2. /\ f \in LfuType /\ Consistent(f)
        /\ f.frequency = Bumped(p.lfu.frequency, k)
    BY <1>1, WriteStep DEF Bumped
  <2> HIDE DEF f
  <2>3. QED
    BY <1>3, <2>1, <2>2, LfuUse
<1>4. CASE p.type = "TINY_LFU"
  <2>1. recordWrite(p, k) = [p EXCEPT !.tiny = Used(@, k)]
    BY <1>4 DEF recordWrite, TinyRecordWrite
  <2>2. QED
    BY <1>4, <2>1, TinyUse
<1>5. QED
  BY <1>1, <1>2, <1>3, <1>4 DEF Policies

\* So does recordRemoval.
LEMMA RemovalKeeps ==
  ASSUME NEW p, PolicyOK(p), NEW k \in Keys
  PROVE  AfterRemovalOf(p, k, recordRemoval(p, k))
<1> DEFINE q == recordRemoval(p, k)
<1>1. /\ p \in PolicyType /\ p.type \in Policies /\ p.lfu \in LfuType /\ Consistent(p.lfu)
      /\ CellInv(p.tiny.sketch) /\ MaxFrequency \in Nat
  BY PolicyFields, Parameters DEF PolicyOK
<1>2. CASE p.type = "LRU"
  <2> DEFINE l == LruRecordRemoval(p.lru, k)
  <2>1. q = [p EXCEPT !.lru = l] /\ PolicyList(p) = p.lru /\ ListGood(p.lru)
    BY <1>2 DEF recordRemoval, PolicyList, PolicyOK
  <2>2. ListGood(l) /\ l.nodes = p.lru.nodes \ {k} /\ Older(l) = Dropped(Older(p.lru), k)
    BY <2>1, GoodRemoval
  <2> HIDE DEF l, q
  <2>3. /\ q \in PolicyType /\ q.lru = l /\ q.type = p.type /\ q.lfu = p.lfu
        /\ q.tiny = p.tiny
    BY <1>1, <2>1, <2>2, PolicyFields DEF ListGood
  <2>4. PolicyList(q) = l
    BY <1>2, <2>3 DEF PolicyList
  <2>5. AfterRemovalOf(p, k, q)
    BY <1>1, <1>2, <2>1, <2>2, <2>3, <2>4 DEF AfterRemovalOf, PolicyOK, KnownTo
  <2>6. QED
    BY <2>5 DEF q
<1>3. CASE p.type = "LFU"
  <2> DEFINE f == LfuRecordRemoval(p.lfu, k)
  <2>1. q = [p EXCEPT !.lfu = f]
    BY <1>3 DEF recordRemoval
  <2>2. /\ f \in LfuType /\ Consistent(f)
        /\ \A x \in Keys \ {k} : f.frequency[x] = p.lfu.frequency[x]
    BY <1>1, RemovalStep
  <2> HIDE DEF f, q
  <2>3. q \in PolicyType /\ q.lfu = f /\ q.type = p.type /\ q.tiny = p.tiny
    BY <1>1, <2>1, <2>2, PolicyFields
  <2>4. PolicyOK(q)
    BY <1>1, <1>3, <2>2, <2>3 DEF PolicyOK
  <2>5. KnownTo(p) \ {k} \subseteq KnownTo(q)
    BY <1>3, <2>2, <2>3 DEF KnownTo
  <2>6. QED
    BY <1>3, <2>2, <2>3, <2>4, <2>5 DEF AfterRemovalOf, q
<1>4. CASE p.type = "TINY_LFU"
  <2> DEFINE l == LruRecordRemoval(p.tiny.recency, k)
             t == TinyRecordRemoval(p.tiny, k)
  <2>1. q = [p EXCEPT !.tiny = t]
    BY <1>4 DEF recordRemoval
  <2>2. PolicyList(p) = p.tiny.recency /\ ListGood(p.tiny.recency) /\ p.tiny \in TinyPolicies
    BY <1>1, <1>4, PolicyFields DEF PolicyList, PolicyOK
  <2>3. /\ ListGood(l) /\ l.nodes = p.tiny.recency.nodes \ {k}
        /\ Older(l) = Dropped(Older(p.tiny.recency), k)
    BY <2>2, GoodRemoval
  <2>4. t = [p.tiny EXCEPT !.recency = l]
    BY DEF TinyRecordRemoval
  <2> HIDE DEF l, t, q
  <2>5. t \in TinyPolicies /\ t.recency = l /\ t.sketch = p.tiny.sketch
    BY SMTT(30), <2>2, <2>3, <2>4 DEF TinyPolicies, ListGood
  <2>6. q \in PolicyType /\ q.tiny = t /\ q.type = p.type /\ q.lfu = p.lfu
    BY <1>1, <2>1, <2>5, PolicyFields
  <2>7. PolicyList(q) = l
    BY <1>4, <2>5, <2>6 DEF PolicyList
  <2>8. AfterRemovalOf(p, k, q)
    BY <1>1, <1>4, <2>2, <2>3, <2>5, <2>6, <2>7
    DEF AfterRemovalOf, PolicyOK, KnownTo
  <2>9. QED
    BY <2>8 DEF q
<1>5. QED
  BY <1>1, <1>2, <1>3, <1>4 DEF Policies

\* What VictimColdest says of one choice.
Coldest(p, C, v) ==
  LET older == IF p.type # "LFU" THEN Older(PolicyList(p)) ELSE {}
      bottom == {x \in C : Cardinality({y \in C : <<y, x>> \in older}) < bottomK}
  IN /\ v \in C
     /\ p.type = "LRU" => \A x \in C \ {v} : <<v, x>> \in older
     /\ p.type = "LFU" => \A x \in C : p.lfu.frequency[v] <= p.lfu.frequency[x]
     /\ p.type = "TINY_LFU" =>
          /\ v \in bottom
          /\ \A x \in bottom :
               Alone(x) => p.tiny.sketch.truth[v] <= p.tiny.sketch.truth[x]

\* selectVictim returns a coldest candidate.
LEMMA VictimFound ==
  ASSUME NEW p, PolicyOK(p), NEW C \in SUBSET KnownTo(p), C # {},
         NEW v \in selectVictim(p, C)
  PROVE  Coldest(p, C, v)
<1>1. /\ p \in PolicyType /\ p.type \in Policies /\ p.lfu \in LfuType /\ Consistent(p.lfu)
      /\ CellInv(p.tiny.sketch) /\ MaxFrequency \in Nat
  BY PolicyFields, Parameters DEF PolicyOK
<1>2. CASE p.type = "LRU"
  <2>1. /\ PolicyList(p) = p.lru /\ C \in SUBSET p.lru.nodes
        /\ v = LruSelectVictim(p.lru, C)
    BY <1>2 DEF PolicyList, KnownTo, selectVictim
  <2>2. /\ p.lru \in Lists /\ IsFiniteSet(p.lru.nodes) /\ Spells(p.lru, Older(p.lru))
    BY <1>2, <2>1 DEF PolicyOK, ListGood
  <2>3. v \in C /\ \A x \in C \ {v} : <<v, x>> \in Older(p.lru)
    BY <2>1, <2>2, LruVictim
  <2>4. QED
    BY <1>2, <2>1, <2>3 DEF Coldest
<1>3. CASE p.type = "LFU"
  <2>1. /\ C \in SUBSET Keys /\ \A x \in C : p.lfu.frequency[x] > 0
        /\ v \in LfuSelectVictim(p.lfu, C)
    <3>1. C \in SUBSET Keys /\ \A x \in C : p.lfu.frequency[x] > 0
      BY <1>3 DEF KnownTo
    <3>2. QED
      BY <1>3, <3>1 DEF selectVictim
  <2>2. \A x \in C : 0 < p.lfu.frequency[x]
    BY SMTT(30), <1>1, <2>1 DEF LfuType, Frequencies
  <2>3. v \in C /\ \A x \in C : p.lfu.frequency[v] <= p.lfu.frequency[x]
    BY <1>1, <2>1, <2>2, LfuVictim
  <2>4. QED
    BY <1>3, <2>3 DEF Coldest
<1>4. CASE p.type = "TINY_LFU"
  <2> DEFINE R == Older(p.tiny.recency)
  <2>1. PolicyList(p) = p.tiny.recency /\ C \in SUBSET p.tiny.recency.nodes
    BY <1>4 DEF PolicyList, KnownTo
  <2>2. v = TinySelectVictim(p.tiny, C)
    BY <1>4 DEF selectVictim
  <2>3. /\ p.tiny.recency \in Lists /\ IsFiniteSet(p.tiny.recency.nodes)
        /\ Spells(p.tiny.recency, R)
    BY <1>4, <2>1 DEF PolicyOK, ListGood
  <2>4. /\ v \in C /\ Cardinality(Below(C, R, v)) < bottomK
        /\ \A x \in C : Cardinality(Below(C, R, x)) < bottomK /\ Alone(x)
                          => p.tiny.sketch.truth[v] <= p.tiny.sketch.truth[x]
    BY <1>1, <2>1, <2>2, <2>3, TinyVictim
  <2>5. QED
    BY <1>4, <2>1, <2>4 DEF Coldest, Below
<1>5. QED
  BY <1>1, <1>2, <1>3, <1>4 DEF Policies

-----------------------------------------------------------------------------
(* The store and its policy *)

\* The policy p knows the store s at time n; rw are the overwritten keys.
Agree(s, p, rw, n) ==
  /\ DOMAIN s \subseteq Keys /\ IsFiniteSet(DOMAIN s)
  /\ \A k \in DOMAIN s : s[k] \in Entries(n)
  /\ rw \subseteq DOMAIN s
  /\ PolicyOK(p)
  /\ DOMAIN s \subseteq KnownTo(p)
  /\ p.type = "LFU" => \A k \in DOMAIN s : p.lfu.frequency[k] >= s[k].frequency
  /\ p.type # "LFU" =>
       \A a, b \in DOMAIN s :
         s[a].lastAccessedAt < s[b].lastAccessedAt /\ a \notin rw
           => <<a, b>> \in Older(PolicyList(p))

IInv ==
  /\ Agree(store, active, rewritten, now)
  /\ Cardinality(DOMAIN store) <= Capacity
  /\ now \in 0 .. MaxNow
  /\ used \in Keys \cup {Null}

\* t and new are the entries s and the overwritten keys rw after a use of k:
\* the other entries stay; the entry of k is as new as the clock, or k counts
\* as overwritten.
EntryUsed(s, p, rw, n, k, t, new) ==
  /\ DOMAIN t = DOMAIN s \cup {k} /\ \A x \in DOMAIN s \ {k} : t[x] = s[x]
  /\ t[k] \in Entries(n)
  /\ p.type = "LFU" => t[k].frequency <= p.lfu.frequency[k] + 1
  /\ new \subseteq DOMAIN t /\ \A x \in rw \ {k} : x \in new
  /\ k \in new \/ t[k].lastAccessedAt = n

\* A recorded use keeps the policy in agreement with the store.
LEMMA UseAgrees ==
  ASSUME NEW s, NEW p, NEW rw, NEW n \in Nat, Agree(s, p, rw, n), NEW k \in Keys,
         NEW q, AfterUseOf(p, k, q), NEW t, NEW new, EntryUsed(s, p, rw, n, k, t, new)
  PROVE  Agree(t, q, new, n)
<1>1. /\ DOMAIN t = DOMAIN s \cup {k} /\ \A x \in DOMAIN s \ {k} : t[x] = s[x]
      /\ t[k] \in Entries(n)
      /\ p.type = "LFU" => t[k].frequency <= p.lfu.frequency[k] + 1
      /\ new \subseteq DOMAIN t /\ \A x \in rw \ {k} : x \in new
      /\ k \in new \/ t[k].lastAccessedAt = n
  BY DEF EntryUsed
<1>2. \A x \in DOMAIN t : x # k => x \in DOMAIN s /\ t[x] = s[x]
  BY <1>1
<1>3. /\ DOMAIN s \subseteq Keys /\ IsFiniteSet(DOMAIN s)
      /\ \A x \in DOMAIN s : s[x] \in Entries(n)
      /\ DOMAIN s \subseteq KnownTo(p)
  BY DEF Agree
<1>4. /\ PolicyOK(q) /\ q.type = p.type /\ KnownTo(q) = KnownTo(p) \cup {k}
  BY DEF AfterUseOf
<1>5. /\ DOMAIN t \subseteq Keys /\ IsFiniteSet(DOMAIN t)
      /\ \A x \in DOMAIN t : t[x] \in Entries(n)
      /\ DOMAIN t \subseteq KnownTo(q)
  <2>1. IsFiniteSet(DOMAIN s \cup {k})
    BY <1>3, FS_AddElement
  <2>2. QED
    BY <1>1, <1>3, <1>4, <2>1
<1>6. ASSUME p.type = "LFU", NEW x \in DOMAIN t
      PROVE  q.lfu.frequency[x] >= t[x].frequency
  <2>1. p.lfu.frequency \in [Keys -> Frequencies]
    BY DEF Agree, PolicyOK, PolicyType, LfuType
  <2>2. q.lfu.frequency = [p.lfu.frequency EXCEPT ![k] = @ + 1]
    BY <1>6 DEF AfterUseOf, Bumped
  <2>3. x \in Keys /\ t[x].frequency \in 0 .. MaxFrequency
    BY <1>5, <1>6, EntryFrequency
  <2>4. CASE x = k
    <3>1. q.lfu.frequency[k] = p.lfu.frequency[k] + 1
      BY SMTT(30), <2>1, <2>2
    <3>2. QED
      BY SMTT(30), <1>1, <1>6, <2>1, <2>3, <2>4, <3>1, Parameters DEF Frequencies
  <2>5. CASE x # k
    <3>1. q.lfu.frequency[x] = p.lfu.frequency[x]
      BY <2>1, <2>2, <2>3, <2>5
    <3>2. x \in DOMAIN s /\ t[x] = s[x]
      BY <1>2, <2>5
    <3>3. QED
      BY <1>6, <3>1, <3>2 DEF Agree
  <2>6. QED
    BY <2>4, <2>5
<1>7. ASSUME p.type # "LFU", NEW a \in DOMAIN t, NEW b \in DOMAIN t,
             t[a].lastAccessedAt < t[b].lastAccessedAt, a \notin new
      PROVE  <<a, b>> \in Older(PolicyList(q))
  <2>1. Older(PolicyList(q)) = AfterUse(PolicyList(p).nodes, Older(PolicyList(p)), k)
    BY <1>7 DEF AfterUseOf
  <2>2. KnownTo(p) = PolicyList(p).nodes
    BY <1>7 DEF KnownTo
  <2>3. a # k
    <3>1. CASE a = k
      <4>1. t[a].lastAccessedAt = n
        BY <1>1, <1>7, <3>1
      <4>2. t[b].lastAccessedAt \in 0 .. n
        BY <1>5, <1>7 DEF Entries
      <4>3. QED
        BY SMTT(30), <1>7, <4>1, <4>2
    <3>2. QED
      BY <3>1
  <2>4. a \in DOMAIN s /\ t[a] = s[a] /\ a \notin rw
    BY <1>1, <1>2, <1>7, <2>3
  <2>5. CASE b = k
    <3>1. <<a, b>> \in (PolicyList(p).nodes \ {k}) \X {k}
      BY SMTT(30), <1>3, <2>2, <2>3, <2>4, <2>5
    <3>2. QED
      BY <2>1, <3>1 DEF AfterUse
  <2>6. CASE b # k
    <3>1. b \in DOMAIN s /\ t[b] = s[b]
      BY <1>2, <2>6
    <3>2. <<a, b>> \in Older(PolicyList(p))
      BY <1>7, <2>4, <3>1 DEF Agree
    <3>3. <<a, b>>[1] = a /\ <<a, b>>[2] = b
      OBVIOUS
    <3>4. QED
      BY <2>1, <2>3, <2>6, <3>2, <3>3 DEF AfterUse, Dropped
  <2>7. QED
    BY <2>5, <2>6
<1>8. QED
  BY <1>1, <1>4, <1>5, <1>6, <1>7 DEF Agree

\* So does a recorded removal.
LEMMA RemovalAgrees ==
  ASSUME NEW s, NEW p, NEW rw, NEW n \in Nat, Agree(s, p, rw, n), NEW k \in Keys,
         NEW q, AfterRemovalOf(p, k, q)
  PROVE  Agree(Without(s, {k}), q, rw \ {k}, n)
<1> DEFINE t == Without(s, {k})
<1>1. DOMAIN t = DOMAIN s \ {k} /\ \A x \in DOMAIN t : t[x] = s[x]
  BY DEF Without
<1> HIDE DEF t
<1>2. /\ DOMAIN s \subseteq Keys /\ IsFiniteSet(DOMAIN s)
      /\ \A x \in DOMAIN s : s[x] \in Entries(n)
      /\ DOMAIN s \subseteq KnownTo(p) /\ rw \subseteq DOMAIN s
  BY DEF Agree
<1>3. PolicyOK(q) /\ q.type = p.type /\ KnownTo(p) \ {k} \subseteq KnownTo(q)
  BY DEF AfterRemovalOf
<1>4. /\ DOMAIN t \subseteq Keys /\ IsFiniteSet(DOMAIN t)
      /\ \A x \in DOMAIN t : t[x] \in Entries(n)
      /\ DOMAIN t \subseteq KnownTo(q) /\ rw \ {k} \subseteq DOMAIN t
  <2>1. IsFiniteSet(DOMAIN s \ {k})
    BY <1>2, FS_RemoveElement
  <2>2. QED
    BY <1>1, <1>2, <1>3, <2>1
<1>5. ASSUME p.type = "LFU", NEW x \in DOMAIN t
      PROVE  q.lfu.frequency[x] >= t[x].frequency
  <2>1. x \in DOMAIN s /\ x \in Keys \ {k} /\ t[x] = s[x]
    BY <1>1, <1>2
  <2>2. q.lfu.frequency[x] = p.lfu.frequency[x]
    BY <1>5, <2>1 DEF AfterRemovalOf
  <2>3. QED
    BY <1>5, <2>1, <2>2 DEF Agree
<1>6. ASSUME p.type # "LFU", NEW a \in DOMAIN t, NEW b \in DOMAIN t,
             t[a].lastAccessedAt < t[b].lastAccessedAt, a \notin rw \ {k}
      PROVE  <<a, b>> \in Older(PolicyList(q))
  <2>1. /\ a \in DOMAIN s /\ b \in DOMAIN s /\ a # k /\ b # k
        /\ t[a] = s[a] /\ t[b] = s[b] /\ a \notin rw
    BY <1>1, <1>6
  <2>2. <<a, b>> \in Older(PolicyList(p))
    BY <1>6, <2>1 DEF Agree
  <2>3. Older(PolicyList(q)) = Dropped(Older(PolicyList(p)), k)
    BY <1>6 DEF AfterRemovalOf
  <2>4. <<a, b>>[1] = a /\ <<a, b>>[2] = b
    OBVIOUS
  <2>5. QED
    BY <2>1, <2>2, <2>3, <2>4 DEF Dropped
<1>7. Agree(t, q, rw \ {k}, n)
  BY <1>3, <1>4, <1>5, <1>6 DEF Agree
<1>8. QED
  BY <1>7 DEF t

\* A policy that was reset is well formed.
LEMMA FreshPolicy ==
  ASSUME NEW type \in Policies
  PROVE  /\ PolicyOK(createEvictionPolicy(type))
         /\ createEvictionPolicy(type).type = type
<1> DEFINE p == createEvictionPolicy(type)
<1>1. ListGood(LruReset) /\ CellInv(resetSketch) /\ LruReset \in Lists /\ resetSketch \in Sketches
  BY GoodReset, ResetCells DEF ListGood, CellInv
<1>2. LfuReset \in LfuType /\ Consistent(LfuReset)
  BY ResetStep, Parameters
<1>3. TinyReset \in TinyPolicies /\ TinyReset.recency = LruReset /\ TinyReset.sketch = resetSketch
  BY SMTT(30), <1>1 DEF TinyReset, TinyPolicies
<1>4. /\ p \in PolicyType /\ p.type = type /\ p.lru = LruReset /\ p.lfu = LfuReset
      /\ p.tiny = TinyReset
  BY SMTT(30), <1>1, <1>2, <1>3 DEF createEvictionPolicy, PolicyType
<1> HIDE DEF p
<1>5. PolicyList(p) = LruReset
  BY <1>3, <1>4 DEF PolicyList
<1>6. PolicyOK(p) /\ p.type = type
  BY <1>1, <1>2, <1>3, <1>4, <1>5 DEF PolicyOK
<1>7. QED
  BY <1>6 DEF p

\* A seeded policy agrees with the store it was seeded from.
LEMMA SeedAgrees ==
  \A p : \A n \in Nat, type \in Policies : \A q \in Seeded(type) :
    Agree(store, p, rewritten, n)
    => Agree(store, q, rewritten, n) /\ q.type = type
\* A list seeded with the entries sorted by lastAccessedAt agrees with it.
<1>SortedAgrees. ASSUME NEW n, DOMAIN store \subseteq Keys, IsFiniteSet(DOMAIN store),
                        \A k \in DOMAIN store : store[k] \in Entries(n), n \in Nat,
                        NEW q \in Sorted
                 PROVE  /\ ListGood(LruSeed(q)) /\ LruSeed(q).nodes = DOMAIN store
                        /\ \A a, b \in DOMAIN store :
                             store[a].lastAccessedAt < store[b].lastAccessedAt
                               => <<a, b>> \in Older(LruSeed(q))
  <2> USE <1>SortedAgrees
  <2> DEFINE D == DOMAIN store
             c == Cardinality(D)
  <2>1. q \in Arrangements(D)
    BY DEF Sorted
  <2>2. ListGood(LruSeed(q)) /\ LruSeed(q).nodes = D /\ Older(LruSeed(q)) = Ordered(q, c)
    BY <2>1, GoodSeed
  <2>3. /\ c \in Nat /\ q \in [1 .. c -> D] /\ DOMAIN q = 1 .. c
        /\ \A x \in D : \E i \in 1 .. c : q[i] = x
    BY <2>1, Arranged
  <2>4. ASSUME NEW a \in D, NEW b \in D, store[a].lastAccessedAt < store[b].lastAccessedAt
        PROVE  <<a, b>> \in Ordered(q, c)
    <3>1. PICK i \in 1 .. c : q[i] = a
      BY <2>3
    <3>2. PICK j \in 1 .. c : q[j] = b
      BY <2>3
    <3>3. store[a].lastAccessedAt \in Nat /\ store[b].lastAccessedAt \in Nat
      BY SMT, <2>4 DEF Entries
    <3>4. j < i => store[b].lastAccessedAt <= store[a].lastAccessedAt
      BY <2>3, <3>1, <3>2 DEF Sorted
    <3>5. i < j
      <4>1. i \in Nat /\ j \in Nat
        BY SMT, <2>3
      <4>2. i # j
        <5>1. a # b
          BY SMTT(30), <2>4, <3>3
        <5>2. QED
          BY <3>1, <3>2, <5>1
      <4>3. ~(j < i)
        BY SMTT(30), <2>4, <3>3, <3>4
      <4>4. QED
        BY SMTT(30), <4>1, <4>2, <4>3
    <3>6. <<a, b>> \in Keys \X Keys /\ <<a, b>> = <<q[i], q[j]>>
      BY <2>4, <3>1, <3>2
    <3>7. QED
      BY <3>5, <3>6 DEF Ordered
  <2>5. QED
    BY <2>2, <2>4
<1>Main. ASSUME NEW p, NEW n \in Nat, Agree(store, p, rewritten, n), NEW type \in Policies,
                NEW q \in Seeded(type)
         PROVE  Agree(store, q, rewritten, n) /\ q.type = type
  <2> USE <1>Main
  <2> DEFINE D == DOMAIN store
             fresh == createEvictionPolicy(type)
             hits == [k \in D |-> store[k].frequency]
  <2>1. /\ D \subseteq Keys /\ IsFiniteSet(D) /\ rewritten \subseteq D
        /\ \A k \in D : store[k] \in Entries(n)
    BY DEF Agree
  <2>2. /\ PolicyOK(fresh) /\ fresh \in PolicyType /\ fresh.type = type
        /\ Consistent(fresh.lfu) /\ CellInv(fresh.tiny.sketch)
    BY FreshPolicy DEF PolicyOK
  <2>3. DOMAIN hits = D /\ hits \in [D -> Frequencies] /\ Frequencies \subseteq Nat
    BY SMT, <2>1, Parameters DEF Entries, Frequencies
  <2>4. CASE type = "LRU"
    <3>1. PICK o \in Sorted : q = [fresh EXCEPT !.lru = LruSeed(o)]
      BY <2>4 DEF Seeded
    <3> DEFINE l == LruSeed(o)
    <3>2. /\ ListGood(l) /\ l.nodes = D
          /\ \A a, b \in D : store[a].lastAccessedAt < store[b].lastAccessedAt
                               => <<a, b>> \in Older(l)
      BY <2>1, <1>SortedAgrees
    <3> HIDE DEF fresh, l
    <3>3. q \in PolicyType /\ q.lru = l /\ q.type = type /\ q.lfu = fresh.lfu /\ q.tiny = fresh.tiny
      BY <2>2, <3>1, <3>2, PolicyFields DEF ListGood, l
    <3>4. PolicyList(q) = l
      BY <2>4, <3>3 DEF PolicyList
    <3>5. PolicyOK(q) /\ KnownTo(q) = D
      BY <2>2, <2>4, <3>2, <3>3, <3>4 DEF PolicyOK, KnownTo
    <3>6. QED
      BY <2>1, <2>4, <3>2, <3>3, <3>4, <3>5 DEF Agree
  <2>5. CASE type = "LFU"
    <3> DEFINE f == LfuSeed(hits)
    <3>1. q = [fresh EXCEPT !.lfu = f]
      BY <2>5 DEF Seeded
    <3>2. /\ f \in LfuType /\ Consistent(f)
          /\ \A k \in D : 0 < f.frequency[k] /\ hits[k] <= f.frequency[k]
      <4> HIDE DEF hits
      <4>1. QED
        BY <2>1, <2>3, SeedStep, Parameters
    <3>3. \A k \in D : f.frequency[k] >= store[k].frequency /\ f.frequency[k] > 0
      <4> DEFINE g == f.frequency
      <4>1. \A k \in D : hits[k] = store[k].frequency /\ hits[k] \in Frequencies
        BY <2>3
      <4>2. g \in [Keys -> Frequencies]
        BY <3>2 DEF LfuType
      <4>3. \A k \in D : g[k] \in Frequencies /\ 0 < g[k] /\ hits[k] <= g[k]
        BY <2>1, <3>2, <4>2
      <4> HIDE DEF g, hits
      <4>4. \A k \in D : g[k] >= hits[k] /\ g[k] > 0
        BY SMTT(30), <2>3, <4>1, <4>3
      <4>5. QED
        BY <4>1, <4>4 DEF g
    <3> HIDE DEF fresh, f
    <3>4. q \in PolicyType /\ q.lfu = f /\ q.type = type /\ q.tiny = fresh.tiny
      BY <2>2, <3>1, <3>2, PolicyFields
    <3>5. PolicyOK(q)
      BY <2>2, <2>5, <3>2, <3>4 DEF PolicyOK
    <3>6. D \subseteq KnownTo(q)
      BY <2>1, <2>5, <3>3, <3>4 DEF KnownTo
    <3>7. QED
      BY <2>1, <2>5, <3>3, <3>4, <3>5, <3>6 DEF Agree
  <2>6. CASE type = "TINY_LFU"
    <3>1. PICK o \in Sorted, e \in Arrangements(D) :
            q = [fresh EXCEPT !.tiny = TinySeed(e, o, hits)]
      <4>1. q \in UNION {{[fresh EXCEPT !.tiny = TinySeed(e, o, hits)] :
                            e \in Arrangements(D)} : o \in Sorted}
        BY <2>6 DEF Seeded
      <4> HIDE DEF fresh, hits
      <4>2. QED
        BY <4>1
    <3> DEFINE l == LruSeed(o)
               t == TinySeed(e, o, hits)
    <3>2. /\ ListGood(l) /\ l.nodes = D
          /\ \A a, b \in D : store[a].lastAccessedAt < store[b].lastAccessedAt
                               => <<a, b>> \in Older(l)
      BY <2>1, <1>SortedAgrees
    <3>3. CellInv(t.sketch)
      <4> HIDE DEF hits
      <4>1. hits \in [D -> Nat]
        BY <2>3
      <4>2. QED
        BY <2>1, <4>1, SeedCells
    <3>4. t = [recency |-> l, sketch |-> t.sketch] /\ t.recency = l
      <4>1. PICK z : t = [recency |-> l, sketch |-> z]
        BY DEF TinySeed
      <4> HIDE DEF l, t
      <4>2. QED
        BY <4>1
    <3> HIDE DEF fresh, l, t
    <3>5. t \in TinyPolicies
      BY SMTT(30), <3>2, <3>3, <3>4 DEF TinyPolicies, ListGood, CellInv
    <3>6. q \in PolicyType /\ q.tiny = t /\ q.type = type /\ q.lfu = fresh.lfu
      BY <2>2, <3>1, <3>5, PolicyFields DEF t
    <3>7. PolicyList(q) = l
      BY <2>6, <3>4, <3>6 DEF PolicyList
    <3>8. PolicyOK(q) /\ KnownTo(q) = D
      BY <2>2, <2>6, <3>2, <3>3, <3>6, <3>7 DEF PolicyOK, KnownTo
    <3>9. QED
      BY <2>1, <2>6, <3>2, <3>6, <3>7, <3>8 DEF Agree
  <2>7. QED
    BY <2>4, <2>5, <2>6 DEF Policies
<1> QED
  BY <1>Main

-----------------------------------------------------------------------------
(* The steps *)

\* set: the write, then the victim that makes room.
LEMMA SetKeeps ==
  ASSUME IInv, NEW k \in Keys, MayUse(k), set(k)
  PROVE  IInv' /\ AfterUseAndRemovalOf(active, k, active')
<1> DEFINE D == DOMAIN store
           s == [x \in D \cup {k} |-> IF x = k THEN Metadata(k) ELSE store[x]]
           p == recordWrite(active, k)
           over == Cardinality(DOMAIN s) > Capacity
           candidates == {x \in DOMAIN s : x # k \/ DOMAIN s = {k}}
           rw == IF k \in D THEN rewritten \cup {k} ELSE rewritten
<1>1. PICK v \in IF over THEN selectVictim(p, candidates) ELSE {Null} :
         /\ store' = Without(s, {v})
         /\ active' = IF v \in DOMAIN s THEN recordRemoval(p, v) ELSE p
         /\ rewritten' = rw \ {v}
         /\ used' = k /\ now' = now
  BY DEF set
<1>2. /\ Agree(store, active, rewritten, now) /\ Cardinality(D) <= Capacity
      /\ now \in 0 .. MaxNow
      /\ D \subseteq Keys /\ IsFiniteSet(D) /\ rewritten \subseteq D /\ PolicyOK(active)
      /\ \A x \in D : store[x] \in Entries(now)
  BY DEF IInv, Agree
<1>3. /\ now \in Nat /\ Capacity \in Nat /\ MaxFrequency \in Nat /\ Null \notin Keys
      /\ MaxNow \in Nat
  BY SMTT(30), <1>2, Parameters
<1>4. AfterUseOf(active, k, p)
  BY <1>2, WriteKeeps DEF MayUse
<1>5. /\ DOMAIN s = D \cup {k} /\ s[k] = Metadata(k)
      /\ \A x \in D \ {k} : s[x] = store[x]
  OBVIOUS
<1>6. s = [x \in DOMAIN s |-> s[x]]
  OBVIOUS
<1> HIDE DEF s, p
<1>7. Agree(s, p, rw, now)
  <2>1. CASE k \in D
    <3>1. s[k] = store[k]
      BY <1>5, <2>1 DEF Metadata
    <3>2. s[k] \in Entries(now)
      BY <1>2, <2>1, <3>1
    <3>3. active.type = "LFU" => s[k].frequency <= active.lfu.frequency[k] + 1
      <4>1. SUFFICES ASSUME active.type = "LFU"
                     PROVE  s[k].frequency <= active.lfu.frequency[k] + 1
        OBVIOUS
      <4>2. active.lfu.frequency[k] >= s[k].frequency
        BY <1>2, <2>1, <3>1, <4>1 DEF Agree
      <4>3. active.lfu.frequency \in [Keys -> Frequencies]
        BY <1>2 DEF PolicyOK, PolicyType, LfuType
      <4>4. QED
        BY SMTT(30), <1>3, <3>2, <4>2, <4>3 DEF Entries, Frequencies
    <3>4. rw = rewritten \cup {k}
      BY <2>1
    <3> HIDE DEF rw
    <3>5. rw \subseteq DOMAIN s /\ k \in rw /\ \A x \in rewritten \ {k} : x \in rw
      BY <1>2, <1>5, <3>4
    <3>6. EntryUsed(store, active, rewritten, now, k, s, rw)
      BY <1>5, <3>2, <3>3, <3>5 DEF EntryUsed
    <3>7. QED
      BY <1>2, <1>3, <1>4, <3>6, UseAgrees
  <2>2. CASE k \notin D
    <3>1. s[k] = [lastAccessedAt |-> now, frequency |-> 0]
      BY <1>5, <2>2 DEF Metadata
    <3>2. s[k] \in Entries(now) /\ s[k].lastAccessedAt = now /\ s[k].frequency = 0
      <4>1. 0 \in 0 .. MaxFrequency
        BY Parameters, CountUp
      <4>2. IsEntry([lastAccessedAt |-> now, frequency |-> 0], now, 0)
        BY <1>3, <4>1, EntryWritten
      <4>3. IsEntry(s[k], now, 0)
        BY <3>1, <4>2
      <4>4. QED
        BY <4>3 DEF IsEntry
    <3>3. active.type = "LFU" => s[k].frequency <= active.lfu.frequency[k] + 1
      <4>1. active.lfu.frequency \in [Keys -> Frequencies]
        BY <1>2 DEF PolicyOK, PolicyType, LfuType
      <4>2. QED
        BY SMTT(30), <1>3, <3>2, <4>1 DEF Frequencies
    <3>4. rw = rewritten
      BY <2>2
    <3> HIDE DEF rw
    <3>5. rw \subseteq DOMAIN s /\ \A x \in rewritten \ {k} : x \in rw
      BY <1>2, <1>5, <3>4
    <3>6. EntryUsed(store, active, rewritten, now, k, s, rw)
      BY <1>5, <3>2, <3>3, <3>5 DEF EntryUsed
    <3>7. QED
      BY <1>2, <1>3, <1>4, <3>6, UseAgrees
  <2>3. QED
    BY <2>1, <2>2
<1> HIDE DEF rw
<1>8. /\ DOMAIN s \subseteq Keys /\ IsFiniteSet(DOMAIN s) /\ PolicyOK(p)
      /\ DOMAIN s \subseteq KnownTo(p) /\ rw \subseteq DOMAIN s
      /\ Cardinality(DOMAIN s) \in Nat /\ Cardinality(DOMAIN s) <= Capacity + 1
  <2>1. /\ DOMAIN s \subseteq Keys /\ IsFiniteSet(DOMAIN s) /\ PolicyOK(p)
        /\ DOMAIN s \subseteq KnownTo(p) /\ rw \subseteq DOMAIN s
    BY <1>7 DEF Agree
  <2>2. Cardinality(D) \in Nat /\ Cardinality(DOMAIN s) \in Nat
    BY <1>2, <2>1, FS_CardinalityType
  <2>3. Cardinality(D \cup {k}) = IF k \in D THEN Cardinality(D) ELSE Cardinality(D) + 1
    BY <1>2, FS_AddElement
  <2>4. Cardinality(DOMAIN s) = Cardinality(D) \/ Cardinality(DOMAIN s) = Cardinality(D) + 1
    BY <1>5, <2>3
  <2> DEFINE c == Cardinality(DOMAIN s)
             d == Cardinality(D)
  <2>5. c \in Nat /\ d \in Nat /\ (c = d \/ c = d + 1) /\ d <= Capacity
    BY <1>2, <2>2, <2>4
  <2> HIDE DEF c, d
  <2>6. c <= Capacity + 1
    BY SMTT(30), <1>3, <2>5
  <2>7. QED
    BY <2>1, <2>2, <2>6 DEF c
<1>9. CASE over
  <2>1. candidates \in SUBSET KnownTo(p) /\ candidates # {} /\ candidates \subseteq DOMAIN s
    BY <1>5, <1>8
  <2>2. v \in selectVictim(p, candidates)
    BY <1>1, <1>9
  <2> HIDE DEF candidates
  <2>3. v \in DOMAIN s /\ v \in Keys
    <3>1. Coldest(p, candidates, v)
      BY <1>8, <2>1, <2>2, VictimFound
    <3>2. QED
      BY <1>8, <2>1, <3>1 DEF Coldest
  <2>4. AfterRemovalOf(p, v, active')
    BY <1>1, <1>8, <2>3, RemovalKeeps
  <2>5. Agree(store', active', rewritten', now')
    <3>1. Agree(Without(s, {v}), active', rw \ {v}, now)
      BY <1>3, <1>7, <2>3, <2>4, RemovalAgrees
    <3>2. QED
      BY <1>1, <3>1
  <2>6. Cardinality(DOMAIN store') <= Capacity
    <3>1. DOMAIN store' = DOMAIN s \ {v}
      BY <1>1 DEF Without
    <3>2. Cardinality(DOMAIN s \ {v}) = Cardinality(DOMAIN s) - 1
      BY <1>8, <2>3, FS_RemoveElement
    <3>3. Cardinality(DOMAIN s) - 1 <= Capacity
      <4> DEFINE c == Cardinality(DOMAIN s)
      <4>1. c \in Nat /\ c <= Capacity + 1
        BY <1>8
      <4> HIDE DEF c
      <4>2. c - 1 <= Capacity
        BY SMT, <1>3, <4>1
      <4>3. QED
        BY <4>2 DEF c
    <3>4. QED
      BY <3>1, <3>2, <3>3
  <2>7. v # k
    <3>1. Cardinality({k}) = 1 /\ ~(1 > Capacity)
      <4>1. Cardinality({k}) = 1
        BY FS_Singleton
      <4>2. ~(1 > Capacity)
        BY SMT, Parameters
      <4>3. QED
        BY <4>1, <4>2
    <3>2. DOMAIN s # {k}
      BY <1>9, <3>1
    <3>3. Coldest(p, candidates, v)
      BY <1>8, <2>1, <2>2, VictimFound
    <3>4. QED
      BY <3>2, <3>3 DEF Coldest, candidates
  <2>8. AfterUseAndRemovalOf(active, k, active')
    BY <1>4, <2>3, <2>4, <2>7 DEF AfterUseAndRemovalOf
  <2>9. QED
    BY <1>1, <1>2, <2>5, <2>6, <2>8 DEF IInv
<1>10. CASE ~over
  <2>1. v = Null /\ v \notin DOMAIN s
    BY <1>1, <1>3, <1>8, <1>10
  <2>2. store' = s /\ active' = p /\ rewritten' = rw
    <3>1. DOMAIN s \ {v} = DOMAIN s /\ rw \ {v} = rw
      BY <1>8, <2>1
    <3>2. QED
      BY <1>1, <1>6, <2>1, <3>1 DEF Without
  <2>3. Cardinality(DOMAIN s) <= Capacity
    <3> DEFINE c == Cardinality(DOMAIN s)
    <3>1. c \in Nat /\ ~(c > Capacity)
      BY <1>8, <1>10
    <3> HIDE DEF c
    <3>2. c <= Capacity
      BY SMT, <1>3, <3>1
    <3>3. QED
      BY <3>2 DEF c
  <2>4. AfterUseAndRemovalOf(active, k, active')
    BY <1>4, <2>2 DEF AfterUseAndRemovalOf
  <2>5. QED
    BY <1>1, <1>2, <1>7, <2>2, <2>3, <2>4 DEF IInv
<1>11. QED
  BY <1>9, <1>10

\* A hit keeps the invariant.
LEMMA GetKeeps ==
  ASSUME IInv, NEW k \in Keys, MayUse(k), get(k)
  PROVE  IInv'
<1>1. /\ k \in DOMAIN store
      /\ store' = [store EXCEPT ![k] = [lastAccessedAt |-> now,
                                        frequency |-> @.frequency + 1]]
      /\ active' = recordAccess(active, k)
      /\ rewritten' = rewritten \ {k} /\ used' = k /\ now' = now
  BY DEF get
<1>2. /\ Agree(store, active, rewritten, now) /\ Cardinality(DOMAIN store) <= Capacity
      /\ now \in 0 .. MaxNow /\ rewritten \subseteq DOMAIN store /\ PolicyOK(active)
      /\ \A x \in DOMAIN store : store[x] \in Entries(now)
  BY DEF IInv, Agree
<1>3. now \in Nat /\ MaxFrequency \in Nat
  BY SMT, <1>2, Parameters
<1>4. AfterUseOf(active, k, active')
  BY <1>1, <1>2, AccessKeeps DEF MayUse
<1>5. /\ DOMAIN store' = DOMAIN store
      /\ store'[k] = [lastAccessedAt |-> now, frequency |-> store[k].frequency + 1]
      /\ \A x \in DOMAIN store \ {k} : store'[x] = store[x]
  BY <1>1
<1>6. /\ store[k].frequency \in 0 .. MaxFrequency
      /\ store[k].frequency < MaxFrequency
  BY <1>1, <1>2, EntryFrequency DEF MayUse
<1>7. /\ store'[k] \in Entries(now) /\ store'[k].lastAccessedAt = now
      /\ store'[k].frequency = store[k].frequency + 1
  <2>1. store[k].frequency + 1 \in 0 .. MaxFrequency
    BY <1>3, <1>6, CountUp
  <2>2. IsEntry([lastAccessedAt |-> now, frequency |-> store[k].frequency + 1],
                now, store[k].frequency + 1)
    BY <1>3, <2>1, EntryWritten
  <2>3. IsEntry(store'[k], now, store[k].frequency + 1)
    BY <1>5, <2>2
  <2>4. QED
    BY <2>3 DEF IsEntry
<1>8. active.type = "LFU" => store'[k].frequency <= active.lfu.frequency[k] + 1
  <2>1. SUFFICES ASSUME active.type = "LFU"
                 PROVE  store'[k].frequency <= active.lfu.frequency[k] + 1
    OBVIOUS
  <2>2. active.lfu.frequency[k] >= store[k].frequency
    BY <1>1, <1>2, <2>1 DEF Agree
  <2>3. active.lfu.frequency \in [Keys -> Frequencies]
    BY <1>2 DEF PolicyOK, PolicyType, LfuType
  <2>4. active.lfu.frequency[k] \in 0 .. MaxFrequency
    BY <2>3 DEF Frequencies
  <2>5. QED
    BY SMTT(30), <1>3, <1>6, <1>7, <2>2, <2>4
<1>9. DOMAIN store' = DOMAIN store \cup {k} /\ rewritten' \subseteq DOMAIN store'
      /\ \A x \in rewritten \ {k} : x \in rewritten'
  BY <1>1, <1>2, <1>5
<1>10. Agree(store', active', rewritten', now)
  <2>1. EntryUsed(store, active, rewritten, now, k, store', rewritten')
    BY <1>5, <1>7, <1>8, <1>9 DEF EntryUsed
  <2>2. QED
    BY <1>2, <1>3, <1>4, <2>1, UseAgrees
<1>11. QED
  BY <1>1, <1>2, <1>5, <1>10 DEF IInv

\* The invariant holds initially.
LEMMA InitHolds == Init => IInv
<1>1. SUFFICES ASSUME Init PROVE IInv
  OBVIOUS
<1>2. /\ store = [k \in {} |-> Null] /\ active = createEvictionPolicy("LRU")
      /\ now = 0 /\ rewritten = {} /\ used = Null
  BY <1>1 DEF Init
<1>3. DOMAIN store = {}
  BY <1>2
<1>4. PolicyOK(active)
  BY <1>2, FreshPolicy DEF Policies
<1>5. IsFiniteSet(DOMAIN store) /\ Cardinality(DOMAIN store) = 0
  BY <1>3, FS_EmptySet
<1>6. Agree(store, active, rewritten, now)
  BY <1>2, <1>3, <1>4, <1>5 DEF Agree
<1>7. now \in 0 .. MaxNow /\ Cardinality(DOMAIN store) <= Capacity
  BY SMTT(30), <1>2, <1>5, Parameters
<1>8. QED
  BY <1>2, <1>6, <1>7 DEF IInv

\* Every step keeps the policy in agreement with the store.
LEMMA NextKeeps == IInv /\ [Next]_vars => IInv'
<1>1. SUFFICES ASSUME IInv, [Next]_vars PROVE IInv'
  OBVIOUS
<1>2. /\ Agree(store, active, rewritten, now) /\ Cardinality(DOMAIN store) <= Capacity
      /\ now \in 0 .. MaxNow /\ used \in Keys \cup {Null}
      /\ DOMAIN store \subseteq Keys /\ IsFiniteSet(DOMAIN store) /\ PolicyOK(active)
  BY <1>1 DEF IInv, Agree
<1>3. now \in Nat /\ Capacity \in Nat
  BY SMT, <1>2, Parameters
<1>4. ASSUME NEW k \in Keys, delete(k) PROVE IInv'
  <2>1. /\ k \in DOMAIN store /\ store' = Without(store, {k})
        /\ active' = recordRemoval(active, k) /\ rewritten' = rewritten \ {k}
        /\ used' = Null /\ now' = now
    BY <1>4 DEF delete
  <2>2. AfterRemovalOf(active, k, active')
    BY <1>2, <2>1, RemovalKeeps
  <2>3. Agree(store', active', rewritten', now')
    <3>1. Agree(Without(store, {k}), active', rewritten \ {k}, now)
      BY <1>2, <1>3, <2>2, RemovalAgrees
    <3>2. QED
      BY <2>1, <3>1
  <2>4. Cardinality(DOMAIN store') <= Capacity
    <3>1. DOMAIN store' = DOMAIN store \ {k}
      BY <2>1 DEF Without
    <3>2. Cardinality(DOMAIN store \ {k}) = Cardinality(DOMAIN store) - 1
      BY <1>2, <2>1, FS_RemoveElement
    <3>3. Cardinality(DOMAIN store) \in Nat
      BY <1>2, FS_CardinalityType
    <3>4. Cardinality(DOMAIN store) - 1 <= Capacity
      BY SMTT(30), <1>2, <1>3, <3>3
    <3>5. QED
      BY <3>1, <3>2, <3>4
  <2>5. QED
    BY <1>2, <2>1, <2>3, <2>4 DEF IInv
<1>5. CASE clear
  <2>1. /\ store' = [k \in {} |-> Null] /\ rewritten' = {} /\ used' = Null
        /\ active' = active /\ now' = now
    BY <1>5 DEF clear
  <2>2. DOMAIN store' = {}
    BY <2>1
  <2>3. IsFiniteSet(DOMAIN store') /\ Cardinality(DOMAIN store') = 0
    BY <2>2, FS_EmptySet
  <2>4. Agree(store', active', rewritten', now')
    BY <1>2, <2>1, <2>2, <2>3 DEF Agree
  <2>5. Cardinality(DOMAIN store') <= Capacity
    BY SMT, <1>3, <2>3
  <2>6. QED
    BY <1>2, <2>1, <2>4, <2>5 DEF IInv
<1>6. ASSUME NEW type \in Policies, switchTo(type) PROVE IInv'
  <2>1. /\ active' \in Seeded(type) /\ used' = Null /\ store' = store /\ now' = now
        /\ rewritten' = rewritten
    BY <1>6 DEF switchTo
  <2>2. Agree(store, active', rewritten, now)
    BY <1>2, <1>3, <1>6, <2>1, SeedAgrees
  <2>3. QED
    BY <1>2, <2>1, <2>2 DEF IInv
<1>7. CASE Tick
  <2>1. /\ now < MaxNow /\ now' = now + 1
        /\ store' = store /\ active' = active /\ rewritten' = rewritten /\ used' = used
    BY <1>7 DEF Tick
  <2>2. now' \in 0 .. MaxNow
    BY <1>2, <2>1, Parameters, CountUp
  <2>3. \A k \in DOMAIN store : store[k] \in Entries(now')
    <3>1. \A k \in DOMAIN store : store[k] \in Entries(now)
      BY <1>2 DEF Agree
    <3>2. QED
      BY <1>3, <2>1, <3>1, EntryLater
  <2>4. Agree(store', active', rewritten', now')
    BY <1>2, <2>1, <2>3 DEF Agree
  <2>5. QED
    BY <1>2, <2>1, <2>2, <2>4 DEF IInv
<1>8. CASE UNCHANGED vars
  <2>1. /\ store' = store /\ active' = active /\ rewritten' = rewritten /\ used' = used
        /\ now' = now
    BY <1>8 DEF vars
  <2>2. QED
    BY <1>2, <2>1 DEF IInv
<1>9. QED
  BY <1>1, <1>4, <1>5, <1>6, <1>7, <1>8, SetKeeps, GetKeeps DEF Next

\* The invariant always holds.
LEMMA Invariance == Spec => []IInv
  BY InitHolds, NextKeeps, PTL DEF Spec

-----------------------------------------------------------------------------
(* Theorems *)

\* For any keys, hash, capacity and bounds, and however uses, removals,
\* evictions, clear and switches are mixed, the hand-kept links of the list
\* spell one order of its keys and the LFU map, buckets and minFrequency agree.
THEOREM StructuresStayIntact == Spec => []StructuresIntact
<1>1. IInv => StructuresIntact
  <2>1. SUFFICES ASSUME IInv PROVE StructuresIntact
    OBVIOUS
  <2>2. /\ DOMAIN store \subseteq Keys
        /\ \A k \in DOMAIN store : store[k] \in Entries(now)
        /\ rewritten \subseteq DOMAIN store /\ PolicyOK(active)
        /\ now \in 0 .. MaxNow /\ used \in Keys \cup {Null}
    BY <2>1 DEF IInv, Agree
  <2>3. /\ active \in PolicyType /\ Consistent(active.lfu) /\ CellInv(active.tiny.sketch)
        /\ HasList => PolicyList(active) = List /\ ListGood(List)
    BY <2>2 DEF PolicyOK, PolicyList, HasList, List
  <2>4. /\ active.type \in Policies /\ active.lru \in ListType
        /\ active.tiny.recency \in ListType
        /\ active.lfu \in [frequency : [Keys -> 0 .. MaxFrequency],
                           buckets : [0 .. MaxFrequency -> SUBSET Keys],
                           minFrequency : 0 .. MaxFrequency]
    BY <2>3 DEF PolicyType, TinyPolicies, LfuType, Frequencies, Lists, Links, ListType
  <2>5. active.tiny.sketch \in
          [table : [Rows -> [Columns -> 0 .. MaxCounter]],
           additionsSinceAging : 0 .. agingThreshold - 1,
           truth : [Keys -> 0 .. MaxCounter]]
    <3> DEFINE s == active.tiny.sketch
    <3>1. s \in Sketches /\ s.additionsSinceAging < agingThreshold
      BY <2>3 DEF CellInv
    <3> HIDE DEF s
    <3>2. s.additionsSinceAging \in 0 .. agingThreshold - 1
      BY SMTT(30), <3>1, Parameters DEF Sketches
    <3>3. s \in [table : [Rows -> [Columns -> 0 .. MaxCounter]],
                 additionsSinceAging : 0 .. agingThreshold - 1,
                 truth : [Keys -> 0 .. MaxCounter]]
      BY SMT, <3>1, <3>2 DEF Sketches, Counters
    <3>4. QED
      BY <3>3 DEF s
  <2>6. TypeOK
    BY <2>2, <2>4, <2>5 DEF TypeOK, Entries
  <2>7. QED
    BY <2>3, <2>6 DEF StructuresIntact, ListIntact, LfuConsistent, ListGood
<1>2. QED
  BY <1>1, Invariance, PTL

\* Whatever collides with whatever and whenever aging strikes, also in the
\* middle of a replay, an estimate is never below the key's own count, and no
\* counter outgrows the aging threshold.
THEOREM SketchStaysSound == Spec => []SketchSound
<1>1. IInv => SketchSound
  <2>1. SUFFICES ASSUME IInv PROVE SketchSound
    OBVIOUS
  <2>2. CellInv(active.tiny.sketch)
    BY <2>1 DEF IInv, Agree, PolicyOK
  <2>3. QED
    BY <2>2, CellsSuffice DEF SketchSound, NeverUndercounts, CountersBounded
<1>2. QED
  BY <1>1, Invariance, PTL

\* The store never exceeds its capacity: the active policy, however it came
\* to be active, knows every held key and always finds a victim among them.
THEOREM RoomIsMade == Spec => []RoomMade
<1>1. IInv => RoomMade
  <2>1. SUFFICES ASSUME IInv PROVE RoomMade
    OBVIOUS
  <2>2. Tracked = KnownTo(active)
    BY DEF Tracked, KnownTo, HasList, List, PolicyList
  <2>3. QED
    BY <2>1, <2>2 DEF RoomMade, IInv, Agree
<1>2. QED
  BY <1>1, Invariance, PTL

\* The policy and the metadata agree: no held key has fewer LFU uses than
\* hits, and the list orders the held keys by lastAccessedAt, up to overwrites.
THEOREM PolicyAlwaysAgrees == Spec => []PolicyAgrees
<1>1. IInv => PolicyAgrees
  <2>1. SUFFICES ASSUME IInv PROVE PolicyAgrees
    OBVIOUS
  <2>2. HitsCounted
    BY <2>1 DEF HitsCounted, IInv, Agree
  <2>3. HasList => List = PolicyList(active)
    BY DEF HasList, List, PolicyList
  <2>4. RecencyAgrees
    BY <2>1, <2>3 DEF RecencyAgrees, HasList, IInv, Agree
  <2>5. QED
    BY <2>2, <2>4 DEF PolicyAgrees
<1>2. QED
  BY <1>1, Invariance, PTL

\* Whatever part of the held keys storage offers as candidates, the victim is
\* a coldest one by the active policy's own measure.
THEOREM VictimIsColdest == Spec => []VictimColdest
<1>1. IInv => VictimColdest
  <2>1. SUFFICES ASSUME IInv, NEW C \in (SUBSET DOMAIN store) \ {{}},
                        NEW v \in selectVictim(active, C)
                 PROVE  Coldest(active, C, v)
    BY DEF VictimColdest, Coldest, HasList, List, PolicyList
  <2>2. PolicyOK(active) /\ C \in SUBSET KnownTo(active) /\ C # {}
    BY <2>1 DEF IInv, Agree
  <2>3. QED
    BY <2>1, <2>2, VictimFound
<1>2. QED
  BY <1>1, Invariance, PTL

-----------------------------------------------------------------------------
(* The list as a recency order *)

\* The keys and the order a policy shows.
ShownKeys(p) == IF p.type # "LFU" THEN PolicyList(p).nodes ELSE {}

ShownOrder(p) == IF p.type # "LFU" THEN Older(PolicyList(p)) ELSE {}

\* Restricting a relation to all its members leaves it alone.
LEMMA KeepAll ==
  ASSUME NEW S, NEW R \in SUBSET (S \X S)
  PROVE  Recency!Kept(R, S) = R
  BY SMT DEF Recency!Kept

\* Restricting it to the members other than k drops the pairs of k.
LEMMA KeepOthers ==
  ASSUME NEW S, NEW R \in SUBSET (S \X S), NEW k
  PROVE  Recency!Kept(R, S \ {k}) = Dropped(R, k)
  BY SMT DEF Recency!Kept, Dropped

\* What a good policy shows is an order of keys.
LEMMA ShownOrders ==
  ASSUME NEW p, PolicyOK(p)
  PROVE  /\ ShownKeys(p) \subseteq Keys
         /\ TotalOrder(ShownKeys(p), ShownOrder(p))
<1>1. CASE p.type # "LFU"
  <2> DEFINE l == PolicyList(p)
  <2>1. l \in Lists /\ Spells(l, Older(l))
    BY <1>1 DEF PolicyOK, ListGood
  <2> HIDE DEF l
  <2>2. l.nodes \subseteq Keys /\ TotalOrder(l.nodes, Older(l))
    BY <2>1 DEF Lists, Spells
  <2>3. QED
    BY <1>1, <2>2 DEF ShownKeys, ShownOrder, l
<1>2. CASE p.type = "LFU"
  <2>1. ShownKeys(p) = {} /\ ShownOrder(p) = {}
    BY <1>2 DEF ShownKeys, ShownOrder
  <2>2. QED
    BY <2>1 DEF TotalOrder
<1>3. QED
  BY <1>1, <1>2

\* Removing a key from the list removes it from the order shown.
LEMMA ShownRemoval ==
  ASSUME NEW p, PolicyOK(p), NEW v, NEW q, AfterRemovalOf(p, v, q)
  PROVE  /\ q.type = p.type /\ ShownKeys(q) = ShownKeys(p) \ {v}
         /\ ShownOrder(q) = Recency!Kept(ShownOrder(p), ShownKeys(q))
<1> DEFINE T == ShownKeys(p)
           R == ShownOrder(p)
<1>1. R \in SUBSET (T \X T)
  BY ShownOrders DEF TotalOrder
<1>2. q.type = p.type /\ ShownKeys(q) = T \ {v} /\ ShownOrder(q) = Dropped(R, v)
  <2>1. CASE p.type # "LFU"
    BY <2>1 DEF AfterRemovalOf, ShownKeys, ShownOrder
  <2>2. CASE p.type = "LFU"
    BY <2>2 DEF AfterRemovalOf, ShownKeys, ShownOrder, Dropped
  <2>3. QED
    BY <2>1, <2>2
<1> HIDE DEF T, R
<1>3. Recency!Kept(R, T \ {v}) = Dropped(R, v)
  BY <1>1, KeepOthers
<1>4. QED
  BY <1>2, <1>3 DEF T, R

\* Using a key makes it the most recent one of the order shown.
LEMMA ShownUse ==
  ASSUME NEW p, PolicyOK(p), p.type # "LFU", NEW k \in Keys, NEW q,
         AfterUseAndRemovalOf(p, k, q)
  PROVE  /\ q.type = p.type
         /\ k \in ShownKeys(q) /\ ShownKeys(q) \subseteq ShownKeys(p) \cup {k}
         /\ ShownOrder(q) =
              Recency!Kept(Recency!Kept(ShownOrder(p), Keys \ {k})
                             \cup ((ShownKeys(p) \ {k}) \X {k}), ShownKeys(q))
<1> DEFINE T == ShownKeys(p)
           R == ShownOrder(p)
           U == Recency!Kept(R, Keys \ {k}) \cup ((T \ {k}) \X {k})
<1>1. PICK u : /\ AfterUseOf(p, k, u)
               /\ u = q \/ \E v \in Keys \ {k} : AfterRemovalOf(u, v, q)
  BY DEF AfterUseAndRemovalOf
<1>2. T \subseteq Keys /\ R \in SUBSET (T \X T)
  BY ShownOrders DEF TotalOrder
<1>3. /\ PolicyOK(u) /\ u.type = p.type /\ ShownKeys(u) = T \cup {k}
      /\ ShownOrder(u) = AfterUse(T, R, k)
  BY <1>1 DEF AfterUseOf, ShownKeys, ShownOrder, KnownTo
<1> HIDE DEF T, R
<1>4. ShownOrder(u) = U
  <2>1. R \in SUBSET (Keys \X Keys)
    BY <1>2
  <2>2. Recency!Kept(R, Keys \ {k}) = Dropped(R, k)
    BY <2>1, KeepOthers
  <2>3. QED
    BY <1>3, <2>2 DEF AfterUse
<1> HIDE DEF U
<1>5. CASE u = q
  <2>1. U \in SUBSET (ShownKeys(q) \X ShownKeys(q))
    BY <1>3, <1>4, <1>5, ShownOrders DEF TotalOrder
  <2>2. Recency!Kept(U, ShownKeys(q)) = U
    BY <2>1, KeepAll
  <2>3. QED
    BY <1>3, <1>4, <1>5, <2>2 DEF U, T, R
<1>6. ASSUME NEW v \in Keys \ {k}, AfterRemovalOf(u, v, q)
      PROVE  /\ q.type = p.type /\ k \in ShownKeys(q)
             /\ ShownKeys(q) \subseteq T \cup {k}
             /\ ShownOrder(q) = Recency!Kept(U, ShownKeys(q))
  <2>1. /\ q.type = u.type /\ ShownKeys(q) = ShownKeys(u) \ {v}
        /\ ShownOrder(q) = Recency!Kept(ShownOrder(u), ShownKeys(q))
    BY <1>3, <1>6, ShownRemoval
  <2>2. QED
    BY <1>3, <1>4, <1>6, <2>1
<1>7. QED
  BY <1>1, <1>5, <1>6 DEF U, T, R

\* What a step of the store does to the active policy and to used.
LEMMA PolicySteps ==
  ASSUME IInv, [Next]_vars
  PROVE  \/ \E k \in Keys : used' = k /\ AfterUseAndRemovalOf(active, k, active')
         \/ used' = Null /\ \E k \in Keys : AfterRemovalOf(active, k, active')
         \/ used' = Null /\ active'.type \in Policies \ {active.type}
         \/ active' = active /\ used' \in {used, Null}
<1>1. /\ Agree(store, active, rewritten, now) /\ PolicyOK(active) /\ DOMAIN store \subseteq Keys
      /\ now \in Nat
  <2>1. /\ Agree(store, active, rewritten, now) /\ PolicyOK(active)
        /\ DOMAIN store \subseteq Keys /\ now \in 0 .. MaxNow
    BY DEF IInv, Agree
  <2>2. now \in Nat
    BY SMT, <2>1, Parameters
  <2>3. QED
    BY <2>1, <2>2
<1>2. ASSUME NEW k \in Keys, MayUse(k), set(k)
      PROVE  used' = k /\ AfterUseAndRemovalOf(active, k, active')
  BY <1>2, SetKeeps DEF set
<1>3. ASSUME NEW k \in Keys, MayUse(k), get(k)
      PROVE  used' = k /\ AfterUseAndRemovalOf(active, k, active')
  <2>1. AfterUseOf(active, k, active') /\ used' = k
    BY <1>1, <1>3, AccessKeeps DEF MayUse, get
  <2>2. QED
    BY <2>1 DEF AfterUseAndRemovalOf
<1>4. ASSUME NEW k \in Keys, delete(k)
      PROVE  used' = Null /\ AfterRemovalOf(active, k, active')
  BY <1>1, <1>4, RemovalKeeps DEF delete
<1>5. ASSUME NEW type \in Policies, switchTo(type)
      PROVE  used' = Null /\ active'.type \in Policies \ {active.type}
  BY <1>1, <1>5, SeedAgrees DEF switchTo
<1>6. CASE clear \/ Tick \/ UNCHANGED vars
  BY <1>6 DEF clear, Tick, vars
<1>7. QED
  BY <1>2, <1>3, <1>4, <1>5, <1>6 DEF Next

\* Each of them is a step of a recency order.
LEMMA RecencyStep ==
  ASSUME IInv, IInv', [Next]_vars
  PROVE  Recency!Next \/ UNCHANGED Recency!vars
<1> DEFINE keys == IF HasList THEN List.nodes ELSE {}
           order == IF HasList THEN Older(List) ELSE {}
           last == IF HasList THEN used ELSE Null
<1>1. PolicyOK(active) /\ PolicyOK(active')
  BY DEF IInv, Agree
<1>2. keys = ShownKeys(active) /\ order = ShownOrder(active)
  BY DEF ShownKeys, ShownOrder, HasList, List, PolicyList
<1>3. keys' = ShownKeys(active') /\ order' = ShownOrder(active')
  BY DEF ShownKeys, ShownOrder, HasList, List, PolicyList
<1>4. last = (IF active.type # "LFU" THEN used ELSE Null) /\ last' = (IF active'.type # "LFU" THEN used' ELSE Null)
  BY DEF HasList
<1>5. ASSUME active'.type = active.type, last' = Null,
             ShownKeys(active') \subseteq ShownKeys(active),
             ShownOrder(active') = Recency!Kept(ShownOrder(active), ShownKeys(active'))
      PROVE  Recency!Remove
  BY <1>2, <1>3, <1>5 DEF Recency!Remove, Recency!Kept
<1>6. ASSUME active'.type = active.type, active.type = "LFU"
      PROVE  UNCHANGED Recency!vars
  BY <1>6 DEF Recency!vars, HasList
<1>7. ASSUME NEW k \in Keys, used' = k, AfterUseAndRemovalOf(active, k, active'),
             active.type # "LFU"
      PROVE  Recency!Use(k)
  <2>1. /\ active'.type = active.type
        /\ k \in ShownKeys(active') /\ ShownKeys(active') \subseteq ShownKeys(active) \cup {k}
        /\ ShownOrder(active') =
              Recency!Kept(Recency!Kept(ShownOrder(active), Keys \ {k})
                 \cup ((ShownKeys(active) \ {k}) \X {k}), ShownKeys(active'))
    BY <1>1, <1>7, ShownUse
  <2>2. last' = k
    BY <1>4, <1>7, <2>1
  <2>3. QED
    BY <1>2, <1>3, <2>1, <2>2 DEF Recency!Use, Recency!Kept
<1>8. ASSUME NEW k \in Keys, used' = Null, AfterRemovalOf(active, k, active')
      PROVE  Recency!Remove
  <2>1. /\ active'.type = active.type /\ ShownKeys(active') = ShownKeys(active) \ {k}
        /\ ShownOrder(active') = Recency!Kept(ShownOrder(active), ShownKeys(active'))
    BY <1>1, <1>8, ShownRemoval
  <2>2. last' = Null /\ ShownKeys(active') \subseteq ShownKeys(active)
    BY <1>4, <1>8, <2>1
  <2>3. QED
    BY <1>5, <2>1, <2>2
<1>9. ASSUME used' = Null, active'.type \in Policies \ {active.type}
      PROVE  Recency!Switch
  <2>1. /\ keys' \subseteq Keys /\ TotalOrder(keys', order')
    BY <1>1, <1>3, ShownOrders
  <2>2. last' = Null
    BY <1>4, <1>9
  <2>3. QED
    BY <1>9, <2>1, <2>2 DEF Recency!Switch, Recency!StrictOrder, TotalOrder
<1>10. ASSUME active' = active, used' = used
       PROVE  UNCHANGED Recency!vars
  BY <1>10 DEF Recency!vars, HasList, List
<1>11. ASSUME active' = active, used' = Null
       PROVE  Recency!Remove
  <2>1. ShownOrder(active) \in SUBSET (ShownKeys(active) \X ShownKeys(active))
    BY <1>1, ShownOrders DEF TotalOrder
  <2>2. Recency!Kept(ShownOrder(active), ShownKeys(active)) = ShownOrder(active)
    BY <2>1, KeepAll
  <2>3. last' = Null
    BY <1>4, <1>11
  <2>4. QED
    BY <1>5, <1>11, <2>2, <2>3
<1>12. \A k \in Keys : AfterUseAndRemovalOf(active, k, active') => active'.type = active.type
  BY DEF AfterUseAndRemovalOf, AfterUseOf, AfterRemovalOf
<1>13. QED
  BY <1>6, <1>7, <1>8, <1>9, <1>10, <1>11, <1>12, PolicySteps DEF Recency!Next

\* The linked list, kept by hand through touch, unlink and pushFront, implements
\* an order of last use: a use makes its key the most recent, removals and
\* evictions keep the order of the rest, and only a switch starts a new order.
THEOREM ListImplementsRecency == Spec => RefinesRecency
<1>1. Init => Recency!Init
  <2>1. SUFFICES ASSUME Init PROVE Recency!Init
    OBVIOUS
  <2>2. active.type = "LRU" /\ active.lru = LruReset /\ used = Null
    BY SMT, <2>1 DEF Init, createEvictionPolicy
  <2>3. LruReset.nodes = {} /\ Older(LruReset) = {}
    BY GoodReset
  <2>4. HasList /\ List = LruReset
    BY <2>2 DEF HasList, List
  <2>5. QED
    BY <2>2, <2>3, <2>4 DEF Recency!Init, Policies
<1>2. IInv /\ IInv' /\ [Next]_vars => [Recency!Next]_(Recency!vars)
  BY RecencyStep
<1>3. QED
  BY <1>1, <1>2, Invariance, PTL DEF Spec, RefinesRecency, Recency!Spec
=============================================================================
