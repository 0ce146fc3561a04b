--------------------------- MODULE StorageProofs ---------------------------
(***************************************************************************)
(* Proofs that the storage engine keeps its accounts and its limits, for   *)
(* any keys, sizes, TTLs and limits, and however the eviction hook picks.  *)
(***************************************************************************)
EXTENDS Storage, FiniteSetTheorems, TLAPS

-----------------------------------------------------------------------------
(* Induction and recursion *)

\* A set of naturals with 0 and with n + 1 for each of its n has them all.
LEMMA Induction ==
  ASSUME NEW S, 0 \in S, \A n \in Nat : n \in S => n + 1 \in S
  PROVE  \A n \in Nat : n \in S
<1> DEFINE T == Nat \ S
<1>1. SUFFICES ASSUME T # {} PROVE FALSE
  BY Zenon
<1>2. PICK x \in T : \A y \in T : <<y, x>> \notin OpToRel(<, Nat)
  BY Zenon, <1>1, NatLessThanWellFounded, WFMin
<1>3. \A y \in T : ~(y < x)
  BY Zenon, <1>2 DEF OpToRel
<1>4. x # 0 /\ x - 1 \in Nat /\ x - 1 \in S
  BY <1>3
<1>5. QED
  BY <1>4

\* What a recursion does at one argument, when it only looks at arguments of
\* lower rank.
Grounded(X, V, rank, Step) ==
  /\ rank \in [X -> Nat]
  /\ Step \in [X -> [[X -> V] -> V]]
  /\ \A x \in X : \A f, g \in [X -> V] :
       (\A y \in X : rank[y] < rank[x] => f[y] = g[y]) => Step[x][f] = Step[x][g]

\* Such a recursion of bounded rank defines a function.
LEMMA Recursion ==
  ASSUME NEW X, NEW V, V # {}, NEW rank, NEW Step, Grounded(X, V, rank, Step),
         NEW N \in Nat, \A x \in X : rank[x] < N
  PROVE  \E f \in [X -> V] : \A x \in X : f[x] = Step[x][f]
<1> DEFINE Upto(f, n) == \A x \in X : rank[x] < n => f[x] = Step[x][f]
           S == {n \in Nat : \E f \in [X -> V] : Upto(f, n)}
<1>0. rank \in [X -> Nat] /\ Step \in [X -> [[X -> V] -> V]]
  BY Zenon DEF Grounded
<1>1. 0 \in S
  <2>1. PICK v \in V : TRUE
    BY Zenon
  <2>2. [x \in X |-> v] \in [X -> V]
    BY Zenon
  <2>3. Upto([x \in X |-> v], 0)
    BY <1>0
  <2>4. QED
    BY <2>2, <2>3
<1>2. ASSUME NEW n \in Nat, n \in S PROVE n + 1 \in S
  <2>1. PICK f \in [X -> V] : Upto(f, n)
    BY Zenon, <1>2
  <2> DEFINE g == [x \in X |-> IF rank[x] < n THEN f[x] ELSE Step[x][f]]
  <2>2. g \in [X -> V]
    BY Zenon, <1>0
  <2>3. ASSUME NEW x \in X, rank[x] < n + 1 PROVE g[x] = Step[x][g]
    <3>1. \A y \in X : rank[y] < rank[x] => f[y] = g[y]
      BY <1>0, <2>3
    <3>2. Step[x][f] = Step[x][g]
      BY Zenon, <2>2, <3>1 DEF Grounded
    <3>3. QED
      BY Zenon, <2>1, <3>2
  <2>4. n + 1 \in Nat
    OBVIOUS
  <2>5. QED
    BY Zenon, <2>2, <2>3, <2>4
<1> HIDE DEF S
<1>3. \A n \in Nat : n \in S
  BY Zenon, <1>1, <1>2, Induction
<1>4. PICK f \in [X -> V] : Upto(f, N)
  BY Zenon, <1>3 DEF S
<1>5. QED
  BY Zenon, <1>4

-----------------------------------------------------------------------------
(* Sums *)

\* f sums the weights w over the subsets of D, in some order.
Summing(D, w, f) ==
  /\ IsFiniteSet(D)
  /\ w \in [D -> Nat]
  /\ f \in [SUBSET D -> Nat]
  /\ f[{}] = 0
  /\ \A T \in SUBSET D : T # {} => \E x \in T : f[T] = w[x] + f[T \ {x}]

\* The order does not matter.
Additive(D, w, f) == \A T \in SUBSET D : \A x \in T : f[T] = w[x] + f[T \ {x}]

LEMMA AnyOrder ==
  ASSUME NEW D, NEW w, NEW f, Summing(D, w, f)
  PROVE  Additive(D, w, f)
<1> DEFINE S == {n \in Nat : \A T \in SUBSET D :
                   Cardinality(T) = n => \A x \in T : f[T] = w[x] + f[T \ {x}]}
<1>0. \A T \in SUBSET D : IsFiniteSet(T) /\ Cardinality(T) \in Nat
  BY FS_Subset, FS_CardinalityType DEF Summing
<1>1. 0 \in S
  BY <1>0, FS_EmptySet
<1>2. ASSUME NEW n \in Nat, n \in S PROVE n + 1 \in S
  <2>1. SUFFICES ASSUME NEW T \in SUBSET D, Cardinality(T) = n + 1, NEW x \in T
                 PROVE  f[T] = w[x] + f[T \ {x}]
    OBVIOUS
  <2>2. PICK c \in T : f[T] = w[c] + f[T \ {c}]
    BY Zenon DEF Summing
  <2>3. CASE c = x
    BY Zenon, <2>2, <2>3
  <2>4. CASE c # x
    <3>1. /\ Cardinality(T \ {c}) = n /\ T \ {c} \in SUBSET D /\ x \in T \ {c}
          /\ Cardinality(T \ {x}) = n /\ T \ {x} \in SUBSET D /\ c \in T \ {x}
      BY SMTT(30), <1>0, <2>1, <2>4, FS_RemoveElement
    <3> DEFINE U == T \ {c, x}
    <3>2. (T \ {c}) \ {x} = U /\ (T \ {x}) \ {c} = U /\ U \in SUBSET D
      BY Zenon
    <3>a. f[T \ {c}] = w[x] + f[(T \ {c}) \ {x}]
      BY Zenon, <1>2, <3>1
    <3>b. f[T \ {x}] = w[c] + f[(T \ {x}) \ {c}]
      BY Zenon, <1>2, <3>1
    <3>3. f[T \ {c}] = w[x] + f[U] /\ f[T \ {x}] = w[c] + f[U]
      BY Zenon, <3>a, <3>b, <3>2
    <3>4. w[x] \in Nat /\ w[c] \in Nat /\ f[U] \in Nat
      BY Zenon, <3>2 DEF Summing
    <3> HIDE DEF U
    <3>5. QED
      BY <2>2, <3>3, <3>4
  <2>5. QED
    BY Zenon, <2>3, <2>4
<1> HIDE DEF S
<1>3. \A n \in Nat : n \in S
  BY Zenon, <1>1, <1>2, Induction
<1>4. QED
  BY Zenon, <1>0, <1>3 DEF S, Additive

\* Nor does the set around, and the sum over two disjoint sets is the sum of
\* their sums.
LEMMA SumsAgree ==
  ASSUME NEW D, NEW w, NEW f, Summing(D, w, f),
         NEW E \in SUBSET D, NEW v, NEW g, Summing(E, v, g),
         \A x \in E : w[x] = v[x]
  PROVE  \A T \in SUBSET E : f[T] = g[T]
<1> DEFINE S == {n \in Nat : \A T \in SUBSET E : Cardinality(T) = n => f[T] = g[T]}
<1>0. /\ IsFiniteSet(E)
      /\ \A T \in SUBSET E : T \in SUBSET D /\ IsFiniteSet(T) /\ Cardinality(T) \in Nat
  BY FS_Subset, FS_CardinalityType DEF Summing
<1>a. Additive(D, w, f) /\ Additive(E, v, g)
  BY Zenon, AnyOrder
<1>1. 0 \in S
  BY Zenon, <1>0, FS_EmptySet DEF Summing
<1>2. ASSUME NEW n \in Nat, n \in S PROVE n + 1 \in S
  <2>1. SUFFICES ASSUME NEW T \in SUBSET E, Cardinality(T) = n + 1 PROVE f[T] = g[T]
    OBVIOUS
  <2>2. PICK x \in T : TRUE
    BY <2>1, FS_EmptySet
  <2>3. Cardinality(T \ {x}) = n /\ T \ {x} \in SUBSET E
    <3>1. Cardinality(T \ {x}) = Cardinality(T) - 1
      BY Zenon, <1>0, FS_RemoveElement
    <3>2. QED
      BY <2>1, <3>1
  <2>4. f[T] = w[x] + f[T \ {x}] /\ g[T] = v[x] + g[T \ {x}]
    BY Zenon, <1>0, <1>a DEF Additive
  <2>5. QED
    BY Zenon, <1>2, <2>3, <2>4
<1> HIDE DEF S
<1>3. \A n \in Nat : n \in S
  BY Zenon, <1>1, <1>2, Induction
<1>4. QED
  BY Zenon, <1>0, <1>3 DEF S

LEMMA SumsAdd ==
  ASSUME NEW D, NEW w, NEW f, Summing(D, w, f),
         NEW A \in SUBSET D
  PROVE  \A T \in SUBSET (D \ A) : f[A \cup T] = f[A] + f[T]
<1> DEFINE S == {n \in Nat : \A T \in SUBSET (D \ A) :
                   Cardinality(T) = n => f[A \cup T] = f[A] + f[T]}
<1>0. /\ \A T \in SUBSET D : f[T] \in Nat
      /\ \A T \in SUBSET (D \ A) : /\ T \in SUBSET D /\ A \cup T \in SUBSET D
                                  /\ IsFiniteSet(T) /\ Cardinality(T) \in Nat
  <2>1. \A T \in SUBSET (D \ A) : T \in SUBSET D /\ A \cup T \in SUBSET D
    OBVIOUS
  <2>2. QED
    BY <2>1, FS_Subset, FS_CardinalityType DEF Summing
<1>1. 0 \in S
  <2>1. ASSUME NEW T \in SUBSET (D \ A), Cardinality(T) = 0 PROVE f[A \cup T] = f[A] + f[T]
    <3>1. T = {} /\ A \cup T = A
      BY <1>0, <2>1, FS_EmptySet
    <3>2. QED
      BY <1>0, <3>1 DEF Summing
  <2>2. QED
    BY <2>1
<1>2. ASSUME NEW n \in Nat, n \in S PROVE n + 1 \in S
  <2>0. n + 1 \in Nat
    OBVIOUS
  <2>1. SUFFICES ASSUME NEW T \in SUBSET (D \ A), Cardinality(T) = n + 1
                 PROVE  f[A \cup T] = f[A] + f[T]
    BY Zenon, <2>0
  <2>2. PICK x \in T : TRUE
    BY <2>1, FS_EmptySet
  <2>3. /\ Cardinality(T \ {x}) = n /\ T \ {x} \in SUBSET (D \ A)
        /\ (A \cup T) \ {x} = A \cup (T \ {x}) /\ x \in A \cup T
    <3>1. Cardinality(T \ {x}) = Cardinality(T) - 1
      BY Zenon, <1>0, FS_RemoveElement
    <3>2. Cardinality(T \ {x}) = n
      BY <2>1, <3>1
    <3>3. QED
      BY Zenon, <3>2
  <2>4. f[T] = w[x] + f[T \ {x}] /\ f[A \cup T] = w[x] + f[A \cup (T \ {x})]
    <3>1. Additive(D, w, f)
      BY Zenon, AnyOrder
    <3>2. QED
      BY Zenon, <1>0, <2>3, <3>1 DEF Additive
  <2>5. f[A \cup (T \ {x})] = f[A] + f[T \ {x}]
    BY Zenon, <1>2, <2>3
  <2>6. w[x] \in Nat /\ f[A] \in Nat /\ f[T \ {x}] \in Nat
    BY Zenon, <1>0, <2>3 DEF Summing
  <2>7. QED
    BY <2>4, <2>5, <2>6
<1> HIDE DEF S
<1>3. \A n \in Nat : n \in S
  BY Zenon, <1>1, <1>2, Induction
<1>4. QED
  BY Zenon, <1>0, <1>3 DEF S

\* A map as the engine holds it.
Held(s) == IsFiniteSet(DOMAIN s) /\ \A k \in DOMAIN s : s[k].sizeBytes \in Nat

Weights(s) == [k \in DOMAIN s |-> s[k].sizeBytes]

\* SizeOf is such a sum.
LEMMA SizeOfSums ==
  ASSUME NEW s, Held(s)
  PROVE  \E f : Summing(DOMAIN s, Weights(s), f) /\ SizeOf(s) = f[DOMAIN s]
<1> DEFINE D == DOMAIN s
           X == SUBSET D
           rank == [T \in X |-> Cardinality(T)]
           one(T) == CHOOSE x \in T : TRUE
           Step == [T \in X |-> [f \in [X -> Nat] |->
                      IF T = {} THEN 0 ELSE s[one(T)].sizeBytes + f[T \ {one(T)}]]]
<1>0. \A T \in X : IsFiniteSet(T) /\ Cardinality(T) \in Nat
                   /\ Cardinality(T) < Cardinality(D) + 1 /\ Cardinality(D) + 1 \in Nat
  BY FS_Subset, FS_CardinalityType DEF Held
<1>1. \A T \in X : T # {} => one(T) \in T /\ T \ {one(T)} \in X
  BY Zenon
<1>2. Grounded(X, Nat, rank, Step)
  <2>1. rank \in [X -> Nat]
    BY Zenon, <1>0
  <2>2. ASSUME NEW T \in X, NEW f \in [X -> Nat], T # {}
        PROVE  /\ Step[T][f] = s[one(T)].sizeBytes + f[T \ {one(T)}]
               /\ s[one(T)].sizeBytes \in Nat /\ f[T \ {one(T)}] \in Nat
    BY <1>1, <2>2 DEF Held
  <2>3. \A f \in [X -> Nat] : {} \in X /\ Step[{}][f] = 0
    BY Zenon
  <2> HIDE DEF Step, X, one
  <2>4. ASSUME NEW T \in X, NEW f \in [X -> Nat] PROVE Step[T][f] \in Nat
    <3>1. CASE T = {}
      BY <2>3, <3>1
    <3>2. CASE T # {}
      <4>1. /\ Step[T][f] = s[one(T)].sizeBytes + f[T \ {one(T)}]
            /\ s[one(T)].sizeBytes \in Nat /\ f[T \ {one(T)}] \in Nat
        BY Zenon, <2>2, <3>2
      <4>2. QED
        BY <4>1
    <3>3. QED
      BY Zenon, <3>1, <3>2
  <2>7. Step \in [X -> [[X -> Nat] -> Nat]]
    BY Zenon, <2>4 DEF Step
  <2>8. ASSUME NEW T \in X, NEW f \in [X -> Nat], NEW g \in [X -> Nat],
               \A U \in X : rank[U] < rank[T] => f[U] = g[U]
        PROVE  Step[T][f] = Step[T][g]
    <3>1. CASE T = {}
      BY Zenon, <2>3, <3>1
    <3>2. CASE T # {}
      <4>1. Cardinality(T \ {one(T)}) = Cardinality(T) - 1
        BY Zenon, <1>0, <1>1, <3>2, FS_RemoveElement
      <4>2. rank[T \ {one(T)}] < rank[T] /\ T \ {one(T)} \in X
        BY <1>0, <1>1, <3>2, <4>1
      <4>3. f[T \ {one(T)}] = g[T \ {one(T)}]
        BY Zenon, <2>8, <4>2
      <4>4. QED
        BY ZenonT(30), <2>2, <3>2, <4>3
    <3>3. QED
      BY Zenon, <3>1, <3>2
  <2>9. QED
    BY Zenon, <2>1, <2>7, <2>8 DEF Grounded
<1> HIDE DEF rank, Step
<1>3. PICK f \in [X -> Nat] : \A T \in X : f[T] = Step[T][f]
  <2>1. \A T \in X : rank[T] < Cardinality(D) + 1
    BY Zenon, <1>0 DEF rank
  <2>2. Cardinality(D) + 1 \in Nat /\ Nat # {}
    BY <1>0
  <2> HIDE DEF X
  <2>3. QED
    BY SMTT(30), <1>2, <2>1, <2>2, Recursion
<1> DEFINE Is(g) == g = [T \in X |-> IF T = {} THEN 0
                                    ELSE s[one(T)].sizeBytes + g[T \ {one(T)}]]
           iter == CHOOSE g : Is(g)
<1>4. Is(f)
  <2>1. \A T \in X : Step[T][f] = IF T = {} THEN 0
                                       ELSE s[one(T)].sizeBytes + f[T \ {one(T)}]
    BY Zenon DEF Step
  <2>2. QED
    BY Zenon, <1>3, <2>1
<1>5. Is(iter)
  BY ZenonT(30), <1>4
<1>6. SizeOf(s) = iter[D]
  BY Zenon DEF SizeOf, MapThenSumSet, MapThenFoldSet
<1>7. Summing(D, Weights(s), iter)
  <2> HIDE DEF iter
  <2> DEFINE S == {n \in Nat : \A T \in X : Cardinality(T) = n => iter[T] \in Nat}
  <2>0. \A T \in X : iter[T] = IF T = {} THEN 0
                               ELSE s[one(T)].sizeBytes + iter[T \ {one(T)}]
    BY Zenon, <1>5
  <2>1. 0 \in S
    BY Zenon, <1>0, <2>0, FS_EmptySet
  <2>2. ASSUME NEW n \in Nat, n \in S PROVE n + 1 \in S
    <3>0. n + 1 \in Nat
      OBVIOUS
    <3>1. SUFFICES ASSUME NEW T \in X, Cardinality(T) = n + 1 PROVE iter[T] \in Nat
      BY Zenon, <3>0
    <3>2. T # {}
      BY <3>1, FS_EmptySet
    <3>3. Cardinality(T \ {one(T)}) = Cardinality(T) - 1
      BY Zenon, <1>0, <1>1, <3>2, FS_RemoveElement
    <3>4. Cardinality(T \ {one(T)}) = n
      BY <3>1, <3>3
    <3>5. /\ iter[T] = s[one(T)].sizeBytes + iter[T \ {one(T)}]
          /\ s[one(T)].sizeBytes \in Nat /\ iter[T \ {one(T)}] \in Nat
      BY Zenon, <1>1, <2>0, <2>2, <3>2, <3>4 DEF Held
    <3>6. QED
      BY <3>5
  <2> HIDE DEF S
  <2>3. \A n \in Nat : n \in S
    BY Zenon, <2>1, <2>2, Induction
  <2>4. iter \in [X -> Nat]
    BY Zenon, <1>0, <1>5, <2>3 DEF S
  <2>5. {} \in X /\ iter[{}] = 0
    BY Zenon, <2>0
  <2>6. \A T \in X : T # {} =>
          \E x \in T : iter[T] = Weights(s)[x] + iter[T \ {x}]
    BY Zenon, <1>1, <2>0 DEF Weights
  <2>7. IsFiniteSet(D) /\ Weights(s) \in [D -> Nat]
    BY Zenon DEF Weights, Held
  <2>8. QED
    BY Zenon, <2>4, <2>5, <2>6, <2>7 DEF Summing
<1>8. QED
  BY Zenon, <1>6, <1>7

\* What SizeOf gives for a part of the map, and for the rest.
LEMMA SizeParts ==
  ASSUME NEW s, Held(s), NEW S \in SUBSET DOMAIN s
  PROVE  /\ Held(Without(s, S)) /\ DOMAIN Without(s, S) = DOMAIN s \ S
         /\ SizeOf(s) \in Nat /\ SizeOf(Without(s, S)) \in Nat /\ Freed(s, S) \in Nat
         /\ SizeOf(s) = SizeOf(Without(s, S)) + Freed(s, S)
<1> DEFINE D == DOMAIN s
           r == Without(s, S)
           e == [k \in S |-> s[k]]
<1>1. /\ DOMAIN r = D \ S /\ DOMAIN e = S
      /\ \A k \in D \ S : r[k] = s[k]
      /\ \A k \in S : e[k] = s[k]
  BY Zenon DEF Without
<1>2. IsFiniteSet(D) /\ D \ S \in SUBSET D
  BY Zenon DEF Held
<1>3. IsFiniteSet(S) /\ IsFiniteSet(D \ S)
  BY Zenon, <1>2, FS_Subset
<1>4. Held(r) /\ Held(e)
  BY Zenon, <1>1, <1>3 DEF Held
<1>5. PICK f : Summing(D, Weights(s), f) /\ SizeOf(s) = f[D]
  BY Zenon, SizeOfSums
<1>6. PICK g : Summing(D \ S, Weights(r), g) /\ SizeOf(r) = g[D \ S]
  BY Zenon, <1>1, <1>4, SizeOfSums
<1>7. PICK h : Summing(S, Weights(e), h) /\ SizeOf(e) = h[S]
  BY Zenon, <1>1, <1>4, SizeOfSums
<1>8. /\ \A k \in D \ S : Weights(s)[k] = Weights(r)[k]
      /\ \A k \in S : Weights(s)[k] = Weights(e)[k]
  BY Zenon, <1>1 DEF Weights
<1> HIDE DEF D, r, e
<1>9. f[D \ S] = g[D \ S]
  BY <1>2, <1>5, <1>6, <1>8, SumsAgree
<1>10. f[S] = h[S]
  BY <1>5, <1>7, <1>8, SumsAgree DEF D
<1>11. f[S \cup (D \ S)] = f[S] + f[D \ S]
  BY <1>5, SumsAdd DEF D
<1>12. S \cup (D \ S) = D
  BY DEF D
<1>13. f[S] \in Nat /\ f[D \ S] \in Nat /\ f[D] \in Nat
  BY <1>5 DEF Summing, D
<1>14. SizeOf(s) = SizeOf(r) + SizeOf(e) /\ SizeOf(s) \in Nat /\ SizeOf(r) \in Nat /\ SizeOf(e) \in Nat
  <2>1. SizeOf(s) = f[D] /\ SizeOf(r) = f[D \ S] /\ SizeOf(e) = f[S] /\ f[D] = f[S] + f[D \ S]
    BY Zenon, <1>5, <1>6, <1>7, <1>9, <1>10, <1>11, <1>12
  <2>2. QED
    BY <1>13, <2>1
<1>15. QED
  BY Zenon, <1>1, <1>4, <1>14 DEF Freed, r, e, D

LEMMA SizeOne ==
  ASSUME NEW s, Held(s), NEW k, DOMAIN s = {k}
  PROVE  SizeOf(s) = s[k].sizeBytes
<1>1. PICK f : Summing({k}, Weights(s), f) /\ SizeOf(s) = f[{k}]
  BY Zenon, SizeOfSums
<1>2. f[{k}] = Weights(s)[k] + f[{}] /\ f[{}] = 0
  <2>1. PICK x \in {k} : f[{k}] = Weights(s)[x] + f[{k} \ {x}]
    BY Zenon, <1>1 DEF Summing
  <2>2. x = k /\ {k} \ {x} = {}
    BY Zenon
  <2>3. QED
    BY Zenon, <1>1, <2>1, <2>2 DEF Summing
<1>3. Weights(s)[k] = s[k].sizeBytes /\ s[k].sizeBytes \in Nat
  BY Zenon DEF Weights, Held
<1>4. QED
  BY <1>1, <1>2, <1>3

\* Writing k changes SizeOf by the difference of the sizes.
LEMMA SizeWrite ==
  ASSUME NEW s, Held(s), NEW k, NEW t, Held(t), DOMAIN t = DOMAIN s \cup {k},
         \A x \in DOMAIN s \ {k} : t[x] = s[x]
  PROVE  SizeOf(t) = SizeOf(s) - (IF k \in DOMAIN s THEN s[k].sizeBytes ELSE 0)
                     + t[k].sizeBytes
<1>1. Without(t, {k}) = Without(s, {k} \cap DOMAIN s)
  <2>1. DOMAIN t \ {k} = DOMAIN s \ ({k} \cap DOMAIN s)
    BY Zenon
  <2>2. \A x \in DOMAIN t \ {k} : t[x] = s[x]
    BY Zenon
  <2>3. QED
    BY Zenon, <2>1, <2>2 DEF Without
<1>2. SizeOf(t) = SizeOf(Without(t, {k})) + Freed(t, {k}) /\ SizeOf(Without(t, {k})) \in Nat
  BY Zenon, SizeParts
<1>3. Freed(t, {k}) = t[k].sizeBytes /\ t[k].sizeBytes \in Nat
  <2>1. IsFiniteSet({k}) /\ DOMAIN [x \in {k} |-> t[x]] = {k} /\ [x \in {k} |-> t[x]][k] = t[k]
    BY FS_Singleton
  <2>2. Held([x \in {k} |-> t[x]])
    BY Zenon, <2>1 DEF Held
  <2>3. QED
    BY Zenon, <2>1, <2>2, SizeOne DEF Freed, Held
<1>4. SizeOf(s) = SizeOf(Without(s, {k} \cap DOMAIN s)) + Freed(s, {k} \cap DOMAIN s)
  BY Zenon, SizeParts
<1>5. CASE k \in DOMAIN s
  <2>1. {k} \cap DOMAIN s = {k} /\ IsFiniteSet({k})
    BY ZenonT(30), <1>5, FS_Singleton
  <2>2. DOMAIN [x \in {k} |-> s[x]] = {k} /\ [x \in {k} |-> s[x]][k] = s[k]
    BY Zenon
  <2>3. Held([x \in {k} |-> s[x]]) /\ s[k].sizeBytes \in Nat
    BY Zenon, <1>5, <2>1, <2>2 DEF Held
  <2>4. Freed(s, {k} \cap DOMAIN s) = s[k].sizeBytes
    <3>1. SizeOf([x \in {k} |-> s[x]]) = [x \in {k} |-> s[x]][k].sizeBytes
      BY Zenon, <2>2, <2>3, SizeOne
    <3>2. QED
      BY Zenon, <2>1, <2>2, <3>1 DEF Freed
  <2>5. QED
    BY <1>1, <1>2, <1>3, <1>4, <1>5, <2>3, <2>4
<1>6. CASE k \notin DOMAIN s
  <2>1. {k} \cap DOMAIN s = {}
    BY <1>6
  <2>2. Freed(s, {}) = 0
    <3>1. DOMAIN [x \in {} |-> s[x]] = {} /\ IsFiniteSet({})
      BY FS_EmptySet
    <3>2. Held([x \in {} |-> s[x]])
      BY Zenon, <3>1 DEF Held
    <3>3. PICK f : /\ Summing({}, Weights([x \in {} |-> s[x]]), f)
                   /\ SizeOf([x \in {} |-> s[x]]) = f[{}]
      BY Zenon, <3>1, <3>2, SizeOfSums
    <3>4. QED
      BY Zenon, <3>3 DEF Summing, Freed
  <2>3. SizeOf(s) = SizeOf(Without(t, {k}))
    BY <1>1, <1>2, <1>4, <2>1, <2>2
  <2>4. QED
    BY <1>2, <1>3, <1>6, <2>3
<1>7. QED
  BY Zenon, <1>5, <1>6

-----------------------------------------------------------------------------
(* The capacity loop *)

\* The loop of enforceCapacity goes on when the keys of S are gone.
Continues(s, total, k, S) ==
  /\ Loops(Without(s, S), total - Freed(s, S), Cardinality(S))
  /\ Candidates(Without(s, S), k) # {}

\* What the loop ends with: every victim was a candidate of an iteration, it was
\* right to take the last one, and right to stop.
LEMMA LoopEnds ==
  ASSUME NEW s, IsFiniteSet(DOMAIN s), NEW total, NEW k,
         NEW E \in enforceCapacity(s, total, k)
  PROVE  /\ E \in SUBSET DOMAIN s
         /\ ~Continues(s, total, k, E)
         /\ \A x \in E : \E U \in SUBSET DOMAIN s :
              Continues(s, total, k, U) /\ x \in Candidates(Without(s, U), k)
         /\ E # {} => \E v \in E : /\ Continues(s, total, k, E \ {v})
                                  /\ v \in Candidates(Without(s, E \ {v}), k)
<1> DEFINE D == DOMAIN s
           X == SUBSET D
           V == SUBSET X
           rank == [S \in X |-> Cardinality(D \ S)]
           more(S) == Continues(s, total, k, S)
           cands(S) == Candidates(Without(s, S), k)
           at(g, S) == IF more(S) THEN UNION {g[S \cup {v}] : v \in cands(S)} ELSE {S}
           Step == [S \in X |-> [f \in [X -> V] |-> at(f, S)]]
           Is(g) == g = [S \in X |-> at(g, S)]
           from == CHOOSE g : Is(g)
<1>0. \A S \in X : /\ IsFiniteSet(D \ S) /\ Cardinality(D \ S) \in Nat
                   /\ Cardinality(D \ S) < Cardinality(D) + 1
  <2>1. \A S \in X : D \ S \in SUBSET D
    BY Zenon
  <2>2. QED
    BY <2>1, FS_Subset, FS_CardinalityType
<1>1. \A S \in X : \A v \in cands(S) : v \in D \ S /\ S \cup {v} \in X
  BY Zenon DEF Candidates, Without
<1>2. ASSUME NEW S \in X, NEW v \in cands(S)
      PROVE  Cardinality(D \ (S \cup {v})) < Cardinality(D \ S)
  <2>1. D \ (S \cup {v}) = (D \ S) \ {v}
    BY Zenon
  <2>2. Cardinality((D \ S) \ {v}) = Cardinality(D \ S) - 1
    BY Zenon, <1>0, <1>1, FS_RemoveElement
  <2>3. /\ Cardinality(D \ (S \cup {v})) = Cardinality(D \ S) - 1
        /\ Cardinality(D \ S) \in Nat
    BY Zenon, <1>0, <2>1, <2>2
  <2>4. QED
    BY <2>3
<1>3. Grounded(X, V, rank, Step)
  <2>1. rank \in [X -> Nat]
    BY Zenon, <1>0
  <2>2. ASSUME NEW S \in X, NEW f \in [X -> V] PROVE Step[S][f] \in V
    <3>1. CASE more(S)
      <4> HIDE DEF X, V, more, cands
      <4>1. \A v \in cands(S) : f[S \cup {v}] \in V
        BY Zenon, <1>1
      <4>2. UNION {f[S \cup {v}] : v \in cands(S)} \in V
        BY Zenon, <4>1 DEF V
      <4>3. QED
        BY Zenon, <3>1, <4>2
    <3>2. CASE ~more(S)
      BY Zenon, <3>2
    <3>3. QED
      BY Zenon, <3>1, <3>2
  <2>3. Step \in [X -> [[X -> V] -> V]]
    BY Zenon, <2>2
  <2>4. ASSUME NEW S \in X, NEW f \in [X -> V], NEW g \in [X -> V],
               \A U \in X : rank[U] < rank[S] => f[U] = g[U]
        PROVE  Step[S][f] = Step[S][g]
    <3>1. \A v \in cands(S) : f[S \cup {v}] = g[S \cup {v}]
      BY Zenon, <1>1, <1>2, <2>4
    <3>2. {f[S \cup {v}] : v \in cands(S)} = {g[S \cup {v}] : v \in cands(S)}
      BY Zenon, <3>1
    <3>3. QED
      BY Zenon, <3>2
  <2>5. QED
    BY Zenon, <2>1, <2>3, <2>4 DEF Grounded
<1>4. \E g : Is(g)
  <2>1. \A S \in X : rank[S] < Cardinality(D) + 1
    BY Zenon, <1>0
  <2>2. Cardinality(D) + 1 \in Nat /\ V # {}
    <3>1. Cardinality(D) \in Nat
      BY Zenon, FS_CardinalityType
    <3>2. Cardinality(D) + 1 \in Nat
      BY <3>1
    <3>3. QED
      BY Zenon, <3>2
  <2> HIDE DEF rank, Step, X, V
  <2>3. PICK g \in [X -> V] : \A S \in X : g[S] = Step[S][g]
    BY <1>3, <2>1, <2>2, Recursion
  <2> HIDE DEF at
  <2>4. \A S \in X : g[S] = at(g, S)
    BY Zenon, <2>3 DEF Step
  <2>5. QED
    BY Zenon, <2>3, <2>4
<1>5. Is(from)
  BY Zenon, <1>4
<1>6. enforceCapacity(s, total, k) = from[{}]
  BY Zenon DEF enforceCapacity, Continues
<1> HIDE DEF from
<1>7. \A S \in X : from[S] = at(from, S)
  BY Zenon, <1>5
<1> DEFINE Good(S, T) ==
             /\ T \in X /\ ~more(T) /\ S \subseteq T
             /\ \A x \in T \ S : \E U \in X : more(U) /\ x \in cands(U)
             /\ T # S => \E v \in T : more(T \ {v}) /\ v \in cands(T \ {v})
           P == {n \in Nat : \A S \in X : Cardinality(D \ S) < n => \A T \in from[S] : Good(S, T)}
<1>8. 0 \in P
  <2>1. \A S \in X : ~(Cardinality(D \ S) < 0)
    BY <1>0
  <2> HIDE DEF Good, X
  <2>2. QED
    BY Zenon, <2>1
<1>9. ASSUME NEW n \in Nat, n \in P PROVE n + 1 \in P
  <2>0. n + 1 \in Nat
    OBVIOUS
  <2>1. SUFFICES ASSUME NEW S \in X, Cardinality(D \ S) < n + 1, NEW T \in from[S]
                 PROVE  Good(S, T)
    BY Zenon, <2>0
  <2>2. CASE more(S)
    <3>1. PICK v \in cands(S) : T \in from[S \cup {v}]
      <4>1. from[S] = UNION {from[S \cup {v}] : v \in cands(S)}
        BY Zenon, <1>7, <2>2
      <4> HIDE DEF cands
      <4>2. QED
        BY Zenon, <4>1
    <3>2. Cardinality(D \ (S \cup {v})) < n
      <4>1. /\ Cardinality(D \ (S \cup {v})) < Cardinality(D \ S)
            /\ Cardinality(D \ S) \in Nat /\ Cardinality(D \ (S \cup {v})) \in Nat
        BY Zenon, <1>0, <1>1, <1>2
      <4>2. QED
        BY <2>1, <4>1
    <3>3. Good(S \cup {v}, T) /\ v \notin S
      <4>1. S \cup {v} \in X /\ v \notin S
        BY Zenon, <1>1
      <4> HIDE DEF Good, X
      <4>2. QED
        BY Zenon, <1>9, <3>1, <3>2, <4>1
    <3> HIDE DEF more, cands
    <3>4. \A x \in T \ S : \E U \in X : more(U) /\ x \in cands(U)
      <4>1. ASSUME NEW x \in T \ S, x = v PROVE more(S) /\ x \in cands(S)
        BY Zenon, <2>2, <3>1, <4>1
      <4>2. ASSUME NEW x \in T \ S, x # v PROVE x \in T \ (S \cup {v})
        BY Zenon, <4>2
      <4>3. \A x \in T \ (S \cup {v}) : \E U \in X : more(U) /\ x \in cands(U)
        BY Zenon, <3>3
      <4> HIDE DEF X
      <4>4. QED
        BY Zenon, <4>1, <4>2, <4>3
    <3>5. CASE T = S \cup {v}
      <4>1. T \ {v} = S
        BY Zenon, <3>3, <3>5
      <4>2. QED
        BY Zenon, <2>2, <3>3, <3>4, <3>5, <4>1
    <3>6. CASE T # S \cup {v}
      BY Zenon, <3>3, <3>4, <3>6
    <3>7. QED
      BY Zenon, <3>5, <3>6
  <2>3. CASE ~more(S)
    BY Zenon, <1>7, <2>3
  <2>4. QED
    BY Zenon, <2>2, <2>3
<1> HIDE DEF P
<1>10. \A n \in Nat : n \in P
  BY Zenon, <1>8, <1>9, Induction
<1>11. Good({}, E)
  <2>1. Cardinality(D \ {}) + 1 \in Nat /\ Cardinality(D \ {}) < Cardinality(D \ {}) + 1
    <3>1. {} \in X
      BY Zenon
    <3>2. Cardinality(D \ {}) \in Nat
      BY Zenon, <1>0, <3>1
    <3>3. QED
      BY <3>2
  <2>2. {} \in X /\ E \in from[{}]
    BY Zenon, <1>6
  <2> HIDE DEF Good, X
  <2>3. QED
    BY Zenon, <1>10, <2>1, <2>2 DEF P
<1>12. QED
  BY Zenon, <1>11

\* The loop stops only when the map fits or nothing is left: it never leaves
\* more entries than allowed behind a write that added one.
LEMMA LoopMakesRoom ==
  ASSUME NEW s, IsFiniteSet(DOMAIN s), Cardinality(DOMAIN s) <= MaxEntries + 1,
         NEW total, NEW k, NEW E \in enforceCapacity(s, total, k)
  PROVE  Cardinality(DOMAIN s \ E) <= MaxEntries
<1> DEFINE D == DOMAIN s \ E
<1>1. /\ E \in SUBSET DOMAIN s /\ ~Continues(s, total, k, E)
      /\ DOMAIN Without(s, E) = D
  BY Zenon, LoopEnds DEF Without
<1>2. /\ IsFiniteSet(E) /\ Cardinality(E) \in Nat
      /\ IsFiniteSet(D) /\ Cardinality(D) \in Nat
      /\ Cardinality(D) = Cardinality(DOMAIN s) - Cardinality(E)
      /\ Cardinality(DOMAIN s) \in Nat /\ MaxEntries \in Nat
  <2>1. DOMAIN s \cap E = E
    BY Zenon, <1>1
  <2>2. IsFiniteSet(E) /\ IsFiniteSet(D)
    BY Zenon, <1>1, FS_Subset, FS_Difference
  <2>3. Cardinality(D) = Cardinality(DOMAIN s) - Cardinality(DOMAIN s \cap E)
    BY Zenon, FS_Difference
  <2>4. QED
    BY Zenon, <2>1, <2>2, <2>3, FS_CardinalityType, StorageAssumption
<1>3. SUFFICES ASSUME Cardinality(D) > MaxEntries PROVE FALSE
  BY <1>2
<1> HIDE DEF D
<1>4. Loops(Without(s, E), total - Freed(s, E), Cardinality(E))
  BY <1>1, <1>2, <1>3 DEF Loops, OverCapacity
<1>5. Candidates(Without(s, E), k) = {}
  BY Zenon, <1>1, <1>4 DEF Continues
<1>6. D \subseteq {k} /\ (k \in D => Cardinality(D) # 1)
  BY Zenon, <1>1, <1>5 DEF Candidates
<1>7. D # {}
  BY <1>2, <1>3, FS_EmptySet
<1>8. D = {k} /\ Cardinality({k}) = 1
  BY <1>6, <1>7, FS_Singleton
<1>9. QED
  BY <1>6, <1>8

-----------------------------------------------------------------------------
(* The accounts and the cap *)

\* The accounts, the cap, and that the map is finite.
IInv == Accounting /\ EntryCap /\ IsFiniteSet(DOMAIN store)

LEMMA StoreHeld == IInv => Held(store)
<1>1. SUFFICES ASSUME IInv, NEW k \in DOMAIN store PROVE store[k].sizeBytes \in Nat
  BY Zenon DEF IInv, Held
<1>2. store[k].sizeBytes \in Sizes
  BY <1>1 DEF IInv, Accounting, TypeOK, Entry
<1>3. QED
  BY Zenon, <1>2, StorageAssumption

LEMMA InitInv == Init => IInv
<1>1. SUFFICES ASSUME Init PROVE IInv
  OBVIOUS
<1>2. DOMAIN store = {} /\ IsFiniteSet({}) /\ Cardinality({}) = 0
  BY <1>1, FS_EmptySet DEF Init
<1>3. SizeOf(store) = 0
  <2>1. Held(store)
    BY Zenon, <1>2 DEF Held
  <2>2. PICK f : Summing({}, Weights(store), f) /\ SizeOf(store) = f[{}]
    BY Zenon, <1>2, <2>1, SizeOfSums
  <2>3. QED
    BY Zenon, <2>2 DEF Summing
<1>4. TypeOK
  BY <1>1, <1>2, StorageAssumption DEF Init, TypeOK
<1>5. SizeAccounting
  BY <1>1, <1>3 DEF Init, SizeAccounting
<1>6. LedgerBalances /\ EntryCap
  BY <1>1, <1>2, StorageAssumption DEF Init, LedgerBalances, EntryCap
<1>7. QED
  BY Zenon, <1>2, <1>4, <1>5, <1>6 DEF IInv, Accounting

\* removeInternal keeps the accounts.
LEMMA RemoveStep ==
  ASSUME IInv, NEW S \in SUBSET DOMAIN store, NEW reason \in {"expirations", "deletes"},
         removeInternal(S, reason)
  PROVE  IInv'
<1>1. /\ DOMAIN store' = DOMAIN store \ S
      /\ \A k \in DOMAIN store' : store'[k] = store[k]
      /\ store' = Without(store, S)
  BY Zenon DEF removeInternal, Without
<1>2. /\ IsFiniteSet(DOMAIN store') /\ Cardinality(DOMAIN store') \in Nat
      /\ Cardinality(S) \in Nat
      /\ Cardinality(DOMAIN store') = Cardinality(DOMAIN store) - Cardinality(S)
  <2>1. DOMAIN store \cap S = S /\ IsFiniteSet(DOMAIN store)
    BY Zenon DEF IInv
  <2>2. IsFiniteSet(S) /\ IsFiniteSet(DOMAIN store \ S)
    BY Zenon, <2>1, FS_Subset, FS_Difference
  <2>3. Cardinality(DOMAIN store \ S) = Cardinality(DOMAIN store) - Cardinality(DOMAIN store \cap S)
    BY Zenon, <2>1, FS_Difference
  <2>4. QED
    BY Zenon, <1>1, <2>1, <2>2, <2>3, FS_CardinalityType
<1>3. /\ SizeOf(store) = SizeOf(Without(store, S)) + Freed(store, S)
      /\ SizeOf(Without(store, S)) \in Nat /\ Freed(store, S) \in Nat
  BY Zenon, StoreHeld, SizeParts
<1>4. totalSizeBytes' = SizeOf(store') /\ totalSizeBytes' \in Nat
  BY <1>1, <1>3 DEF IInv, Accounting, SizeAccounting, removeInternal
<1>5. TypeOK'
  <2>1. DOMAIN store' \subseteq Keys /\ \A k \in DOMAIN store' : store'[k] \in Entry
    BY <1>1 DEF IInv, Accounting, TypeOK
  <2>2. now' \in 0 .. MaxNow
    BY DEF IInv, Accounting, TypeOK, removeInternal
  <2>3. ledger' \in [{"created", "expirations", "evictions", "deletes", "cleared"} -> Nat]
    BY <1>2 DEF IInv, Accounting, TypeOK, removeInternal
  <2>4. QED
    BY Zenon, <1>4, <2>1, <2>2, <2>3 DEF TypeOK, Entry
<1>6. /\ ledger'.created = ledger.created
      /\ ledger'.expirations + ledger'.deletes
           = ledger.expirations + ledger.deletes + Cardinality(S)
      /\ ledger'.evictions = ledger.evictions
      /\ ledger'.cleared = ledger.cleared
      /\ \A f \in {"created", "expirations", "evictions", "deletes", "cleared"} :
           ledger[f] \in Nat /\ ledger'[f] \in Nat
  BY <1>2, <1>5 DEF IInv, Accounting, TypeOK, removeInternal
<1>7. LedgerBalances'
  <2>1. Cardinality(DOMAIN store) \in Nat
    BY Zenon, FS_CardinalityType DEF IInv
  <2>2. /\ ledger.created \in Nat /\ ledger.expirations \in Nat /\ ledger.evictions \in Nat
        /\ ledger.deletes \in Nat /\ ledger.cleared \in Nat
        /\ ledger'.expirations \in Nat /\ ledger'.deletes \in Nat
    BY Zenon, <1>6
  <2>3. ledger.created = Cardinality(DOMAIN store) + ledger.expirations
                         + ledger.evictions + ledger.deletes + ledger.cleared
    BY Zenon DEF IInv, Accounting, LedgerBalances
  <2>4. ledger'.created = Cardinality(DOMAIN store') + ledger'.expirations
                          + ledger'.evictions + ledger'.deletes + ledger'.cleared
    BY <1>2, <1>6, <2>1, <2>2, <2>3
  <2>5. QED
    BY Zenon, <2>4 DEF LedgerBalances
<1>8. EntryCap'
  <2>1. Cardinality(DOMAIN store) \in Nat /\ Cardinality(DOMAIN store) <= MaxEntries
        /\ MaxEntries \in Nat
    BY Zenon, FS_CardinalityType, StorageAssumption DEF IInv, EntryCap
  <2>2. Cardinality(DOMAIN store') <= MaxEntries
    BY <1>2, <2>1
  <2>3. QED
    BY Zenon, <2>2 DEF EntryCap
<1>9. SizeAccounting'
  BY Zenon, <1>4 DEF SizeAccounting
<1>10. QED
  BY Zenon, <1>2, <1>5, <1>7, <1>8, <1>9 DEF IInv, Accounting

\* The map with the entry a set writes, before the capacity loop runs.
WithWrite(k, size, ttl) ==
  [x \in DOMAIN store \cup {k} |-> IF x = k THEN Written(k, size, ttl) ELSE store[x]]

\* The entry a set writes is well formed.
LEMMA WriteTyped ==
  ASSUME IInv, NEW k \in Keys, NEW size \in Sizes, NEW ttl \in Ttls \cup {Never},
         WithinBounds(k)
  PROVE  Written(k, size, ttl) \in Entry
<1>1. (IF ttl = Never THEN Never ELSE now + ttl) \in Deadlines
  <2>1. now \in 0 .. MaxNow
    BY Zenon DEF IInv, Accounting, TypeOK
  <2>2. ttl # Never => now + ttl \in {now + t : t \in Ttls}
    BY Zenon
  <2>3. {now + t : t \in Ttls} \in {{n + t : t \in Ttls} : n \in 0 .. MaxNow}
    BY Zenon, <2>1
  <2>4. ttl # Never => now + ttl \in UNION {{n + t : t \in Ttls} : n \in 0 .. MaxNow}
    BY Zenon, <2>2, <2>3
  <2>5. CASE ttl = Never
    <3>1. Never \in Deadlines
      BY Zenon DEF Deadlines
    <3>2. QED
      BY Zenon, <2>5, <3>1
  <2>6. CASE ttl # Never
    <3>1. now + ttl \in Deadlines
      BY Zenon, <2>4, <2>6 DEF Deadlines
    <3>2. QED
      BY Zenon, <2>6, <3>1
  <2>7. QED
    BY Zenon, <2>5, <2>6
<1>2. (IF k \in DOMAIN store THEN store[k].version + 1 ELSE 1) \in 1 .. MaxVersion
  BY StorageAssumption DEF IInv, Accounting, TypeOK, Entry, WithinBounds
<1>3. QED
  BY <1>1, <1>2 DEF Written, Entry

\* What the write alone does: the map grows by at most one entry, and
\* totalSizeBytes, taken down by the replaced entry and up by the new one, is the
\* size of it.
Extends(s, k, size, ttl) ==
  /\ Held(s)
  /\ DOMAIN s = DOMAIN store \cup {k}
  /\ DOMAIN s \subseteq Keys
  /\ s[k] = Written(k, size, ttl) /\ s[k].sizeBytes = size
  /\ \A x \in DOMAIN store : x # k => s[x] = store[x]
  /\ Cardinality(DOMAIN s) = Cardinality(DOMAIN store)
                              + (IF k \in DOMAIN store THEN 0 ELSE 1)
  /\ totalSizeBytes - Replaced(k) + size = SizeOf(s)

LEMMA WriteAlone ==
  ASSUME IInv, NEW k \in Keys, NEW size \in Sizes, NEW ttl \in Ttls \cup {Never}
  PROVE  Extends(WithWrite(k, size, ttl), k, size, ttl)
<1> DEFINE s == WithWrite(k, size, ttl)
<1>1. /\ DOMAIN s = DOMAIN store \cup {k}
      /\ \A x \in DOMAIN store : x # k => s[x] = store[x]
      /\ s[k] = Written(k, size, ttl)
  BY DEF WithWrite
<1>2. Written(k, size, ttl).sizeBytes = size /\ size \in Nat
  BY StorageAssumption DEF Written
<1>3. /\ IsFiniteSet(DOMAIN s)
      /\ Cardinality(DOMAIN s) = Cardinality(DOMAIN store)
                                  + (IF k \in DOMAIN store THEN 0 ELSE 1)
  <2>1. IsFiniteSet(DOMAIN store) /\ Cardinality(DOMAIN store) \in Nat
    BY Zenon, FS_CardinalityType DEF IInv
  <2>2. CASE k \in DOMAIN store
    <3>1. DOMAIN s = DOMAIN store
      BY Zenon, <1>1, <2>2
    <3>2. QED
      BY <2>1, <2>2, <3>1
  <2>3. CASE k \notin DOMAIN store
    <3>1. IsFiniteSet(DOMAIN s) /\ Cardinality(DOMAIN s) = Cardinality(DOMAIN store) + 1
      <4>1. /\ IsFiniteSet(DOMAIN store \cup {k})
            /\ Cardinality(DOMAIN store \cup {k}) = Cardinality(DOMAIN store) + 1
        BY <2>1, <2>3, FS_AddElement
      <4>2. QED
        BY Zenon, <1>1, <4>1
    <3>2. QED
      BY <2>3, <3>1
  <2>4. QED
    BY Zenon, <2>2, <2>3
<1>4. Held(s)
  <2>1. \A x \in DOMAIN s : s[x].sizeBytes \in Nat
    <3>1. \A x \in DOMAIN store : store[x].sizeBytes \in Nat
      BY Zenon, StoreHeld DEF Held
    <3>2. QED
      BY Zenon, <1>1, <1>2, <3>1
  <2>2. QED
    BY Zenon, <1>3, <2>1 DEF Held
<1> HIDE DEF s
<1>5. SizeOf(s) = SizeOf(store) - Replaced(k) + size
  <2>1. SizeOf(s) = SizeOf(store)
                    - (IF k \in DOMAIN store THEN store[k].sizeBytes ELSE 0)
                    + s[k].sizeBytes
    BY <1>1, <1>4, StoreHeld, SizeWrite
  <2>2. QED
    BY <1>1, <1>2, <2>1 DEF Replaced
<1>6. QED
  <2>1. DOMAIN s \subseteq Keys
    BY Zenon, <1>1 DEF IInv, Accounting, TypeOK
  <2>2. totalSizeBytes = SizeOf(store)
    BY Zenon DEF IInv, Accounting, SizeAccounting
  <2>3. s[k].sizeBytes = size
    BY Zenon, <1>1, <1>2
  <2>4. totalSizeBytes - Replaced(k) + size = SizeOf(s)
    BY Zenon, <1>5, <2>2
  <2>5. QED
    BY Zenon, <1>1, <1>3, <1>4, <2>1, <2>3, <2>4 DEF s, Extends

\* A set, its write and its capacity loop, keeps the accounts and the cap.
LEMMA SetStep ==
  ASSUME IInv, NEW k \in Keys, NEW size \in Sizes, NEW ttl \in Ttls \cup {Never},
         WithinBounds(k), set(k, size, ttl)
  PROVE  IInv'
<1> DEFINE s == WithWrite(k, size, ttl)
           total == totalSizeBytes - Replaced(k) + size
           fresh == IF k \in DOMAIN store THEN 0 ELSE 1
<1>1. PICK E \in enforceCapacity(s, total, k) :
        /\ store' = Without(s, E)
        /\ totalSizeBytes' = total - Freed(s, E)
        /\ ledger' = [ledger EXCEPT !.created = @ + fresh, !.evictions = @ + Cardinality(E)]
        /\ now' = now
  BY Zenon DEF set, WithWrite
<1>2. Extends(s, k, size, ttl)
  BY Zenon, WriteAlone
<1> HIDE DEF s
<1>3. /\ Held(s) /\ IsFiniteSet(DOMAIN s) /\ DOMAIN s \subseteq Keys
      /\ \A x \in DOMAIN s : s[x] \in Entry
      /\ Cardinality(DOMAIN s) = Cardinality(DOMAIN store) + fresh
      /\ total = SizeOf(s)
  <2>1. Written(k, size, ttl) \in Entry
    BY Zenon, WriteTyped
  <2>2. \A x \in DOMAIN store : store[x] \in Entry
    BY Zenon DEF IInv, Accounting, TypeOK
  <2>3. \A x \in DOMAIN s : s[x] \in Entry
    BY Zenon, <1>2, <2>1, <2>2 DEF Extends
  <2>4. QED
    BY Zenon, <1>2, <2>3 DEF Extends, Held
<1> HIDE DEF total
<1>4. E \in SUBSET DOMAIN s
  BY Zenon, <1>1, <1>3, LoopEnds
<1>5. /\ DOMAIN store' = DOMAIN s \ E
      /\ \A x \in DOMAIN store' : store'[x] = s[x]
  BY Zenon, <1>1 DEF Without
<1>6. /\ fresh \in {0, 1} /\ Cardinality(DOMAIN store) \in Nat
      /\ Cardinality(DOMAIN store) <= MaxEntries /\ MaxEntries \in Nat
  BY Zenon, FS_CardinalityType, StorageAssumption DEF IInv, EntryCap
<1>7. /\ IsFiniteSet(DOMAIN store') /\ Cardinality(DOMAIN store') \in Nat
      /\ Cardinality(E) \in Nat
      /\ Cardinality(DOMAIN store') = Cardinality(DOMAIN s) - Cardinality(E)
  <2>1. DOMAIN s \cap E = E
    BY Zenon, <1>4
  <2>2. IsFiniteSet(E) /\ IsFiniteSet(DOMAIN s \ E)
    BY Zenon, <1>3, <1>4, FS_Subset, FS_Difference
  <2>3. Cardinality(DOMAIN s \ E) = Cardinality(DOMAIN s) - Cardinality(DOMAIN s \cap E)
    BY Zenon, <1>3, FS_Difference
  <2>4. QED
    BY Zenon, <1>5, <2>1, <2>2, <2>3, FS_CardinalityType
<1>8. totalSizeBytes' = SizeOf(store') /\ totalSizeBytes' \in Nat
  <2>1. /\ SizeOf(s) = SizeOf(Without(s, E)) + Freed(s, E)
        /\ SizeOf(Without(s, E)) \in Nat /\ Freed(s, E) \in Nat
    BY Zenon, <1>3, <1>4, SizeParts
  <2>2. SizeOf(store') = SizeOf(Without(s, E)) /\ totalSizeBytes' = SizeOf(s) - Freed(s, E)
    BY Zenon, <1>1, <1>3
  <2>3. QED
    BY <2>1, <2>2
<1>9. EntryCap'
  <2>1. Cardinality(DOMAIN s) <= MaxEntries + 1
    BY <1>3, <1>6
  <2>2. Cardinality(DOMAIN s \ E) <= MaxEntries
    BY Zenon, <1>1, <1>3, <2>1, LoopMakesRoom
  <2>3. QED
    BY Zenon, <1>5, <2>2 DEF EntryCap
<1> HIDE DEF fresh
<1>10. /\ ledger' \in [{"created", "expirations", "evictions", "deletes", "cleared"} -> Nat]
      /\ ledger'.created = ledger.created + fresh
      /\ ledger'.evictions = ledger.evictions + Cardinality(E)
      /\ ledger'.expirations = ledger.expirations
      /\ ledger'.deletes = ledger.deletes
      /\ ledger'.cleared = ledger.cleared
  <2>1. ledger \in [{"created", "expirations", "evictions", "deletes", "cleared"} -> Nat]
    BY Zenon DEF IInv, Accounting, TypeOK
  <2>2. ledger' = [ledger EXCEPT !.created = @ + fresh, !.evictions = @ + Cardinality(E)]
    BY Zenon, <1>1
  <2>3. fresh \in Nat /\ Cardinality(E) \in Nat
    BY <1>6, <1>7
  <2>4. /\ ledger'.created = ledger.created + fresh
        /\ ledger'.evictions = ledger.evictions + Cardinality(E)
    BY <2>1, <2>2
  <2>5. /\ ledger'.expirations = ledger.expirations
        /\ ledger'.deletes = ledger.deletes
        /\ ledger'.cleared = ledger.cleared
    BY SMTT(30), <2>1, <2>2
  <2>6. ledger.created + fresh \in Nat /\ ledger.evictions + Cardinality(E) \in Nat
    BY <2>1, <2>3
  <2>7. ledger' \in [{"created", "expirations", "evictions", "deletes", "cleared"} -> Nat]
    BY Zenon, <2>1, <2>2, <2>6
  <2>8. QED
    BY Zenon, <2>4, <2>5, <2>7
<1>11. LedgerBalances'
  <2>1. /\ ledger.created \in Nat /\ ledger.expirations \in Nat /\ ledger.evictions \in Nat
        /\ ledger.deletes \in Nat /\ ledger.cleared \in Nat
    BY DEF IInv, Accounting, TypeOK
  <2>2. ledger.created = Cardinality(DOMAIN store) + ledger.expirations
                         + ledger.evictions + ledger.deletes + ledger.cleared
    BY Zenon DEF IInv, Accounting, LedgerBalances
  <2>3. ledger'.created = Cardinality(DOMAIN store') + ledger'.expirations
                          + ledger'.evictions + ledger'.deletes + ledger'.cleared
    <3>1. /\ Cardinality(DOMAIN store') = Cardinality(DOMAIN store) + fresh - Cardinality(E)
          /\ fresh \in Nat /\ Cardinality(DOMAIN store) \in Nat /\ Cardinality(E) \in Nat
      BY <1>3, <1>6, <1>7
    <3>2. /\ ledger'.created = ledger.created + fresh
          /\ ledger'.evictions = ledger.evictions + Cardinality(E)
          /\ ledger'.expirations = ledger.expirations
          /\ ledger'.deletes = ledger.deletes
          /\ ledger'.cleared = ledger.cleared
      BY Zenon, <1>10
    <3>3. QED
      BY SMTT(30), <2>1, <2>2, <3>1, <3>2
  <2>4. QED
    BY Zenon, <2>3 DEF LedgerBalances
<1>12. TypeOK'
  <2>1. DOMAIN store' \subseteq Keys /\ \A x \in DOMAIN store' : store'[x] \in Entry'
    BY Zenon, <1>3, <1>5 DEF Entry, Deadlines
  <2>2. now' \in 0 .. MaxNow
    BY Zenon, <1>1 DEF IInv, Accounting, TypeOK
  <2>3. QED
    BY Zenon, <1>8, <1>10, <2>1, <2>2 DEF TypeOK
<1>13. QED
  BY Zenon, <1>7, <1>8, <1>9, <1>11, <1>12 DEF IInv, Accounting, SizeAccounting

\* clear empties the map and both accounts follow.
LEMMA ClearStep ==
  ASSUME IInv, clear
  PROVE  IInv'
<1>1. DOMAIN store' = {} /\ IsFiniteSet({}) /\ Cardinality({}) = 0
  BY FS_EmptySet DEF clear
<1>2. SizeOf(store') = 0
  <2>1. Held(store')
    BY Zenon, <1>1 DEF Held
  <2>2. PICK f : Summing({}, Weights(store'), f) /\ SizeOf(store') = f[{}]
    BY Zenon, <1>1, <2>1, SizeOfSums
  <2>3. QED
    BY Zenon, <2>2 DEF Summing
<1>3. Cardinality(DOMAIN store) \in Nat
  BY Zenon, FS_CardinalityType DEF IInv
<1>4. ledger \in [{"created", "expirations", "evictions", "deletes", "cleared"} -> Nat]
  BY Zenon DEF IInv, Accounting, TypeOK
<1>5. ledger' = [ledger EXCEPT !.cleared = @ + Cardinality(DOMAIN store)]
  BY Zenon DEF clear
<1>6. ledger' \in [{"created", "expirations", "evictions", "deletes", "cleared"} -> Nat]
  BY <1>3, <1>4, <1>5
<1>7. LedgerBalances'
  <2>1. /\ ledger'.cleared = ledger.cleared + Cardinality(DOMAIN store)
        /\ ledger'.created = ledger.created
        /\ ledger'.evictions = ledger.evictions
        /\ ledger'.expirations = ledger.expirations
        /\ ledger'.deletes = ledger.deletes
    BY <1>4, <1>5
  <2>2. /\ ledger.created \in Nat /\ ledger.expirations \in Nat /\ ledger.evictions \in Nat
        /\ ledger.deletes \in Nat /\ ledger.cleared \in Nat
    BY <1>4
  <2>3. ledger.created = Cardinality(DOMAIN store) + ledger.expirations
                         + ledger.evictions + ledger.deletes + ledger.cleared
    BY Zenon DEF IInv, Accounting, LedgerBalances
  <2>4. ledger'.created = Cardinality(DOMAIN store') + ledger'.expirations
                          + ledger'.evictions + ledger'.deletes + ledger'.cleared
    BY SMTT(30), <1>1, <1>3, <2>1, <2>2, <2>3
  <2>5. QED
    BY Zenon, <2>4 DEF LedgerBalances
<1>8. TypeOK'
  <2>1. totalSizeBytes' = 0 /\ now' = now
    BY Zenon DEF clear
  <2>2. QED
    BY <1>1, <1>6, <2>1 DEF TypeOK, IInv, Accounting
<1>9. SizeAccounting' /\ EntryCap'
  BY <1>1, <1>2, StorageAssumption DEF SizeAccounting, EntryCap, clear
<1>10. QED
  BY Zenon, <1>1, <1>7, <1>8, <1>9 DEF IInv, Accounting

\* Every step keeps the accounts and the cap.
LEMMA NextInv == IInv /\ [Next]_vars => IInv'
<1> SUFFICES ASSUME IInv, [Next]_vars PROVE IInv'
  OBVIOUS
<1>1. ASSUME NEW k \in Keys, NEW size \in Sizes, NEW ttl \in Ttls \cup {Never},
             WithinBounds(k), set(k, size, ttl)
      PROVE  IInv'
  BY Zenon, <1>1, SetStep
<1>2. ASSUME NEW k \in Keys, get(k) PROVE IInv'
  <2>1. {k} \in SUBSET DOMAIN store /\ removeInternal({k}, "expirations")
    BY Zenon, <1>2 DEF get
  <2>2. QED
    BY Zenon, <2>1, RemoveStep
<1>3. ASSUME NEW k \in Keys, delete(k) PROVE IInv'
  <2>1. {k} \in SUBSET DOMAIN store /\ removeInternal({k}, "deletes")
    BY Zenon, <1>3 DEF delete
  <2>2. QED
    BY Zenon, <2>1, RemoveStep
<1>4. CASE sweepExpired
  <2> DEFINE S == {k \in DOMAIN store : isExpired(k)}
  <2>1. S \in SUBSET DOMAIN store /\ removeInternal(S, "expirations")
    BY Zenon, <1>4 DEF sweepExpired
  <2> HIDE DEF S
  <2>2. QED
    BY Zenon, <2>1, RemoveStep
<1>5. CASE clear
  BY Zenon, <1>5, ClearStep
<1>6. CASE Tick
  <2>1. /\ store' = store /\ totalSizeBytes' = totalSizeBytes /\ ledger' = ledger
        /\ now' \in 0 .. MaxNow
    BY <1>6, StorageAssumption DEF Tick, IInv, Accounting, TypeOK
  <2>2. QED
    BY Zenon, <2>1 DEF IInv, Accounting, TypeOK, SizeAccounting, LedgerBalances, EntryCap
<1>7. CASE UNCHANGED vars
  <2>1. store' = store /\ totalSizeBytes' = totalSizeBytes /\ ledger' = ledger /\ now' = now
    BY Zenon, <1>7 DEF vars
  <2>2. QED
    BY Zenon, <2>1 DEF IInv, Accounting, TypeOK, SizeAccounting, LedgerBalances, EntryCap
<1>8. QED
  BY Zenon, <1>1, <1>2, <1>3, <1>4, <1>5, <1>6, <1>7 DEF Next

LEMMA InvHolds == Spec => []IInv
<1> QED
  BY InitInv, NextInv, PTL DEF Spec

\* The engine's accounts are exact in every reachable state, for any keys, sizes,
\* TTLs and limits and however the EvictionHook picks its victims: totalSizeBytes
\* is the sum of the sizes held, and created entries are held or counted once.
THEOREM AccountsAreExact == Spec => []Accounting
<1>1. IInv => Accounting
  BY Zenon DEF IInv
<1>2. QED
  BY <1>1, InvHolds, PTL

\* After every operation the map holds at most maxEntries entries: the loop of
\* enforceCapacity, guard included, always gets back under the cap.
THEOREM EntryCapIsKept == Spec => []EntryCap
<1>1. IInv => EntryCap
  BY Zenon DEF IInv
<1>2. QED
  BY <1>1, InvHolds, PTL

\* What a set whose value fits does: it keeps its own key, and when it evicts
\* something then the last victim would not fit beside what is left.
LEMMA SetJustified ==
  ASSUME IInv, NEW k \in Keys, NEW size \in Sizes, NEW ttl \in Ttls \cup {Never},
         size <= MaxSizeBytes, MaxEntries >= 1, set(k, size, ttl)
  PROVE  /\ k \in DOMAIN store' /\ store'[k].sizeBytes = size
         /\ ledger'.evictions > ledger.evictions
              => \E v \in DOMAIN store \ DOMAIN store' :
                   \/ Cardinality(DOMAIN store') + 1 > MaxEntries
                   \/ totalSizeBytes' + store[v].sizeBytes > MaxSizeBytes
<1> DEFINE s == WithWrite(k, size, ttl)
           total == totalSizeBytes - Replaced(k) + size
<1>1. PICK E \in enforceCapacity(s, total, k) :
        /\ store' = Without(s, E)
        /\ totalSizeBytes' = total - Freed(s, E)
        /\ ledger' = [ledger EXCEPT
                        !.created = @ + (IF k \in DOMAIN store THEN 0 ELSE 1),
                        !.evictions = @ + Cardinality(E)]
  BY Zenon DEF set, WithWrite
<1>2. Extends(s, k, size, ttl)
  BY Zenon, WriteAlone
<1> HIDE DEF s
<1>3. /\ Held(s) /\ IsFiniteSet(DOMAIN s) /\ DOMAIN s = DOMAIN store \cup {k}
      /\ s[k].sizeBytes = size /\ total = SizeOf(s)
      /\ \A x \in DOMAIN store : x # k => s[x] = store[x]
  BY Zenon, <1>2 DEF Extends, Held
<1> HIDE DEF total
<1>4. MaxEntries \in Nat /\ MaxSizeBytes \in Nat /\ size \in Nat
  BY Zenon, StorageAssumption
<1>5. /\ E \in SUBSET DOMAIN s
      /\ \A x \in E : \E U \in SUBSET DOMAIN s :
           Continues(s, total, k, U) /\ x \in Candidates(Without(s, U), k)
      /\ E # {} => \E v \in E : /\ Continues(s, total, k, E \ {v})
                               /\ v \in Candidates(Without(s, E \ {v}), k)
  BY Zenon, <1>1, <1>3, LoopEnds
\* In front of the loop the running total is the size of what is held.
<1>6. ASSUME NEW U \in SUBSET DOMAIN s
      PROVE  /\ Held(Without(s, U)) /\ DOMAIN Without(s, U) = DOMAIN s \ U
             /\ SizeOf(Without(s, U)) \in Nat
             /\ total - Freed(s, U) = SizeOf(Without(s, U))
  <2>1. /\ Held(Without(s, U)) /\ DOMAIN Without(s, U) = DOMAIN s \ U
        /\ SizeOf(Without(s, U)) \in Nat /\ Freed(s, U) \in Nat
        /\ total = SizeOf(Without(s, U)) + Freed(s, U)
    BY Zenon, <1>3, SizeParts
  <2>2. QED
    BY <2>1
<1>7. k \notin E
  <2>1. SUFFICES ASSUME NEW U \in SUBSET DOMAIN s, Continues(s, total, k, U),
                        k \in Candidates(Without(s, U), k)
                 PROVE  FALSE
    BY Zenon, <1>5
  <2>2. k \in DOMAIN s \ U /\ Cardinality(DOMAIN s \ U) = 1
    BY Zenon, <1>6, <2>1 DEF Candidates
  <2>3. DOMAIN Without(s, U) = {k}
    <3>1. PICK x : DOMAIN s \ U = {x}
      <4>1. IsFiniteSet(DOMAIN s \ U)
        BY Zenon, <1>3, FS_Difference
      <4>2. QED
        BY Zenon, <2>2, <4>1, FS_Singleton
    <3>2. QED
      BY Zenon, <1>6, <2>2, <3>1
  <2>4. Without(s, U)[k] = s[k]
    BY Zenon, <2>2 DEF Without
  <2>5. SizeOf(Without(s, U)) = size
    <3>1. Held(Without(s, U))
      BY Zenon, <1>6
    <3>2. SizeOf(Without(s, U)) = Without(s, U)[k].sizeBytes
      BY Zenon, <2>3, <3>1, SizeOne
    <3>3. QED
      BY Zenon, <1>3, <2>4, <3>2
  <2>6. OverCapacity(Without(s, U), size)
    BY Zenon, <1>6, <2>1, <2>5 DEF Continues, Loops
  <2>7. Cardinality(DOMAIN Without(s, U)) = 1
    BY Zenon, <1>6, <2>2
  <2>8. QED
    BY <1>4, <2>6, <2>7 DEF OverCapacity
<1>8. k \in DOMAIN store' /\ store'[k] = s[k]
  BY Zenon, <1>1, <1>3, <1>7 DEF Without
<1>9. ASSUME ledger'.evictions > ledger.evictions
      PROVE  \E v \in DOMAIN store \ DOMAIN store' :
               \/ Cardinality(DOMAIN store') + 1 > MaxEntries
               \/ totalSizeBytes' + store[v].sizeBytes > MaxSizeBytes
  <2>1. E # {}
    <3>1. SUFFICES ASSUME E = {} PROVE FALSE
      OBVIOUS
    <3>2. ledger \in [{"created", "expirations", "evictions", "deletes", "cleared"} -> Nat]
      BY Zenon DEF IInv, Accounting, TypeOK
    <3>3. ledger'.evictions = ledger.evictions + Cardinality(E)
      BY <1>1, <3>2
    <3>4. Cardinality(E) = 0 /\ ledger.evictions \in Nat
      BY <3>1, <3>2, FS_EmptySet
    <3>5. QED
      BY <1>9, <3>3, <3>4
  <2>2. PICK v \in E : Continues(s, total, k, E \ {v})
    BY Zenon, <1>5, <2>1
  <2>3. /\ E \ {v} \in SUBSET DOMAIN s /\ v \in DOMAIN store /\ v # k
        /\ v \notin DOMAIN store' /\ DOMAIN store' = DOMAIN s \ E
    BY Zenon, <1>1, <1>3, <1>5, <1>7 DEF Without
  <2> DEFINE h == Without(s, E \ {v})
  <2>4. /\ Held(h) /\ DOMAIN h = DOMAIN s \ (E \ {v}) /\ v \in DOMAIN h
        /\ h[v] = store[v] /\ OverCapacity(h, SizeOf(h))
    <3>1. Held(h) /\ DOMAIN h = DOMAIN s \ (E \ {v})
      BY Zenon, <1>6, <2>3
    <3>2. v \in DOMAIN h
      BY Zenon, <1>5, <3>1
    <3>3. h[v] = s[v]
      BY Zenon, <3>1, <3>2 DEF Without
    <3>4. OverCapacity(h, SizeOf(h))
      BY Zenon, <1>6, <2>2, <2>3 DEF Continues, Loops
    <3>5. QED
      BY Zenon, <1>3, <2>3, <3>1, <3>2, <3>3, <3>4
  <2>5. Without(h, {v}) = store'
    <3>1. DOMAIN h \ {v} = DOMAIN s \ E
      BY Zenon, <2>4
    <3>2. \A x \in DOMAIN s \ E : h[x] = s[x]
      BY Zenon DEF Without
    <3>3. QED
      BY Zenon, <1>1, <3>1, <3>2 DEF Without
  <2> HIDE DEF h
  <2>6. SizeOf(h) = totalSizeBytes' + store[v].sizeBytes
    <3>1. SizeOf(h) = SizeOf(store') + Freed(h, {v})
      BY ZenonT(30), <2>4, <2>5, SizeParts
    <3>2. Freed(h, {v}) = store[v].sizeBytes
      <4> DEFINE one == [x \in {v} |-> h[x]]
      <4>1. DOMAIN one = {v} /\ one[v] = store[v]
        BY Zenon, <2>4
      <4>2. Held(one)
        <5>1. \A x \in DOMAIN one : one[x].sizeBytes \in Nat
          BY Zenon, <2>4, <4>1 DEF Held
        <5>2. IsFiniteSet(DOMAIN one)
          BY Zenon, <4>1, FS_Singleton
        <5> HIDE DEF one
        <5>3. QED
          BY Zenon, <5>1, <5>2 DEF Held
      <4>3. Freed(h, {v}) = SizeOf(one)
        BY Zenon DEF Freed
      <4> HIDE DEF one
      <4>4. QED
        BY Zenon, <4>1, <4>2, <4>3, SizeOne
    <3>3. SizeOf(store') = totalSizeBytes'
      BY Zenon, <1>1, <1>5, <1>6
    <3>4. QED
      BY Zenon, <3>1, <3>2, <3>3
  <2>7. Cardinality(DOMAIN h) = Cardinality(DOMAIN store') + 1
    <3>1. DOMAIN h = DOMAIN store' \cup {v}
      <4>1. DOMAIN h = DOMAIN s \ (E \ {v}) /\ v \in DOMAIN h
        BY Zenon, <2>4
      <4>2. QED
        BY Zenon, <2>3, <4>1
    <3>2. IsFiniteSet(DOMAIN store')
      <4>1. IsFiniteSet(DOMAIN s \ E)
        BY Zenon, <1>3, FS_Difference
      <4>2. DOMAIN store' = DOMAIN s \ E
        BY Zenon, <2>3
      <4>3. QED
        BY Zenon, <4>1, <4>2
    <3>3. QED
      BY Zenon, <2>3, <3>1, <3>2, FS_AddElement
  <2>8. \/ Cardinality(DOMAIN store') + 1 > MaxEntries
        \/ totalSizeBytes' + store[v].sizeBytes > MaxSizeBytes
    BY Zenon, <2>4, <2>6, <2>7 DEF OverCapacity
  <2>9. QED
    BY Zenon, <2>3, <2>8
<1>10. QED
  BY Zenon, <1>3, <1>8, <1>9

\* A set whose value fits never evicts the key it just wrote, and it evicts only
\* when one of its victims would not fit beside what is left, for any limits and
\* any EvictionHook.
THEOREM EvictionIsJustified == Spec => EvictionJustified
<1> DEFINE Survives ==
             \A k \in Keys, size \in Sizes, ttl \in Ttls \cup {Never} :
               size <= MaxSizeBytes /\ MaxEntries >= 1 /\ set(k, size, ttl)
                 => k \in DOMAIN store' /\ store'[k].sizeBytes = size
           Pressed ==
             \A k \in Keys, size \in Sizes, ttl \in Ttls \cup {Never} :
               /\ size <= MaxSizeBytes /\ MaxEntries >= 1
               /\ ledger'.evictions > ledger.evictions
               /\ set(k, size, ttl)
               => \E v \in DOMAIN store \ DOMAIN store' :
                    \/ Cardinality(DOMAIN store') + 1 > MaxEntries
                    \/ totalSizeBytes' + store[v].sizeBytes > MaxSizeBytes
<1>1. IInv => Survives
  BY Zenon, SetJustified
<1>2. IInv => Pressed
  BY Zenon, SetJustified
<1>3. IInv /\ [Next]_vars => [Survives]_vars /\ [Pressed]_vars
  BY Zenon, <1>1, <1>2
<1>4. Spec => WriteSurvives
  BY <1>3, InvHolds, PTL DEF Spec, WriteSurvives
<1>5. Spec => EvictsOnlyUnderPressure
  BY <1>3, InvHolds, PTL DEF Spec, EvictsOnlyUnderPressure
<1>6. QED
  BY <1>4, <1>5, PTL DEF EvictionJustified
=============================================================================
