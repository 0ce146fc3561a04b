--------------------------- MODULE CountMinSketch ---------------------------
(***************************************************************************)
(* CountMinSketch (packages/eviction): depth rows of saturating counters,  *)
(* halved together every agingThreshold additions.  The hash is a          *)
(* constant, so that collisions are chosen by the instance.  The field     *)
(* truth is not in the code: the count each key would have in a table of   *)
(* its own under the same saturation and aging.                            *)
(***************************************************************************)
EXTENDS EvictionPolicy

CONSTANTS
  Rows,            \* the row indexes
  Columns,         \* the column indexes of a row
  hash,            \* hash[row][key], the column of key
  MaxCounter,      \* MAX_COUNTER
  agingThreshold

resetSketch == [table |-> [r \in Rows |-> [c \in Columns |-> 0]],
                additionsSinceAging |-> 0,
                truth |-> [k \in Keys |-> 0]]

indexFor(k, r) == hash[r][k]

Plus1(n) == IF n < MaxCounter THEN n + 1 ELSE n

AgeKeepsCounters(s) == [s EXCEPT !.additionsSinceAging = 0]
age(s) ==
  [table |-> [r \in Rows |-> [c \in Columns |-> s.table[r][c] \div 2]],
   additionsSinceAging |-> 0,
   truth |-> [k \in Keys |-> s.truth[k] \div 2]]

Counted(s, k) ==
  [table |-> [r \in Rows |-> [c \in Columns |->
                IF c = indexFor(k, r) THEN Plus1(s.table[r][c]) ELSE s.table[r][c]]],
   additionsSinceAging |-> s.additionsSinceAging + 1,
   truth |-> [s.truth EXCEPT ![k] = Plus1(@)]]

IncrementNeverAges(s, k) == Counted(s, k)
IncrementOneRow(s, k) ==
  LET row == CHOOSE r \in Rows : TRUE IN
  [Counted(s, k) EXCEPT !.table = [r \in Rows |->
      IF r = row THEN Counted(s, k).table[r] ELSE s.table[r]]]
increment(s, k) ==
  IF s.additionsSinceAging + 1 >= agingThreshold
  THEN age(Counted(s, k)) ELSE Counted(s, k)

\* The least counter of the key's cells.
estimate(s, k) ==
  LET values == {s.table[r][indexFor(k, r)] : r \in Rows}
  IN CHOOSE v \in values : \A w \in values : v <= w

-----------------------------------------------------------------------------
(* What the sketch promises *)

\* CountMinSketch.ts:8-10: an estimate is never below the key's own count.
Overestimates(s) == \A k \in Keys : estimate(s, k) >= s.truth[k]

\* A key that shares its cell of some row with no other key is counted
\* exactly.
Alone(k) == \E r \in Rows : \A j \in Keys \ {k} : indexFor(j, r) # indexFor(k, r)

ExactWhereAlone(s) == \A k \in Keys : Alone(k) => estimate(s, k) = s.truth[k]

\* Aging keeps every counter below twice the threshold, however long the
\* node runs.
Bounded(s) ==
  \A r \in Rows, c \in Columns :
    s.table[r][c] <= agingThreshold + s.additionsSinceAging
=============================================================================
