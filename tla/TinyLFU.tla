------------------------------ MODULE TinyLFU ------------------------------
(***************************************************************************)
(* TinyLfuEvictionPolicy (packages/eviction): an LRU list for recency and  *)
(* a CountMinSketch for frequency.                                         *)
(***************************************************************************)
EXTENDS LRU, CountMinSketch

CONSTANTS
  bottomK,         \* DEFAULT_BOTTOM_K
  MaxReplay        \* cap on replayed increments per entry (32)

TinyReset == [recency |-> LruReset, sketch |-> resetSketch]

Used(p, k) == [recency |-> touch(p.recency, k),
               sketch |-> increment(p.sketch, k)]

TinyRecordAccess(p, k) == Used(p, k)
TinyRecordWrite(p, k) == Used(p, k)

\* The sketch has no decrement.
TinyRecordRemoval(p, k) == [p EXCEPT !.recency = LruRecordRemoval(@, k)]

\* Among the bottomK least recent candidates the least frequent one, and of
\* those the least recent.
VictimIsTail(p, candidateKeys) == LruSelectVictim(p.recency, candidateKeys)
TinySelectVictim(p, candidateKeys) ==
  LET bottom == leastRecentlyUsedCandidates(p.recency, candidateKeys, bottomK)
      freq(i) == estimate(p.sketch, bottom[i])
  IN IF bottom = <<>> THEN LruSelectVictim(p.recency, candidateKeys)
     ELSE bottom[CHOOSE i \in DOMAIN bottom :
                   \A j \in DOMAIN bottom :
                     freq(i) < freq(j) \/ (freq(i) = freq(j) /\ i <= j)]

\* An entry is replayed between 1 and MaxReplay times.
replayCount(n) == IF n < 1 THEN 1 ELSE IF n > MaxReplay THEN MaxReplay ELSE n

Replay(s, k, n) ==
  LET upTo[i \in 0 .. n] ==
        IF i = 0 THEN s ELSE increment(upTo[i - 1], k)
  IN upTo[n]

\* entries in the order of the map, ordered by lastAccessedAt; aging can
\* strike in the middle of the replay.
TinySeed(entries, ordered, hits) ==
  LET upTo[i \in 0 .. Len(entries)] ==
        IF i = 0 THEN resetSketch
        ELSE Replay(upTo[i - 1], entries[i], replayCount(hits[entries[i]]))
  IN [recency |-> LruSeed(ordered), sketch |-> upTo[Len(entries)]]
=============================================================================
