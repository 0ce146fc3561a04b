-------------------------------- MODULE LFU --------------------------------
(***************************************************************************)
(* LfuEvictionPolicy (packages/eviction): the frequency of every tracked   *)
(* key, the buckets of keys by frequency, and the minFrequency pointer,    *)
(* each kept up to date by hand.  A bucket that is not in the map is the   *)
(* empty set, a key without frequency has 0.  Which key of a bucket comes  *)
(* first is left open.                                                     *)
(***************************************************************************)
EXTENDS EvictionPolicy

CONSTANT MaxFrequency  \* bound on a frequency

Frequencies == 0 .. MaxFrequency

LfuReset == [frequency |-> [k \in Keys |-> 0],
          buckets |-> [f \in Frequencies |-> {}],
          minFrequency |-> 0]

NonEmpty(buckets) == {f \in Frequencies : buckets[f] # {}}

lowestRemainingFrequency(buckets) ==
  IF NonEmpty(buckets) = {} THEN 0
  ELSE CHOOSE f \in NonEmpty(buckets) : \A g \in NonEmpty(buckets) : f <= g

initialize(p, k) ==
  [frequency |-> [p.frequency EXCEPT ![k] = 1],
   buckets |-> [p.buckets EXCEPT ![1] = @ \cup {k}],
   minFrequency |-> 1]

\* The key leaves its old bucket before it joins the new one; minFrequency
\* follows it when it was the last of the lowest bucket.
BumpKeepsMin(p, k) ==
  LET old == p.frequency[k] IN
  [p EXCEPT !.frequency[k] = old + 1,
            !.buckets = [f \in Frequencies |->
               IF f = old + 1 THEN @[f] \cup {k} ELSE @[f] \ {k}]]
bump(p, k) ==
  LET old == p.frequency[k] IN
  [frequency |-> [p.frequency EXCEPT ![k] = old + 1],
   buckets |-> [f \in Frequencies |->
                  IF f = old + 1 THEN p.buckets[f] \cup {k}
                  ELSE IF f = old THEN p.buckets[f] \ {k} ELSE p.buckets[f]],
   minFrequency |->
     IF old > 0
     THEN IF p.buckets[old] = {k} /\ p.minFrequency = old
          THEN old + 1 ELSE p.minFrequency
     ELSE 1]

LfuRecordAccess(p, k) == bump(p, k)
LfuRecordWrite(p, k) == IF p.frequency[k] > 0 THEN bump(p, k) ELSE initialize(p, k)

LfuRecordRemoval(p, k) ==
  LET freq == p.frequency[k]
      buckets == [p.buckets EXCEPT ![freq] = @ \ {k}]
  IN IF freq = 0 THEN p
     ELSE [frequency |-> [p.frequency EXCEPT ![k] = 0],
           buckets |-> buckets,
           minFrequency |-> IF buckets[freq] = {} /\ p.minFrequency = freq
                            THEN lowestRemainingFrequency(buckets)
                            ELSE p.minFrequency]

\* The victims selectVictim may return: the fast path, else the lowest
\* bucket with a candidate, else any candidate.
LfuSelectVictim(p, candidateKeys) ==
  LET fast == p.buckets[p.minFrequency] \cap candidateKeys
      hit == {f \in Frequencies : p.buckets[f] \cap candidateKeys # {}}
      lowest == CHOOSE f \in hit : \A g \in hit : f <= g
  IN IF candidateKeys = {} THEN {Null}
     ELSE IF fast # {} THEN fast
     ELSE IF hit # {} THEN p.buckets[lowest] \cap candidateKeys
     ELSE candidateKeys

\* hits is the metadata.frequency of the entries, a function on held keys.
SeedFromOne(hits) ==
  LET held == [k \in Keys |-> IF k \in DOMAIN hits THEN 1 ELSE 0]
  IN [frequency |-> held,
      buckets |-> [f \in Frequencies |-> IF f = 1 THEN DOMAIN hits ELSE {}],
      minFrequency |-> IF DOMAIN hits = {} THEN 0 ELSE 1]
LfuSeed(hits) ==
  LET freq == [k \in Keys |->
                 IF k \notin DOMAIN hits THEN 0
                 ELSE IF hits[k] > 1 THEN hits[k] ELSE 1]
      buckets == [f \in Frequencies |-> {k \in DOMAIN hits : freq[k] = f}]
  IN [frequency |-> freq, buckets |-> buckets,
      minFrequency |-> lowestRemainingFrequency(buckets)]

\* The three fields agree: a key is in the bucket of its frequency and in no
\* other, and minFrequency is the lowest frequency that occurs (0 if none).
Consistent(p) ==
  /\ \A f \in Frequencies :
       p.buckets[f] = {k \in Keys : p.frequency[k] = f /\ f > 0}
  /\ IF \A k \in Keys : p.frequency[k] = 0 THEN p.minFrequency = 0
     ELSE /\ \E k \in Keys : p.frequency[k] = p.minFrequency
          /\ \A k \in Keys : p.frequency[k] > 0 =>
               0 < p.minFrequency /\ p.minFrequency <= p.frequency[k]
=============================================================================
