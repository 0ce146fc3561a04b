------------------------------ MODULE Eviction ------------------------------
(***************************************************************************)
(* AdaptiveEvictionEngine as the EvictionHook of StorageEngine: every      *)
(* operation of the store reports to the active policy (LRU, LFU or        *)
(* TinyLFU), asks it for victims, and a switch seeds the next policy from  *)
(* the entries of the store.  When it switches is the subject of           *)
(* PolicySwitching; here it may at any time.                               *)
(*                                                                         *)
(* Entries have size 1, so that set evicts at most one (Storage has sizes  *)
(* and expiry; an expired entry leaves like a deleted one).  A miss tells  *)
(* the policy nothing.  The order of the entries in the map is left open.  *)
(***************************************************************************)
EXTENDS LFU, TinyLFU, Functions

CONSTANTS
  Capacity,  \* entries that fit
  MaxNow     \* bound on the clock

ASSUME EvictionAssumption ==
  /\ Null \notin Keys
  /\ Rows # {}
  /\ hash \in [Rows -> [Keys -> Columns]]
  /\ {Capacity, MaxCounter, agingThreshold, bottomK, MaxReplay, MaxFrequency}
       \subseteq Nat \ {0}
  /\ MaxNow \in Nat

Policies == {"LRU", "LFU", "TINY_LFU"}

VARIABLES
  store,      \* held key -> [lastAccessedAt, frequency]
  active,     \* the active policy: its type and fields; an inactive one is
              \* garbage and shown as freshly reset
  now,
  rewritten,  \* held keys overwritten since they were last read (ghost)
  used        \* the key of the last operation, if it used one (ghost)

vars == <<store, active, now, rewritten, used>>

createEvictionPolicy(type) ==
  [type |-> type, lru |-> LruReset, lfu |-> LfuReset, tiny |-> TinyReset]

Init ==
  /\ store = [k \in {} |-> Null]
  /\ active = createEvictionPolicy("LRU")
  /\ now = 0
  /\ rewritten = {}
  /\ used = Null

-----------------------------------------------------------------------------
(* Delegation to the active policy *)

recordAccess(p, k) ==
  CASE p.type = "LRU" -> [p EXCEPT !.lru = LruRecordAccess(@, k)]
    [] p.type = "LFU" -> [p EXCEPT !.lfu = LfuRecordAccess(@, k)]
    [] OTHER -> [p EXCEPT !.tiny = TinyRecordAccess(@, k)]

recordWrite(p, k) ==
  CASE p.type = "LRU" -> [p EXCEPT !.lru = LruRecordWrite(@, k)]
    [] p.type = "LFU" -> [p EXCEPT !.lfu = LfuRecordWrite(@, k)]
    [] OTHER -> [p EXCEPT !.tiny = TinyRecordWrite(@, k)]

recordRemoval(p, k) ==
  CASE p.type = "LRU" -> [p EXCEPT !.lru = LruRecordRemoval(@, k)]
    [] p.type = "LFU" -> [p EXCEPT !.lfu = LfuRecordRemoval(@, k)]
    [] OTHER -> [p EXCEPT !.tiny = TinyRecordRemoval(@, k)]

\* The victims the policy may return.
selectVictim(p, candidateKeys) ==
  CASE p.type = "LRU" -> {LruSelectVictim(p.lru, candidateKeys)}
    [] p.type = "LFU" -> LfuSelectVictim(p.lfu, candidateKeys)
    [] OTHER -> {TinySelectVictim(p.tiny, candidateKeys)}

-----------------------------------------------------------------------------
(* Operations of the store *)

Without(s, S) == [k \in DOMAIN s \ S |-> s[k]]

\* An overwrite keeps lastAccessedAt and frequency.
Metadata(k) ==
  IF k \in DOMAIN store THEN store[k] ELSE [lastAccessedAt |-> now, frequency |-> 0]

\* MaxFrequency bounds the uses, not the program.
MayUse(k) ==
  /\ k \in DOMAIN store => store[k].frequency < MaxFrequency
  /\ active.lfu.frequency[k] < MaxFrequency

set(k) ==
  LET s == [x \in DOMAIN store \cup {k} |-> IF x = k THEN Metadata(k) ELSE store[x]]
      p == recordWrite(active, k)
      over == Cardinality(DOMAIN s) > Capacity
      candidates == {x \in DOMAIN s : x # k \/ DOMAIN s = {k}}
  IN \E v \in IF over THEN selectVictim(p, candidates) ELSE {Null} :
       /\ store' = Without(s, {v})
       /\ active' = IF v \in DOMAIN s THEN recordRemoval(p, v) ELSE p
       /\ rewritten' = (IF k \in DOMAIN store THEN rewritten \cup {k}
                        ELSE rewritten) \ {v}
       /\ used' = k
       /\ UNCHANGED now

\* A hit; a miss changes nothing here.
get(k) ==
  /\ k \in DOMAIN store
  /\ store' = [store EXCEPT ![k] = [lastAccessedAt |-> now,
                                    frequency |-> @.frequency + 1]]
  /\ active' = recordAccess(active, k)
  /\ rewritten' = rewritten \ {k}
  /\ used' = k
  /\ UNCHANGED now

\* delete, and removeInternal of an expired entry.
delete(k) ==
  /\ k \in DOMAIN store
  /\ store' = Without(store, {k})
  /\ active' = recordRemoval(active, k)
  /\ rewritten' = rewritten \ {k}
  /\ used' = Null
  /\ UNCHANGED now

\* clear tells the hook nothing: the policy goes on tracking the keys.
clear ==
  /\ store' = [k \in {} |-> Null]
  /\ rewritten' = {}
  /\ used' = Null
  /\ UNCHANGED <<active, now>>

-----------------------------------------------------------------------------
(* switchTo *)

Arrangements(S) == {q \in [1 .. Cardinality(S) -> S] : IsInjective(q)}

SeedUnsorted == Arrangements(DOMAIN store)
\* The orders sort may give the entries.
Sorted ==
  {q \in Arrangements(DOMAIN store) :
     \A i, j \in DOMAIN q :
       i < j => store[q[i]].lastAccessedAt <= store[q[j]].lastAccessedAt}

SeedNothing(type) == {createEvictionPolicy(type)}
Seeded(type) ==
  LET fresh == createEvictionPolicy(type)
      hits == [k \in DOMAIN store |-> store[k].frequency]
  IN CASE type = "LRU" -> {[fresh EXCEPT !.lru = LruSeed(q)] : q \in Sorted}
       [] type = "LFU" -> {[fresh EXCEPT !.lfu = LfuSeed(hits)]}
       [] OTHER -> UNION {{[fresh EXCEPT !.tiny = TinySeed(e, q, hits)] :
                             e \in Arrangements(DOMAIN store)} : q \in Sorted}

switchTo(type) ==
  /\ type # active.type
  /\ active' \in Seeded(type)
  /\ used' = Null
  /\ UNCHANGED <<store, now, rewritten>>

Tick ==
  /\ now < MaxNow
  /\ now' = now + 1
  /\ UNCHANGED <<store, active, rewritten, used>>

Next ==
  \/ \E k \in Keys : MayUse(k) /\ set(k)
  \/ \E k \in Keys : MayUse(k) /\ get(k)
  \/ \E k \in Keys : delete(k)
  \/ clear
  \/ \E type \in Policies : switchTo(type)
  \/ Tick

Spec == Init /\ [][Next]_vars
-----------------------------------------------------------------------------
(* Properties *)

\* The list of the active policy, if it has one.
HasList == active.type # "LFU"
List == IF active.type = "LRU" THEN active.lru ELSE active.tiny.recency

Tracked == IF HasList THEN List.nodes
           ELSE {k \in Keys : active.lfu.frequency[k] > 0}

ListType == [nodes : SUBSET Keys,
             prev : [Keys -> Keys \cup {Null}], next : [Keys -> Keys \cup {Null}],
             head : Keys \cup {Null}, tail : Keys \cup {Null}]

\* Every variable has its type.
TypeOK ==
  /\ DOMAIN store \subseteq Keys
  /\ \A k \in DOMAIN store : store[k] \in [lastAccessedAt : 0 .. now,
                                          frequency : 0 .. MaxFrequency]
  /\ active.type \in Policies
  /\ active.lru \in ListType /\ active.tiny.recency \in ListType
  /\ active.lfu \in [frequency : [Keys -> 0 .. MaxFrequency],
                     buckets : [0 .. MaxFrequency -> SUBSET Keys],
                     minFrequency : 0 .. MaxFrequency]
  /\ active.tiny.sketch \in
       [table : [Rows -> [Columns -> 0 .. MaxCounter]],
        additionsSinceAging : 0 .. agingThreshold - 1,
        truth : [Keys -> 0 .. MaxCounter]]
  /\ now \in 0 .. MaxNow
  /\ rewritten \subseteq DOMAIN store
  /\ used \in Keys \cup {Null}

\* However uses, removals, evictions and switches are mixed, the prev and next
\* links, head and tail of the LRU list describe one and the same order of
\* all its keys.
ListIntact == HasList => Spells(List, Older(List))

\* The frequency map, the buckets and minFrequency of the LFU policy agree, so
\* its fast path finds a coldest key.
LfuConsistent == Consistent(active.lfu)

\* The linked list and the frequency buckets survive every mix of operations.
StructuresIntact == TypeOK /\ ListIntact /\ LfuConsistent

\* CountMinSketch.ts: the estimate of a key is never below its true count,
\* which saturates and is halved with the counters, through aging in the
\* middle of increments and of a replay.
NeverUndercounts == Overestimates(active.tiny.sketch)

\* Aging keeps up: no counter exceeds agingThreshold plus the additions since
\* the last aging, however many uses there were, so old popularity fades.
CountersBounded == Bounded(active.tiny.sketch)

\* The sketch errs on one side only, and forgets.
SketchSound == NeverUndercounts /\ CountersBounded

\* The store never holds more than fits: whatever policy is active and
\* however it came to be, it knows the held keys and finds a victim among
\* them when set asks for one.
RoomMade ==
  /\ Cardinality(DOMAIN store) <= Capacity
  /\ DOMAIN store \subseteq Tracked

\* A seed never loses what the store knows of a key's popularity: the LFU
\* frequency of a held key is at least its hits, through switches and clear.
HitsCounted ==
  active.type = "LFU" =>
    \A k \in DOMAIN store : active.lfu.frequency[k] >= store[k].frequency

\* Whatever part of the held keys storage offers, the victim is a coldest
\* one: for LRU the least recent; for LFU one of least frequency; for TinyLFU
\* one of the bottomK least recent, and no key of these that the sketch
\* counts exactly was used less often.
VictimColdest ==
  LET older == IF HasList THEN Older(List) ELSE {}
      sketch == active.tiny.sketch
  IN \A C \in (SUBSET DOMAIN store) \ {{}} : \A v \in selectVictim(active, C) :
       /\ v \in C
       /\ active.type = "LRU" => \A x \in C \ {v} : <<v, x>> \in older
       /\ active.type = "LFU" =>
            \A x \in C : active.lfu.frequency[v] <= active.lfu.frequency[x]
       /\ active.type = "TINY_LFU" =>
            LET bottom == {x \in C : Cardinality({y \in C : <<y, x>> \in older}) < bottomK}
            IN /\ v \in bottom
               /\ \A x \in bottom :
                    Alone(x) => sketch.truth[v] <= sketch.truth[x]

\* The list agrees with the metadata that seeds it: of two held keys, the one
\* accessed earlier is the less recent in the list, unless it was overwritten
\* since (an overwrite moves a key in the list and not its lastAccessedAt).
RecencyAgrees ==
  HasList =>
    LET older == Older(List)
    IN \A a, b \in DOMAIN store :
         store[a].lastAccessedAt < store[b].lastAccessedAt /\ a \notin rewritten
           => <<a, b>> \in older

\* The policy and the metadata of the store, from which the next policy is
\* seeded, tell the same story of popularity and recency.
PolicyAgrees == HitsCounted /\ RecencyAgrees

-----------------------------------------------------------------------------
(* Refinement *)

\* The order the list spells, as a RecencyOrder.
Recency == INSTANCE RecencyOrder WITH
  policy <- active.type,
  tracked <- IF HasList THEN List.nodes ELSE {},
  older <- IF HasList THEN Older(List) ELSE {},
  used <- IF HasList THEN used ELSE Null

\* The linked list implements a recency order: every use through touch makes
\* its key the most recent, every removal keeps the order of the others, and
\* no step of the store reorders the list in any other way.
RefinesRecency == Recency!Spec

\* LRU.ts:79-81: the seeded list is "matching what a real LRU list would look
\* like if it had been tracking all along": between two policies that both
\* keep a recency list, a switch leaves the order alone when no two entries
\* were accessed at the same time.
SeedKeepsOrder ==
  [][/\ HasList /\ HasList' /\ active'.type # active.type
     /\ \A a, b \in DOMAIN store :
          a # b => store[a].lastAccessedAt # store[b].lastAccessedAt
     => Older(List)' = Recency!Kept(Older(List), DOMAIN store)]_vars
=============================================================================
