------------------------------ MODULE Storage ------------------------------
(***************************************************************************)
(* StorageEngine (packages/storage-engine): the in-memory map of one cache *)
(* node with per-entry TTL, versions, the running byte counter and the     *)
(* capacity loop that runs at the end of every set.                        *)
(*                                                                         *)
(* The engine is single threaded and every method is synchronous, so each  *)
(* method is one action.  Abstracted: values (only their size matters      *)
(* here), the recency and frequency metadata a hit updates (they only feed *)
(* the eviction policies), and the hit / miss / write counters.            *)
(***************************************************************************)
EXTENDS Naturals, FiniteSets, FiniteSetsExt

CONSTANTS
  Keys,          \* cache keys
  Sizes,         \* approximate sizes a value can have
  Ttls,          \* time-to-live values a write can carry (0 is possible:
                 \* a replicated write whose deadline has passed)
  Never,         \* expiresAt of an entry without TTL (null in the code)
  MaxEntries,    \* options.maxEntries
  MaxSizeBytes,  \* options.maxSizeBytes
  MaxNow,        \* bound on the clock
  MaxVersion,    \* bound on the version of an entry
  MaxCreated     \* bound on the number of entries ever created

ASSUME StorageAssumption ==
  /\ Sizes \subseteq Nat
  /\ Ttls \subseteq Nat
  /\ Never \notin Nat
  /\ {MaxEntries, MaxSizeBytes, MaxNow, MaxCreated} \subseteq Nat
  /\ MaxVersion \in Nat \ {0}

VARIABLES
  store,           \* the Map: a function from the held keys to their metadata
  totalSizeBytes,  \* the running counter, updated by hand at every change
  now,             \* nowMs()
  ledger           \* how many entries were created and how each one left

vars == <<store, totalSizeBytes, now, ledger>>

\* The expiresAt a write can give an entry.
Deadlines == {Never} \cup UNION {{n + ttl : ttl \in Ttls} : n \in 0 .. MaxNow}

Entry == [version : 1 .. MaxVersion, expiresAt : Deadlines, sizeBytes : Sizes]

Init ==
  /\ store = [k \in {} |-> Never]
  /\ totalSizeBytes = 0
  /\ now = 0
  /\ ledger = [created |-> 0, expirations |-> 0, evictions |-> 0,
               deletes |-> 0, cleared |-> 0]

-----------------------------------------------------------------------------
(* Helpers *)

SizeOf(s) == MapThenSumSet(LAMBDA k : s[k].sizeBytes, DOMAIN s)

Without(s, S) == [k \in DOMAIN s \ S |-> s[k]]

\* The bytes of the entries of S.
Freed(s, S) == SizeOf([k \in S |-> s[k]])

isExpired(k) == store[k].expiresAt # Never /\ store[k].expiresAt <= now

\* The metadata set gives key k: an overwrite continues the version of the
\* entry in the map, expired or not; a new entry starts at 1.
WrittenFromZero(k, size, ttl) ==
  [version   |-> IF k \in DOMAIN store THEN store[k].version + 1 ELSE 0,
   expiresAt |-> IF ttl = Never THEN Never ELSE now + ttl,
   sizeBytes |-> size]
Written(k, size, ttl) ==
  [version   |-> IF k \in DOMAIN store THEN store[k].version + 1 ELSE 1,
   expiresAt |-> IF ttl = Never THEN Never ELSE now + ttl,
   sizeBytes |-> size]

OverCapacity(s, total) ==
  Cardinality(DOMAIN s) > MaxEntries \/ total > MaxSizeBytes

\* The keys the hook may choose from: the key just written only when nothing
\* else is left.
CandidatesAll(s, justWritten) == DOMAIN s
Candidates(s, justWritten) ==
  {k \in DOMAIN s : k # justWritten \/ Cardinality(DOMAIN s) = 1}

\* The loop condition; guard counts the iterations made so far and is
\* compared with the size of the map as it is now.
LoopsAtCapacity(s, total, guard) ==
  /\ Cardinality(DOMAIN s) >= MaxEntries \/ total >= MaxSizeBytes
  /\ guard < Cardinality(DOMAIN s) + 1
LoopsNever(s, total, guard) == FALSE
Loops(s, total, guard) ==
  OverCapacity(s, total) /\ guard < Cardinality(DOMAIN s) + 1

\* All outcomes of the capacity loop, as the sets of keys it evicts: one for
\* each way an EvictionHook may pick its victims, any hook returning one of
\* its candidates.  from[S] are the outcomes once the keys of S are gone; every
\* iteration takes one key, so guard is the size of S.
enforceCapacity(s, total, justWritten) ==
  LET from[S \in SUBSET DOMAIN s] ==
        LET held == Without(s, S)
            candidates == Candidates(held, justWritten)
        IN IF Loops(held, total - Freed(s, S), Cardinality(S)) /\ candidates # {}
           THEN UNION {from[S \cup {victim}] : victim \in candidates}
           ELSE {S}
  IN from[{}]

-----------------------------------------------------------------------------
(* Operations *)

\* What the write takes off totalSizeBytes before it adds the new size.
ReplacedNothing(k) == 0
Replaced(k) == IF k \in DOMAIN store THEN store[k].sizeBytes ELSE 0

set(k, size, ttl) ==
  LET s == [x \in DOMAIN store \cup {k} |->
              IF x = k THEN Written(k, size, ttl) ELSE store[x]]
      total == totalSizeBytes - Replaced(k) + size
  IN \E evicted \in enforceCapacity(s, total, k) :
       /\ store' = Without(s, evicted)
       /\ totalSizeBytes' = total - Freed(s, evicted)
       /\ ledger' = [ledger EXCEPT
                       !.created = @ + (IF k \in DOMAIN store THEN 0 ELSE 1),
                       !.evictions = @ + Cardinality(evicted)]
       /\ UNCHANGED now

\* removeInternal for each key of S, counted under the given reason.
RemoveCountsOnce(S, reason) ==
  /\ store' = Without(store, S)
  /\ totalSizeBytes' = totalSizeBytes - Freed(store, S)
  /\ ledger' = [ledger EXCEPT ![reason] = @ + 1]
  /\ UNCHANGED now
removeInternal(S, reason) ==
  /\ store' = Without(store, S)
  /\ totalSizeBytes' = totalSizeBytes - Freed(store, S)
  /\ ledger' = [ledger EXCEPT ![reason] = @ + Cardinality(S)]
  /\ UNCHANGED now

\* get and has differ only in recency metadata and counters: both drop an
\* expired entry when they meet one.
get(k) ==
  /\ k \in DOMAIN store
  /\ isExpired(k)
  /\ removeInternal({k}, "expirations")

\* delete does not look at the TTL: an expired entry counts as deleted.
delete(k) ==
  /\ k \in DOMAIN store
  /\ removeInternal({k}, "deletes")

SweepStrictlyOlder ==
  removeInternal({k \in DOMAIN store : store[k].expiresAt # Never
                                       /\ store[k].expiresAt < now},
                 "expirations")

sweepExpired ==
  removeInternal({k \in DOMAIN store : isExpired(k)}, "expirations")

\* clear drops the entries and the counter without telling the hook.
clear ==
  /\ store' = [k \in {} |-> Never]
  /\ totalSizeBytes' = 0
  /\ ledger' = [ledger EXCEPT !.cleared = @ + Cardinality(DOMAIN store)]
  /\ UNCHANGED now

Tick ==
  /\ now < MaxNow
  /\ now' = now + 1
  /\ UNCHANGED <<store, totalSizeBytes, ledger>>

\* MaxCreated and MaxVersion bound the exploration, not the program.
WithinBounds(k) ==
  IF k \in DOMAIN store
  THEN store[k].version < MaxVersion
  ELSE ledger.created < MaxCreated

Next ==
  \/ \E k \in Keys, size \in Sizes, ttl \in Ttls \cup {Never} :
       WithinBounds(k) /\ set(k, size, ttl)
  \/ \E k \in Keys : get(k)
  \/ \E k \in Keys : delete(k)
  \/ sweepExpired
  \/ clear
  \/ Tick

Spec == Init /\ [][Next]_vars

\* The sweep runs from a setInterval timer the constructor installs.
FairSpec == Spec /\ WF_vars(sweepExpired)

-----------------------------------------------------------------------------
(* Properties *)

\* Every variable has its type.
TypeOK ==
  /\ DOMAIN store \subseteq Keys
  /\ \A k \in DOMAIN store : store[k] \in Entry
  /\ totalSizeBytes \in Nat
  /\ now \in 0 .. MaxNow
  /\ ledger \in [{"created", "expirations", "evictions", "deletes", "cleared"}
                   -> Nat]

\* The hand-maintained totalSizeBytes always equals the sum of the sizes of
\* the entries in the map: no path (overwrite, lazy or active expiry,
\* eviction, delete, clear) forgets or repeats an adjustment.
SizeAccounting == totalSizeBytes = SizeOf(store)

\* The cap on the number of entries is kept by the loop of enforceCapacity
\* however the hook picks its victims.
EntryCap == Cardinality(DOMAIN store) <= MaxEntries

\* Every entry ever created is still held or was counted exactly once as
\* expired, evicted, deleted or cleared, so getStats never loses an entry.
LedgerBalances ==
  ledger.created = Cardinality(DOMAIN store) + ledger.expirations
                   + ledger.evictions + ledger.deletes + ledger.cleared

\* Both of the engine's accounts are exact: the byte counter, which the
\* capacity loop trusts, and the statistics, under any mix of overwrites,
\* expiry, evictions, deletes and clears.
Accounting == TypeOK /\ SizeAccounting /\ LedgerBalances

\* A set whose value fits the limits on its own never loses the key it just
\* wrote to its own capacity loop: enforceCapacity excludes justWrittenKey
\* until nothing else is left, and then the entry alone fits.
WriteSurvives ==
  [][\A k \in Keys, size \in Sizes, ttl \in Ttls \cup {Never} :
       size <= MaxSizeBytes /\ MaxEntries >= 1 /\ set(k, size, ttl)
         => k \in DOMAIN store' /\ store'[k].sizeBytes = size]_vars

\* Evictions happen only under pressure: when a set whose value fits evicts
\* something, at least one of the victims would not fit beside what is left.
EvictsOnlyUnderPressure ==
  [][\A k \in Keys, size \in Sizes, ttl \in Ttls \cup {Never} :
       /\ size <= MaxSizeBytes /\ MaxEntries >= 1
       /\ ledger'.evictions > ledger.evictions
       /\ set(k, size, ttl)
       => \E v \in DOMAIN store \ DOMAIN store' :
            \/ Cardinality(DOMAIN store') + 1 > MaxEntries
            \/ totalSizeBytes' + store[v].sizeBytes > MaxSizeBytes]_vars

\* enforceCapacity evicts what it must and nothing else: not the key just
\* written, and nothing when there is room.
EvictionJustified == WriteSurvives /\ EvictsOnlyUnderPressure

\* An expired entry nobody reads is eventually reclaimed by the sweep timer
\* or replaced by a fresh write.
ExpiredReclaimed ==
  \A k \in Keys :
    (k \in DOMAIN store /\ isExpired(k))
      ~> ~(k \in DOMAIN store /\ isExpired(k))

\* types.ts:33 calls maxSizeBytes a "Hard cap on total approximate size in
\* bytes": after every operation the held bytes are within it.
HardByteCap == totalSizeBytes <= MaxSizeBytes
=============================================================================
