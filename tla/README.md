# FlowCache: TLA+ models, checks and proofs

FlowCache is a distributed in-memory cache: a gateway hashes keys to cache
nodes, each node keeps its share in a storage engine, replicates writes to the
other owners of a key over a Kafka topic, and snapshots its contents to disk.
This directory models the parts whose correctness depends on the order of
events, checks them with TLC on small instances and proves the central
invariants with TLAPS for every value of the constants.

## The system

| Part | State | Operations | Hard behaviours |
|---|---|---|---|
| Storage engine (`packages/storage-engine`) | map of entries, byte counter, removal counters | set, get/has, delete, clear, sweepExpired; enforceCapacity inside set | expiry at a boundary, eviction inside a write, hand-kept counter |
| Worker pool (`packages/worker-pool`) | workers, FIFO queue, pending map, timers | submitTask, answers, timeout, error, exit, dispose | answer / timeout / crash races, stuck tasks, dispose with awaits |
| Replication (`packages/replication`, appliers and delay in `CacheNodeServer`) | per-node store, publishes in flight, ack waiters, topic, offsets | PUT, DELETE, publish, consume, ack, timeout | at-least-once delivery, reordering, lost publishes, late acks, shared group |
| Snapshots (`packages/snapshot`) | data, metadata and pointer files, in-progress flag | takeSnapshot, restore, prune | crash or I/O error between files, truncation in place |
| Recovery and life of a node (`services/cache-node`) | phase, storage, kill switch | startWithRetry, recover, RESTART, stop, cleanup sweep | requests during an await, stop during a snapshot, failed starts |
| Fault injector | killed, delay, drop rate | KILL, RESTART, DELAY_REPLICATION, DROP_MESSAGES, reset | changes in the middle of a publish or a recovery |
| Eviction policies (`packages/eviction`) | LRU list, LFU buckets, sketch | record*, selectVictim, seed, age | structures that disagree with each other or with storage, saturation |
| Adaptive engine (`packages/eviction`) | active policy, workload window, history | traffic, evaluate, pin, resume, read the signals | readers that empty the window, cooldown, pins |
| Hash ring (`packages/consistent-hash`) | sorted virtual nodes, node table | addNode, removeNode, clone, lookups, key movement | wrap-around, collisions, updates of a weight |
| Gateway (`apps/gateway`) | node statuses, miss counts, polls and requests in flight | polls, forwardWithFailover, start, stop | overlapping polls, stale statuses, retry of an applied write |
| Metrics, benchmark, dashboard | counters and windows | record, report | none that the system depends on |

Interactions: routes write to storage and hand the event to replication; the
consumer and recovery write to the same storage; snapshots and the cleanup
sweep read storage, await a worker of the pool and then act on what they read;
the eviction engine is the hook storage consults inside `set`; the ring names
the targets of an event and the candidates of a request.

## Modules

| Module | Models | Proofs |
|---|---|---|
| `Storage` | `StorageEngine`; every method is one action (they are synchronous) | `StorageProofs` |
| `WorkerPool` | `WorkerPool` and the worker's message loop | `WorkerPoolProofs` |
| `Replication` | client routes, `ReplicationEngine`, appliers of `CacheNodeServer`, delay and drop faults, restart; Kafka is external | `ReplicationProofs` |
| `CacheNode` | node process, `SnapshotManager`, `FileSnapshotStore`, `RecoveryEngine`, KILL / RESTART, cleanup sweep | `CacheNodeProofs` |
| `Gateway` | `NodeHealthTracker`, `forwardWithFailover`, `CacheNodeClient`, start and stop of the gateway; nodes and network are external | `GatewayProofs` |
| `EvictionPolicy`, `LRU`, `LFU`, `CountMinSketch`, `TinyLFU` | one policy each, its methods as operators on a record of its fields; `EvictionPolicy` declares what they share | `EvictionProofs` |
| `Eviction` | the policies composed with the store through `AdaptiveEvictionEngine` | `EvictionProofs` |
| `RecencyOrder` | the abstract recency list, which the list of the active policy implements | `EvictionProofs` |
| `PolicySwitching` | `WorkloadMonitor`, `DecisionRules`, the switching of `AdaptiveEvictionEngine` and its routes | `PolicySwitchingProofs` |
| `HashRing` | `ConsistentHashRing`, `analyzeKeyMovement` | `HashRingProofs` |

The `MC...` modules only supply values for constants. `PROJECT.json` maps each
definition to the source lines it stands for. Operators named after a wrong
behaviour (`DrainNothing`, `PastRetentionOffByOne`, ...) are deliberate
mistakes, each placed before the definition it imitates: substituting one must
make the property named in `PROJECT.json` fail, which shows that the property
depends on that code.

### Storage

`store` is the `Map` (a partial function), `totalSizeBytes` the hand-kept
counter, `now` the clock, `ledger` the counters of how entries left. The victim
of an eviction is any candidate, so the results hold for every policy that
returns one of its candidates. Values are their sizes. In a cache node the
engine's own sweep timer is off and the sweep of `CacheNode` takes its place;
the liveness property of `storage` is about the engine used with its timer.

### WorkerPool

`workers` maps worker ids to the task each runs, `queue`, `pending` and
`promise` are the FIFO queue, `pendingByTaskId` and what callers hold; `exited`
are workers that ended with code 0 and stayed in the table. Tasks in `Wedged`
never answer. `PerCallTimeouts` says whether timers may expire out of
submission order: only with a per-call `timeoutMs` can a task behind another
one in the queue time out first. No caller in the repository passes one today,
but the parameter is public.

### Replication

Operations are numbered when accepted; the number is event id and value, so a
larger number is a newer value. A key is its own partition (the code uses it as
partition key). kafkajs is modelled by what the code relies on: sends end in
order, unless a retry lets one be overtaken or written twice, or they fail;
consumers resume from an offset not beyond what they handled. `MaxFaults`
bounds the faults of one behaviour and `FaultKinds` picks which may happen.
`Writers` are the nodes clients reach for a key: with one writer per key the
passing runs show what the protocol does guarantee. `AllFaultKinds` includes
process crashes. Snapshots are one step here; `CacheNode` has their steps.

### CacheNode

Each stretch of code between two awaits is an action. A file is absent, torn or
whole; `writeFile` truncates when it opens, so a file is torn from the start of
its write until the end. `job` is the `takeSnapshot` in progress, `recovery` the
`recover` in progress, `sweeps` the cleanup scans in a worker (their interval is
shorter than the task timeout, so two can overlap). A failed start goes through
`aborting`, the `stop()` call of `startWithRetry`, and back to `down`; the next
`start` is the retry or a new process, which behave alike. One RESTART is
recovered at a time. Snapshot ids follow creation order, i.e. the clock is
assumed not to step back. Replicated writes, capacity and restored versions are
not part of this module.

### Gateway

Each stretch of code between two awaits is an action. A poll cycle hands every
`pollOne` the status of that moment; several cycles can be outstanding
(`Cycles`), and each poll ends by an answer or a miss at any later time.
`request` is the progress of one client request through its candidates, whose
statuses are read once at the start; `late` are requests the abort timer gave
up and a node may still handle. A node is up, killed (it answers, but reports
DEAD and refuses cache requests) or down. Writes are numbered in the order in
which nodes apply them, so "newer" is a comparison of numbers. All requests are
about one key; `Candidates` is what the ring returns for it. `condemned` and
`faulted` are ghosts that remember which nodes missed enough checks, and which
suffered any fault.

### EvictionPolicy, LRU, LFU, CountMinSketch, TinyLFU and Eviction

`LRU` has every pointer assignment of the doubly linked list, `LFU` the
frequency map, the buckets and `minFrequency`, `CountMinSketch` the table with
saturation and aging (its field `truth` is a ghost: what each key would count
in a table of its own), `TinyLFU` is composed of the list and the sketch as in
the code. Where the code has one method name for three classes the operators
carry the policy's (`LruSeed`, `LfuSeed`, `TinySeed`). `Eviction` drives them from the operations of the store, with
switches between policies at any time; an inactive policy is garbage in the
program and shown as freshly reset. Entries have unit size here; sizes and
expiry are in `Storage`. LFU's choice among keys of equal frequency and the
order of equal `lastAccessedAt` in a seed are left open.

`RecencyOrder` says what a recency list promises without links: a use makes a
key the most recent, a removal keeps the order of the rest, only a switch may
start a new order. `RefinesRecency` (module `Eviction`) maps the list,
read from its tail, to that order.

### PolicySwitching

The write ratio is kept as one of the three classes the rules distinguish, a
moving average lies between its old value and the new one, frequency skew is
free. Time is the time since the last switch. `evaluate`, `getSignals` (GET
`/metrics/eviction`) and `pinPolicy` (POST `/internal/policy`) all empty the
window of the monitor, as `computeSignals` does. `elapsed`, `pinned` and `scan`
are ghosts.

### HashRing

`ringHash` is chosen in `Init` as any function of the virtual-node labels into
a small ring, so all arrangements and collisions occur. A ring is a record of
its points and its node infos; `addNode` removes the node if it is there,
appends its points and sorts, stably, by hash. The binary search narrows a
window once per step, and the walk visits each point once from the successor on;
both are recursive functions of the step number. Weights are percentages of
one. The status the ring stores for a node does not influence lookups; it is
a variable of `Gateway`.

## Runs

Passing:

| Run | Shows | Bounds |
|---|---|---|
| `storage` | byte counter and statistics exact, entry cap kept, evictions justified (a fitting write survives its own eviction loop, and nothing is evicted while there is room), expired entries reclaimed by the sweep | 3 keys for 2 slots, sizes 1, 2 and an oversized 4 under a byte cap of 3, TTLs 0 and 1, 3 creations: the caps are hit by count and by bytes |
| `pool` | pool size kept, no idle worker beside a queue, promises, pending table and placement agree; every submission settles, every stuck worker is freed | 4 tasks (2 of them stuck) on 2 workers, 2 crashes, both exit codes, one timeout for all tasks: queueing, replacement and draining all occur; other timer orders are covered by the proofs |
| `replication` | convergence, delivery, and that every newest write takes effect, for one writer | 2 nodes, 3 operations, 1 of: duplicate, rebalance, failed ack |
| `replication_faults` | acks are sound, waiters settle, no consumer gets stuck before an event | 2 nodes, 2 operations, any one fault, crashes and restarts included |
| `node` | readable pointer names a complete snapshot, startup serves it, the final snapshot is the state at stop, retention never takes too much; neither stop nor a snapshot hangs | 1 key, 1 PUT, 3 snapshots with retention 1, 3 faults of any kind: each snapshot holds the value or not, so old and new ones differ |
| `gateway` | DEAD only after enough misses, reads see acknowledged writes while the first candidate is sound, failures reach a client only if every candidate failed, no node handles a request twice | 2 nodes, a PUT and a GET, 2 overlapping poll cycles, thresholds 2 and 3, 1 fault: a node can die, come back and be condemned by old polls while a request fails over; more faults are covered by the proofs |
| `gateway_live` | every request ends; the statuses in the end follow what a node does | 1 node, 1 request, 2 poll cycles, 2 faults |
| `eviction` | list, buckets and sketch intact, victims coldest, the policy knows all held keys and agrees with the store's metadata, the list implements `RecencyOrder` | 3 keys for 2 slots, 2 uses of each, 2x2 sketch in which one key collides in both rows, aging every 3 additions, counters saturating at 4, all three policies |
| `switching` | history is a chain, pins hold, automatic switches keep the cooldown, lasting memory pressure ends in TinyLFU | windows of 2 operations, 2 samples before a switch, history of 2 |
| `ring` | the ring is determined by its members, binary search equals a linear scan, replica sets nest, only the keys of the node concerned move | 3 nodes with 1 or 2 virtual nodes on 3 positions, all hash functions: every lookup meets wraps and collisions |

Disagreements between the code and its own documents (each run violates one
property; `PROJECT.json` quotes the document):

| Run | What happens |
|---|---|
| `replication_crash` | after RESTART, events consumed since the snapshot are never seen again |
| `gateway_killed` | a killed node answers its polls, so its miss count is reset and it stays SUSPECT and in rotation for ever |

Further configurations are not among the runs of `PROJECT.json`. They reproduce
related disagreements by hand, with `tlc -config <name>.cfg <module>`; TLC
reports the named property violated.

| Configuration (module) | Property | What happens |
|---|---|---|
| `storage_bytecap` (`MCStorage`) | `HardByteCap` | the guard of `enforceCapacity` is compared with the shrinking map; the byte cap of `types.ts:33` is left exceeded |
| `pool_wedged` (`MCWorkerPool`) | `WorkerFreed` | with per-call timeouts, a task that timed out in the queue runs later without a timer and can hold its worker for ever |
| `replication_evict` (`MCReplication`) | `LastWriterWins` | node-local versions: after an eviction on the primary the replica refuses a newer write |
| `replication_delay` (`MCReplication`) | `LastWriterWins` | lowering the injected delay reorders two publishes and the stale one wins |
| `replication_redelivery` (`MCReplication`) | `LastWriterWins` | versions start again after a DELETE: PUT, PUT, DELETE, PUT and then the redelivered second PUT, whose version is the higher, replaces the newer value until the later events are redelivered too |
| `replication_timeout` (`MCReplication`) | `TimedOutNotLost` | an ack timeout does stand for a lost write when the publish failed |
| `replication_group` (`MCReplication`) | `Delivered` | the default consumer group is shared by all nodes |
| `node_stop` (`MCCacheNode`) | `CleanShutdownKeepsWrites` | stop during a periodic snapshot skips the final one |
| `node_restart` (`MCCacheNode`) | `RecoveryStartsEmpty` | a PUT lands between clear and restore |
| `node_sweep` (`MCCacheNode`) | `SweepOnlyExpired` | a key rewritten during the scan is deleted |
| `node_unverified` (`MCCacheNode`) | `UnverifiedNeverServes` | a failed RESTART leaves the node serving from empty storage |
| `node_retention` (`MCCacheNode`) | `RetentionBounded` | one torn metadata file stops pruning for good |
| `gateway_hysteresis` (`MCGateway`) | `Hysteresis` | a late poll writes back DEAD, so a node that has just recovered leaves after one miss |
| `gateway_forward` (`MCGateway`) | `ForwardsToLive` | statuses are read once, so a failover still tries a node that became DEAD meanwhile |
| `eviction_seed` (`MCEviction`) | `SeedKeepsOrder` | a seed orders by `lastAccessedAt`, which an overwrite does not change, so a switch can reorder the list |
| `switching_observed` (`MCPolicySwitching`) | `ScanDetected` | reading `/metrics/eviction` empties the window, and the next evaluation does not see the scan |

Deadlock is checked in the storage, eviction, switching and ring runs. The
other systems may stop: a pool, a gateway or a cluster with no more client
operations waits, and the bounds on operations, snapshots and faults end the
exploration.

### Fairness

* `storage`: the sweep runs from an interval timer.
* `pool` and `pool_wedged`: timers fire, workers that are not stuck answer,
  and terminating workers ends.
* `replication_faults`: delays and ack timers fire, sends end, consumers poll.
* `node`: worker tasks end (the pool's own liveness), file operations end,
  stop and connecting run to completion.
* `gateway_live` and `gateway_killed`: the poll interval fires, a request or
  poll in flight is answered or ended by its abort timer, a node that is up
  handles what reaches it. The abort timer covers the response headers; that
  the body then arrives or its connection fails is an assumption.
* `switching`: the evaluation interval fires and time passes.

Clients, signals, periodic snapshots and faults are never assumed to happen.

## Proofs

All theorems hold for every value of the constants that satisfies the `ASSUME`
of the module, which TLC evaluates on each run; what a theorem assumes beyond
that stands in its statement. The type invariants (`TypeOK`) of the modules with
proofs are proved and not repeated in the runs; those of `Storage`, `Eviction`
and `HashRing` are part of `Accounting`, `StructuresIntact` and
`RingFromMembers`.

* `WorkerPoolProofs`: `PoolTypes`, `PoolWorkConserving`, `PoolPromiseTracked`,
  `PoolPlacedOnce`, `PoolTasksTracked`, `PoolSizeKept`. The inductive invariant
  adds that an unsubmitted task is nowhere (so that a submission cannot place it
  twice) and that a disposed pool holds nothing. Since every handler ends in
  `drainQueueTo` or `replaceWorker`, lemmas about those two carry the proof. The
  size of the pool is a separate step on cardinalities.
* `StorageProofs`: `AccountsAreExact`, `EntryCapIsKept`, `EvictionIsJustified`.
  The byte counter is compared with a sum over the map, a fold over a finite
  set; lemmas say what adding, replacing and removing an entry does to that sum.
  The eviction loop is a recursive function on what is left to evict: its
  results are finite, keep the counter exact, and only lose entries while a cap
  is exceeded.
* `ReplicationProofs`, without further assumptions: `ReplicationTypes`,
  `AcksAreSound`. An ack is sound when it is counted because it was when it was
  published, so the invariant says the same of every ack in the log and of the
  ack a consumer is publishing. All actions only let `handled`, `events` and the
  logs grow; that step relation is proved per action once, and soundness follows
  from it.
* `ReplicationProofs`, for a consumer group per node and without process crashes
  (with either, `Delivered` is false): `EventsAreDelivered`. The invariant
  `Consumed` says that what lies behind an offset was handled, and so was the
  message at the offset while its ack is published; each action moves an offset
  back or past one message that was handled.
* `ReplicationProofs`, under `Benign`: `ReplicasConverge`,
  `NewestWritesTakeEffect`, for any number of nodes, keys, operations and
  faults. `Benign` allows duplicated sends, failed acks and redeliveries, and
  asks for one writer per key, a consumer group per node and stores that are
  never full. Each part is needed: the configurations above and
  `replication_crash` show what happens without it. The invariant `CInv` has two
  halves. `PInv` follows an operation to the topic: a node publishes its
  operations in the order of acceptance, so a partition holds them in that
  order, repeats included, and none is missing. The other half follows it into
  the stores: versions count the PUTs since the last DELETE, the writer holds
  what the last operation left, and a replica holds what some operation left
  that it has handled and that is no older than all it has applied, unless a
  DELETE it handled before is still to come again. That exception is what
  redelivery makes of a replica, and it is gone once the consumer has caught up.
* `CacheNodeProofs`: `NodeTypes`, `PointerIsComplete`, `StartIsFaithful`,
  `FinalSnapshotIsKept`, `RetentionIsKept`. The invariant ties the progress of
  `takeSnapshot` to the files on disk: while files are written the pointer names
  another snapshot; the pointer is torn until both are complete; the snapshot
  just named is the newest listed, so it is never past retention. Before a start
  ends, no snapshot and no sweep runs and storage is still empty. For the final
  snapshot, what was captured and what reaches the data file stay equal to the
  contents of storage when stop was called. For retention, every snapshot that
  pruning is about to delete, or began to delete before it was cut short, is
  older than `MaxRetained` complete ones; the list finds no torn metadata, so
  what it counts is complete or itself such a leftover, and deletion goes from
  newest to oldest.
* `GatewayProofs`: `GatewayTypes`, `DeadIsEarned`, `FailoverMasks`,
  `ReadsAreFresh`, `RequestsHandledOnce`, for any nodes, requests, thresholds
  and number of overlapping polls. The invariant says that whatever counts
  against a node (a miss, a DEAD status, also one in the hands of an outstanding
  poll) goes back to a fault of its own; that candidates a request has passed by
  are faulted; that nodes which handled a request, may handle it late, or are
  still to be asked are different; and that the first candidate, while it works,
  has every acknowledged write.
* `PolicySwitchingProofs`: `SwitchingTypes`, `HistoryIsChain`, `PinIsKept`,
  `SwitchesSpaced`. Besides the properties the invariant says that a pin pauses
  automatic switching and that the cooldown clock is the time since the last
  event, also one an operator caused.
* `EvictionProofs`: `StructuresStayIntact`, `SketchStaysSound`, `RoomIsMade`,
  `PolicyAlwaysAgrees`, `VictimIsColdest`, `ListImplementsRecency`, for any
  keys, capacity, hash, sketch size, saturation and aging threshold, and any mix
  of operations and switches. A list is intact when its links, head and tail
  spell a total order of its keys; `unlink` and `pushFront` each preserve that,
  and walking the list enumerates the order. A sketch is sound when each cell is
  at least the count of every key hashed to it, and equal to it for a key that
  is alone. LFU's map, buckets and `minFrequency` agree. `PolicyOK` says this of
  the active policy, and `Agree` that it knows exactly the keys the store holds,
  with the frequencies and the order of the store's metadata; seeding after a
  switch establishes both by iteration over the entries. The refinement needs no
  more: what a use or a removal does to the order the list spells is what
  `RecencyOrder` allows, and a victim is never the key just written.
* `HashRingProofs`: `RingIsDetermined`, `LookupsFindTheSuccessor`,
  `ReplicasAreNested`, `KeysMoveOnlyWithTheirNode`, for any finite set of nodes,
  bounded weights, positions and hash. The invariant `Canonical` says that the
  array holds exactly the virtual nodes of the members, ordered by hash and, on
  a collision, by the order in which the nodes joined. Such an array is unique,
  so it does not depend on the history. The window of the binary search always
  contains the successor and shrinks. The walk from the successor visits the
  points in clockwise order; what it collects is determined by that order, which
  adding or removing a node leaves alone for the points of the others.

Induction over data enters through well-founded minimality (`WFMin` over the
natural numbers and over finite sets): a least counterexample is named and
refuted. Two lemmas, `Induction` on sets of numbers and `Iteration` on functions
defined step by step, package that argument.

Only model-checked: all liveness, which the prover does not do.

## Not modelled

Metrics (rate counter, histogram and aggregation are only reported; nothing in
the system decides by them), benchmark engine and dashboard (outside the system
or display only), logging, configuration parsing other than the consumer group
default, JSON and gzip encoding (the checksum is modelled as telling whole from
torn files), the arithmetic of the hash functions (rings and sketches are
checked for any function), the Gini coefficient of frequency skew (its outcome
is left open), the bulk recovery client (nothing calls it), routes that only
read, HTTP itself. Several writers of one key, as they arise when the gateway
fails over, are not composed with `Replication`: versions are local to a node,
so the code promises nothing about their order.
