----------------------------- MODULE Replication -----------------------------
(***************************************************************************)
(* Primary/replica replication of a FlowCache cluster: the PUT and DELETE  *)
(* routes of a cache node, ReplicationEngine on both sides of the topic    *)
(* cache.replication, the version check that CacheNodeServer makes before  *)
(* it applies a replicated write, the fault injector's hooks in that path, *)
(* and what a restart keeps.  Kafka is external: one ordered log per key   *)
(* (the key is the partition key), consumed at least once.                 *)
(*                                                                         *)
(* A client operation is numbered when its node accepts it.  The number    *)
(* stands for the event id and for the value written, so that a larger     *)
(* number is a more recent value.  TTLs are left to module Storage.        *)
(***************************************************************************)
EXTENDS Naturals, Sequences, FiniteSets

CONSTANTS
  Nodes,
  Keys,
  ReplicaNodeIds,  \* key -> the nodes the ring names for it
  Writers,         \* key -> the nodes clients' requests for it reach
  Assigned,        \* node -> partitions its consumer group gives it: every
                   \* key when each node has a group of its own
  Capacity,        \* entries of unit size that fit in maxMemoryBytes
  NoAck,           \* the consumer of a node is not publishing an ack
  FaultKinds,      \* what may go wrong, see Fault
  MaxOps,          \* bound on accepted client operations
  MaxFaults        \* bound on faults

Delays == {0, 1}   \* replicationDelayMs: none, or some

AllFaultKinds == {"lost", "duplicated", "reordered", "ackFails", "rewind",
                  "drop", "delay", "crash", "restart"}

ASSUME ReplicationAssumption ==
  /\ ReplicaNodeIds \in [Keys -> SUBSET Nodes]
  /\ Writers \in [Keys -> SUBSET Nodes]
  /\ Assigned \in [Nodes -> SUBSET Keys]
  /\ Capacity \in Nat \ {0}
  /\ NoAck \notin [id : Nat, key : Keys]
  /\ FaultKinds \subseteq AllFaultKinds
  /\ MaxOps \in Nat
  /\ MaxFaults \in Nat

VARIABLES
  events,      \* every accepted client operation; its index is the event id
  store,       \* node -> its StorageEngine: key -> [val, ver], partial
  delaying,    \* node -> operations in replicate*WithFaults: <<id, delay>>
  publishing,  \* node -> ids whose publish is in flight
  pendingAcks, \* node -> ids with an ack waiter
  ackedBy,     \* id -> the nodes whose ack the waiter counted
  timedOut,    \* ids whose waiter was resolved by the ack timeout
  log,         \* key -> messages of its partition
  offset,      \* node -> key -> messages handled
  acking,      \* node -> the event whose ack it is publishing
  handled,     \* pairs <<node, id>>: events a target node has handled
  fault,       \* node -> [delay, drop] of its FaultInjector
  snap,        \* node -> entries of its latest snapshot: key -> val, partial
  faults       \* faults so far

vars == <<events, store, delaying, publishing, pendingAcks, ackedBy, timedOut,
          log, offset, acking, handled, fault, snap, faults>>

\* Groups of variables that many actions leave alone.
publisher == <<delaying, publishing, pendingAcks, ackedBy, timedOut>>
consumer == <<offset, acking, handled>>

NoEntries == [k \in {} |-> 0]
NoFault == [delay |-> 0, drop |-> FALSE]

Init ==
  /\ events = <<>>
  /\ store = [n \in Nodes |-> NoEntries]
  /\ delaying = [n \in Nodes |-> <<>>]
  /\ publishing = [n \in Nodes |-> <<>>]
  /\ pendingAcks = [n \in Nodes |-> {}]
  /\ ackedBy = [id \in 1 .. MaxOps |-> {}]
  /\ timedOut = {}
  /\ log = [k \in Keys |-> <<>>]
  /\ offset = [n \in Nodes |-> [k \in Keys |-> 0]]
  /\ acking = [n \in Nodes |-> NoAck]
  /\ handled = {}
  /\ fault = [n \in Nodes |-> NoFault]
  /\ snap = [n \in Nodes |-> NoEntries]
  /\ faults = 0

\* One of the faults the environment may still inject.
Fault(kind) ==
  /\ kind \in FaultKinds
  /\ faults < MaxFaults
  /\ faults' = faults + 1

-----------------------------------------------------------------------------
(* StorageEngine, as far as replication sees it *)

Put(s, k, entry) ==
  [x \in DOMAIN s \cup {k} |-> IF x = k THEN entry ELSE s[x]]
Drop(s, k) == [x \in DOMAIN s \ {k} |-> s[x]]

VersionAfter(s, k) == IF k \in DOMAIN s THEN s[k].ver + 1 ELSE 1

\* The possible stores after set: entries of unit size, so at most one victim,
\* chosen by the eviction policy among the other keys.
set(s, k, val) ==
  LET written == Put(s, k, [val |-> val, ver |-> VersionAfter(s, k)]) IN
  IF Cardinality(DOMAIN written) <= Capacity
  THEN {written}
  ELSE {Drop(written, victim) : victim \in
          IF DOMAIN written = {k} THEN {k} ELSE DOMAIN written \ {k}}

-----------------------------------------------------------------------------
(* Client operations *)

targetNodeIds(id) == ReplicaNodeIds[events[id].key] \ {events[id].sourceNodeId}

RemoveAt(s, i) == [j \in 1 .. Len(s) - 1 |-> IF j < i THEN s[j] ELSE s[j + 1]]

\* replicateWriteWithFaults, replicateDeleteWithFaults up to the delay: the
\* event of the operation is dropped or starts to wait out the delay.
replicateWithFaults(n, event) ==
  /\ events' = Append(events, event)
  /\ \/ delaying' = [delaying EXCEPT ![n] =
                       Append(@, <<Len(events) + 1, fault[n].delay>>)]
     \/ fault[n].drop /\ UNCHANGED delaying

PUT(n, k) ==
  /\ Len(events) < MaxOps
  /\ \E s \in set(store[n], k, Len(events) + 1) :
       store' = [store EXCEPT ![n] = s]
  /\ replicateWithFaults(n, [sourceNodeId |-> n, key |-> k, op |-> "PUT",
                             version |-> VersionAfter(store[n], k)])
  /\ UNCHANGED <<publishing, pendingAcks, ackedBy, timedOut, log, consumer,
                 fault, snap, faults>>

\* A DELETE of an absent key changes nothing and replicates nothing.
DELETE(n, k) ==
  /\ Len(events) < MaxOps
  /\ k \in DOMAIN store[n]
  /\ store' = [store EXCEPT ![n] = Drop(@, k)]
  /\ replicateWithFaults(n, [sourceNodeId |-> n, key |-> k, op |-> "DELETE",
                             version |-> 0])
  /\ UNCHANGED <<publishing, pendingAcks, ackedBy, timedOut, log, consumer,
                 fault, snap, faults>>

-----------------------------------------------------------------------------
(* ReplicationEngine, primary side *)

\* The operations of n whose delay may be over: timers of one duration fire
\* in order, a shorter one may overtake.
DelayAnyOver(n) == 1 .. Len(delaying[n])
DelayOver(n) ==
  {i \in 1 .. Len(delaying[n]) :
     \A j \in 1 .. i - 1 : delaying[n][j][2] > delaying[n][i][2]}

\* replicate, when the delay is over.  Without targets nothing is published.
replicate(n) ==
  \E i \in DelayOver(n) :
    LET id == delaying[n][i][1] IN
    /\ delaying' = [delaying EXCEPT ![n] = RemoveAt(@, i)]
    /\ IF targetNodeIds(id) = {}
       THEN UNCHANGED <<pendingAcks, publishing>>
       ELSE /\ pendingAcks' = [pendingAcks EXCEPT ![n] = @ \cup {id}]
            /\ publishing' = [publishing EXCEPT ![n] = Append(@, id)]
    /\ UNCHANGED <<events, store, ackedBy, timedOut, log, consumer, fault, snap,
                   faults>>

EventMessage(id) == [kind |-> "event", id |-> id]
AckMessage(id, n) == [kind |-> "ack", id |-> id, replicaNodeId |-> n]

Produce(k, msg) == log' = [log EXCEPT ![k] = Append(@, msg)]

\* producer.send: it succeeds in order; a retry may let a later send overtake,
\* or write the message twice; after the last retry it fails.
publish(n) ==
  /\ publishing[n] # <<>>
  /\ Produce(events[Head(publishing[n])].key, EventMessage(Head(publishing[n])))
  /\ publishing' = [publishing EXCEPT ![n] = Tail(@)]
  /\ UNCHANGED <<events, store, delaying, pendingAcks, ackedBy, timedOut,
                 consumer, fault, snap, faults>>

publishOvertakes(n) ==
  /\ \E i \in 2 .. Len(publishing[n]) :
       LET id == publishing[n][i] IN
       /\ Produce(events[id].key, EventMessage(id))
       /\ publishing' = [publishing EXCEPT ![n] = RemoveAt(@, i)]
  /\ Fault("reordered")
  /\ UNCHANGED <<events, store, delaying, pendingAcks, ackedBy, timedOut,
                 consumer, fault, snap>>

publishTwice(n) ==
  /\ publishing[n] # <<>>
  /\ Produce(events[Head(publishing[n])].key, EventMessage(Head(publishing[n])))
  /\ Fault("duplicated")
  /\ UNCHANGED <<events, store, publisher, consumer, fault, snap>>

publishFails(n) ==
  /\ publishing[n] # <<>>
  /\ publishing' = [publishing EXCEPT ![n] = Tail(@)]
  /\ Fault("lost")
  /\ UNCHANGED <<events, store, delaying, pendingAcks, ackedBy, timedOut, log,
                 consumer, fault, snap>>

\* The ack timer of an event.
TimeoutKeepsWaiter(n, id) ==
  /\ id \in pendingAcks[n]
  /\ timedOut' = timedOut \cup {id}
  /\ UNCHANGED <<events, store, delaying, publishing, pendingAcks, ackedBy, log,
                 consumer, fault, snap, faults>>
ackTimeout(n, id) ==
  /\ id \in pendingAcks[n]
  /\ pendingAcks' = [pendingAcks EXCEPT ![n] = @ \ {id}]
  /\ timedOut' = timedOut \cup {id}
  /\ UNCHANGED <<events, store, delaying, publishing, ackedBy, log, consumer,
                 fault, snap, faults>>

-----------------------------------------------------------------------------
(* ReplicationEngine, consumer side *)

\* The consumer of n is handed the next message of partition k.
Receives(n, k, kind) ==
  /\ k \in Assigned[n]
  /\ acking[n] = NoAck
  /\ offset[n][k] < Len(log[k])
  /\ log[k][offset[n][k] + 1].kind = kind

NextMessage(n, k) == log[k][offset[n][k] + 1]

Advance(n, k) == offset' = [offset EXCEPT ![n][k] = @ + 1]

\* The stores after applyRemoteWrite: the incoming write is ignored unless its
\* version exceeds that of the local entry, and gets a local version.
applyRemoteWrite(s, id) ==
  LET k == events[id].key IN
  IF k \in DOMAIN s /\ s[k].ver >= events[id].version THEN {s} ELSE set(s, k, id)

applyRemoteDelete(s, id) == {Drop(s, events[id].key)}

Applied(s, id) ==
  IF events[id].op = "PUT" THEN applyRemoteWrite(s, id) ELSE applyRemoteDelete(s, id)

\* A node that is not a target ignores the event; a target applies it and
\* starts to publish its ack, which the consumer loop awaits.
VersionCheckedFirst(n, k) ==
  /\ Receives(n, k, "event")
  /\ LET id == NextMessage(n, k).id IN
     IF \/ n \notin targetNodeIds(id)
        \/ k \in DOMAIN store[n] /\ store[n][k].ver >= events[id].version
     THEN Advance(n, k) /\ UNCHANGED <<store, acking, handled>>
     ELSE /\ \E s \in Applied(store[n], id) : store' = [store EXCEPT ![n] = s]
          /\ handled' = handled \cup {<<n, id>>}
          /\ acking' = [acking EXCEPT ![n] = [id |-> id, key |-> k]]
          /\ UNCHANGED offset
  /\ UNCHANGED <<events, publisher, log, fault, snap, faults>>
handleReplicationEvent(n, k) ==
  /\ Receives(n, k, "event")
  /\ LET id == NextMessage(n, k).id IN
     \/ /\ n \notin targetNodeIds(id)
        /\ Advance(n, k)
        /\ UNCHANGED <<store, acking, handled>>
     \/ /\ n \in targetNodeIds(id)
        /\ \E s \in Applied(store[n], id) : store' = [store EXCEPT ![n] = s]
        /\ handled' = handled \cup {<<n, id>>}
        /\ acking' = [acking EXCEPT ![n] = [id |-> id, key |-> k]]
        /\ UNCHANGED offset
  /\ UNCHANGED <<events, publisher, log, fault, snap, faults>>

ackPublished(n) ==
  /\ acking[n] # NoAck
  /\ Produce(acking[n].key, AckMessage(acking[n].id, n))
  /\ Advance(n, acking[n].key)
  /\ acking' = [acking EXCEPT ![n] = NoAck]
  /\ UNCHANGED <<events, store, publisher, handled, fault, snap, faults>>

\* The handler rejects, so the consumer fetches the event again.
ackFails(n) ==
  /\ acking[n] # NoAck
  /\ acking' = [acking EXCEPT ![n] = NoAck]
  /\ Fault("ackFails")
  /\ UNCHANGED <<events, store, publisher, log, offset, handled,
                 fault, snap>>

\* Only the node that waits for the event counts the ack, and it stops waiting
\* when every target has acked.
AckFromAny(n, k) ==
  /\ Receives(n, k, "ack")
  /\ LET ack == NextMessage(n, k) IN
     IF ack.id \in pendingAcks[n]
     THEN /\ ackedBy' = [ackedBy EXCEPT ![ack.id] = @ \cup {n}]
          /\ pendingAcks' = [pendingAcks EXCEPT ![n] = @ \ {ack.id}]
     ELSE UNCHANGED <<ackedBy, pendingAcks>>
  /\ Advance(n, k)
  /\ UNCHANGED <<events, store, delaying, publishing, timedOut, log, acking,
                 handled, fault, snap, faults>>
UnknownAckRejected(n, k) ==
  /\ Receives(n, k, "ack")
  /\ LET ack == NextMessage(n, k) IN
     /\ ack.id \in pendingAcks[n]
     /\ ackedBy' = [ackedBy EXCEPT ![ack.id] = @ \cup {ack.replicaNodeId}]
     /\ pendingAcks' =
          IF targetNodeIds(ack.id) \subseteq ackedBy'[ack.id]
          THEN [pendingAcks EXCEPT ![n] = @ \ {ack.id}] ELSE pendingAcks
  /\ Advance(n, k)
  /\ UNCHANGED <<events, store, delaying, publishing, timedOut, log, acking,
                 handled, fault, snap, faults>>
handleAck(n, k) ==
  /\ Receives(n, k, "ack")
  /\ LET ack == NextMessage(n, k) IN
     \/ /\ ack.id \in pendingAcks[n]
        /\ ackedBy' = [ackedBy EXCEPT ![ack.id] = @ \cup {ack.replicaNodeId}]
        /\ pendingAcks' =
             IF targetNodeIds(ack.id) \subseteq ackedBy'[ack.id]
             THEN [pendingAcks EXCEPT ![n] = @ \ {ack.id}] ELSE pendingAcks
     \/ /\ ack.id \notin pendingAcks[n]
        /\ UNCHANGED <<ackedBy, pendingAcks>>
  /\ Advance(n, k)
  /\ UNCHANGED <<events, store, delaying, publishing, timedOut, log, acking,
                 handled, fault, snap, faults>>

-----------------------------------------------------------------------------
(* Kafka consumer groups *)

\* Offsets are committed in the background, some time after a message was
\* handled: the last commit is any offset up to the current one.
Committed(n) ==
  {o \in [Keys -> UNION {0 .. offset[n][k] : k \in Keys}] :
     \A k \in Keys : o[k] <= offset[n][k]}

\* The group rebalances: the consumer falls back to its committed offsets.
rewind(n) ==
  /\ \E o \in Committed(n) : offset' = [offset EXCEPT ![n] = o]
  /\ acking' = [acking EXCEPT ![n] = NoAck]
  /\ Fault("rewind")
  /\ UNCHANGED <<events, store, publisher, log, handled, fault, snap>>

\* A consumer whose group has committed nothing starts at the end of the
\* partitions (fromBeginning: false).
AtEnd == [k \in Keys |-> Len(log[k])]

-----------------------------------------------------------------------------
(* Fault injector, snapshots and restarts *)

DELAY_REPLICATION(n, delay) ==
  /\ fault' = [fault EXCEPT ![n].delay = delay]
  /\ Fault("delay")
  /\ UNCHANGED <<events, store, publisher, log, consumer, snap>>

DROP_MESSAGES(n, drop) ==
  /\ fault' = [fault EXCEPT ![n].drop = drop]
  /\ Fault("drop")
  /\ UNCHANGED <<events, store, publisher, log, consumer, snap>>

\* A periodic snapshot; module CacheNode has its steps.
takeSnapshot(n) ==
  /\ {"crash", "restart"} \cap FaultKinds # {}
  /\ snap' = [snap EXCEPT ![n] = [k \in DOMAIN store[n] |-> store[n][k].val]]
  /\ snap'[n] # snap[n]
  /\ UNCHANGED <<events, store, publisher, log, consumer, fault, faults>>

\* recover: the entries of the snapshot, each written by storage.set into the
\* cleared storage.
recover(n) ==
  store' = [store EXCEPT ![n] =
              [k \in DOMAIN snap[n] |-> [val |-> snap[n][k], ver |-> 1]]]

\* The fault injector's RESTART: recovery inside the running process.
handleRestart(n) ==
  /\ recover(n)
  /\ fault' = [fault EXCEPT ![n] = NoFault]
  /\ Fault("restart")
  /\ UNCHANGED <<events, publisher, log, consumer, snap>>

\* The process dies and a new one starts.
crash(n) ==
  /\ recover(n)
  /\ delaying' = [delaying EXCEPT ![n] = <<>>]
  /\ publishing' = [publishing EXCEPT ![n] = <<>>]
  /\ pendingAcks' = [pendingAcks EXCEPT ![n] = {}]
  /\ \E o \in Committed(n) \cup {AtEnd} : offset' = [offset EXCEPT ![n] = o]
  /\ acking' = [acking EXCEPT ![n] = NoAck]
  /\ fault' = [fault EXCEPT ![n] = NoFault]
  /\ Fault("crash")
  /\ UNCHANGED <<events, ackedBy, timedOut, log, handled, snap>>

Next ==
  \/ \E k \in Keys : \E n \in Writers[k] : PUT(n, k) \/ DELETE(n, k)
  \/ \E n \in Nodes :
       \/ replicate(n)
       \/ publish(n)
       \/ publishOvertakes(n)
       \/ publishTwice(n)
       \/ publishFails(n)
       \/ \E id \in pendingAcks[n] : ackTimeout(n, id)
       \/ \E k \in Keys :
            handleReplicationEvent(n, k) \/ handleAck(n, k)
       \/ ackPublished(n)
       \/ ackFails(n)
       \/ rewind(n)
       \/ \E delay \in Delays : DELAY_REPLICATION(n, delay)
       \/ \E drop \in BOOLEAN : DROP_MESSAGES(n, drop)
       \/ takeSnapshot(n)
       \/ handleRestart(n)
       \/ crash(n)

Spec == Init /\ [][Next]_vars

\* Timers fire, sends end and consumers poll; clients and faults are the
\* environment's choice.
Fairness ==
  \A n \in Nodes :
    /\ WF_vars(replicate(n))
    /\ WF_vars(publish(n))
    /\ \A id \in 1 .. MaxOps : WF_vars(ackTimeout(n, id))
    /\ \A k \in Keys :
         WF_vars(handleReplicationEvent(n, k)) /\ WF_vars(handleAck(n, k))
    /\ WF_vars(ackPublished(n))

FairSpec == Spec /\ Fairness

-----------------------------------------------------------------------------
(* Properties *)

EventIds == 1 .. Len(events)
OpIds == 1 .. MaxOps

Operations == [sourceNodeId : Nodes, key : Keys, op : {"PUT", "DELETE"},
               version : Nat]
Entries == [val : Nat, ver : Nat \ {0}]
IsStore(s) == DOMAIN s \subseteq Keys /\ s \in [DOMAIN s -> Entries]
IsSnapshot(s) == DOMAIN s \subseteq Keys /\ s \in [DOMAIN s -> Nat]
Messages == [kind : {"event"}, id : OpIds] \cup
            [kind : {"ack"}, id : OpIds, replicaNodeId : Nodes]

\* Every variable has its type.
TypeOK ==
  /\ events \in Seq(Operations) /\ Len(events) <= MaxOps
  /\ store = [n \in Nodes |-> store[n]] /\ \A n \in Nodes : IsStore(store[n])
  /\ delaying \in [Nodes -> Seq(OpIds \X Delays)]
  /\ publishing \in [Nodes -> Seq(OpIds)]
  /\ pendingAcks \in [Nodes -> SUBSET OpIds]
  /\ ackedBy \in [OpIds -> SUBSET Nodes]
  /\ timedOut \subseteq OpIds
  /\ log \in [Keys -> Seq(Messages)]
  /\ offset \in [Nodes -> [Keys -> Nat]]
  /\ acking \in [Nodes -> {NoAck} \cup [id : OpIds, key : Keys]]
  /\ handled \subseteq Nodes \X OpIds
  /\ fault \in [Nodes -> [delay : Delays, drop : BOOLEAN]]
  /\ snap = [n \in Nodes |-> snap[n]] /\ \A n \in Nodes : IsSnapshot(snap[n])
  /\ faults \in Nat

Logged(id) ==
  \E i \in 1 .. Len(log[events[id].key]) :
    log[events[id].key][i] = EventMessage(id)

\* Nothing is on its way: no delay, send or ack is outstanding and every
\* consumer has reached the end of its partitions.
Quiescent ==
  \A n \in Nodes :
    /\ delaying[n] = <<>> /\ publishing[n] = <<>> /\ acking[n] = NoAck
    /\ \A k \in Assigned[n] : offset[n][k] = Len(log[k])

Value(n, k) == IF k \in DOMAIN store[n] THEN store[n][k].val ELSE 0

\* The node ids replicateWrite and replicateDelete resolve with are targets
\* of the event, and each of them has handled it, whatever is lost,
\* duplicated, redelivered or restarted in between.
AckSound ==
  \A id \in EventIds :
    \A r \in ackedBy[id] : r \in targetNodeIds(id) /\ <<r, id>> \in handled

\* ReplicationEngine.ts:13-17: every event on the topic has been handled by
\* each of its targets once the consumers have caught up.
Delivered ==
  Quiescent =>
    \A id \in EventIds : Logged(id) =>
      \A r \in targetNodeIds(id) : <<r, id>> \in handled

\* Once every accepted operation has been published and the consumers have
\* caught up, replicas hold what the node that took the writes holds.
Converged ==
  Quiescent /\ (\A id \in EventIds : Logged(id)) =>
    \A k \in Keys : \A r \in ReplicaNodeIds[k], w \in Writers[k] :
      Value(r, k) = Value(w, k)

\* CacheNodeServer.ts:264-267, "Last-writer-wins": handling a replicated PUT
\* leaves the newer of the incoming and the existing value in place.
LastWriterWins ==
  [][\A n \in Nodes, k \in Keys :
       handleReplicationEvent(n, k) =>
         LET id == NextMessage(n, k).id IN
         n \in targetNodeIds(id) /\ events[id].op = "PUT" =>
           Value(n, k)' = IF Value(n, k) > id THEN Value(n, k) ELSE id]_vars

\* A replicated PUT that is newer than every operation on the key the target
\* has handled takes effect: the version check, whose versions start again
\* after a DELETE, ignores none of them.
NewestWriteApplied ==
  [][\A n \in Nodes, k \in Keys :
       handleReplicationEvent(n, k) =>
         LET id == NextMessage(n, k).id IN
         /\ n \in targetNodeIds(id) /\ events[id].op = "PUT"
         /\ \A i \in EventIds : <<n, i>> \in handled /\ events[i].key = k => i <= id
         => Value(n, k)' = id]_vars

\* RecoveryEngine.ts:5-12 and README.md:451-455: after a restart a node catches
\* up from the topic, so once consumers reach the end of the log a replica
\* holds the value of the last PUT published for a key.
CaughtUp ==
  Quiescent =>
    \A id \in EventIds :
      /\ Logged(id) /\ events[id].op = "PUT"
      /\ \A later \in id + 1 .. Len(events) : events[later].key # events[id].key
      => \A r \in targetNodeIds(id) : Value(r, events[id].key) = id

\* ReplicationEngine.ts:166-169: an ack timeout "means 'replication is
\* lagging,' not 'the write was lost.'": the event of a waiter that timed out
\* is in the topic or still on its way there.
TimedOutNotLost ==
  \A id \in timedOut :
    \/ Logged(id)
    \/ \E n \in Nodes, i \in 1 .. MaxOps :
         i <= Len(publishing[n]) /\ publishing[n][i] = id

\* Every promise of replicateWrite and replicateDelete settles, even if the
\* publish failed or a replica never acks.
EveryWaiterSettles ==
  \A n \in Nodes, id \in 1 .. MaxOps : id \in pendingAcks[n] ~> id \notin pendingAcks[n]

\* No consumer gets stuck: every event that reaches the topic is in the end
\* behind the offset of each target, whatever fails once.  By Delivered the
\* target has then handled it, unless a crash made it start at the end.
EventReached ==
  \A id \in 1 .. MaxOps, r \in Nodes :
    id \in EventIds /\ Logged(id) /\ r \in targetNodeIds(id) ~>
      \E k \in Keys : \E i \in 1 .. offset[r][k] : log[k][i] = EventMessage(id)
=============================================================================
