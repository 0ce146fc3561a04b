-------------------------- MODULE ReplicationProofs --------------------------
(***************************************************************************)
(* Proofs about Replication for every cluster, every assignment of         *)
(* replicas, writers and partitions, every set of faults and every bound:  *)
(* acks are earned, and without the death of a process every event is      *)
(* delivered.  With one writer a key, sends that are in order and not      *)
(* lost, and room for every key, replicas converge to what the writer      *)
(* holds.                                                                  *)
(***************************************************************************)
EXTENDS Replication, TLAPS

\* A leaf is left to Zenon unless it names another prover.
USE ZenonT(30)

\* Equal or smaller is at most.
LEMMA AtMost ==
  ASSUME NEW a \in Nat, NEW b \in Nat, a < b \/ a = b
  PROVE  a <= b
BY SMT

\* At most is transitive.
LEMMA Through ==
  ASSUME NEW a \in Nat, NEW b \in Nat, NEW c \in Nat, a <= b, b <= c
  PROVE  a <= c
BY SMT

\* Two numbers at most each other are one.
LEMMA Antisymmetric ==
  ASSUME NEW a \in Nat, NEW b \in Nat, a <= b, b <= a
  PROVE  a = b
BY SMT

\* Zero is the least number.
LEMMA ZeroAtMost ==
  ASSUME NEW a \in Nat
  PROVE  0 <= a
BY SMT

\* Two numbers compare.
LEMMA Compared ==
  ASSUME NEW a \in Nat, NEW b \in Nat
  PROVE  a < b \/ a = b \/ b < a
BY SMT

\* Smaller goes one way.
LEMMA NotBoth ==
  ASSUME NEW a \in Nat, NEW b \in Nat, a < b
  PROVE  ~(b < a)
BY SMT

\* One more is larger, and the least that is.
LEMMA Successor ==
  ASSUME NEW a \in Nat
  PROVE  a + 1 \in Nat /\ ~(a >= a + 1) /\ \A b \in Nat : a < b => a + 1 <= b
BY SMT

\* A position up to p is before p or is p, and one after p - 1 is p or later.
LEMMA Position ==
  ASSUME NEW p \in Nat, NEW l \in Nat, NEW a \in 1 .. l
  PROVE  /\ a <= p => a < p \/ a = p
         /\ a <= p => a <= p - 1 \/ a = p
         /\ p - 1 < a => p < a \/ a = p
BY SMT

\* A position before the next message is behind the offset.
LEMMA Behind ==
  ASSUME NEW o \in Nat, NEW p, p = o + 1, NEW l \in Nat, NEW b \in 1 .. l, b < p
  PROVE  b \in 1 .. o /\ b <= p - 1
BY SMT

\* A position other than the next message is before or after it.
LEMMA Beyond ==
  ASSUME NEW o \in Nat, NEW l \in Nat, NEW a \in 1 .. l, a # o + 1
  PROVE  o + 1 < a \/ a <= o
BY SMT

\* A function is defined where it is said to be.
LEMMA FunctionDomain ==
  ASSUME NEW f, NEW S, f = [x \in S |-> f[x]]
  PROVE  DOMAIN f = S
BY SMT

\* Append leaves the elements before its own alone.
LEMMA AppendAt ==
  ASSUME NEW S, NEW s \in Seq(S), NEW e, NEW j \in 1 .. Len(Append(s, e)), j # Len(s) + 1
  PROVE  j \in 1 .. Len(s) /\ Append(s, e)[j] = s[j]
BY SMT

\* r is the sequence s with e added at its end.
Extended(s, e, r) ==
  /\ Len(s) \in Nat /\ Len(s) <= Len(r)
  /\ \A j \in 1 .. Len(s) : j \in 1 .. Len(r) /\ r[j] = s[j]
  /\ \A j \in 1 .. Len(r) : j \in 1 .. Len(s) \/ (j = Len(s) + 1 /\ r[j] = e)
  /\ Len(s) + 1 \in 1 .. Len(r) /\ r[Len(s) + 1] = e
  /\ \A j \in 1 .. Len(r) : ~(Len(s) + 1 < j)

\* That is what Append makes.
LEMMA AppendFacts ==
  ASSUME NEW S, NEW s \in Seq(S), NEW e
  PROVE  Extended(s, e, Append(s, e))
BY SMT DEF Extended

\* The fields of an operation.
LEMMA OperationFields ==
  ASSUME NEW e \in Operations
  PROVE  e.sourceNodeId \in Nodes /\ e.key \in Keys /\ e.version \in Nat
BY SMT DEF Operations

\* What a PUT and a DELETE record is an operation.
LEMMA OperationOf ==
  ASSUME NEW n \in Nodes, NEW k \in Keys, NEW v \in Nat
  PROVE  /\ [sourceNodeId |-> n, key |-> k, op |-> "PUT", version |-> v] \in Operations
         /\ [sourceNodeId |-> n, key |-> k, op |-> "DELETE", version |-> 0] \in Operations
BY SMT DEF Operations

\* The fields of an ack that is being published.
LEMMA AckFields ==
  ASSUME NEW a \in [id : OpIds, key : Keys]
  PROVE  a.id \in OpIds /\ a.key \in Keys
BY SMT

\* The fields of an event message.
LEMMA EventFields ==
  ASSUME NEW r, NEW id, r = EventMessage(id)
  PROVE  r.kind = "event" /\ r.id = id
BY SMT DEF EventMessage

\* Removing an element leaves a sequence of the same elements.
LEMMA RemoveAtType ==
  ASSUME NEW S, NEW s \in Seq(S), NEW i \in 1 .. Len(s)
  PROVE  /\ RemoveAt(s, i) \in Seq(S)
         /\ Len(RemoveAt(s, i)) = Len(s) - 1
         /\ \A j \in 1 .. Len(RemoveAt(s, i)) :
              \E m \in 1 .. Len(s) : RemoveAt(s, i)[j] = s[m]
<1> DEFINE r == [j \in 1 .. Len(s) - 1 |-> IF j < i THEN s[j] ELSE s[j + 1]]
<1>1. Len(s) - 1 \in Nat /\ Len(s) \in Nat /\ i \in Nat
  BY SMT
<1>2. \A j \in 1 .. Len(s) - 1 : j \in 1 .. Len(s) /\ j + 1 \in 1 .. Len(s)
  BY SMT, <1>1
<1>3. \A j \in 1 .. Len(s) - 1 : r[j] \in S
  BY SMT, <1>1, <1>2
<1>4. r \in Seq(S) /\ Len(r) = Len(s) - 1
  BY SMT, <1>1, <1>3
<1>5. \A j \in 1 .. Len(s) - 1 : \E m \in 1 .. Len(s) : r[j] = s[m]
  BY SMT, <1>2
<1>6. QED
  BY SMT, <1>4, <1>5 DEF RemoveAt

\* Removing a key from a store yields a store.
LEMMA DropType ==
  ASSUME NEW s, IsStore(s), NEW x
  PROVE  IsStore(Drop(s, x))
BY SMT DEF IsStore, Drop

\* So does set, whatever it evicts.
LEMMA SetType ==
  ASSUME NEW s, IsStore(s), NEW k \in Keys, NEW val \in Nat
  PROVE  /\ VersionAfter(s, k) \in Nat \ {0}
         /\ \A r \in set(s, k, val) : IsStore(r)
<1>1. VersionAfter(s, k) \in Nat \ {0}
  BY SMT DEF VersionAfter, Entries, IsStore
<1> DEFINE entry == [val |-> val, ver |-> VersionAfter(s, k)]
           written == Put(s, k, entry)
<1>2. IsStore(written)
  <2>1. entry \in Entries
    BY SMT, <1>1 DEF Entries
  <2> HIDE DEF entry
  <2>2. QED
    BY SMT, <2>1 DEF Put, IsStore
<1>3. ASSUME NEW r \in set(s, k, val)
      PROVE  r = written \/ \E x : r = Drop(written, x)
  BY SMT, <1>3 DEF set
<1> HIDE DEF written
<1>4. QED
  BY SMT, <1>1, <1>2, <1>3, DropType

\* What is waiting, in flight, in the log or being acked was accepted before,
\* and nobody has acked what was not.
Known ==
  /\ \A n \in Nodes : \A i \in 1 .. Len(delaying[n]) : delaying[n][i][1] \in EventIds
  /\ \A n \in Nodes : \A i \in 1 .. Len(publishing[n]) : publishing[n][i] \in EventIds
  /\ \A k \in Keys : \A i \in 1 .. Len(log[k]) : log[k][i].id \in EventIds
  /\ \A n \in Nodes : acking[n] # NoAck => acking[n].id \in EventIds
  /\ \A id \in OpIds \ EventIds : ackedBy[id] = {}

\* An ack in the topic, or about to be published, comes from a target that has
\* handled the event.
AcksEarned ==
  /\ \A k \in Keys : \A i \in 1 .. Len(log[k]) :
       log[k][i].kind = "ack" =>
         /\ log[k][i].replicaNodeId \in targetNodeIds(log[k][i].id)
         /\ <<log[k][i].replicaNodeId, log[k][i].id>> \in handled
  /\ \A n \in Nodes :
       acking[n] # NoAck =>
         n \in targetNodeIds(acking[n].id) /\ <<n, acking[n].id>> \in handled

IInv == TypeOK /\ Known /\ AcksEarned /\ AckSound

\* Ids that were accepted are in range.
LEMMA IdsInRange ==
  ASSUME TypeOK
  PROVE  EventIds \subseteq OpIds /\ \A id \in EventIds : events[id].key \in Keys
<1>1. EventIds \subseteq OpIds
  BY SMT, ReplicationAssumption DEF TypeOK, EventIds, OpIds
<1>2. \A id \in EventIds : events[id] \in Operations
  BY SMT DEF TypeOK, EventIds
<1>3. QED
  BY SMT, <1>1, <1>2 DEF Operations

-----------------------------------------------------------------------------
(* A consumer skips no event: what is behind its offset has been handled, if *)
(* it concerns the node.                                                     *)

\* n has handled the message, if it is an event that concerns n.
Done(n, msg) ==
  msg.kind = "event" /\ n \in targetNodeIds(msg.id) => <<n, msg.id>> \in handled

\* The same after a step.
DoneNext(n, msg) ==
  /\ msg.kind = "event"
  /\ n \in ReplicaNodeIds[events'[msg.id].key] \ {events'[msg.id].sourceNodeId}
  => <<n, msg.id>> \in handled'

\* There is a message at the offset of n in the partition, and it is done.
NextDone(n, k) ==
  offset[n][k] < Len(log[k]) /\ Done(n, log[k][offset[n][k] + 1])

\* The same after a step.
NextDoneNext(n, k) ==
  offset'[n][k] < Len(log'[k]) /\ DoneNext(n, log'[k][offset'[n][k] + 1])

\* What is behind the offset of a consumer is done, and so is the message at
\* the offset while its ack is being published.
Consumed ==
  /\ \A n \in Nodes, k \in Keys :
       /\ offset[n][k] <= Len(log[k])
       /\ \A i \in 1 .. offset[n][k] : Done(n, log[k][i])
  /\ \A n \in Nodes : acking[n] # NoAck => NextDone(n, acking[n].key)

\* Operations keep their records and partitions their messages.
Keeps ==
  /\ EventIds \subseteq EventIds' /\ \A id \in EventIds : events'[id] = events[id]
  /\ \A k \in Keys : /\ Len(log[k]) <= Len(log'[k])
                     /\ \A i \in 1 .. Len(log[k]) : log'[k][i] = log[k][i]
  /\ handled \subseteq handled'

\* Where a consumer may go: back, or past one message that is done.
Moves(n, k) ==
  \/ offset'[n][k] <= offset[n][k]
  \/ offset'[n][k] = offset[n][k] + 1 /\ NextDone(n, k)

\* The types the consumers' offsets and the partitions have after a step.
TypedNext ==
  /\ offset' \in [Nodes -> [Keys -> Nat]]
  /\ \A k \in Keys : Len(log'[k]) \in Nat

\* A produced message leaves the earlier ones alone.
LEMMA ProduceKeeps ==
  ASSUME TypeOK, NEW k \in Keys, NEW msg, Produce(k, msg)
  PROVE  \A x \in Keys : /\ Len(log[x]) <= Len(log'[x])
                         /\ \A i \in 1 .. Len(log[x]) : log'[x][i] = log[x][i]
<1> SUFFICES ASSUME NEW x \in Keys
             PROVE  /\ Len(log[x]) <= Len(log'[x])
                    /\ \A i \in 1 .. Len(log[x]) : log'[x][i] = log[x][i]
  OBVIOUS
<1>1. log[x] \in Seq(Messages) /\ log'[x] = IF x = k THEN Append(log[x], msg) ELSE log[x]
  BY SMT DEF Produce, TypeOK
<1>2. QED
  BY SMT, <1>1

\* Where Advance takes the offsets.
LEMMA AdvanceMoves ==
  ASSUME TypeOK, NEW n \in Nodes, NEW k \in Keys, Advance(n, k)
  PROVE  /\ offset'[n][k] = offset[n][k] + 1
         /\ \A x \in Keys \ {k} : offset'[n][x] = offset[n][x]
         /\ \A m \in Nodes \ {n} : offset'[m] = offset[m]
<1>1. offset \in [Nodes -> [Keys -> Nat]]
  BY SMT DEF TypeOK
<1>2. offset' = [offset EXCEPT ![n] = [offset[n] EXCEPT ![k] = offset[n][k] + 1]]
  BY SMT, <1>1 DEF Advance
<1>3. QED
  BY SMT, <1>1, <1>2

\* No consumer has moved yet.
LEMMA ConsumedInit ==
  ASSUME Init
  PROVE  Consumed
<1>1. /\ offset = [n \in Nodes |-> [k \in Keys |-> 0]] /\ log = [k \in Keys |-> <<>>]
      /\ acking = [n \in Nodes |-> NoAck]
  BY DEF Init
<1>2. \A n \in Nodes, k \in Keys : offset[n][k] = 0 /\ Len(log[k]) = 0
  BY SMT, <1>1
<1>3. \A n \in Nodes : acking[n] = NoAck
  BY SMT, <1>1
<1>4. QED
  BY SMT, <1>2, <1>3 DEF Consumed

\* Every step but the death of a process keeps what is behind the consumers done.
LEMMA ConsumedStep ==
  /\ "crash" \notin FaultKinds /\ IInv /\ TypedNext /\ Consumed /\ [Next]_vars
  => Consumed'
\* What is done stays done.
<1>DoneStable. ASSUME IInv, Keeps, NEW n \in Nodes, NEW k \in Keys, NEW i \in 1 .. Len(log[k]),
                      Done(n, log[k][i])
               PROVE  DoneNext(n, log'[k][i])
  <2> USE <1>DoneStable
  <2>1. log'[k][i] = log[k][i] /\ log[k][i].id \in EventIds
    BY SMT DEF IInv, Known, Keeps
  <2>2. events'[log[k][i].id] = events[log[k][i].id]
    BY SMTT(30), <2>1 DEF Keeps
  <2>3. QED
    BY <2>1, <2>2 DEF Done, DoneNext, Keeps, targetNodeIds
\* The message at an offset that does not move stays done.
<1>NextDoneStable. ASSUME IInv, Keeps, NEW n \in Nodes, NEW k \in Keys, NextDone(n, k),
                          offset'[n] = offset[n], offset[n][k] \in Nat,
                          Len(log[k]) \in Nat, Len(log'[k]) \in Nat
                   PROVE  NextDoneNext(n, k)
  <2> USE <1>NextDoneStable
  <2> DEFINE i == offset[n][k] + 1
  <2>1. offset[n][k] < Len(log[k]) /\ Done(n, log[k][i]) /\ Len(log[k]) <= Len(log'[k])
    BY DEF NextDone, Keeps
  <2>2. i \in 1 .. Len(log[k]) /\ offset[n][k] < Len(log'[k])
    BY SMT, <2>1
  <2>3. DoneNext(n, log'[k][i])
    <3> HIDE DEF i
    <3>1. QED
      BY <2>1, <2>2, <1>DoneStable
  <2>4. QED
    BY <2>2, <2>3 DEF NextDoneNext
\* A step that moves consumers only so keeps what is behind them done.
<1>MovesStep. ASSUME IInv, TypedNext, Consumed, Keeps,
                     \A n \in Nodes, k \in Keys : Moves(n, k),
                     \A n \in Nodes : \/ acking'[n] = NoAck
                                      \/ acking'[n] = acking[n] /\ offset'[n] = offset[n]
              PROVE  Consumed'
  <2> USE <1>MovesStep
  <2>1. /\ offset \in [Nodes -> [Keys -> Nat]] /\ offset' \in [Nodes -> [Keys -> Nat]]
        /\ \A k \in Keys : Len(log[k]) \in Nat /\ Len(log'[k]) \in Nat
        /\ \A n \in Nodes : acking[n] # NoAck => acking[n].key \in Keys
    BY SMT DEF IInv, TypeOK, TypedNext
  <2>2. ASSUME NEW n \in Nodes, NEW k \in Keys
        PROVE  /\ offset'[n][k] <= Len(log'[k])
               /\ \A i \in 1 .. offset'[n][k] : DoneNext(n, log'[k][i])
    <3>1. /\ offset[n][k] \in Nat /\ offset'[n][k] \in Nat
          /\ Len(log[k]) \in Nat /\ Len(log'[k]) \in Nat
          /\ offset[n][k] <= Len(log[k]) /\ Len(log[k]) <= Len(log'[k])
          /\ \A i \in 1 .. offset[n][k] : Done(n, log[k][i])
          /\ Moves(n, k)
      BY SMT, <2>1 DEF Consumed, Keeps
    <3>2. /\ offset'[n][k] <= Len(log[k])
          /\ \A i \in 1 .. offset'[n][k] : i \in 1 .. Len(log[k]) /\ Done(n, log[k][i])
      <4>1. CASE offset'[n][k] <= offset[n][k]
        <5>1. \A i \in 1 .. offset'[n][k] :
                i \in 1 .. offset[n][k] /\ i \in 1 .. Len(log[k])
          BY SMTT(30), <3>1, <4>1
        <5>2. QED
          BY SMTT(30), <3>1, <4>1, <5>1
      <4>2. CASE offset'[n][k] = offset[n][k] + 1 /\ NextDone(n, k)
        <5>0. offset[n][k] < Len(log[k]) /\ Done(n, log[k][offset[n][k] + 1])
          BY <4>2 DEF NextDone
        <5>1. \A i \in 1 .. offset'[n][k] :
                /\ i \in 1 .. Len(log[k])
                /\ i \in 1 .. offset[n][k] \/ i = offset[n][k] + 1
          BY SMTT(30), <3>1, <4>2, <5>0
        <5>2. QED
          BY SMTT(30), <3>1, <4>2, <5>0, <5>1
      <4>3. QED
        BY <3>1, <4>1, <4>2 DEF Moves
    <3>3. ASSUME NEW i \in 1 .. offset'[n][k] PROVE DoneNext(n, log'[k][i])
      BY SMTT(30), <3>2, <1>DoneStable
    <3>4. QED
      BY SMT, <3>1, <3>2, <3>3
  <2>3. ASSUME NEW n \in Nodes, acking'[n] # NoAck
        PROVE  NextDoneNext(n, acking'[n].key)
    <3> DEFINE k == acking[n].key
    <3>1. acking'[n] = acking[n] /\ offset'[n] = offset[n] /\ k \in Keys
      BY <2>1, <2>3
    <3>2. NextDone(n, k)
      BY <2>3, <3>1 DEF Consumed
    <3> HIDE DEF k
    <3>3. NextDoneNext(n, k)
      BY <3>1, <3>2, <2>1, <1>NextDoneStable
    <3>4. QED
      BY <3>1, <3>3 DEF k
  <2>4. QED
    BY <2>2, <2>3 DEF Consumed, Done, DoneNext, NextDone, NextDoneNext, targetNodeIds
\* Steps that leave the consumers alone.
<1>ConsumersIdle. ASSUME IInv, TypedNext, Consumed, Keeps, UNCHANGED <<offset, acking>>
                  PROVE  Consumed'
  <2> USE <1>ConsumersIdle
  <2>1. \A n \in Nodes, k \in Keys : offset'[n][k] <= offset[n][k]
    BY SMT DEF IInv, TypeOK
  <2>2. QED
    BY SMT, <2>1, <1>MovesStep DEF Moves
\* Clients, delays, sends, timers, snapshots, restarts and injected faults.
<1>ProducerStep. ASSUME IInv, TypedNext, Consumed, NEW n \in Nodes,
                        \/ \E k \in Keys : PUT(n, k) \/ DELETE(n, k)
                        \/ replicate(n) \/ publish(n) \/ publishOvertakes(n) \/ publishTwice(n)
                        \/ publishFails(n) \/ takeSnapshot(n) \/ handleRestart(n)
                        \/ \E id \in pendingAcks[n] : ackTimeout(n, id)
                        \/ \E delay \in Delays : DELAY_REPLICATION(n, delay)
                        \/ \E drop \in BOOLEAN : DROP_MESSAGES(n, drop)
                 PROVE  Consumed'
  <2> USE <1>ProducerStep
  <2> USE DEF consumer, publisher
  <2>1. UNCHANGED <<offset, acking, handled>>
    BY DEF PUT, DELETE, replicate, publish, publishOvertakes, publishTwice,
       publishFails, takeSnapshot, handleRestart, ackTimeout, DELAY_REPLICATION,
       DROP_MESSAGES
  <2>2. ASSUME UNCHANGED log, events' = events \/ \E e : events' = Append(events, e)
        PROVE  Keeps
    <3>1. events \in Seq(Operations) /\ \A k \in Keys : Len(log[k]) \in Nat
      BY SMT DEF IInv, TypeOK
    <3>2. EventIds \subseteq EventIds' /\ \A id \in EventIds : events'[id] = events[id]
      BY SMT, <2>2, <3>1 DEF EventIds
    <3>3. QED
      BY SMT, <2>1, <2>2, <3>1, <3>2 DEF Keeps
  <2>3. ASSUME NEW id \in EventIds, Produce(events[id].key, EventMessage(id)),
               UNCHANGED events
        PROVE  Keeps
    <3>1. events[id].key \in Keys
      BY SMT, IdsInRange DEF IInv
    <3>2. QED
      BY SMT, <2>1, <2>3, <3>1, ProduceKeeps DEF Keeps, EventIds, IInv
  <2>4. CASE \E k \in Keys : PUT(n, k) \/ DELETE(n, k)
    <3>1. UNCHANGED log /\ \E e : events' = Append(events, e)
      BY <2>4 DEF PUT, DELETE, replicateWithFaults
    <3>2. QED
      BY SMTT(30), <2>1, <2>2, <3>1, <1>ConsumersIdle
  <2>5. CASE publish(n) \/ publishTwice(n)
    <3>1. Head(publishing[n]) \in EventIds
      <4>1. publishing[n] \in Seq(OpIds) /\ publishing[n] # <<>>
        BY SMT, <2>5 DEF publish, publishTwice, IInv, TypeOK
      <4>2. 1 \in 1 .. Len(publishing[n]) /\ Head(publishing[n]) = publishing[n][1]
        BY SMT, <4>1
      <4>3. QED
        BY SMT, <4>2 DEF IInv, Known
    <3>2. Keeps
      BY <2>3, <2>5, <3>1 DEF publish, publishTwice
    <3>3. QED
      BY SMT, <2>1, <3>2, <1>ConsumersIdle
  <2>6. CASE publishOvertakes(n)
    <3>1. PICK i \in 2 .. Len(publishing[n]) :
            Produce(events[publishing[n][i]].key, EventMessage(publishing[n][i]))
      BY <2>6 DEF publishOvertakes
    <3>2. publishing[n][i] \in EventIds
      <4>1. i \in 1 .. Len(publishing[n])
        BY SMT DEF IInv, TypeOK
      <4>2. QED
        BY SMT, <4>1 DEF IInv, Known
    <3>3. Keeps
      BY <2>3, <2>6, <3>1, <3>2 DEF publishOvertakes
    <3>4. QED
      BY SMT, <2>1, <3>3, <1>ConsumersIdle
  <2>7. CASE \/ replicate(n) \/ publishFails(n) \/ takeSnapshot(n) \/ handleRestart(n)
             \/ \E id \in pendingAcks[n] : ackTimeout(n, id)
             \/ \E delay \in Delays : DELAY_REPLICATION(n, delay)
             \/ \E drop \in BOOLEAN : DROP_MESSAGES(n, drop)
    <3>1. UNCHANGED <<log, events>>
      BY <2>7 DEF replicate, publishFails, takeSnapshot, handleRestart, ackTimeout,
         DELAY_REPLICATION, DROP_MESSAGES
    <3>2. QED
      BY SMTT(30), <2>1, <2>2, <3>1, <1>ConsumersIdle
  <2>8. QED
    BY SMT, <2>4, <2>5, <2>6, <2>7
\* Moving past a message that is done.
<1>PastDone.
      ASSUME IInv, TypedNext, Consumed, Keeps, NEW n \in Nodes, NEW k \in Keys, Advance(n, k),
             NextDone(n, k),
             acking'[n] = NoAck, \A m \in Nodes \ {n} : acking'[m] = acking[m]
      PROVE  Consumed'
  <2> USE <1>PastDone
  <2>1. /\ offset'[n][k] = offset[n][k] + 1
        /\ \A x \in Keys \ {k} : offset'[n][x] = offset[n][x]
        /\ \A m \in Nodes \ {n} : offset'[m] = offset[m]
    BY SMT, AdvanceMoves DEF IInv
  <2>2. \A m \in Nodes, x \in Keys : offset[m][x] \in Nat
    BY SMT DEF IInv, TypeOK
  <2>3. \A m \in Nodes, x \in Keys : Moves(m, x)
    BY SMT, <2>1, <2>2 DEF Moves
  <2>4. QED
    BY SMT, <2>1, <2>3, <1>MovesStep
\* The consumer's own steps.
<1>ConsumerStep. ASSUME IInv, TypedNext, Consumed, NEW n \in Nodes,
                        \/ \E k \in Keys : handleReplicationEvent(n, k) \/ handleAck(n, k)
                        \/ ackPublished(n) \/ ackFails(n) \/ rewind(n)
                 PROVE  Consumed'
  <2> USE <1>ConsumerStep
  <2> USE DEF consumer, publisher
  <2>0. /\ offset \in [Nodes -> [Keys -> Nat]] /\ \A k \in Keys : Len(log[k]) \in Nat
        /\ acking \in [Nodes -> {NoAck} \cup [id : OpIds, key : Keys]]
    BY SMTT(30) DEF IInv, TypeOK
  <2>1. ASSUME UNCHANGED <<log, events>>, handled \subseteq handled' PROVE Keeps
    BY SMT, <2>0, <2>1 DEF Keeps, EventIds
  <2>2. ASSUME NEW k \in Keys, handleAck(n, k) PROVE Consumed'
    <3>1. /\ offset[n][k] < Len(log[k]) /\ acking[n] = NoAck
          /\ log[k][offset[n][k] + 1].kind = "ack" /\ Advance(n, k)
          /\ UNCHANGED <<log, events, handled, acking>>
      BY <2>2 DEF handleAck, Receives
    <3>2. Keeps /\ NextDone(n, k)
      BY SMT, <2>1, <3>1 DEF Done, NextDone
    <3>3. QED
      BY <3>1, <3>2, <1>PastDone
  <2>3. ASSUME NEW k \in Keys, handleReplicationEvent(n, k) PROVE Consumed'
    <3> DEFINE id == NextMessage(n, k).id
    <3>1. /\ offset[n][k] < Len(log[k]) /\ acking[n] = NoAck
          /\ id = log[k][offset[n][k] + 1].id
          /\ UNCHANGED <<log, events>>
      BY <2>3 DEF handleReplicationEvent, Receives, NextMessage
    <3>2. CASE n \notin targetNodeIds(id)
      <4>1. Advance(n, k) /\ UNCHANGED <<acking, handled>>
        BY SMTT(30), <2>3, <3>2 DEF handleReplicationEvent
      <4>2. Keeps
        BY <2>1, <3>1, <4>1
      <4>3. NextDone(n, k)
        BY <3>1, <3>2 DEF Done, NextDone
      <4>4. QED
        BY <3>1, <4>1, <4>2, <4>3, <1>PastDone
    <3>3. CASE n \in targetNodeIds(id)
      <4>1. /\ handled' = handled \cup {<<n, id>>} /\ UNCHANGED offset
            /\ acking' = [acking EXCEPT ![n] = [id |-> id, key |-> k]]
        BY SMT, <2>3, <3>3 DEF handleReplicationEvent
      <4> HIDE DEF id
      <4>2. Keeps
        BY SMT, <2>1, <3>1, <4>1
      <4>3. /\ \A m \in Nodes \ {n} : acking'[m] = acking[m]
            /\ acking'[n].key = k
        BY SMT, <2>0, <4>1
      <4>4. \A m \in Nodes, x \in Keys :
              /\ offset[m][x] <= Len(log[x])
              /\ \A i \in 1 .. offset[m][x] : Done(m, log[x][i])
        BY SMT DEF Consumed
      <4>5. ASSUME NEW m \in Nodes, NEW x \in Keys, NEW i \in 1 .. offset[m][x]
            PROVE  DoneNext(m, log'[x][i])
        <5>1. i \in 1 .. Len(log[x])
          <6>1. offset[m][x] \in Nat /\ Len(log[x]) \in Nat /\ offset[m][x] <= Len(log[x])
            BY <2>0, <4>4
          <6>2. QED
            BY SMT, <6>1
        <5>2. QED
          BY <4>2, <4>4, <5>1, <1>DoneStable
      <4>6. ASSUME NEW m \in Nodes \ {n}, acking'[m] # NoAck
            PROVE  NextDoneNext(m, acking[m].key)
        <5> DEFINE x == acking[m].key
        <5>1. x \in Keys /\ NextDone(m, x)
          BY SMT, <2>0, <4>3, <4>6 DEF Consumed
        <5> HIDE DEF x
        <5>2. offset'[m] = offset[m] /\ offset[m][x] \in Nat
          BY SMT, <2>0, <4>1, <5>1
        <5>3. Len(log[x]) \in Nat /\ Len(log'[x]) \in Nat
          BY <2>0, <5>1 DEF TypedNext
        <5>4. NextDoneNext(m, x)
          BY <4>2, <5>1, <5>2, <5>3, <1>NextDoneStable
        <5>5. QED
          BY <5>4 DEF x
      <4>7. NextDoneNext(n, k)
        BY <3>1, <4>1 DEF DoneNext, NextDoneNext
      <4>8. ASSUME NEW m \in Nodes, acking'[m] # NoAck
            PROVE  NextDoneNext(m, acking'[m].key)
        <5>1. CASE m = n
          BY <4>3, <4>7, <5>1
        <5>2. CASE m # n
          BY <4>3, <4>6, <4>8, <5>2
        <5>3. QED
          BY <5>1, <5>2
      <4>9. \A m \in Nodes, x \in Keys :
              /\ offset'[m][x] <= Len(log'[x])
              /\ \A i \in 1 .. offset'[m][x] : DoneNext(m, log'[x][i])
        BY SMT, <3>1, <4>1, <4>4, <4>5
      <4>10. QED
        BY <4>8, <4>9
           DEF Consumed, Done, DoneNext, NextDone, NextDoneNext, targetNodeIds
    <3>4. QED
      BY SMTT(30), <3>2, <3>3
  <2>4. CASE ackPublished(n)
    <3> DEFINE k == acking[n].key
    <3>1. /\ acking[n] # NoAck /\ k \in Keys /\ Advance(n, k)
          /\ Produce(k, AckMessage(acking[n].id, n))
          /\ acking' = [acking EXCEPT ![n] = NoAck] /\ UNCHANGED <<events, handled>>
      BY SMTT(30), <2>0, <2>4 DEF ackPublished
    <3>2. NextDone(n, k)
      BY <3>1 DEF Consumed
    <3> HIDE DEF k
    <3>3. Keeps
      BY SMT, <3>1, ProduceKeeps DEF Keeps, EventIds, IInv
    <3>4. acking'[n] = NoAck /\ \A m \in Nodes \ {n} : acking'[m] = acking[m]
      BY SMT, <2>0, <3>1
    <3>5. QED
      BY <3>1, <3>2, <3>3, <3>4, <1>PastDone
  <2>5. CASE ackFails(n) \/ rewind(n)
    <3>1. /\ acking' = [acking EXCEPT ![n] = NoAck]
          /\ UNCHANGED <<log, events, handled>>
          /\ \/ UNCHANGED offset
             \/ \E o \in Committed(n) : offset' = [offset EXCEPT ![n] = o]
      BY SMT, <2>5 DEF ackFails, rewind
    <3>2. /\ \A m \in Nodes, x \in Keys : offset'[m][x] <= offset[m][x]
          /\ \A m \in Nodes \ {n} : offset'[m] = offset[m]
      <4>1. CASE UNCHANGED offset
        BY SMT, <2>0, <4>1
      <4>2. ASSUME NEW o \in Committed(n), offset' = [offset EXCEPT ![n] = o]
            PROVE  /\ \A m \in Nodes, x \in Keys : offset'[m][x] <= offset[m][x]
                   /\ \A m \in Nodes \ {n} : offset'[m] = offset[m]
        <5>1. \A x \in Keys : o[x] <= offset[n][x]
          BY SMT DEF Committed
        <5>2. \A m \in Nodes : offset'[m] = IF m = n THEN o ELSE offset[m]
          BY SMT, <2>0, <4>2
        <5>3. \A m \in Nodes, x \in Keys : offset[m][x] \in Nat
          BY SMT, <2>0
        <5>4. ASSUME NEW m \in Nodes, NEW x \in Keys PROVE offset'[m][x] <= offset[m][x]
          <6>1. CASE m = n
            BY SMT, <5>1, <5>2, <6>1
          <6>2. CASE m # n
            BY SMT, <5>2, <5>3, <6>2
          <6>3. QED
            BY SMT, <6>1, <6>2
        <5>5. QED
          BY SMT, <5>2, <5>4
      <4>3. QED
        BY SMT, <3>1, <4>1, <4>2
    <3>3. Keeps
      BY SMT, <2>1, <3>1
    <3>4. acking'[n] = NoAck /\ \A m \in Nodes \ {n} : acking'[m] = acking[m]
      BY SMT, <2>0, <3>1
    <3>5. QED
      BY SMT, <3>2, <3>3, <3>4, <1>MovesStep DEF Moves
  <2>6. QED
    BY SMT, <2>2, <2>3, <2>4, <2>5
<1>Main. ASSUME "crash" \notin FaultKinds, IInv, TypedNext, Consumed, [Next]_vars
         PROVE  Consumed'
  <2> USE <1>Main
  <2>1. ASSUME NEW k \in Keys, NEW n \in Writers[k], PUT(n, k) \/ DELETE(n, k)
        PROVE  Consumed'
    <3>1. n \in Nodes
      BY SMT, ReplicationAssumption
    <3>2. QED
      BY SMT, <2>1, <3>1, <1>ProducerStep
  <2>2. \A n \in Nodes : ~crash(n)
    BY SMTT(30) DEF crash, Fault
  <2>3. CASE UNCHANGED vars
    BY <2>3 DEF vars, Consumed, NextDone, Done, targetNodeIds
  <2>4. QED
    BY <2>1, <2>2, <2>3, <1>ProducerStep, <1>ConsumerStep DEF Next
<1> QED
  BY <1>Main

\* A consumer at the end of its partitions has handled what is in them.
LEMMA ConsumedDelivers ==
  ASSUME \A n \in Nodes : Assigned[n] = Keys, IInv, Consumed
  PROVE  Delivered
<1> SUFFICES ASSUME IInv, Consumed, Quiescent, NEW id \in EventIds, Logged(id),
                    NEW r \in targetNodeIds(id)
             PROVE  <<r, id>> \in handled
  BY SMT DEF Delivered
<1> DEFINE k == events[id].key
<1>1. k \in Keys /\ r \in Nodes
  <2>1. k \in Keys
    BY SMT, IdsInRange DEF IInv
  <2>2. ReplicaNodeIds[k] \subseteq Nodes
    BY SMT, <2>1, ReplicationAssumption
  <2>3. QED
    BY SMT, <2>1, <2>2 DEF targetNodeIds
<1>2. PICK i \in 1 .. Len(log[k]) : log[k][i] = EventMessage(id)
  BY SMT DEF Logged
<1>3. offset[r][k] = Len(log[k])
  BY SMT, <1>1 DEF Quiescent
<1>4. Done(r, log[k][i])
  BY SMT, <1>1, <1>3 DEF Consumed
<1>5. log[k][i].kind = "event" /\ log[k][i].id = id
  BY SMT, <1>2 DEF EventMessage
<1>6. QED
  BY <1>4, <1>5 DEF Done

-----------------------------------------------------------------------------
(* IInv is an invariant: InvStep has one step for each kind of action.       *)

\* Initially everything is empty.
LEMMA InvInit == Init => IInv
<1> SUFFICES ASSUME Init PROVE IInv
  OBVIOUS
<1>1. IsStore(NoEntries) /\ IsSnapshot(NoEntries)
  BY SMT DEF NoEntries, IsStore, IsSnapshot
<1>2. TypeOK
  BY SMT, <1>1, ReplicationAssumption
     DEF Init, TypeOK, OpIds, Delays, NoFault
<1>3. Known /\ AcksEarned /\ AckSound
  BY SMT, ReplicationAssumption DEF Init, Known, AcksEarned, AckSound, EventIds, OpIds
<1>4. QED
  BY SMT, <1>2, <1>3 DEF IInv

\* A message that may be appended to the log.
Earned(msg) ==
  /\ msg.id \in EventIds
  /\ msg.kind = "ack" =>
       msg.replicaNodeId \in targetNodeIds(msg.id) /\ <<msg.replicaNodeId, msg.id>> \in handled

\* What any step does to the variables of the invariant: operations are only
\* added, messages and acks are earned.
Grows ==
  /\ events' = events \/ \E e \in Operations : events' = Append(events, e)
  /\ \A n \in Nodes : \A i \in 1 .. Len(delaying'[n]) : delaying'[n][i][1] \in EventIds'
  /\ \A n \in Nodes : \A i \in 1 .. Len(publishing'[n]) : publishing'[n][i] \in EventIds'
  /\ \A k \in Keys : \A i \in 1 .. Len(log'[k]) :
       \/ i \in 1 .. Len(log[k]) /\ log'[k][i] = log[k][i]
       \/ Earned(log'[k][i])
  /\ \A n \in Nodes :
       \/ acking'[n] = NoAck
       \/ acking'[n] = acking[n]
       \/ /\ acking'[n].id \in EventIds
          /\ n \in targetNodeIds(acking'[n].id)
          /\ <<n, acking'[n].id>> \in handled'
  /\ handled \subseteq handled'
  /\ \A id \in OpIds :
       \/ ackedBy'[id] = ackedBy[id]
       \/ /\ id \in EventIds
          /\ \A r \in ackedBy'[id] \ ackedBy[id] :
               r \in targetNodeIds(id) /\ <<r, id>> \in handled

\* What a consumer reads was published: an accepted event or an earned ack.
LEMMA ReceivedKnown ==
  ASSUME IInv, NEW n \in Nodes, NEW k \in Keys, NEW kind, Receives(n, k, kind)
  PROVE  /\ offset[n][k] + 1 \in 1 .. Len(log[k])
         /\ NextMessage(n, k) \in Messages
         /\ NextMessage(n, k).kind = kind
         /\ NextMessage(n, k).id \in EventIds
         /\ NextMessage(n, k).id \in OpIds
<1> USE DEF IInv
<1>1. log[k] \in Seq(Messages) /\ offset[n][k] \in Nat
  BY SMTT(30) DEF TypeOK
<1>2. offset[n][k] + 1 \in 1 .. Len(log[k])
  BY SMT, <1>1 DEF Receives
<1>3. QED
  BY SMT, <1>1, <1>2, IdsInRange DEF Receives, NextMessage, Known

\* Every step of the cluster preserves the invariant.
LEMMA InvStep == IInv /\ [Next]_vars => IInv'
\* An operation that n accepts is recorded with its type.
<1>AppendEvent. ASSUME TypeOK, Len(events) < MaxOps, NEW n \in Nodes,
                       NEW event \in Operations, replicateWithFaults(n, event)
                PROVE  /\ events' \in Seq(Operations)
                       /\ Len(events') = Len(events) + 1 /\ Len(events') <= MaxOps
                       /\ delaying' \in [Nodes -> Seq(OpIds \X Delays)]
  <2> USE <1>AppendEvent
  <2>1. events' = Append(events, event)
    BY SMT DEF replicateWithFaults
  <2>2. <<Len(events) + 1, fault[n].delay>> \in OpIds \X Delays
    BY SMT, ReplicationAssumption DEF TypeOK, OpIds
  <2>3. Append(delaying[n], <<Len(events) + 1, fault[n].delay>>)
          \in Seq(OpIds \X Delays)
    <3>1. delaying[n] \in Seq(OpIds \X Delays)
      BY SMT DEF TypeOK
    <3>2. QED
      BY SMT, <2>2, <3>1
  <2>4. delaying' \in [Nodes -> Seq(OpIds \X Delays)]
    BY <2>3 DEF TypeOK, replicateWithFaults
  <2>5. QED
    BY SMTT(30), <2>1, <2>4, ReplicationAssumption DEF TypeOK
\* Applying an event to a store yields a store.
<1>AppliedType. ASSUME TypeOK, NEW s, IsStore(s), NEW id \in EventIds, NEW r \in Applied(s, id)
                PROVE  IsStore(r)
  <2> USE <1>AppliedType
  <2>1. events[id] \in Operations /\ id \in Nat
    BY SMT DEF TypeOK, EventIds
  <2>2. events[id].key \in Keys
    BY SMT, <2>1 DEF Operations
  <2>3. QED
    BY SMT, <2>1, <2>2, SetType, DropType DEF Applied, applyRemoteWrite, applyRemoteDelete
\* Replacing the store of one node keeps the stores typed.
<1>StoreUpdate. ASSUME TypeOK, NEW n \in Nodes, NEW s, IsStore(s),
                       store' = [store EXCEPT ![n] = s]
                PROVE  /\ store' = [m \in Nodes |-> store'[m]]
                       /\ \A m \in Nodes : IsStore(store'[m])
  <2> USE <1>StoreUpdate
  <2>1. store = [m \in Nodes |-> store[m]]
    BY SMT DEF TypeOK
  <2>2. DOMAIN store = Nodes
    BY SMT, <2>1
  <2>3. \A m \in Nodes : store'[m] = IF m = n THEN s ELSE store[m]
    BY SMT, <2>2
  <2>4. store' = [m \in Nodes |-> store'[m]]
    BY <2>2
  <2>5. QED
    BY SMT, <2>3, <2>4 DEF TypeOK
\* A message appended to a partition keeps the log typed.
<1>ProduceType. ASSUME TypeOK, NEW k \in Keys, NEW msg \in Messages, Produce(k, msg)
                PROVE  log' \in [Keys -> Seq(Messages)]
  BY SMT, <1>ProduceType DEF Produce, TypeOK
\* Faults are counted.
<1>FaultCounted. ASSUME TypeOK, NEW kind, Fault(kind)
                 PROVE  faults' \in Nat
  BY SMT, <1>FaultCounted DEF TypeOK, Fault
\* The consumer of n stops waiting for its ack.
<1>AckForgotten. ASSUME TypeOK, NEW n \in Nodes, acking' = [acking EXCEPT ![n] = NoAck]
                 PROVE  /\ acking' \in [Nodes -> {NoAck} \cup [id : OpIds, key : Keys]]
                        /\ \A m \in Nodes : acking'[m] = NoAck \/ acking'[m] = acking[m]
  BY SMT, <1>AckForgotten DEF TypeOK
\* An accepted operation keeps its record, hence its targets.
<1>EventsStable.
      ASSUME TypeOK, events' = events \/ \E e \in Operations : events' = Append(events, e)
      PROVE  /\ EventIds \subseteq EventIds'
             /\ \A id \in EventIds : events'[id] = events[id]
  <2> USE <1>EventsStable
  <2>1. events \in Seq(Operations)
    BY SMT DEF TypeOK
  <2>2. QED
    BY SMT, <2>1 DEF EventIds
\* Such a step preserves the invariant.
<1>GrowsStep. ASSUME IInv, TypeOK', Grows
              PROVE  IInv'
  <2> USE <1>GrowsStep
  <2> USE DEF IInv
  <2>1. /\ EventIds \subseteq EventIds'
        /\ \A id \in EventIds : events'[id] = events[id]
    BY SMTT(30), <1>EventsStable DEF Grows
  <2>2. Known'
    <3>1. \A k \in Keys : \A i \in 1 .. Len(log'[k]) : log'[k][i].id \in EventIds'
      BY <2>1 DEF Grows, Known, Earned
    <3>2. \A n \in Nodes : acking'[n] # NoAck => acking'[n].id \in EventIds'
      BY <2>1 DEF Grows, Known
    <3>3. \A id \in OpIds \ EventIds' : ackedBy'[id] = {}
      BY SMT, <2>1 DEF Grows, Known
    <3>4. QED
      BY SMT, <3>1, <3>2, <3>3 DEF Grows, Known, OpIds
  <2> DEFINE sound(r, id) == /\ id \in EventIds
                             /\ r \in targetNodeIds(id)
                             /\ <<r, id>> \in handled'
  <2>3. AcksEarned'
    <3>1. ASSUME NEW k \in Keys, NEW i \in 1 .. Len(log'[k]), log'[k][i].kind = "ack"
          PROVE  sound(log'[k][i].replicaNodeId, log'[k][i].id)
      <4>1. CASE i \in 1 .. Len(log[k]) /\ log'[k][i] = log[k][i]
        BY SMTT(30), <3>1, <4>1 DEF Known, AcksEarned, Grows
      <4>2. CASE Earned(log'[k][i])
        BY SMT, <3>1, <4>2 DEF Earned, Grows
      <4>3. QED
        BY SMTT(30), <4>1, <4>2 DEF Grows
    <3>2. ASSUME NEW n \in Nodes, acking'[n] # NoAck
          PROVE  sound(n, acking'[n].id)
      <4>1. CASE acking'[n] = acking[n]
        BY SMTT(30), <3>2, <4>1 DEF Known, AcksEarned, Grows
      <4>2. CASE acking'[n] # acking[n]
        BY SMTT(30), <3>2, <4>2 DEF Grows
      <4>3. QED
        BY SMTT(30), <4>1, <4>2
    <3>3. QED
      BY <2>1, <3>1, <3>2 DEF AcksEarned, targetNodeIds
  <2>4. AckSound'
    <3> SUFFICES ASSUME NEW id \in EventIds', NEW r \in ackedBy'[id]
                 PROVE  r \in targetNodeIds(id)' /\ <<r, id>> \in handled'
      BY DEF AckSound
    <3>1. id \in OpIds
      BY SMTT(30), ReplicationAssumption DEF EventIds, OpIds, TypeOK
    <3>2. id \in EventIds
      BY SMTT(30), <3>1 DEF Grows, Known
    <3>3. r \in targetNodeIds(id) /\ <<r, id>> \in handled
      BY SMT, <3>1, <3>2 DEF Grows, AckSound
    <3>4. QED
      BY SMT, <2>1, <3>2, <3>3 DEF Grows, targetNodeIds
  <2>5. QED
    BY SMT, <2>2, <2>3, <2>4
\* Accepting an operation: PUT and DELETE.
<1>AcceptStep. ASSUME IInv, Len(events) < MaxOps, NEW n \in Nodes, NEW e \in Operations,
                      replicateWithFaults(n, e), NEW s, IsStore(s),
                      store' = [store EXCEPT ![n] = s],
                      UNCHANGED <<publishing, pendingAcks, ackedBy, timedOut, log, consumer,
                                  fault, snap, faults>>
               PROVE  IInv'
  <2> USE <1>AcceptStep
  <2> USE DEF IInv, consumer
  <2>1. TypeOK'
    <3>1. /\ events' \in Seq(Operations) /\ Len(events') <= MaxOps
          /\ delaying' \in [Nodes -> Seq(OpIds \X Delays)]
      BY SMTT(30), <1>AppendEvent
    <3>2. /\ store' = [m \in Nodes |-> store'[m]]
          /\ \A m \in Nodes : IsStore(store'[m])
      BY <1>StoreUpdate
    <3>3. QED
      BY <3>1, <3>2 DEF TypeOK
  <2>2. events' = Append(events, e) /\ Len(events) + 1 \in EventIds'
    BY SMT DEF replicateWithFaults, EventIds, TypeOK
  <2>3. EventIds \subseteq EventIds'
    BY <2>2, <1>EventsStable
  <2>4. \A m \in Nodes : \A i \in 1 .. Len(delaying'[m]) : delaying'[m][i][1] \in EventIds'
    <3>1. CASE UNCHANGED delaying
      BY SMT, <2>3, <3>1 DEF Known
    <3>2. CASE delaying' = [delaying EXCEPT ![n] =
                              Append(@, <<Len(events) + 1, fault[n].delay>>)]
      <4> SUFFICES ASSUME NEW m \in Nodes, NEW i \in 1 .. Len(delaying'[m])
                   PROVE  delaying'[m][i][1] \in EventIds'
        OBVIOUS
      <4>1. delaying \in [Nodes -> Seq(OpIds \X Delays)]
        BY SMTT(30) DEF TypeOK
      <4>2. CASE m # n
        BY SMTT(30), <2>3, <3>2, <4>1, <4>2 DEF Known
      <4>3. CASE m = n
        <5>1. delaying'[m] = Append(delaying[n], <<Len(events) + 1, fault[n].delay>>)
          BY SMTT(30), <3>2, <4>1, <4>3
        <5>2. CASE i = Len(delaying[n]) + 1
          BY SMTT(30), <2>2, <4>1, <5>1, <5>2
        <5>3. CASE i # Len(delaying[n]) + 1
          <6>1. i \in 1 .. Len(delaying[n]) /\ delaying'[m][i] = delaying[n][i]
            <7>1. i \in 1 .. Len(Append(delaying[n], <<Len(events) + 1, fault[n].delay>>))
              BY <5>1
            <7>2. /\ i \in 1 .. Len(delaying[n])
                  /\ Append(delaying[n], <<Len(events) + 1, fault[n].delay>>)[i] = delaying[n][i]
              BY <4>1, <5>3, <7>1, AppendAt
            <7>3. QED
              BY <5>1, <7>2
          <6>2. QED
            BY SMTT(30), <2>3, <6>1 DEF Known
        <5>4. QED
          BY SMT, <5>2, <5>3
      <4>4. QED
        BY SMT, <4>2, <4>3
    <3>3. QED
      BY SMTT(30), <3>1, <3>2 DEF replicateWithFaults
  <2>5. Grows
    BY SMT, <2>2, <2>3, <2>4 DEF Grows, Known
  <2>6. QED
    BY SMT, <2>1, <2>5, <1>GrowsStep
\* A PUT stores, numbers and starts to replicate a value.
<1>PutStep. ASSUME IInv, NEW k \in Keys, NEW n \in Writers[k], PUT(n, k)
            PROVE  IInv'
  <2> USE <1>PutStep
  <2>1. n \in Nodes /\ IsStore(store[n]) /\ Len(events) + 1 \in Nat
    BY SMT, ReplicationAssumption DEF IInv, TypeOK
  <2>2. PICK s \in set(store[n], k, Len(events) + 1) : store' = [store EXCEPT ![n] = s]
    BY DEF PUT
  <2> DEFINE e == [sourceNodeId |-> n, key |-> k, op |-> "PUT",
                   version |-> VersionAfter(store[n], k)]
  <2>3. IsStore(s) /\ VersionAfter(store[n], k) \in Nat
    BY SMT, <2>1, <2>2, SetType
  <2>4. e \in Operations
    BY <2>1, <2>3, OperationOf
  <2>5. replicateWithFaults(n, e) /\ Len(events) < MaxOps
        /\ UNCHANGED <<publishing, pendingAcks, ackedBy, timedOut, log, consumer,
                       fault, snap, faults>>
    BY SMT DEF PUT
  <2> HIDE DEF e
  <2>6. QED
    BY <2>1, <2>2, <2>3, <2>4, <2>5, <1>AcceptStep
\* A DELETE removes a key and starts to replicate that.
<1>DeleteStep. ASSUME IInv, NEW k \in Keys, NEW n \in Writers[k], DELETE(n, k)
               PROVE  IInv'
  <2> USE <1>DeleteStep
  <2>1. n \in Nodes /\ IsStore(store[n])
    BY SMT, ReplicationAssumption DEF IInv, TypeOK
  <2>2. store' = [store EXCEPT ![n] = Drop(store[n], k)] /\ IsStore(Drop(store[n], k))
    <3>1. n \in DOMAIN store
      BY SMT, <2>1 DEF IInv, TypeOK
    <3>2. QED
      BY SMT, <2>1, <3>1, DropType DEF DELETE
  <2> DEFINE e == [sourceNodeId |-> n, key |-> k, op |-> "DELETE", version |-> 0]
  <2>3. e \in Operations
    BY <2>1, OperationOf
  <2>4. replicateWithFaults(n, e) /\ Len(events) < MaxOps
        /\ UNCHANGED <<publishing, pendingAcks, ackedBy, timedOut, log, consumer,
                       fault, snap, faults>>
    BY SMT DEF DELETE
  <2> HIDE DEF e
  <2>5. QED
    BY <2>1, <2>2, <2>3, <2>4, <1>AcceptStep
\* replicate registers the waiter and hands the event to the producer.
<1>ReplicateStep. ASSUME IInv, NEW n \in Nodes, replicate(n)
                  PROVE  IInv'
  <2> USE <1>ReplicateStep
  <2> USE DEF IInv, consumer
  <2>1. PICK i \in DelayOver(n) :
          LET id == delaying[n][i][1] IN
          /\ delaying' = [delaying EXCEPT ![n] = RemoveAt(@, i)]
          /\ IF targetNodeIds(id) = {}
             THEN UNCHANGED <<pendingAcks, publishing>>
             ELSE /\ pendingAcks' = [pendingAcks EXCEPT ![n] = @ \cup {id}]
                  /\ publishing' = [publishing EXCEPT ![n] = Append(@, id)]
          /\ UNCHANGED <<events, store, ackedBy, timedOut, log, consumer, fault, snap,
                         faults>>
    BY DEF replicate
  <2> DEFINE id == delaying[n][i][1]
             rest == RemoveAt(delaying[n], i)
  <2>2. delaying[n] \in Seq(OpIds \X Delays) /\ i \in 1 .. Len(delaying[n])
    BY DEF TypeOK, DelayOver
  <2>3. id \in EventIds /\ id \in OpIds
    BY <2>2, IdsInRange DEF Known
  <2>4. /\ rest \in Seq(OpIds \X Delays)
        /\ \A j \in 1 .. Len(rest) : \E m \in 1 .. Len(delaying[n]) : rest[j] = delaying[n][m]
    BY <2>2, RemoveAtType
  <2>5. \A j \in 1 .. Len(rest) : rest[j][1] \in EventIds
    BY <2>4 DEF Known
  <2>6. /\ delaying' = [delaying EXCEPT ![n] = rest]
        /\ UNCHANGED <<events, store, ackedBy, timedOut, log, offset, acking, handled,
                       fault, snap, faults>>
        /\ \/ UNCHANGED <<pendingAcks, publishing>>
           \/ /\ pendingAcks' = [pendingAcks EXCEPT ![n] = @ \cup {id}]
              /\ publishing' = [publishing EXCEPT ![n] = Append(@, id)]
    <3>1. delaying' = [delaying EXCEPT ![n] = rest]
      BY SMT, <2>1 DEF TypeOK
    <3>2. QED
      BY <2>1, <3>1
  <2> HIDE DEF id, rest
  <2>7. TypeOK'
    <3>1. delaying' \in [Nodes -> Seq(OpIds \X Delays)]
      BY SMT, <2>4, <2>6 DEF TypeOK
    <3>2. pendingAcks' \in [Nodes -> SUBSET OpIds]
      <4>1. pendingAcks \in [Nodes -> SUBSET OpIds]
        BY SMT DEF TypeOK
      <4>2. pendingAcks[n] \cup {id} \in SUBSET OpIds
        BY SMT, <2>3, <4>1
      <4>3. CASE pendingAcks' = [pendingAcks EXCEPT ![n] = pendingAcks[n] \cup {id}]
        BY SMT, <4>1, <4>2, <4>3
      <4>4. QED
        BY SMT, <2>6, <4>1, <4>3
    <3>3. publishing' \in [Nodes -> Seq(OpIds)]
      <4>1. Append(publishing[n], id) \in Seq(OpIds)
        BY SMT, <2>3 DEF TypeOK
      <4>2. QED
        BY <2>6, <4>1 DEF TypeOK
    <3>4. QED
      BY <2>6, <3>1, <3>2, <3>3 DEF TypeOK
  <2>8. \A m \in Nodes : \A j \in 1 .. Len(delaying'[m]) : delaying'[m][j][1] \in EventIds'
    BY SMT, <2>5, <2>6 DEF Known, TypeOK, EventIds
  <2>9. \A m \in Nodes : \A j \in 1 .. Len(publishing'[m]) : publishing'[m][j] \in EventIds'
    <3>1. EventIds' = EventIds
      BY SMT, <2>6 DEF EventIds
    <3>2. CASE UNCHANGED publishing
      BY SMT, <3>1, <3>2 DEF Known
    <3>3. CASE publishing' = [publishing EXCEPT ![n] = Append(@, id)]
      <4> SUFFICES ASSUME NEW m \in Nodes, NEW j \in 1 .. Len(publishing'[m])
                   PROVE  publishing'[m][j] \in EventIds
        BY SMT, <3>1
      <4>1. publishing[m] \in Seq(OpIds)
            /\ publishing'[m] = IF m = n THEN Append(publishing[m], id) ELSE publishing[m]
        BY SMT, <3>3 DEF TypeOK
      <4>2. CASE m = n /\ j = Len(publishing[m]) + 1
        BY SMTT(30), <2>3, <4>1, <4>2
      <4>3. CASE ~(m = n /\ j = Len(publishing[m]) + 1)
        <5>1. j \in 1 .. Len(publishing[m]) /\ publishing'[m][j] = publishing[m][j]
          <6>1. CASE m = n
            <7>1. publishing'[m] = Append(publishing[m], id)
              BY <4>1, <6>1
            <7>2. j \in 1 .. Len(Append(publishing[m], id)) /\ j # Len(publishing[m]) + 1
              BY <4>3, <6>1, <7>1
            <7>3. j \in 1 .. Len(publishing[m]) /\ Append(publishing[m], id)[j] = publishing[m][j]
              BY <4>1, <7>2, AppendAt
            <7>4. QED
              BY <7>1, <7>3
          <6>2. CASE m # n
            <7>1. publishing'[m] = publishing[m]
              BY <4>1, <6>2
            <7>2. QED
              BY <7>1
          <6>3. QED
            BY <6>1, <6>2
        <5>2. QED
          BY SMT, <5>1 DEF Known
      <4>4. QED
        BY SMTT(30), <4>2, <4>3
    <3>4. QED
      BY SMT, <2>6, <3>2, <3>3
  <2>10. Grows
    BY <2>6, <2>8, <2>9 DEF Grows, Known
  <2>11. QED
    BY SMT, <2>7, <2>10, <1>GrowsStep
\* A message appended to a partition is the only change of the log.
<1>ProduceGrows. ASSUME TypeOK, NEW k \in Keys, NEW msg \in Messages, Earned(msg), Produce(k, msg)
                 PROVE  \A x \in Keys : \A i \in 1 .. Len(log'[x]) :
                          \/ i \in 1 .. Len(log[x]) /\ log'[x][i] = log[x][i]
                          \/ Earned(log'[x][i])
  <2> USE <1>ProduceGrows
  <2> SUFFICES ASSUME NEW x \in Keys, NEW i \in 1 .. Len(log'[x])
               PROVE  \/ i \in 1 .. Len(log[x]) /\ log'[x][i] = log[x][i]
                      \/ Earned(log'[x][i])
    OBVIOUS
  <2>1. log[x] \in Seq(Messages) /\ log'[x] = IF x = k THEN Append(log[x], msg) ELSE log[x]
    BY SMT DEF TypeOK, Produce
  <2>2. CASE x # k
    BY SMT, <2>1, <2>2
  <2>3. CASE x = k /\ i = Len(log[x]) + 1
    BY SMT, <2>1, <2>3
  <2>4. CASE x = k /\ i # Len(log[x]) + 1
    BY SMT, <2>1, <2>4
  <2>5. QED
    BY SMT, <2>2, <2>3, <2>4
\* The four outcomes of producer.send: the event is in the log or not, and the
\* ids left in flight were in flight before.
<1>SendStep. ASSUME IInv, NEW n \in Nodes, NEW left \in Seq(OpIds),
                    \A i \in 1 .. Len(left) : left[i] \in EventIds,
                    publishing' = [publishing EXCEPT ![n] = left],
                    \/ UNCHANGED log
                    \/ \E id \in EventIds : Produce(events[id].key, EventMessage(id)),
                    UNCHANGED <<events, store, delaying, pendingAcks, ackedBy, timedOut,
                                consumer, fault, snap>>,
                    faults' \in Nat
             PROVE  IInv'
  <2> USE <1>SendStep
  <2> USE DEF IInv, consumer
  <2> DEFINE logGrows ==
               /\ log' \in [Keys -> Seq(Messages)]
               /\ \A x \in Keys : \A i \in 1 .. Len(log'[x]) :
                    \/ i \in 1 .. Len(log[x]) /\ log'[x][i] = log[x][i]
                    \/ Earned(log'[x][i])
  <2>1. logGrows
    <3>1. CASE UNCHANGED log
      BY SMT, <3>1 DEF TypeOK
    <3>2. ASSUME NEW id \in EventIds, Produce(events[id].key, EventMessage(id))
          PROVE  logGrows
      <4>1. events[id].key \in Keys /\ id \in OpIds
        BY SMT, IdsInRange
      <4>2. EventMessage(id) \in Messages /\ Earned(EventMessage(id))
        BY SMT, <4>1 DEF EventMessage, Messages, Earned
      <4>3. QED
        BY SMTT(30), <3>2, <4>1, <4>2, <1>ProduceType, <1>ProduceGrows
    <3>3. QED
      BY SMT, <3>1, <3>2
  <2>2. TypeOK'
    BY <2>1 DEF TypeOK
  <2>3. \A m \in Nodes : \A i \in 1 .. Len(publishing'[m]) : publishing'[m][i] \in EventIds'
    BY DEF Known, TypeOK, EventIds
  <2>4. Grows
    BY <2>1, <2>3 DEF Grows, Known, EventIds
  <2>5. QED
    BY SMT, <2>2, <2>4, <1>GrowsStep
\* Every outcome of producer.send is such a step.
<1>PublishStep. ASSUME IInv, NEW n \in Nodes,
                       publish(n) \/ publishOvertakes(n) \/ publishTwice(n) \/ publishFails(n)
                PROVE  IInv'
  <2> USE <1>PublishStep
  <2> USE DEF IInv
  <2> DEFINE q == publishing[n]
  <2>1. q \in Seq(OpIds) /\ \A i \in 1 .. Len(q) : q[i] \in EventIds
    BY SMT DEF TypeOK, Known
  <2>2. n \in DOMAIN publishing /\ faults \in Nat
    BY SMT DEF TypeOK
  <2>3. q # <<>> => /\ Head(q) \in EventIds
                   /\ Tail(q) \in Seq(OpIds)
                   /\ \A i \in 1 .. Len(Tail(q)) : Tail(q)[i] \in EventIds
    <3> HIDE DEF q
    <3> SUFFICES ASSUME q # <<>>
                 PROVE  /\ Head(q) \in EventIds
                        /\ Tail(q) \in Seq(OpIds)
                        /\ \A i \in 1 .. Len(Tail(q)) : Tail(q)[i] \in EventIds
      OBVIOUS
    <3>1. /\ Len(q) \in Nat \ {0} /\ Head(q) = q[1]
          /\ Tail(q) \in Seq(OpIds) /\ Len(Tail(q)) = Len(q) - 1
          /\ \A i \in 1 .. Len(Tail(q)) : Tail(q)[i] = q[i + 1]
      BY SMT, <2>1
    <3>2. QED
      BY SMT, <2>1, <3>1
  <2>4. CASE publish(n)
    <3>1. /\ q # <<>> /\ publishing' = [publishing EXCEPT ![n] = Tail(q)]
          /\ Produce(events[Head(q)].key, EventMessage(Head(q)))
          /\ UNCHANGED <<events, store, delaying, pendingAcks, ackedBy, timedOut,
                         consumer, fault, snap, faults>>
      BY SMT, <2>2, <2>4 DEF publish
    <3> HIDE DEF q
    <3>2. QED
      BY <2>2, <2>3, <3>1, <1>SendStep
  <2>5. CASE publishOvertakes(n)
    <3>1. PICK i \in 2 .. Len(q) :
            /\ Produce(events[q[i]].key, EventMessage(q[i]))
            /\ publishing' = [publishing EXCEPT ![n] = RemoveAt(q, i)]
      BY <2>2, <2>5 DEF publishOvertakes
    <3>2. faults' \in Nat /\ UNCHANGED <<events, store, delaying, pendingAcks, ackedBy,
                                         timedOut, consumer, fault, snap>>
      BY SMT, <2>2, <2>5 DEF publishOvertakes, Fault
    <3> HIDE DEF q
    <3>3. i \in 1 .. Len(q)
      BY SMT, <2>1
    <3>4. /\ RemoveAt(q, i) \in Seq(OpIds)
          /\ \A j \in 1 .. Len(RemoveAt(q, i)) : RemoveAt(q, i)[j] \in EventIds
      BY SMT, <2>1, <3>3, RemoveAtType
    <3>5. QED
      BY <2>1, <3>1, <3>2, <3>3, <3>4, <1>SendStep
  <2>6. CASE publishTwice(n)
    <3>1. /\ q # <<>>
          /\ Produce(events[Head(q)].key, EventMessage(Head(q)))
          /\ UNCHANGED <<events, store, delaying, publishing, pendingAcks, ackedBy,
                         timedOut, consumer, fault, snap>>
          /\ faults' \in Nat
      <4>1. faults' = faults + 1
        BY <2>6 DEF publishTwice, Fault
      <4>2. faults' \in Nat
        BY SMT, <2>2, <4>1
      <4>3. QED
        BY <2>6, <4>2 DEF publishTwice, publisher
    <3>2. publishing' = [publishing EXCEPT ![n] = q]
      BY SMT, <3>1 DEF TypeOK
    <3> HIDE DEF q
    <3>3. QED
      BY <2>1, <2>3, <3>1, <3>2, <1>SendStep
  <2>7. CASE publishFails(n)
    <3>1. /\ q # <<>> /\ publishing' = [publishing EXCEPT ![n] = Tail(q)]
          /\ UNCHANGED <<events, store, delaying, pendingAcks, ackedBy, timedOut, log,
                         consumer, fault, snap>>
          /\ faults' \in Nat
      BY SMT, <2>2, <2>7 DEF publishFails, Fault
    <3> HIDE DEF q
    <3>2. QED
      BY <2>3, <3>1, <1>SendStep
  <2>8. QED
    BY SMT, <2>4, <2>5, <2>6, <2>7
\* The ack timer only drops a waiter.
<1>TimeoutStep. ASSUME IInv, NEW n \in Nodes, NEW id \in pendingAcks[n], ackTimeout(n, id)
                PROVE  IInv'
  <2> USE <1>TimeoutStep
  <2> USE DEF IInv, consumer
  <2>1. pendingAcks \in [Nodes -> SUBSET OpIds]
    BY SMT DEF TypeOK
  <2>2. pendingAcks' = [pendingAcks EXCEPT ![n] = pendingAcks[n] \ {id}]
        /\ timedOut' = timedOut \cup {id}
        /\ UNCHANGED <<events, store, delaying, publishing, ackedBy, log, offset,
                       acking, handled, fault, snap, faults>>
    BY SMT, <2>1 DEF ackTimeout
  <2>3. pendingAcks[n] \ {id} \in SUBSET OpIds /\ id \in OpIds
    BY SMT, <2>1
  <2>4. pendingAcks' \in [Nodes -> SUBSET OpIds]
    BY SMT, <2>1, <2>2, <2>3
  <2>5. TypeOK'
    BY <2>2, <2>3, <2>4 DEF TypeOK
  <2>6. Grows
    BY <2>2 DEF Grows, Known, EventIds
  <2>7. QED
    BY SMT, <2>5, <2>6, <1>GrowsStep
\* Advancing an offset keeps the offsets typed.
<1>AdvanceType. ASSUME TypeOK, NEW n \in Nodes, NEW k \in Keys, Advance(n, k)
                PROVE  offset' \in [Nodes -> [Keys -> Nat]]
  <2> USE <1>AdvanceType
  <2>1. offset \in [Nodes -> [Keys -> Nat]]
    BY SMT DEF TypeOK
  <2>2. offset[n][k] + 1 \in Nat
    BY SMT, <2>1
  <2>3. [offset[n] EXCEPT ![k] = offset[n][k] + 1] \in [Keys -> Nat]
    BY SMT, <2>1, <2>2
  <2>4. offset' = [offset EXCEPT ![n] = [offset[n] EXCEPT ![k] = offset[n][k] + 1]]
    BY SMT, <2>1 DEF Advance
  <2>5. QED
    BY SMT, <2>1, <2>3, <2>4
\* A target applies the event and owes an ack; another node skips it.
<1>EventStep. ASSUME IInv, NEW n \in Nodes, NEW k \in Keys, handleReplicationEvent(n, k)
              PROVE  IInv'
  <2> USE <1>EventStep
  <2> USE DEF IInv, publisher
  <2> DEFINE id == NextMessage(n, k).id
  <2>1. id \in EventIds /\ id \in OpIds
    BY SMT, ReceivedKnown DEF handleReplicationEvent
  <2>2. UNCHANGED <<events, delaying, publishing, pendingAcks, ackedBy, timedOut,
                    log, fault, snap, faults>>
    BY SMT DEF handleReplicationEvent
  <2>3. CASE n \notin targetNodeIds(id)
    <3>1. Advance(n, k) /\ UNCHANGED <<store, acking, handled>>
      BY SMT, <2>3 DEF handleReplicationEvent
    <3>2. TypeOK'
      BY <2>2, <3>1, <1>AdvanceType DEF TypeOK
    <3>3. Grows
      BY SMTT(30), <2>2, <3>1 DEF Grows, Known, EventIds
    <3>4. QED
      BY SMT, <3>2, <3>3, <1>GrowsStep
  <2>4. CASE n \in targetNodeIds(id)
    <3>1. /\ \E s \in Applied(store[n], id) : store' = [store EXCEPT ![n] = s]
          /\ handled' = handled \cup {<<n, id>>}
          /\ acking' = [acking EXCEPT ![n] = [id |-> id, key |-> k]]
          /\ UNCHANGED offset
      BY SMT, <2>4 DEF handleReplicationEvent
    <3> HIDE DEF id
    <3>2. /\ store' = [m \in Nodes |-> store'[m]]
          /\ \A m \in Nodes : IsStore(store'[m])
      <4>1. PICK s \in Applied(store[n], id) : store' = [store EXCEPT ![n] = s]
        BY <3>1
      <4>2. IsStore(s)
        BY <2>1, <1>AppliedType DEF TypeOK
      <4>3. QED
        BY <4>1, <4>2, <1>StoreUpdate
    <3>3. acking' \in [Nodes -> {NoAck} \cup [id : OpIds, key : Keys]]
      BY SMT, <2>1, <3>1 DEF TypeOK
    <3>4. TypeOK'
      <4>1. handled' \subseteq Nodes \X OpIds
        BY SMTT(30), <2>1, <3>1 DEF TypeOK
      <4>2. QED
        BY <2>2, <3>1, <3>2, <3>3, <4>1 DEF TypeOK
    <3>5. \A m \in Nodes :
            \/ acking'[m] = acking[m]
            \/ acking'[m].id = id /\ m = n
      BY SMTT(30), <3>1 DEF TypeOK
    <3>6. Grows
      <4>1. ASSUME NEW m \in Nodes
            PROVE  \/ acking'[m] = acking[m]
                   \/ /\ acking'[m].id \in EventIds
                      /\ m \in targetNodeIds(acking'[m].id)
                      /\ <<m, acking'[m].id>> \in handled'
        <5>1. <<n, id>> \in handled'
          BY <3>1
        <5>2. CASE acking'[m].id = id /\ m = n
          BY <2>1, <2>4, <5>1, <5>2
        <5>3. QED
          BY <3>5, <5>2
      <4>2. handled \subseteq handled'
        BY <3>1
      <4>3. QED
        BY <2>2, <4>1, <4>2 DEF Grows, Known, EventIds
    <3>7. QED
      BY SMT, <3>4, <3>6, <1>GrowsStep
  <2>5. QED
    BY <2>3, <2>4
\* A published ack comes from the target that handled the event.
<1>AckPublishedStep. ASSUME IInv, NEW n \in Nodes, ackPublished(n)
                     PROVE  IInv'
  <2> USE <1>AckPublishedStep
  <2> USE DEF IInv, publisher
  <2>1. acking[n] # NoAck /\ acking[n] \in [id : OpIds, key : Keys]
    BY SMTT(30) DEF ackPublished, TypeOK
  <2> DEFINE id == acking[n].id
             k == acking[n].key
             msg == AckMessage(id, n)
  <2>2. id \in OpIds /\ k \in Keys /\ id \in EventIds
    BY <2>1, AckFields DEF Known
  <2>3. msg \in Messages /\ Earned(msg)
    BY SMT, <2>1, <2>2 DEF AckMessage, Messages, Earned, AcksEarned
  <2>4. /\ Produce(k, msg) /\ Advance(n, k)
        /\ acking' = [acking EXCEPT ![n] = NoAck]
        /\ UNCHANGED <<events, store, delaying, publishing, pendingAcks, ackedBy,
                       timedOut, handled, fault, snap, faults>>
    BY DEF ackPublished
  <2> HIDE DEF id, k, msg
  <2>5. /\ log' \in [Keys -> Seq(Messages)]
        /\ \A x \in Keys : \A i \in 1 .. Len(log'[x]) :
             \/ i \in 1 .. Len(log[x]) /\ log'[x][i] = log[x][i]
             \/ Earned(log'[x][i])
    BY <2>2, <2>3, <2>4, <1>ProduceType, <1>ProduceGrows
  <2>6. /\ acking' \in [Nodes -> {NoAck} \cup [id : OpIds, key : Keys]]
        /\ \A m \in Nodes : acking'[m] = NoAck \/ acking'[m] = acking[m]
    BY <2>4, <1>AckForgotten
  <2>7. TypeOK'
    BY <2>2, <2>4, <2>5, <2>6, <1>AdvanceType DEF TypeOK
  <2>8. Grows
    BY <2>4, <2>5, <2>6 DEF Grows, Known, EventIds
  <2>9. QED
    BY SMTT(30), <2>7, <2>8, <1>GrowsStep
\* handleAck counts an ack of a target that handled the event.
<1>HandleAckStep. ASSUME IInv, NEW n \in Nodes, NEW k \in Keys, handleAck(n, k)
                  PROVE  IInv'
  <2> USE <1>HandleAckStep
  <2> USE DEF IInv
  <2> DEFINE ack == NextMessage(n, k)
             id == ack.id
             r == ack.replicaNodeId
  <2>1. /\ id \in EventIds /\ id \in OpIds /\ ack.kind = "ack" /\ ack \in Messages
        /\ offset[n][k] + 1 \in 1 .. Len(log[k])
    <3>1. Receives(n, k, "ack")
      BY DEF handleAck
    <3>2. QED
      BY SMT, <3>1, ReceivedKnown
  <2>2. r \in Nodes /\ r \in targetNodeIds(id) /\ <<r, id>> \in handled
    <3>1. r \in Nodes
      BY SMTT(30), <2>1 DEF Messages
    <3>2. QED
      BY <2>1, <3>1 DEF AcksEarned, NextMessage
  <2>3. /\ Advance(n, k)
        /\ UNCHANGED <<events, store, delaying, publishing, timedOut, log, acking,
                       handled, fault, snap, faults>>
        /\ \/ UNCHANGED <<ackedBy, pendingAcks>>
           \/ /\ ackedBy' = [ackedBy EXCEPT ![id] = @ \cup {r}]
              /\ \/ pendingAcks' = [pendingAcks EXCEPT ![n] = @ \ {id}]
                 \/ UNCHANGED pendingAcks
    BY SMT DEF handleAck
  <2> HIDE DEF id, r, ack
  <2>4. ackedBy \in [OpIds -> SUBSET Nodes] /\ pendingAcks \in [Nodes -> SUBSET OpIds]
    BY DEF TypeOK
  <2>5. /\ ackedBy' \in [OpIds -> SUBSET Nodes]
        /\ \A x \in OpIds : \/ ackedBy'[x] = ackedBy[x]
                            \/ x = id /\ ackedBy'[x] = ackedBy[x] \cup {r}
    <3>1. ackedBy[id] \cup {r} \in SUBSET Nodes
      BY <2>1, <2>2, <2>4
    <3>2. CASE ackedBy' = [ackedBy EXCEPT ![id] = ackedBy[id] \cup {r}]
      BY SMTT(30), <2>1, <2>4, <3>1, <3>2
    <3>3. QED
      BY SMTT(30), <2>3, <2>4, <3>2
  <2>6. pendingAcks' \in [Nodes -> SUBSET OpIds]
    <3>1. pendingAcks[n] \ {id} \in SUBSET OpIds
      BY SMT, <2>4
    <3>2. CASE pendingAcks' = [pendingAcks EXCEPT ![n] = pendingAcks[n] \ {id}]
      BY SMT, <2>4, <3>1, <3>2
    <3>3. QED
      BY SMT, <2>3, <2>4, <3>2
  <2>7. TypeOK'
    BY <2>3, <2>5, <2>6, <1>AdvanceType DEF TypeOK
  <2>8. \A x \in OpIds :
          \/ ackedBy'[x] = ackedBy[x]
          \/ /\ x \in EventIds
             /\ \A q \in ackedBy'[x] \ ackedBy[x] : q \in targetNodeIds(x) /\ <<q, x>> \in handled
    BY <2>1, <2>2, <2>5
  <2>9. Grows
    BY <2>3, <2>8 DEF Grows, Known, EventIds
  <2>10. QED
    BY <2>7, <2>9, <1>GrowsStep
\* A failed ack, a rebalance, the fault injector's delay and drop, and a
\* snapshot touch neither the log nor the acks.
<1>QuietStep. ASSUME IInv, NEW n \in Nodes,
                     \/ ackFails(n) \/ rewind(n) \/ takeSnapshot(n)
                     \/ \E delay \in Delays : DELAY_REPLICATION(n, delay)
                     \/ \E drop \in BOOLEAN : DROP_MESSAGES(n, drop)
              PROVE  IInv'
  <2> USE <1>QuietStep
  <2> USE DEF IInv, publisher, consumer
  <2>1. CASE ackFails(n)
    <3>1. TypeOK'
      <4>1. faults' \in Nat
        BY <2>1, <1>FaultCounted DEF ackFails
      <4>2. acking' \in [Nodes -> {NoAck} \cup [id : OpIds, key : Keys]]
        BY <2>1, <1>AckForgotten DEF ackFails
      <4>3. QED
        BY <2>1, <4>1, <4>2 DEF ackFails, TypeOK
    <3>2. Grows
      BY <2>1 DEF ackFails, Grows, Known, EventIds, TypeOK
    <3>3. QED
      BY SMT, <3>1, <3>2, <1>GrowsStep
  <2>2. CASE rewind(n)
    <3>1. PICK o \in Committed(n) : offset' = [offset EXCEPT ![n] = o]
      BY <2>2 DEF rewind
    <3>2. o \in [Keys -> Nat]
      BY SMTT(30) DEF Committed, TypeOK
    <3>3. offset' \in [Nodes -> [Keys -> Nat]]
      BY SMT, <3>1, <3>2 DEF TypeOK
    <3>4. TypeOK'
      <4>1. faults' \in Nat
        BY <2>2, <1>FaultCounted DEF rewind
      <4>2. acking' \in [Nodes -> {NoAck} \cup [id : OpIds, key : Keys]]
        BY <2>2, <1>AckForgotten DEF rewind
      <4>3. QED
        BY <2>2, <3>3, <4>1, <4>2 DEF rewind, TypeOK
    <3>5. Grows
      BY <2>2 DEF rewind, Grows, Known, EventIds, TypeOK
    <3>6. QED
      BY SMT, <3>4, <3>5, <1>GrowsStep
  <2>3. CASE takeSnapshot(n)
    <3> DEFINE new == [k \in DOMAIN store[n] |-> store[n][k].val]
    <3>1. IsSnapshot(new)
      BY SMTT(30) DEF TypeOK, IsStore, IsSnapshot, Entries
    <3>2. snap' = [snap EXCEPT ![n] = new]
      BY SMTT(30), <2>3 DEF takeSnapshot
    <3> HIDE DEF new
    <3>3. DOMAIN snap = Nodes
      BY SMT DEF TypeOK
    <3>4. snap' = [m \in Nodes |-> snap'[m]]
      BY <3>2, <3>3
    <3>5. \A m \in Nodes : snap'[m] = IF m = n THEN new ELSE snap[m]
      BY SMT, <3>2, <3>3
    <3>6. TypeOK'
      BY <2>3, <3>1, <3>4, <3>5 DEF takeSnapshot, TypeOK
    <3>7. Grows
      BY <2>3 DEF takeSnapshot, Grows, Known, EventIds
    <3>8. QED
      BY SMT, <3>6, <3>7, <1>GrowsStep
  <2>4. ASSUME NEW delay \in Delays, DELAY_REPLICATION(n, delay) PROVE IInv'
    <3> DEFINE new == [fault[n] EXCEPT !.delay = delay]
    <3>1. fault \in [Nodes -> [delay : Delays, drop : BOOLEAN]]
      BY SMT DEF TypeOK
    <3>2. new \in [delay : Delays, drop : BOOLEAN]
      BY SMT, <3>1
    <3>3. fault' = [fault EXCEPT ![n] = new]
      BY SMT, <2>4 DEF DELAY_REPLICATION
    <3> HIDE DEF new
    <3>4. fault' \in [Nodes -> [delay : Delays, drop : BOOLEAN]]
      BY SMT, <3>1, <3>2, <3>3
    <3>5. TypeOK'
      <4>1. faults' \in Nat
        BY <2>4, <1>FaultCounted DEF DELAY_REPLICATION
      <4>2. QED
        BY <2>4, <3>4, <4>1 DEF DELAY_REPLICATION, TypeOK
    <3>6. Grows
      BY <2>4 DEF DELAY_REPLICATION, Grows, Known, EventIds
    <3>7. QED
      BY SMTT(30), <3>5, <3>6, <1>GrowsStep
  <2>5. ASSUME NEW drop \in BOOLEAN, DROP_MESSAGES(n, drop) PROVE IInv'
    <3> DEFINE new == [fault[n] EXCEPT !.drop = drop]
    <3>1. fault \in [Nodes -> [delay : Delays, drop : BOOLEAN]]
      BY SMT DEF TypeOK
    <3>2. new \in [delay : Delays, drop : BOOLEAN]
      BY SMT, <3>1
    <3>3. fault' = [fault EXCEPT ![n] = new]
      BY SMT, <2>5 DEF DROP_MESSAGES
    <3> HIDE DEF new
    <3>4. fault' \in [Nodes -> [delay : Delays, drop : BOOLEAN]]
      BY SMT, <3>1, <3>2, <3>3
    <3>5. TypeOK'
      <4>1. faults' \in Nat
        BY <2>5, <1>FaultCounted DEF DROP_MESSAGES
      <4>2. QED
        BY <2>5, <3>4, <4>1 DEF DROP_MESSAGES, TypeOK
    <3>6. Grows
      BY <2>5 DEF DROP_MESSAGES, Grows, Known, EventIds
    <3>7. QED
      BY SMTT(30), <3>5, <3>6, <1>GrowsStep
  <2>6. QED
    BY SMTT(30), <2>1, <2>2, <2>3, <2>4, <2>5
\* What recover leaves in storage is a store.
<1>RecoverType. ASSUME TypeOK, NEW n \in Nodes, recover(n)
                PROVE  /\ store' = [m \in Nodes |-> store'[m]]
                       /\ \A m \in Nodes : IsStore(store'[m])
  <2> USE <1>RecoverType
  <2> DEFINE restored == [k \in DOMAIN snap[n] |-> [val |-> snap[n][k], ver |-> 1]]
  <2>1. IsStore(restored)
    BY SMT DEF TypeOK, IsSnapshot, IsStore, Entries
  <2>2. store' = [store EXCEPT ![n] = restored]
    BY SMT DEF recover
  <2> HIDE DEF restored
  <2>3. QED
    BY <2>1, <2>2, <1>StoreUpdate
\* A restart loses what was in memory and changes neither log nor acks.
<1>RestartStep. ASSUME IInv, NEW n \in Nodes, handleRestart(n) \/ crash(n)
                PROVE  IInv'
  <2> USE <1>RestartStep
  <2> USE DEF IInv, publisher, consumer
  <2>1. recover(n) /\ faults' \in Nat
    BY SMT DEF handleRestart, crash, Fault, TypeOK
  <2>2. fault' \in [Nodes -> [delay : Delays, drop : BOOLEAN]]
    <3>1. NoFault \in [delay : Delays, drop : BOOLEAN]
      BY SMTT(30) DEF NoFault, Delays
    <3>2. fault \in [Nodes -> [delay : Delays, drop : BOOLEAN]]
      BY SMTT(30) DEF TypeOK
    <3>3. fault' = [fault EXCEPT ![n] = NoFault]
      BY SMT DEF handleRestart, crash
    <3>4. QED
      BY SMT, <3>1, <3>2, <3>3
  <2>3. CASE handleRestart(n)
    <3>1. TypeOK'
      BY <2>1, <2>2, <2>3, <1>RecoverType DEF handleRestart, TypeOK
    <3>2. Grows
      BY <2>3 DEF handleRestart, Grows, Known, EventIds
    <3>3. QED
      BY SMT, <3>1, <3>2, <1>GrowsStep
  <2>4. CASE crash(n)
    <3>1. /\ delaying' = [delaying EXCEPT ![n] = <<>>]
          /\ publishing' = [publishing EXCEPT ![n] = <<>>]
          /\ pendingAcks' = [pendingAcks EXCEPT ![n] = {}]
          /\ acking' = [acking EXCEPT ![n] = NoAck]
          /\ UNCHANGED <<events, ackedBy, timedOut, log, handled, snap>>
      BY SMTT(30), <2>4 DEF crash
    <3>2. offset' \in [Nodes -> [Keys -> Nat]]
      <4>1. PICK o \in Committed(n) \cup {AtEnd} : offset' = [offset EXCEPT ![n] = o]
        BY <2>4 DEF crash
      <4>2. \A k \in Keys : Len(log[k]) \in Nat
        BY SMTT(30) DEF TypeOK
      <4>3. o \in [Keys -> Nat]
        BY SMTT(30), <4>2 DEF Committed, AtEnd, TypeOK
      <4>4. QED
        BY SMT, <4>1, <4>3 DEF TypeOK
    <3>3. /\ delaying' \in [Nodes -> Seq(OpIds \X Delays)]
          /\ \A m \in Nodes : \A i \in 1 .. Len(delaying'[m]) : delaying'[m][i][1] \in EventIds
      BY SMTT(30), <3>1 DEF TypeOK, Known
    <3>4. /\ publishing' \in [Nodes -> Seq(OpIds)]
          /\ \A m \in Nodes : \A i \in 1 .. Len(publishing'[m]) : publishing'[m][i] \in EventIds
      BY SMTT(30), <3>1 DEF TypeOK, Known
    <3>5. /\ pendingAcks' \in [Nodes -> SUBSET OpIds]
          /\ acking' \in [Nodes -> {NoAck} \cup [id : OpIds, key : Keys]]
          /\ \A m \in Nodes : acking'[m] = NoAck \/ acking'[m] = acking[m]
      <4>1. pendingAcks \in [Nodes -> SUBSET OpIds] /\ {} \in SUBSET OpIds
        BY SMT DEF TypeOK
      <4>2. pendingAcks' \in [Nodes -> SUBSET OpIds]
        BY SMT, <3>1, <4>1
      <4>3. QED
        BY SMTT(30), <3>1, <4>2 DEF TypeOK
    <3>6. TypeOK'
      BY <2>1, <2>2, <3>1, <3>2, <3>3, <3>4, <3>5, <1>RecoverType DEF TypeOK
    <3>7. Grows
      BY <3>1, <3>3, <3>4, <3>5 DEF Grows, Known, EventIds
    <3>8. QED
      BY SMT, <3>6, <3>7, <1>GrowsStep
  <2>5. QED
    BY SMTT(30), <2>3, <2>4
<1> SUFFICES ASSUME IInv, [Next]_vars PROVE IInv'
  BY SMTT(30)
<1>1. ASSUME NEW k \in Keys, NEW n \in Writers[k], PUT(n, k) \/ DELETE(n, k)
      PROVE  IInv'
  BY SMT, <1>1, <1>PutStep, <1>DeleteStep
<1>2. ASSUME NEW n \in Nodes, replicate(n) PROVE IInv'
  BY SMT, <1>2, <1>ReplicateStep
<1>3. ASSUME NEW n \in Nodes,
             publish(n) \/ publishOvertakes(n) \/ publishTwice(n) \/ publishFails(n)
      PROVE  IInv'
  BY SMT, <1>3, <1>PublishStep
<1>4. ASSUME NEW n \in Nodes, NEW id \in pendingAcks[n], ackTimeout(n, id)
      PROVE  IInv'
  BY SMT, <1>4, <1>TimeoutStep
<1>5. ASSUME NEW n \in Nodes, NEW k \in Keys,
             handleReplicationEvent(n, k) \/ handleAck(n, k)
      PROVE  IInv'
  BY SMT, <1>5, <1>EventStep, <1>HandleAckStep
<1>6. ASSUME NEW n \in Nodes, ackPublished(n) PROVE IInv'
  BY SMT, <1>6, <1>AckPublishedStep
<1>7. ASSUME NEW n \in Nodes,
             \/ ackFails(n) \/ rewind(n) \/ takeSnapshot(n)
             \/ \E delay \in Delays : DELAY_REPLICATION(n, delay)
             \/ \E drop \in BOOLEAN : DROP_MESSAGES(n, drop)
      PROVE  IInv'
  BY SMT, <1>7, <1>QuietStep
<1>8. ASSUME NEW n \in Nodes, handleRestart(n) \/ crash(n) PROVE IInv'
  BY SMT, <1>8, <1>RestartStep
<1>9. CASE UNCHANGED vars
  <2>1. TypeOK'
    BY <1>9 DEF IInv, TypeOK, vars
  <2>2. Grows
    BY <1>9 DEF IInv, Grows, Known, EventIds, vars
  <2>3. QED
    BY SMT, <2>1, <2>2, <1>GrowsStep
<1>10. QED
  BY <1>1, <1>2, <1>3, <1>4, <1>5, <1>6, <1>7, <1>8, <1>9 DEF Next

\* The handlers of the cluster keep every variable in its type.
THEOREM ReplicationTypes == Spec => []TypeOK
<1>1. IInv => TypeOK
  BY SMT DEF IInv
<1>2. QED
  BY <1>1, InvInit, InvStep, PTL DEF Spec

\* A node id that replicateWrite or replicateDelete resolves with is a target
\* that handled the event, in every cluster and under every fault.
THEOREM AcksAreSound == Spec => []AckSound
<1>1. IInv => AckSound
  BY SMT DEF IInv
<1>2. QED
  BY <1>1, InvInit, InvStep, PTL DEF Spec

\* Whatever is lost, duplicated, reordered, dropped, delayed, redelivered or
\* restarted from a snapshot, a node whose consumer group gets every partition
\* has handled each event of its own that it has consumed; only the death of a
\* process, after which the consumer may start at the end, can skip one.
THEOREM EventsAreDelivered ==
  ASSUME \A n \in Nodes : Assigned[n] = Keys, "crash" \notin FaultKinds
  PROVE  Spec => []Delivered
<1>1. Init => Consumed
  BY ConsumedInit
<1>2. IInv' => TypedNext
  <2> SUFFICES ASSUME IInv' PROVE TypedNext
    OBVIOUS
  <2>1. offset' \in [Nodes -> [Keys -> Nat]] /\ log' \in [Keys -> Seq(Messages)']
    BY DEF IInv, TypeOK
  <2>2. QED
    BY SMT, <2>1 DEF TypedNext
<1>3. IInv /\ TypedNext /\ Consumed /\ [Next]_vars => Consumed'
  BY ConsumedStep
<1>4. IInv /\ Consumed => Delivered
  BY ConsumedDelivers
<1>5. QED
  BY <1>1, <1>2, <1>3, <1>4, InvInit, InvStep, PTL DEF Spec

-----------------------------------------------------------------------------
(* Convergence: with one writer per key the replicas follow it, through      *)
(* duplicates, failed acks and redeliveries.                                 *)

\* The circumstances: faults that keep sends in order and lose none, one node
\* that takes the writes of a key, consumers of all partitions, no full store.
Benign ==
  /\ FaultKinds \subseteq {"duplicated", "ackFails", "rewind"}
  /\ \A k \in Keys : \A v, w \in Writers[k] : v = w
  /\ \A n \in Nodes : Assigned[n] = Keys
  /\ \A S \in SUBSET Keys : Cardinality(S) <= Capacity

\* u waits at n to be published, and is the next to be.
Unsent(n, u) ==
  \/ \E i \in 1 .. Len(publishing[n]) : publishing[n][i] = u
  \/ \E i \in 1 .. Len(delaying[n]) : delaying[n][i][1] = u

AtHead(n, u) == Len(publishing[n]) > 0 /\ publishing[n][1] = u

\* Operations come from a writer of their key.
Sources == \A id \in EventIds : events[id].sourceNodeId \in Writers[events[id].key]

\* What n has to publish are its own operations, in the order of acceptance,
\* none of them delayed.
Lined(n) ==
  /\ fault[n] = NoFault
  /\ \A i \in 1 .. Len(publishing[n]) :
       /\ events[publishing[n][i]].sourceNodeId = n
       /\ \A j \in 1 .. Len(publishing[n]) : i < j => publishing[n][i] < publishing[n][j]
  /\ \A i \in 1 .. Len(delaying[n]) :
       /\ delaying[n][i][2] = 0 /\ events[delaying[n][i][1]].sourceNodeId = n
       /\ \A j \in 1 .. Len(delaying[n]) : i < j => delaying[n][i][1] < delaying[n][j][1]
       /\ \A j \in 1 .. Len(publishing[n]) : publishing[n][j] < delaying[n][i][1]

\* The event at position a of partition k is one of k, follows older ones, and
\* precedes what is unsent, unless it is the next to be published, again.
Placed(k, a) ==
  /\ events[log[k][a].id].key = k
  /\ \A b \in 1 .. Len(log[k]) :
       b < a /\ log[k][b].kind = "event" => log[k][b].id <= log[k][a].id
  /\ \A n \in Nodes, u \in EventIds :
       Unsent(n, u) /\ events[u].key = k =>
         log[k][a].id < u \/ (log[k][a].id = u /\ AtHead(n, u))

\* Partitions hold events in the order of acceptance.
LogOrder ==
  \A k \in Keys : \A a \in 1 .. Len(log[k]) : log[k][a].kind = "event" => Placed(k, a)

\* An operation with targets is in the topic or on its way.
Complete ==
  \A id \in EventIds : targetNodeIds(id) # {} =>
    Logged(id) \/ Unsent(events[id].sourceNodeId, id)

\* Everything up to the topic.
PInv == Sources /\ (\A n \in Nodes : Lined(n)) /\ LogOrder /\ Complete

\* The operations so far, 0 standing for none.
Past == 0 .. Len(events)

\* The operations on a key.
On(k, id) == id \in EventIds /\ events[id].key = k

\* n holds of k what operation i left.
Holds(n, k, i) ==
  /\ k \in DOMAIN store[n] <=> i # 0 /\ events[i].op = "PUT"
  /\ k \in DOMAIN store[n] => store[n][k] = [val |-> i, ver |-> events[i].version]

\* What is stored then.
LEMMA HoldsFields ==
  ASSUME NEW n, NEW k, NEW i, Holds(n, k, i), k \in DOMAIN store[n]
  PROVE  store[n][k].val = i /\ store[n][k].ver = events[i].version
BY SMT DEF Holds

\* i is the last operation on k before id, if there is one.
Before(k, i, id) ==
  /\ i = 0 \/ On(k, i)
  /\ i < id
  /\ \A m \in EventIds : On(k, m) /\ m < id => m <= i

\* The version of a PUT that follows operation i.
VersionFrom(i) == IF i # 0 /\ events[i].op = "PUT" THEN events[i].version + 1 ELSE 1

\* No DELETE of k comes after i and before id.
NoDelete(k, i, id) ==
  \A m \in EventIds : On(k, m) /\ i < m /\ m < id => events[m].op = "PUT"

\* Versions count the PUTs since the last DELETE.
Counted(k, id) ==
  /\ \A i \in Past : Before(k, i, id) => events[id].version = VersionFrom(i)
  /\ \A i \in EventIds :
       On(k, i) /\ i < id /\ events[i].op = "PUT" /\ NoDelete(k, i, id) =>
         events[i].version < events[id].version

Versions ==
  \A k \in Keys, id \in EventIds : On(k, id) /\ events[id].op = "PUT" => Counted(k, id)

\* The writer of a key holds what the last operation left.
WriterExact ==
  \A k \in Keys : \A w \in Writers[k] :
    \E i \in Past : Holds(w, k, i) /\ Before(k, i, Len(events) + 1)

\* Events are handled in order.
HandledInOrder ==
  \A n \in Nodes : \A id \in OpIds : <<n, id>> \in handled =>
    /\ id \in EventIds /\ Logged(id)
    /\ \A m \in EventIds : On(events[id].key, m) /\ m < id => <<n, m>> \in handled

\* How far n has applied partition k: past the message whose ack it publishes.
Applies(n, k) ==
  IF acking[n] # NoAck /\ acking[n].key = k THEN offset[n][k] + 1 ELSE offset[n][k]

\* A DELETE that n has handled before is to come again.
DeleteAhead(n, k) ==
  \E a \in 1 .. Len(log[k]) :
    /\ Applies(n, k) < a /\ log[k][a].kind = "event"
    /\ events[log[k][a].id].op = "DELETE" /\ <<n, log[k][a].id>> \in handled

\* n holds what operation i left, which it has handled and which is not older
\* than any it has applied.
Follows(n, k, i) ==
  /\ i = 0 \/ (On(k, i) /\ <<n, i>> \in handled)
  /\ Holds(n, k, i)
  /\ \A a \in 1 .. Len(log[k]) :
       a <= Applies(n, k) /\ log[k][a].kind = "event" => log[k][a].id <= i

\* A replica holds what the writer held at some time, or is about to handle a
\* DELETE again.
Tracks(n, k) == DeleteAhead(n, k) \/ \E i \in Past : Follows(n, k, i)

ReplicasTrack == \A k \in Keys : \A n \in ReplicaNodeIds[k] \ Writers[k] : Tracks(n, k)

CInv == PInv /\ Versions /\ WriterExact /\ HandledInOrder /\ ReplicasTrack

\* Initially nobody holds anything.
LEMMA CInvInit ==
  ASSUME Init
  PROVE  CInv
<1>1. Len(events) = 0 /\ EventIds = {} /\ Past = {0} /\ Len(events) + 1 = 1
  <2>1. events = <<>>
    BY DEF Init
  <2>2. Len(events) = 0
    BY SMT, <2>1
  <2>3. QED
    BY SMT, <2>2 DEF EventIds, Past
<1>2. /\ \A n \in Nodes : /\ Len(publishing[n]) = 0 /\ Len(delaying[n]) = 0
                          /\ fault[n] = NoFault /\ DOMAIN store[n] = {}
      /\ \A k \in Keys : Len(log[k]) = 0
      /\ handled = {}
  BY SMT DEF Init, NoEntries
<1>3. 1 .. 0 = {} /\ 0 < 1
  BY SMT
<1>4. PInv
  <2>1. Sources /\ Complete
    BY <1>1 DEF Sources, Complete
  <2>2. LogOrder
    BY <1>2, <1>3 DEF LogOrder
  <2>3. \A n \in Nodes : Lined(n)
    BY <1>2, <1>3 DEF Lined
  <2>4. QED
    BY <2>1, <2>2, <2>3 DEF PInv
<1>5. Versions
  BY <1>1 DEF Versions
<1>6. \A k \in Keys : Writers[k] \subseteq Nodes /\ ReplicaNodeIds[k] \subseteq Nodes
  BY SMT, ReplicationAssumption
<1>7. \A n \in Nodes, k \in Keys : Holds(n, k, 0)
  BY <1>2 DEF Holds
<1>8. WriterExact
  BY <1>1, <1>3, <1>6, <1>7 DEF WriterExact, Before
<1>9. HandledInOrder
  BY <1>2 DEF HandledInOrder
<1>10. ASSUME NEW n \in Nodes, NEW k \in Keys PROVE Tracks(n, k)
  <2>1. Follows(n, k, 0)
    BY <1>2, <1>3, <1>7 DEF Follows
  <2>2. QED
    BY <1>1, <2>1 DEF Tracks
<1>11. ReplicasTrack
  BY <1>6, <1>10 DEF ReplicasTrack
<1>12. QED
  BY <1>4, <1>5, <1>8, <1>9, <1>11 DEF CInv

\* What a step may do to the operations on their way: new ones join, one may
\* be published or, without targets, forgotten, and the next one stays next.
Carried(n, u) ==
  /\ Unsent(n, u)' => Unsent(n, u) \/ u \notin EventIds
  /\ Unsent(n, u)' /\ AtHead(n, u) => AtHead(n, u)'
  /\ Unsent(n, u) => Unsent(n, u)' \/ targetNodeIds(u) = {} \/ Logged(u)'

\* h, the next of n, is what comes before all that is unsent afterwards.
Leaves(n, h) ==
  /\ h \in EventIds /\ AtHead(n, h) /\ Unsent(n, h)
  /\ \A u \in EventIds : Unsent(n, u)' => h < u \/ (h = u /\ AtHead(n, u)')

\* A new message of partition k is an ack or the next event of a node.
Published(k) ==
  \/ Len(log'[k]) = Len(log[k])
  \/ /\ Len(log'[k]) = Len(log[k]) + 1
     /\ log'[k][Len(log[k]) + 1].kind = "event" =>
          \E n \in Nodes, h \in EventIds :
            /\ log'[k][Len(log[k]) + 1].id = h
            /\ events[h].key = k /\ Leaves(n, h)

\* A new operation comes from a writer of its key and is unsent.
Accepted ==
  \A u \in EventIds' \ EventIds :
    /\ events'[u].sourceNodeId \in Writers[events'[u].key]
    /\ \E n \in Nodes : n = events'[u].sourceNodeId /\ Unsent(n, u)'

\* What is in the topic stays there.
LEMMA LoggedStays ==
  ASSUME IInv, Keeps, NEW id \in EventIds, Logged(id)
  PROVE  Logged(id)'
<1>1. events[id].key \in Keys /\ events'[id] = events[id]
  BY IdsInRange DEF IInv, Keeps
<1> DEFINE k == events[id].key
<1>2. PICK i \in 1 .. Len(log[k]) : log[k][i] = EventMessage(id)
  BY DEF Logged
<1>3. log'[k][i] = log[k][i] /\ Len(log[k]) <= Len(log'[k])
  BY <1>1, <1>2 DEF Keeps
<1>4. i \in 1 .. Len(log'[k])
  BY SMT, <1>2, <1>3
<1>5. QED
  BY <1>1, <1>2, <1>3, <1>4 DEF Logged, EventMessage

\* So does the rest of what is known about operations up to the topic.
LEMMA FlowStep ==
  /\ Benign /\ IInv /\ IInv' /\ PInv /\ Keeps
  /\ (\A n \in Nodes, u \in EventIds' : Carried(n, u)) /\ (\A k \in Keys : Published(k))
  /\ Accepted /\ (\A n \in Nodes : Lined(n)')
  => PInv'
\* What is unsent at n was accepted by n.
<1>UnsentOwn. ASSUME IInv, NEW n \in Nodes, Lined(n), NEW u, Unsent(n, u)
              PROVE  u \in EventIds /\ events[u].sourceNodeId = n
  <2> USE <1>UnsentOwn
  <2>1. CASE \E i \in 1 .. Len(publishing[n]) : publishing[n][i] = u
    BY <2>1 DEF IInv, Known, Lined
  <2>2. CASE \E i \in 1 .. Len(delaying[n]) : delaying[n][i][1] = u
    BY <2>2 DEF IInv, Known, Lined
  <2>3. QED
    BY <2>1, <2>2 DEF Unsent
\* Operations on one key come from one node.
<1>OneSource. ASSUME Benign, IInv, Sources, NEW i \in EventIds, NEW j \in EventIds,
                     events[i].key = events[j].key
              PROVE  events[i].sourceNodeId = events[j].sourceNodeId
  <2> USE <1>OneSource
  <2>1. events[i].key \in Keys
    BY IdsInRange DEF IInv
  <2>2. QED
    BY <2>1 DEF Benign, Sources
\* Ids are numbers, and new ones are larger.
<1>NewLarger. ASSUME TypeOK, NEW u, u \notin EventIds, u \in EventIds', TypeOK', NEW i \in EventIds
              PROVE  i < u
  <2> USE <1>NewLarger
  <2>1. events \in Seq(Operations) /\ events' \in Seq(Operations)
    BY DEF TypeOK, Operations
  <2>2. QED
    BY SMT, <2>1 DEF EventIds
\* Such a step keeps the order of the partitions.
<1>LogOrderStep. ASSUME Benign, IInv, IInv', PInv, Keeps, NEW k \in Keys,
                        \A n \in Nodes, u \in EventIds' : Carried(n, u), Published(k),
                        NEW a \in 1 .. Len(log'[k]), log'[k][a].kind = "event"
                 PROVE  Placed(k, a)'
  <2> USE <1>LogOrderStep
  <2>1. /\ Len(log[k]) \in Nat /\ Len(log'[k]) \in Nat /\ Len(log[k]) <= Len(log'[k])
        /\ \A i \in 1 .. Len(log[k]) : log'[k][i] = log[k][i]
        /\ EventIds \subseteq EventIds'
        /\ \A id \in EventIds : events'[id] = events[id]
    <3>1. log \in [Keys -> Seq(Messages)] /\ log' \in [Keys -> Seq(Messages)']
      BY DEF IInv, TypeOK
    <3>2. log[k] \in Seq(Messages) /\ log'[k] \in Seq(Messages')
      BY <3>1
    <3>3. Len(log[k]) \in Nat /\ Len(log'[k]) \in Nat
      BY SMT, <3>2
    <3>4. QED
      BY <3>3 DEF Keeps
  <2>2. \A i \in 1 .. Len(log[k]) : log[k][i].id \in EventIds
    BY DEF IInv, Known
  <2>3. \A id \in EventIds : id \in Nat
    <3>1. events \in Seq(Operations)
      BY DEF IInv, TypeOK
    <3>2. QED
      BY SMT, <3>1 DEF EventIds
  <2>4. CASE a \in 1 .. Len(log[k])
    <3>1. log'[k][a] = log[k][a] /\ log[k][a].id \in EventIds /\ Placed(k, a)
      BY <2>1, <2>2, <2>4 DEF PInv, LogOrder
    <3>2. events'[log'[k][a].id].key = k
      BY <2>1, <3>1 DEF Placed
    <3>3. ASSUME NEW b \in 1 .. Len(log'[k]), b < a, log'[k][b].kind = "event"
          PROVE  log'[k][b].id <= log'[k][a].id
      <4>1. b \in 1 .. Len(log[k])
        BY SMT, <2>1, <2>4, <3>3
      <4>2. QED
        BY <2>1, <3>1, <3>3, <4>1 DEF Placed
    <3>4. ASSUME NEW n \in Nodes, NEW u \in EventIds', Unsent(n, u)', events'[u].key = k
          PROVE  \/ log'[k][a].id < u
                 \/ log'[k][a].id = u /\ AtHead(n, u)'
      <4>1. CASE u \notin EventIds
        <5>1. log[k][a].id < u
          BY <3>1, <4>1, <1>NewLarger DEF IInv
        <5>2. QED
          BY <3>1, <5>1
      <4>2. CASE u \in EventIds
        <5>1. Unsent(n, u) /\ (AtHead(n, u) => AtHead(n, u)') /\ events[u].key = k
          BY <2>1, <3>4, <4>2 DEF Carried
        <5>2. QED
          BY <3>1, <4>2, <5>1 DEF Placed
      <4>3. QED
        BY <4>1, <4>2
    <3>5. QED
      BY <3>2, <3>3, <3>4 DEF Placed
  <2>5. CASE a \notin 1 .. Len(log[k])
    <3>1. a = Len(log[k]) + 1 /\ Len(log'[k]) # Len(log[k])
      <4>1. Len(log'[k]) = Len(log[k]) \/ Len(log'[k]) = Len(log[k]) + 1
        BY DEF Published
      <4>2. QED
        BY SMT, <2>1, <2>5, <4>1
    <3>2. PICK m \in Nodes, h \in EventIds :
            log'[k][a].id = h /\ events[h].key = k /\ Leaves(m, h)
      BY <3>1 DEF Published
    <3>3. events'[log'[k][a].id].key = k
      BY <2>1, <3>2
    <3>4. ASSUME NEW b \in 1 .. Len(log'[k]), b < a, log'[k][b].kind = "event"
          PROVE  log'[k][b].id <= h
      <4>1. b \in 1 .. Len(log[k])
        BY SMT, <2>1, <3>1, <3>4
      <4>2. log'[k][b] = log[k][b] /\ Placed(k, b) /\ log[k][b].id \in EventIds
        BY <2>1, <2>2, <3>4, <4>1 DEF PInv, LogOrder
      <4>3. log[k][b].id < h \/ log[k][b].id = h
        BY <3>2, <4>2 DEF Placed, Leaves
      <4>4. log[k][b].id \in Nat /\ h \in Nat
        BY <2>3, <4>2
      <4>5. QED
        BY <4>2, <4>3, <4>4, AtMost
    <3>5. ASSUME NEW n \in Nodes, NEW u \in EventIds', Unsent(n, u)', events'[u].key = k
          PROVE  h < u \/ (h = u /\ AtHead(n, u)')
      <4>1. CASE u \notin EventIds
        BY <4>1, <1>NewLarger DEF IInv
      <4>2. CASE u \in EventIds
        <5>1. Unsent(n, u) /\ events[u].key = k
          BY <2>1, <3>5, <4>2 DEF Carried
        <5>2. events[u].sourceNodeId = n /\ events[h].sourceNodeId = m
          BY <3>2, <5>1, <1>UnsentOwn DEF PInv, Leaves
        <5>3. n = m
          BY <3>2, <4>2, <5>1, <5>2, <1>OneSource DEF PInv
        <5>4. QED
          BY <3>2, <3>5, <4>2, <5>3 DEF Leaves
      <4>3. QED
        BY <4>1, <4>2
    <3>6. QED
      BY <3>2, <3>3, <3>4, <3>5 DEF Placed
  <2>6. QED
    BY <2>4, <2>5
<1>Main. ASSUME Benign, IInv, IInv', PInv, Keeps,
                \A n \in Nodes, u \in EventIds' : Carried(n, u),
                \A k \in Keys : Published(k), Accepted,
                \A n \in Nodes : Lined(n)'
         PROVE  PInv'
  <2> USE <1>Main
  <2>1. EventIds \subseteq EventIds' /\ \A id \in EventIds : events'[id] = events[id]
    BY DEF Keeps
  <2>2. LogOrder'
    BY <1>LogOrderStep DEF LogOrder
  <2>3. Sources'
    <3>1. ASSUME NEW id \in EventIds'
          PROVE  events'[id].sourceNodeId \in Writers[events'[id].key]
      <4>1. CASE id \in EventIds
        BY <2>1, <4>1 DEF PInv, Sources
      <4>2. CASE id \notin EventIds
        BY <4>2 DEF Accepted
      <4>3. QED
        BY <4>1, <4>2
    <3>2. QED
      BY <3>1 DEF Sources
  <2>4. Complete'
    <3>1. ASSUME NEW id \in EventIds', targetNodeIds(id)' # {}
          PROVE  Logged(id)' \/ \E n \in Nodes : n = events'[id].sourceNodeId /\ Unsent(n, id)'
      <4>1. CASE id \in EventIds
        <5>1. events'[id] = events[id] /\ targetNodeIds(id) # {}
          BY <2>1, <3>1, <4>1 DEF targetNodeIds
        <5>2. CASE Logged(id)
          BY <4>1, <5>2, LoggedStays
        <5>3. CASE Unsent(events[id].sourceNodeId, id)
          <6>1. events[id].sourceNodeId \in Nodes
            <7>1. events[id] \in Operations
              BY SMT, <4>1 DEF IInv, TypeOK, EventIds
            <7>2. QED
              BY <7>1, OperationFields
          <6>2. PICK n \in Nodes : n = events[id].sourceNodeId
            BY <6>1
          <6>3. Carried(n, id) /\ Unsent(n, id)
            BY <5>3, <6>2
          <6>4. Unsent(n, id)' \/ Logged(id)'
            BY <5>1, <6>3 DEF Carried
          <6>5. QED
            BY <5>1, <6>2, <6>4
        <5>4. QED
          BY <4>1, <5>1, <5>2, <5>3 DEF PInv, Complete
      <4>2. CASE id \notin EventIds
        BY <4>2 DEF Accepted
      <4>3. QED
        BY <4>1, <4>2
    <3>2. ASSUME NEW id \in EventIds', targetNodeIds(id)' # {}
          PROVE  Logged(id)' \/ Unsent(events[id].sourceNodeId, id)'
      BY <3>1, <3>2 DEF Unsent
    <3>3. QED
      BY <3>2 DEF Complete
  <2>5. QED
    BY <2>2, <2>3, <2>4 DEF PInv
<1> QED
  BY <1>Main

\* A node whose own part does not change stays in order.
LEMMA LinedStays ==
  ASSUME IInv, Keeps, NEW m \in Nodes, Lined(m), delaying'[m] = delaying[m],
         publishing'[m] = publishing[m], fault'[m] = fault[m]
  PROVE  Lined(m)'
<1>1. /\ \A i \in 1 .. Len(publishing[m]) : publishing[m][i] \in EventIds
      /\ \A i \in 1 .. Len(delaying[m]) : delaying[m][i][1] \in EventIds
  BY DEF IInv, Known
<1>2. \A id \in EventIds : events'[id] = events[id]
  BY DEF Keeps
<1>3. /\ \A i \in 1 .. Len(publishing[m]) :
           events'[publishing[m][i]].sourceNodeId = events[publishing[m][i]].sourceNodeId
      /\ \A i \in 1 .. Len(delaying[m]) :
           events'[delaying[m][i][1]].sourceNodeId = events[delaying[m][i][1]].sourceNodeId
  BY <1>1, <1>2
<1>4. QED
  BY <1>3 DEF Lined

\* Operations are numbered in the order of acceptance.
LEMMA AcceptedLast ==
  ASSUME TypeOK, NEW e \in Operations, events' = Append(events, e)
  PROVE  /\ Len(events) \in Nat /\ Len(events') = Len(events) + 1
         /\ EventIds' = EventIds \cup {Len(events) + 1}
         /\ Past' = Past \cup {Len(events) + 1}
         /\ events'[Len(events) + 1] = e
         /\ \A i \in EventIds : events'[i] = events[i] /\ i < Len(events) + 1
         /\ \A i \in Past : i = 0 \/ i \in EventIds
         /\ Len(events) + 1 \notin EventIds /\ Len(events) + 1 # 0
<1>1. events \in Seq(Operations)
  BY DEF TypeOK
<1>2. QED
  BY SMTT(30), <1>1 DEF EventIds, Past

\* An operation that n accepts joins the end of what it has to publish.
LEMMA AcceptFlow ==
  ASSUME Benign, IInv, IInv', PInv, Keeps, NEW k \in Keys, NEW n \in Writers[k], n \in Nodes,
         NEW e \in Operations, e.sourceNodeId = n, e.key = k, replicateWithFaults(n, e),
         UNCHANGED <<publishing, log, fault>>
  PROVE  PInv'
<1> DEFINE d == delaying[n]
<1>0. PICK N : N = Len(events) + 1
  OBVIOUS
<1>1. events' = Append(events, e) /\ delaying' = [delaying EXCEPT ![n] = Append(d, <<N, 0>>)]
  <2>1. fault[n].drop = FALSE /\ fault[n].delay = 0
    <3>1. fault[n] = NoFault
      BY DEF PInv, Lined
    <3>2. QED
      BY SMT, <3>1 DEF NoFault
  <2>2. QED
    BY <1>0, <2>1 DEF replicateWithFaults
<1>2. /\ events \in Seq(Operations) /\ d \in Seq(OpIds \X Delays)
      /\ delaying \in [Nodes -> Seq(OpIds \X Delays)]
  BY DEF IInv, TypeOK
<1>3. /\ N \in EventIds' /\ N \notin EventIds /\ events'[N] = e
      /\ \A u \in EventIds' : u \in EventIds \/ u = N
      /\ \A u \in EventIds : u < N
  BY <1>0, <1>1, AcceptedLast DEF IInv
<1>4. /\ delaying'[n] = Append(d, <<N, 0>>)
      /\ \A m \in Nodes : m # n => delaying'[m] = delaying[m]
  BY <1>1, <1>2
<1>5. /\ Len(d) \in Nat /\ Len(delaying'[n]) = Len(d) + 1
      /\ delaying'[n][Len(d) + 1] = <<N, 0>>
      /\ \A i \in 1 .. Len(d) : delaying'[n][i] = d[i]
      /\ \A i \in 1 .. Len(delaying'[n]) : i \in 1 .. Len(d) \/ i = Len(d) + 1
      /\ \A i \in 1 .. Len(d) : i \in 1 .. Len(delaying'[n]) /\ i < Len(d) + 1
      /\ Len(d) + 1 \in 1 .. Len(delaying'[n])
  <2> HIDE DEF d
  <2>1. QED
    BY SMT, <1>2, <1>4
<1>6. /\ \A m \in Nodes : \A i \in 1 .. Len(publishing[m]) : publishing[m][i] \in EventIds
      /\ \A i \in 1 .. Len(d) : d[i][1] \in EventIds
      /\ \A id \in EventIds : events'[id] = events[id]
  BY DEF IInv, Known, Keeps
<1>7. <<N, 0>>[1] = N /\ <<N, 0>>[2] = 0
  OBVIOUS
<1> HIDE DEF d
<1>8. ASSUME NEW m \in Nodes PROVE Lined(m)'
  <2>1. CASE m # n
    BY <1>4, <2>1, LinedStays DEF PInv
  <2>2. CASE m = n
    <3>1. Lined(n)
      BY DEF PInv
    <3>2. ASSUME NEW i \in 1 .. Len(publishing[n])
          PROVE  /\ events'[publishing[n][i]].sourceNodeId = n
                 /\ \A j \in 1 .. Len(publishing[n]) : i < j => publishing[n][i] < publishing[n][j]
      BY <1>6, <3>1 DEF Lined
    <3>3. ASSUME NEW i \in 1 .. Len(delaying'[n])
          PROVE  /\ delaying'[n][i][2] = 0 /\ events'[delaying'[n][i][1]].sourceNodeId = n
                 /\ \A j \in 1 .. Len(delaying'[n]) :
                      i < j => delaying'[n][i][1] < delaying'[n][j][1]
                 /\ \A j \in 1 .. Len(publishing[n]) : publishing[n][j] < delaying'[n][i][1]
      <4>1. CASE i \in 1 .. Len(d)
        <5>1. delaying'[n][i] = d[i] /\ d[i][1] \in EventIds
          BY <1>5, <1>6, <4>1
        <5>2. /\ d[i][2] = 0 /\ events[d[i][1]].sourceNodeId = n
              /\ \A j \in 1 .. Len(d) : i < j => d[i][1] < d[j][1]
              /\ \A j \in 1 .. Len(publishing[n]) : publishing[n][j] < d[i][1]
          BY <3>1, <4>1 DEF Lined, d
        <5>3. ASSUME NEW j \in 1 .. Len(delaying'[n]), i < j
              PROVE  d[i][1] < delaying'[n][j][1]
          <6>1. CASE j \in 1 .. Len(d)
            BY <1>5, <5>2, <5>3, <6>1
          <6>2. CASE j = Len(d) + 1
            BY <1>3, <1>5, <1>7, <5>1, <6>2
          <6>3. QED
            BY <1>5, <6>1, <6>2
        <5>4. QED
          BY <1>6, <5>1, <5>2, <5>3
      <4>2. CASE i = Len(d) + 1
        <5>1. \A j \in 1 .. Len(delaying'[n]) : ~(i < j)
          BY SMT, <1>5, <4>2
        <5>2. delaying'[n][i] = <<N, 0>>
          BY <1>5, <4>2
        <5>3. QED
          BY <1>3, <1>6, <1>7, <5>1, <5>2
      <4>3. QED
        BY <1>5, <4>1, <4>2
    <3>4. fault'[n] = NoFault /\ publishing'[n] = publishing[n]
      BY <3>1 DEF Lined
    <3>5. Lined(n)'
      BY <3>2, <3>3, <3>4 DEF Lined
    <3>6. QED
      BY <2>2, <3>5
  <2>3. QED
    BY <2>1, <2>2
<1>9. ASSUME NEW m \in Nodes, NEW u \in EventIds' PROVE Carried(m, u)
  <2>1. Unsent(m, u)' => Unsent(m, u) \/ u = N
    <3>1. CASE m # n
      BY <1>4, <3>1 DEF Unsent
    <3>2. CASE m = n
      <4>1. ASSUME NEW i \in 1 .. Len(delaying'[n]), delaying'[n][i][1] = u
            PROVE  Unsent(n, u) \/ u = N
        <5>1. CASE i \in 1 .. Len(d)
          <6>1. d[i][1] = u
            BY <1>5, <4>1, <5>1
          <6>2. QED
            BY <5>1, <6>1 DEF Unsent, d
        <5>2. CASE i = Len(d) + 1
          BY <1>5, <1>7, <4>1, <5>2
        <5>3. QED
          BY <1>5, <5>1, <5>2
      <4>2. QED
        BY <3>2, <4>1 DEF Unsent
    <3>3. QED
      BY <3>1, <3>2
  <2>2. Unsent(m, u) => Unsent(m, u)'
    <3>1. CASE m # n
      BY <1>4, <3>1 DEF Unsent
    <3>2. CASE m = n
      BY <1>5, <3>2 DEF Unsent, d
    <3>3. QED
      BY <3>1, <3>2
  <2>3. AtHead(m, u) => AtHead(m, u)'
    BY DEF AtHead
  <2>4. QED
    BY <1>3, <2>1, <2>2, <2>3 DEF Carried
<1>10. \A x \in Keys : Published(x)
  BY DEF Published
<1>11. Accepted
  <2>1. Unsent(n, N)'
    BY <1>5, <1>7 DEF Unsent
  <2>2. QED
    BY <1>3, <2>1 DEF Accepted
<1>12. QED
  BY <1>8, <1>9, <1>10, <1>11, FlowStep

\* Without its first element a sequence moves up by one.
LEMMA RestFacts ==
  ASSUME NEW S, NEW s \in Seq(S), Len(s) > 0, NEW t,
         t = RemoveAt(s, 1) \/ t = Tail(s)
  PROVE  /\ Len(s) \in Nat /\ Len(t) = Len(s) - 1 /\ 1 \in 1 .. Len(s)
         /\ \A i \in 1 .. Len(t) : i + 1 \in 1 .. Len(s) /\ t[i] = s[i + 1] /\ 1 < i + 1
         /\ \A i, j \in 1 .. Len(t) : i < j => i + 1 < j + 1
         /\ \A i \in 1 .. Len(s) : i = 1 \/ \E j \in 1 .. Len(t) : i = j + 1
<1>1. Len(s) \in Nat /\ Len(t) = Len(s) - 1
  <2>1. CASE t = Tail(s)
    BY SMT, <2>1
  <2>2. CASE t = RemoveAt(s, 1)
    <3>1. 1 \in 1 .. Len(s)
      BY SMT
    <3>2. QED
      BY SMT, <2>2, <3>1, RemoveAtType
  <2>3. QED
    BY SMT, <2>1, <2>2
<1>2. ASSUME NEW i \in 1 .. Len(t) PROVE t[i] = s[i + 1]
  <2>1. CASE t = Tail(s)
    BY SMT, <1>1, <2>1
  <2>2. CASE t = RemoveAt(s, 1)
    BY SMT, <1>1, <2>2 DEF RemoveAt
  <2>3. QED
    BY SMT, <2>1, <2>2
<1>3. ASSUME NEW i \in 1 .. Len(s), i # 1 PROVE \E j \in 1 .. Len(t) : i = j + 1
  <2>1. i - 1 \in 1 .. Len(t) /\ i = (i - 1) + 1
    BY SMT, <1>1, <1>3
  <2>2. QED
    BY SMT, <2>1
<1>4. QED
  BY SMT, <1>1, <1>2, <1>3

\* Timers of one duration fire in order: the first delay is over, and its
\* operation is the next to publish after those that are being published.
LEMMA HandoverFlow ==
  ASSUME Benign, IInv, IInv', PInv, NEW n \in Nodes, replicate(n)
  PROVE  PInv'
<1> DEFINE d == delaying[n]
           p == publishing[n]
<1>0. PICK h : h = d[1][1]
  OBVIOUS
<1>1. Lined(n) /\ d \in Seq(OpIds \X Delays) /\ p \in Seq(OpIds)
      /\ delaying \in [Nodes -> Seq(OpIds \X Delays)] /\ publishing \in [Nodes -> Seq(OpIds)]
  BY DEF PInv, IInv, TypeOK
<1>2. PICK i \in DelayOver(n) :
        LET id == delaying[n][i][1] IN
        /\ delaying' = [delaying EXCEPT ![n] = RemoveAt(@, i)]
        /\ IF targetNodeIds(id) = {}
           THEN UNCHANGED <<pendingAcks, publishing>>
           ELSE /\ pendingAcks' = [pendingAcks EXCEPT ![n] = @ \cup {id}]
                /\ publishing' = [publishing EXCEPT ![n] = Append(@, id)]
        /\ UNCHANGED <<events, store, ackedBy, timedOut, log, consumer, fault, snap,
                       faults>>
  BY DEF replicate
<1>3. i = 1 /\ Len(d) > 0
  <2>1. i \in 1 .. Len(d) /\ \A j \in 1 .. i - 1 : d[j][2] > d[i][2]
    BY DEF DelayOver
  <2>2. \A j \in 1 .. Len(d) : d[j][2] = 0
    BY <1>1 DEF Lined
  <2>3. Len(d) \in Nat
    BY SMT, <1>1
  <2> HIDE DEF d
  <2>4. QED
    BY SMT, <2>1, <2>2, <2>3
<1>4. /\ delaying' = [delaying EXCEPT ![n] = RemoveAt(d, 1)]
      /\ \/ targetNodeIds(h) = {} /\ publishing' = publishing
         \/ publishing' = [publishing EXCEPT ![n] = Append(p, h)]
      /\ UNCHANGED <<events, log, handled, fault>>
  BY <1>0, <1>2, <1>3 DEF consumer
<1>5. /\ delaying'[n] = RemoveAt(d, 1)
      /\ \A m \in Nodes : m # n => delaying'[m] = delaying[m] /\ publishing'[m] = publishing[m]
      /\ \/ targetNodeIds(h) = {} /\ publishing'[n] = p
         \/ publishing'[n] = Append(p, h)
  BY <1>1, <1>4
<1> DEFINE t == delaying'[n]
           q == publishing'[n]
<1>6. /\ Len(d) \in Nat /\ Len(t) = Len(d) - 1 /\ 1 \in 1 .. Len(d)
      /\ \A j \in 1 .. Len(t) : j + 1 \in 1 .. Len(d) /\ t[j] = d[j + 1] /\ 1 < j + 1
      /\ \A j, l \in 1 .. Len(t) : j < l => j + 1 < l + 1
      /\ \A j \in 1 .. Len(d) : j = 1 \/ \E l \in 1 .. Len(t) : j = l + 1
  <2> HIDE DEF d, t
  <2>1. t = RemoveAt(d, 1)
    BY <1>5 DEF t
  <2>2. QED
    BY <1>1, <1>3, <2>1, RestFacts
<1>7. /\ Len(p) \in Nat /\ Len(p) <= Len(q)
      /\ \A j \in 1 .. Len(p) : j \in 1 .. Len(q) /\ q[j] = p[j]
      /\ \A j \in 1 .. Len(q) : j \in 1 .. Len(p) \/ (j = Len(p) + 1 /\ q[j] = h)
      /\ \/ targetNodeIds(h) = {}
         \/ Len(p) + 1 \in 1 .. Len(q) /\ q[Len(p) + 1] = h
      /\ \A j \in 1 .. Len(q) : ~(Len(p) + 1 < j)
  <2> HIDE DEF d, p, q
  <2>1. \/ targetNodeIds(h) = {} /\ q = p
        \/ q = Append(p, h)
    BY <1>5 DEF q
  <2>2. CASE targetNodeIds(h) = {} /\ q = p
    BY SMT, <1>1, <2>2
  <2>3. CASE q = Append(p, h)
    <3>1. Extended(p, h, Append(p, h))
      BY <1>1, AppendFacts
    <3>2. Extended(p, h, q)
      BY <2>3, <3>1
    <3>3. QED
      BY <3>2 DEF Extended
  <2>4. QED
    BY <2>1, <2>2, <2>3
<1>8. Keeps
  <2>1. \A k \in Keys : Len(log[k]) \in Nat
    BY SMT DEF IInv, TypeOK
  <2>2. QED
    BY <1>4, <2>1, AtMost DEF Keeps, EventIds
<1>9. /\ \A j \in 1 .. Len(p) : events[p[j]].sourceNodeId = n
      /\ \A j, l \in 1 .. Len(p) : j < l => p[j] < p[l]
      /\ \A j \in 1 .. Len(d) : d[j][2] = 0 /\ events[d[j][1]].sourceNodeId = n
      /\ \A j, l \in 1 .. Len(d) : j < l => d[j][1] < d[l][1]
      /\ \A j \in 1 .. Len(d), l \in 1 .. Len(p) : p[l] < d[j][1]
      /\ fault[n] = NoFault
  BY <1>1 DEF Lined
<1>10. h = d[1][1]
  BY <1>0
<1>11. /\ \A u : Unsent(n, u) => u = h \/ Unsent(n, u)'
       /\ \A u : Unsent(n, u)' => Unsent(n, u)
       /\ targetNodeIds(h) = {} \/ Unsent(n, h)'
       /\ \A u : AtHead(n, u) => AtHead(n, u)'
  <2> HIDE DEF d, p, t, q
  <2>1. ASSUME NEW u, Unsent(n, u) PROVE u = h \/ Unsent(n, u)'
    <3>1. CASE \E j \in 1 .. Len(p) : p[j] = u
      BY <1>7, <3>1 DEF Unsent, q
    <3>2. CASE \E j \in 1 .. Len(d) : d[j][1] = u
      <4>1. PICK j \in 1 .. Len(d) : d[j][1] = u
        BY <3>2
      <4>2. CASE j = 1
        BY <1>10, <4>1, <4>2
      <4>3. ASSUME NEW l \in 1 .. Len(t), j = l + 1 PROVE Unsent(n, u)'
        <5>1. t[l] = d[j]
          BY <1>6, <4>3
        <5>2. QED
          BY <4>1, <4>3, <5>1 DEF Unsent, t
      <4>4. QED
        BY <1>6, <4>2, <4>3
    <3>3. QED
      BY <2>1, <3>1, <3>2 DEF Unsent, d, p
  <2>2. ASSUME NEW u, Unsent(n, u)' PROVE Unsent(n, u)
    <3>1. CASE \E j \in 1 .. Len(q) : q[j] = u
      <4>1. PICK j \in 1 .. Len(q) : q[j] = u
        BY <3>1
      <4>2. CASE j \in 1 .. Len(p)
        BY <1>7, <4>1, <4>2 DEF Unsent, p
      <4>3. CASE q[j] = h
        BY <1>6, <1>10, <4>1, <4>3 DEF Unsent, d
      <4>4. QED
        BY <1>7, <4>2, <4>3
    <3>2. CASE \E j \in 1 .. Len(t) : t[j][1] = u
      BY <1>6, <3>2 DEF Unsent, d
    <3>3. QED
      BY <2>2, <3>1, <3>2 DEF Unsent, t, q
  <2>3. targetNodeIds(h) = {} \/ Unsent(n, h)'
    BY <1>7 DEF Unsent, q
  <2>4. ASSUME NEW u, AtHead(n, u) PROVE AtHead(n, u)'
    <3>1. Len(p) > 0 /\ p[1] = u
      BY <2>4 DEF AtHead, p
    <3>2. 1 \in 1 .. Len(p)
      BY SMT, <1>7, <3>1
    <3>3. 1 \in 1 .. Len(q) /\ q[1] = u
      BY <1>7, <3>1, <3>2
    <3>4. Len(q) > 0
      <4>1. q \in Seq(OpIds')
        BY DEF IInv, TypeOK, q
      <4>2. QED
        BY SMT, <3>3, <4>1
    <3>5. QED
      BY <3>3, <3>4 DEF AtHead, q
  <2>5. QED
    BY <2>1, <2>2, <2>3, <2>4
<1>12. ASSUME NEW m \in Nodes, m = n PROVE Lined(m)'
  <2> HIDE DEF d, p, t, q
  <2>1. ASSUME NEW j \in 1 .. Len(q)
        PROVE  /\ events[q[j]].sourceNodeId = n
               /\ \A l \in 1 .. Len(q) : j < l => q[j] < q[l]
    <3>1. CASE j \in 1 .. Len(p)
      <4>1. q[j] = p[j]
        BY <1>7, <3>1
      <4>2. \A l \in 1 .. Len(q) : j < l => p[j] < q[l]
        BY <1>6, <1>7, <1>9, <1>10, <3>1
      <4>3. QED
        BY <1>9, <3>1, <4>1, <4>2
    <3>2. CASE j = Len(p) + 1 /\ q[j] = h
      <4>1. events[h].sourceNodeId = n
        BY <1>6, <1>9, <1>10
      <4>2. \A l \in 1 .. Len(q) : ~(j < l)
        BY <1>7, <3>2
      <4>3. QED
        BY <3>2, <4>1, <4>2
    <3>3. QED
      BY <1>7, <3>1, <3>2
  <2>2. ASSUME NEW j \in 1 .. Len(t)
        PROVE  /\ t[j][2] = 0 /\ events[t[j][1]].sourceNodeId = n
               /\ \A l \in 1 .. Len(t) : j < l => t[j][1] < t[l][1]
               /\ \A l \in 1 .. Len(q) : q[l] < t[j][1]
    <3>1. j + 1 \in 1 .. Len(d) /\ t[j] = d[j + 1] /\ 1 < j + 1
      BY <1>6
    <3>2. ASSUME NEW l \in 1 .. Len(t), j < l PROVE t[j][1] < t[l][1]
      <4>1. l + 1 \in 1 .. Len(d) /\ t[l] = d[l + 1] /\ j + 1 < l + 1
        BY <1>6, <3>2
      <4>2. QED
        BY <1>9, <3>1, <4>1
    <3>3. ASSUME NEW l \in 1 .. Len(q) PROVE q[l] < t[j][1]
      <4>1. CASE l \in 1 .. Len(p)
        <5>1. q[l] = p[l] /\ p[l] < d[j + 1][1]
          BY <1>7, <1>9, <3>1, <4>1
        <5>2. QED
          BY <3>1, <5>1
      <4>2. CASE q[l] = h
        <5>1. d[1][1] < d[j + 1][1]
          BY <1>6, <1>9, <3>1
        <5>2. QED
          BY <1>10, <3>1, <4>2, <5>1
      <4>3. QED
        BY <1>7, <4>1, <4>2
    <3>4. QED
      BY <1>9, <3>1, <3>2, <3>3
  <2>3. events' = events /\ fault'[n] = NoFault
    BY <1>4, <1>9
  <2>4. QED
    BY <1>12, <2>1, <2>2, <2>3 DEF Lined, t, q
<1>13. ASSUME NEW m \in Nodes PROVE Lined(m)'
  <2>1. CASE m # n
    BY <1>4, <1>5, <1>8, <2>1, LinedStays DEF PInv
  <2>2. QED
    BY <1>12, <2>1
<1>14. ASSUME NEW m \in Nodes, NEW u \in EventIds' PROVE Carried(m, u)
  <2> HIDE DEF d, p, t, q
  <2>1. CASE m # n
    BY <1>5, <2>1 DEF Carried, Unsent, AtHead
  <2>2. CASE m = n
    BY <1>11, <2>2 DEF Carried
  <2>3. QED
    BY <2>1, <2>2
<1>15. \A x \in Keys : Published(x)
  BY <1>4 DEF Published
<1>16. Accepted
  BY <1>4 DEF Accepted, EventIds
<1>17. QED
  BY <1>8, <1>13, <1>14, <1>15, <1>16, FlowStep

\* The next operation of n is published, and may have to be published again.
LEMMA PublishFlow ==
  ASSUME Benign, IInv, IInv', PInv, Keeps, NEW n \in Nodes, publish(n) \/ publishTwice(n)
  PROVE  PInv'
<1> DEFINE p == publishing[n]
           d == delaying[n]
           q == publishing'[n]
<1>1. /\ Lined(n) /\ p \in Seq(OpIds) /\ publishing \in [Nodes -> Seq(OpIds)]
      /\ log \in [Keys -> Seq(Messages)]
  BY DEF PInv, IInv, TypeOK
<1>2. p # <<>> /\ Produce(events[Head(p)].key, EventMessage(Head(p)))
      /\ UNCHANGED <<events, delaying, fault>>
  BY DEF publish, publishTwice, publisher
<1>3. Len(p) \in Nat /\ Len(p) > 0 /\ Head(p) = p[1] /\ 1 \in 1 .. Len(p)
  BY SMT, <1>1, <1>2
<1>4. PICK h \in EventIds : h = p[1] /\ events[h].key \in Keys
  BY <1>3, IdsInRange DEF IInv, Known
<1>5. PICK k \in Keys : k = events[h].key
  BY <1>4
<1>6. log' = [log EXCEPT ![k] = Append(log[k], EventMessage(h))]
  BY <1>2, <1>3, <1>4, <1>5 DEF Produce
<1>7. /\ log'[k] = Append(log[k], EventMessage(h))
      /\ \A x \in Keys : x # k => log'[x] = log[x]
  BY <1>1, <1>6
<1>8. /\ Len(log'[k]) = Len(log[k]) + 1 /\ log'[k][Len(log[k]) + 1] = EventMessage(h)
      /\ Len(log[k]) + 1 \in 1 .. Len(log'[k])
  <2>1. log[k] \in Seq(Messages)
    BY <1>1
  <2>2. QED
    BY SMT, <1>7, <2>1
<1>9. \A m \in Nodes : /\ delaying'[m] = delaying[m]
                       /\ m # n => publishing'[m] = publishing[m]
  BY <1>1, <1>2 DEF publish, publishTwice, publisher
<1>10. q = Tail(p) \/ q = p
  BY <1>1 DEF publish, publishTwice, publisher
<1>11. /\ \A j \in 1 .. Len(p) : events[p[j]].sourceNodeId = n
       /\ \A j, l \in 1 .. Len(p) : j < l => p[j] < p[l]
       /\ \A j \in 1 .. Len(d) : d[j][2] = 0 /\ events[d[j][1]].sourceNodeId = n
       /\ \A j, l \in 1 .. Len(d) : j < l => d[j][1] < d[l][1]
       /\ \A j \in 1 .. Len(d), l \in 1 .. Len(p) : p[l] < d[j][1]
       /\ fault[n] = NoFault
  BY <1>1 DEF Lined
<1> DEFINE s(j) == IF q = p THEN j ELSE j + 1
<1>12. /\ \A j \in 1 .. Len(q) : s(j) \in 1 .. Len(p) /\ q[j] = p[s(j)]
       /\ \A j, l \in 1 .. Len(q) : j < l => s(j) < s(l)
       /\ \A j \in 1 .. Len(p) : j = 1 \/ \E l \in 1 .. Len(q) : j = s(l)
       /\ q # p => \A j \in 1 .. Len(q) : 1 < s(j)
  <2> HIDE DEF p, q
  <2>1. CASE q = p
    BY <2>1
  <2>2. CASE q # p
    <3>1. /\ \A j \in 1 .. Len(q) : j + 1 \in 1 .. Len(p) /\ q[j] = p[j + 1] /\ 1 < j + 1
          /\ \A j, l \in 1 .. Len(q) : j < l => j + 1 < l + 1
          /\ \A j \in 1 .. Len(p) : j = 1 \/ \E l \in 1 .. Len(q) : j = l + 1
      BY <1>1, <1>3, <1>10, <2>2, RestFacts
    <3>2. QED
      BY <2>2, <3>1
  <2>3. QED
    BY <2>1, <2>2
<1>13. h = p[1] /\ \A j \in 1 .. Len(p) : j = 1 \/ 1 < j
  <2>1. \A j \in 1 .. Len(p) : j = 1 \/ 1 < j
    <3> HIDE DEF p
    <3>1. QED
      BY SMT, <1>3
  <2>2. QED
    BY <1>4, <2>1
<1> HIDE DEF p, d, q, s
<1>14. ASSUME NEW u, Unsent(n, u)
       PROVE  u = h \/ (h < u /\ Unsent(n, u)')
  <2>1. CASE \E j \in 1 .. Len(p) : p[j] = u
    <3>1. PICK j \in 1 .. Len(p) : p[j] = u
      BY <2>1
    <3>2. CASE j = 1
      BY <1>13, <3>1, <3>2
    <3>3. CASE j # 1
      <4>1. h < u
        BY <1>3, <1>11, <1>13, <3>1, <3>3
      <4>2. PICK l \in 1 .. Len(q) : j = s(l)
        BY <1>12, <3>3
      <4>3. q[l] = u
        BY <1>12, <3>1, <4>2
      <4>4. QED
        BY <4>1, <4>3 DEF Unsent, q
    <3>4. QED
      BY <3>2, <3>3
  <2>2. CASE \E j \in 1 .. Len(d) : d[j][1] = u
    <3>1. h < u
      BY <1>3, <1>11, <1>13, <2>2
    <3>2. QED
      BY <1>9, <2>2, <3>1 DEF Unsent, d
  <2>3. QED
    BY <1>14, <2>1, <2>2 DEF Unsent, p, d
<1>15. ASSUME NEW u, Unsent(n, u)'
       PROVE  Unsent(n, u) /\ (h < u \/ (q = p /\ u = h))
  <2>1. CASE \E j \in 1 .. Len(q) : q[j] = u
    <3>1. PICK j \in 1 .. Len(q) : q[j] = u
      BY <2>1
    <3>2. s(j) \in 1 .. Len(p) /\ p[s(j)] = u
      BY <1>12, <3>1
    <3>3. Unsent(n, u)
      BY <3>2 DEF Unsent, p
    <3>4. CASE s(j) = 1
      <4>1. u = h
        BY <1>13, <3>2, <3>4
      <4>2. q = p
        <5>1. ~(1 < 1)
          BY SMT
        <5>2. QED
          BY <1>12, <3>4, <5>1
      <4>3. QED
        BY <3>3, <4>1, <4>2
    <3>5. CASE s(j) # 1
      <4>1. 1 < s(j)
        BY <1>13, <3>2, <3>5
      <4>2. h < u
        BY <1>3, <1>11, <1>13, <3>2, <4>1
      <4>3. QED
        BY <3>3, <4>2
    <3>6. QED
      BY <3>4, <3>5
  <2>2. CASE \E j \in 1 .. Len(delaying'[n]) : delaying'[n][j][1] = u
    <3>1. \E j \in 1 .. Len(d) : d[j][1] = u
      BY <1>9, <2>2 DEF d
    <3>2. h < u
      BY <1>3, <1>11, <1>13, <3>1
    <3>3. QED
      BY <3>1, <3>2 DEF Unsent, d
  <2>3. QED
    BY <1>15, <2>1, <2>2 DEF Unsent, q
<1>16. AtHead(n, h) /\ Unsent(n, h) /\ \A u : AtHead(n, u) => u = h
  BY <1>3, <1>13 DEF AtHead, Unsent, p
<1>17. q = p => AtHead(n, h)'
  BY <1>3, <1>13 DEF AtHead, q
<1>18. Logged(h)'
  BY <1>2, <1>5, <1>8 DEF Logged, EventMessage
<1>19. ASSUME NEW m \in Nodes, m = n PROVE Lined(m)'
  <2>1. ASSUME NEW j \in 1 .. Len(q)
        PROVE  /\ events[q[j]].sourceNodeId = n
               /\ \A l \in 1 .. Len(q) : j < l => q[j] < q[l]
    BY <1>11, <1>12
  <2>2. ASSUME NEW j \in 1 .. Len(d), NEW l \in 1 .. Len(q) PROVE q[l] < d[j][1]
    BY <1>11, <1>12
  <2>3. events' = events /\ fault'[n] = NoFault /\ delaying'[n] = delaying[n]
    BY <1>2, <1>11
  <2>4. QED
    BY <1>11, <1>19, <2>1, <2>2, <2>3 DEF Lined, q, d
<1>20. ASSUME NEW m \in Nodes PROVE Lined(m)'
  <2>1. CASE m # n
    BY <1>2, <1>9, <2>1, LinedStays DEF PInv
  <2>2. QED
    BY <1>19, <2>1
<1>21. ASSUME NEW m \in Nodes, NEW u \in EventIds' PROVE Carried(m, u)
  <2>1. CASE m # n
    BY <1>9, <2>1 DEF Carried, Unsent, AtHead
  <2>2. CASE m = n
    <3>1. ~(h < h)
      <4>1. h \in Nat
        BY SMT, <1>4 DEF EventIds
      <4>2. QED
        BY SMT, <4>1
    <3>2. QED
      BY <1>14, <1>15, <1>16, <1>17, <1>18, <2>2, <3>1 DEF Carried
  <2>3. QED
    BY <2>1, <2>2
<1>22. Leaves(n, h)
  BY <1>4, <1>15, <1>16, <1>17 DEF Leaves
<1>23. ASSUME NEW x \in Keys PROVE Published(x)
  <2>1. CASE x # k
    BY <1>7, <2>1 DEF Published
  <2>2. CASE x = k
    <3>1. EventMessage(h).id = h
      BY SMT DEF EventMessage
    <3>2. QED
      BY <1>4, <1>5, <1>8, <1>22, <2>2, <3>1 DEF Published
  <2>3. QED
    BY <2>1, <2>2
<1>24. Accepted
  BY <1>2 DEF Accepted, EventIds
<1>25. QED
  BY <1>20, <1>21, <1>23, <1>24, FlowStep

\* Steps of consumers and timers publish no event.
LEMMA QuietFlow ==
  ASSUME Benign, IInv, IInv', PInv, Keeps, UNCHANGED <<events, delaying, publishing, fault>>,
         \A k \in Keys : Published(k)
  PROVE  PInv'
<1>1. ASSUME NEW m \in Nodes PROVE Lined(m)'
  BY LinedStays DEF PInv
<1>2. ASSUME NEW m \in Nodes, NEW u \in EventIds' PROVE Carried(m, u)
  BY DEF Carried, Unsent, AtHead
<1>3. Accepted
  BY DEF Accepted, EventIds
<1>4. QED
  BY <1>1, <1>2, <1>3, FlowStep

-----------------------------------------------------------------------------
(* What writers and replicas hold.                                           *)

\* Numbers of operations are numbers.
LEMMA PastNumbers ==
  ASSUME TypeOK
  PROVE  /\ Len(events) \in Nat /\ EventIds \subseteq Nat /\ EventIds \subseteq Past
         /\ Past \subseteq Nat /\ 0 \in Past /\ 0 \notin EventIds
         /\ \A i \in Past : i = 0 \/ i \in EventIds
         /\ \A i \in EventIds : i < Len(events) + 1 /\ 0 < i
         /\ \A i \in EventIds : events[i].version \in Nat
<1>1. events \in Seq(Operations)
  BY DEF TypeOK
<1>2. \A i \in EventIds : events[i] \in Operations
  BY SMT, <1>1 DEF EventIds
<1>3. \A i \in EventIds : events[i].version \in Nat
  BY SMT, <1>2 DEF Operations
<1>4. QED
  BY SMT, <1>1, <1>3 DEF EventIds, Past

\* They stay when none is accepted.
LEMMA VersionsStay ==
  ASSUME Versions, events' = events
  PROVE  Versions'
<1>1. EventIds' = EventIds /\ Past' = Past
  BY DEF EventIds, Past
<1>2. \A k, i : On(k, i)' <=> On(k, i)
  BY <1>1 DEF On
<1>3. \A k, i, id : Before(k, i, id)' <=> Before(k, i, id)
  BY <1>1, <1>2 DEF Before
<1>4. \A k, i, id : NoDelete(k, i, id)' <=> NoDelete(k, i, id)
  BY <1>1, <1>2 DEF NoDelete
<1>5. \A i : VersionFrom(i)' = VersionFrom(i)
  BY DEF VersionFrom
<1>6. ASSUME NEW k, NEW id, Counted(k, id) PROVE Counted(k, id)'
  BY <1>1, <1>2, <1>3, <1>4, <1>5, <1>6 DEF Counted
<1>7. QED
  BY <1>1, <1>2, <1>6 DEF Versions

\* n holds of k what it held before the step.
SameEntry(n, k) ==
  /\ k \in DOMAIN store'[n] <=> k \in DOMAIN store[n]
  /\ k \in DOMAIN store[n] => store'[n][k] = store[n][k]

\* Then it holds what the same operation left.
LEMMA HoldsStays ==
  ASSUME TypeOK, Keeps, NEW n \in Nodes, NEW k \in Keys, SameEntry(n, k),
         NEW i \in Past, Holds(n, k, i)
  PROVE  Holds(n, k, i)'
<1>1. i = 0 \/ (i \in EventIds /\ events'[i] = events[i])
  BY PastNumbers DEF Keeps
<1>2. QED
  BY <1>1 DEF Holds, SameEntry

\* Nothing has to be evicted.
LEMMA NoEviction ==
  ASSUME Benign, NEW s, IsStore(s), NEW k \in Keys, NEW v, NEW r \in set(s, k, v)
  PROVE  r = Put(s, k, [val |-> v, ver |-> VersionAfter(s, k)])
<1> DEFINE w == Put(s, k, [val |-> v, ver |-> VersionAfter(s, k)])
<1>1. DOMAIN w \in SUBSET Keys
  <2>1. DOMAIN w = DOMAIN s \cup {k}
    BY SMT DEF Put
  <2>2. QED
    BY <2>1 DEF IsStore
<1>2. Cardinality(DOMAIN w) <= Capacity
  BY <1>1 DEF Benign
<1>3. QED
  BY <1>2 DEF set

\* r is the store s, but for key k.
Rewrites(s, k, r) == r = s \/ r = Drop(s, k) \/ \E entry : r = Put(s, k, entry)

\* Other entries of the node and other nodes keep what they hold.
OthersSame(n, k) == \A m \in Nodes, x \in Keys : m # n \/ x # k => SameEntry(m, x)

\* Entries after a key was written or removed.
LEMMA EntriesAfter ==
  ASSUME TypeOK, NEW n \in Nodes, NEW k \in Keys, NEW r, store' = [store EXCEPT ![n] = r],
         Rewrites(store[n], k, r)
  PROVE  store'[n] = r /\ OthersSame(n, k)
<1>1. DOMAIN store = Nodes
  <2>1. store = [m \in Nodes |-> store[m]]
    BY DEF TypeOK
  <2>2. QED
    BY SMT, <2>1
<1>2. store'[n] = r /\ \A m \in Nodes : m # n => store'[m] = store[m]
  BY <1>1
<1>3. ASSUME NEW x \in Keys, x # k PROVE SameEntry(n, x)
  <2>1. CASE r = Drop(store[n], k)
    <3>1. /\ x \in DOMAIN r <=> x \in DOMAIN store[n]
          /\ x \in DOMAIN r => r[x] = store[n][x]
      BY SMT, <1>3, <2>1 DEF Drop
    <3>2. QED
      BY <1>2, <3>1 DEF SameEntry
  <2>2. CASE \E entry : r = Put(store[n], k, entry)
    <3>1. PICK entry : r = Put(store[n], k, entry)
      BY <2>2
    <3>2. /\ x \in DOMAIN r <=> x \in DOMAIN store[n]
          /\ x \in DOMAIN r => r[x] = store[n][x]
      BY SMT, <1>3, <3>1 DEF Put
    <3>3. QED
      BY <1>2, <3>2 DEF SameEntry
  <2>3. CASE r = store[n]
    BY <1>2, <2>3 DEF SameEntry
  <2>4. QED
    BY <2>1, <2>2, <2>3 DEF Rewrites
<1>4. QED
  BY <1>2, <1>3 DEF SameEntry, OthersSame

\* Store r has value v with version w under k.
Has(r, k, v, w) ==
  k \in DOMAIN r /\ r[k] = [val |-> v, ver |-> w] /\ r[k].val = v

\* What k holds after set and after delete.
LEMMA EntryAfterPut ==
  ASSUME NEW s, NEW k, NEW v, NEW w
  PROVE  Has(Put(s, k, [val |-> v, ver |-> w]), k, v, w)
BY SMT DEF Put, Has

LEMMA EntryAfterDrop ==
  ASSUME NEW s, NEW k, NEW r, r = Drop(s, k)
  PROVE  k \notin DOMAIN r
BY SMT DEF Drop

\* The writer of a key follows the operations on it.
LEMMA WriterKeeps ==
  ASSUME TypeOK, Keeps, WriterExact, events' = events,
         \A k \in Keys : \A w \in Writers[k] : w \in Nodes /\ SameEntry(w, k)
  PROVE  WriterExact'
<1> SUFFICES ASSUME NEW k \in Keys, NEW w \in Writers[k]
             PROVE  \E i \in Past' : Holds(w, k, i)' /\ Before(k, i, Len(events) + 1)'
  BY DEF WriterExact
<1>1. PICK i \in Past : Holds(w, k, i) /\ Before(k, i, Len(events) + 1)
  BY DEF WriterExact
<1>2. Holds(w, k, i)'
  BY <1>1, HoldsStays
<1>3. i \in Past' /\ Before(k, i, Len(events) + 1)'
  BY <1>1 DEF Past, Before, On, EventIds
<1>4. QED
  BY <1>2, <1>3

\* Events handled before a step were handled in order.
LEMMA HandledStays ==
  ASSUME IInv, Keeps, HandledInOrder, NEW n \in Nodes, NEW id \in OpIds, <<n, id>> \in handled,
         \A u \in EventIds' : u \in EventIds \/ \A i \in EventIds : ~(u < i)
  PROVE  /\ id \in EventIds' /\ Logged(id)'
         /\ \A m \in EventIds' : On(events[id].key, m)' /\ m < id => <<n, m>> \in handled'
<1>1. /\ id \in EventIds /\ Logged(id)
      /\ \A m \in EventIds : On(events[id].key, m) /\ m < id => <<n, m>> \in handled
  BY DEF HandledInOrder
<1>2. id \in EventIds' /\ events'[id] = events[id] /\ handled \subseteq handled'
  BY <1>1 DEF Keeps
<1>3. Logged(id)'
  BY <1>1, LoggedStays
<1>4. PICK k : k = events[id].key
  OBVIOUS
<1>5. ASSUME NEW m \in EventIds', On(k, m)', m < id PROVE <<n, m>> \in handled'
  <2>1. m \in EventIds
    BY <1>1, <1>5
  <2>2. On(k, m)
    BY <1>5, <2>1 DEF On, Keeps
  <2>3. QED
    BY <1>1, <1>2, <1>4, <1>5, <2>1, <2>2
<1>6. QED
  BY <1>2, <1>3, <1>4, <1>5

\* n applies no event of partition k that it had not applied.
Lags(n, k) ==
  \A a \in 1 .. Len(log'[k]) : log'[k][a].kind = "event" =>
    Applies(n, k)' < a \/ (a <= Applies(n, k) /\ a \in 1 .. Len(log[k]))

\* How far a consumer has applied a partition.
LEMMA AppliesWithin ==
  ASSUME IInv, Consumed, NEW n \in Nodes, NEW k \in Keys
  PROVE  Applies(n, k) \in Nat /\ Applies(n, k) <= Len(log[k]) /\ Len(log[k]) \in Nat
<1>1. offset[n][k] \in Nat /\ Len(log[k]) \in Nat
  <2>1. offset \in [Nodes -> [Keys -> Nat]] /\ log \in [Keys -> Seq(Messages)]
    BY DEF IInv, TypeOK
  <2>2. offset[n][k] \in Nat /\ log[k] \in Seq(Messages)
    BY <2>1
  <2>3. QED
    BY SMT, <2>2
<1>2. offset[n][k] <= Len(log[k])
  BY DEF Consumed
<1>3. acking[n] # NoAck /\ acking[n].key = k => offset[n][k] < Len(log[k])
  BY DEF Consumed, NextDone
<1>4. QED
  BY <1>1, <1>2, <1>3, Successor DEF Applies

\* Once everything is published and consumed, replicas hold what the writer holds.
LEMMA CInvConverges ==
  ASSUME Benign, IInv, Consumed, CInv
  PROVE  Converged
<1> SUFFICES ASSUME Quiescent, \A id \in EventIds : Logged(id), NEW k \in Keys,
                    NEW r \in ReplicaNodeIds[k], NEW w \in Writers[k]
             PROVE  Value(r, k) = Value(w, k)
  BY DEF Converged
<1>1. CASE r \in Writers[k]
  <2>1. r = w
    BY <1>1 DEF Benign
  <2>2. QED
    BY <2>1
<1>2. CASE r \notin Writers[k]
  <2>1. r \in Nodes
    BY SMT, ReplicationAssumption
  <2>2. Applies(r, k) = Len(log[k]) /\ Len(log[k]) \in Nat
    <3>1. k \in Assigned[r]
      BY <2>1 DEF Benign
    <3>2. acking[r] = NoAck /\ offset[r][k] = Len(log[k])
      BY <2>1, <3>1 DEF Quiescent
    <3>3. Len(log[k]) \in Nat
      BY <2>1, AppliesWithin
    <3>4. QED
      BY <3>2, <3>3 DEF Applies
  <2>3. ~DeleteAhead(r, k)
    <3>1. \A a \in 1 .. Len(log[k]) : ~(Applies(r, k) < a)
      BY SMT, <2>2
    <3>2. QED
      BY <3>1 DEF DeleteAhead
  <2>4. PICK i \in Past : Follows(r, k, i)
    BY <1>2, <2>3 DEF CInv, ReplicasTrack, Tracks
  <2>5. PICK j \in Past : Holds(w, k, j) /\ Before(k, j, Len(events) + 1)
    BY DEF CInv, WriterExact
  <2>6. TypeOK
    BY DEF IInv
  <2>7. i # 0 => i <= j
    <3>1. \A m \in EventIds : m < Len(events) + 1
      BY <2>6, PastNumbers
    <3>2. QED
      BY <2>4, <2>5, <3>1 DEF Follows, Before, On
  <2>8. ASSUME j # 0 PROVE j <= i
    <3>1. j \in EventIds /\ events[j].key = k
      BY <2>5, <2>8 DEF Before, On
    <3>2. PICK a \in 1 .. Len(log[k]) : log[k][a] = EventMessage(j)
      BY <3>1 DEF Logged
    <3>3. log[k][a].kind = "event" /\ log[k][a].id = j
      BY SMT, <3>2 DEF EventMessage
    <3>4. a <= Applies(r, k)
      BY SMT, <2>2
    <3>5. QED
      BY <2>4, <3>3, <3>4 DEF Follows
  <2>9. i = j
    <3>1. i \in Nat /\ j \in Nat
      BY <2>6, PastNumbers
    <3>2. QED
      BY SMT, <2>7, <2>8, <3>1
  <2>10. Holds(r, k, i) /\ Holds(w, k, i)
    BY <2>4, <2>5, <2>9 DEF Follows
  <2>11. QED
    BY <2>10 DEF Holds, Value
<1>3. QED
  BY <1>1, <1>2

\* A consumer that goes back or stays applies nothing new.
LEMMA LagsBack ==
  ASSUME IInv, IInv', Consumed, Consumed', NEW n \in Nodes, NEW k \in Keys,
         Applies(n, k)' <= Applies(n, k)
  PROVE  Lags(n, k)
<1>1. Applies(n, k) \in Nat /\ Applies(n, k) <= Len(log[k]) /\ Len(log[k]) \in Nat
  BY AppliesWithin
<1>2. Applies(n, k)' \in Nat
  <2>1. offset'[n][k] \in Nat
    <3>1. offset' \in [Nodes -> [Keys -> Nat]]
      BY DEF IInv, TypeOK
    <3>2. QED
      BY <3>1
  <2>2. QED
    BY SMT, <2>1 DEF Applies
<1>3. Len(log'[k]) \in Nat
  <2>1. log' \in [Keys -> Seq(Messages')]
    BY DEF IInv, TypeOK
  <2>2. log'[k] \in Seq(Messages')
    BY <2>1
  <2>3. QED
    BY SMT, <2>2
<1>4. ASSUME NEW a \in 1 .. Len(log'[k])
      PROVE  Applies(n, k)' < a \/ (a <= Applies(n, k) /\ a \in 1 .. Len(log[k]))
  BY SMT, <1>1, <1>2, <1>3
<1>5. QED
  BY <1>4 DEF Lags

\* A replica that applies nothing new keeps following.
LEMMA TrackStays ==
  ASSUME IInv, IInv', Consumed, Keeps, NEW n \in Nodes, NEW k \in Keys, Tracks(n, k),
         SameEntry(n, k), Lags(n, k)
  PROVE  Tracks(n, k)'
<1>1. Applies(n, k) \in Nat
  BY AppliesWithin
<1>2. Applies(n, k)' \in Nat
  <2>1. offset'[n][k] \in Nat
    <3>1. offset' \in [Nodes -> [Keys -> Nat]]
      BY DEF IInv, TypeOK
    <3>2. QED
      BY <3>1
  <2>2. QED
    BY SMT, <2>1 DEF Applies
<1>3. /\ Len(log[k]) \in Nat /\ Len(log'[k]) \in Nat /\ Len(log[k]) <= Len(log'[k])
      /\ \A i \in 1 .. Len(log[k]) : log'[k][i] = log[k][i]
  <2>1. Len(log'[k]) \in Nat
    <3>1. log' \in [Keys -> Seq(Messages')]
      BY DEF IInv, TypeOK
    <3>2. log'[k] \in Seq(Messages')
      BY <3>1
    <3>3. QED
      BY SMT, <3>2
  <2>2. QED
    BY <2>1, AppliesWithin DEF Keeps
<1>4. CASE DeleteAhead(n, k)
  <2>1. PICK a \in 1 .. Len(log[k]) :
          /\ Applies(n, k) < a /\ log[k][a].kind = "event"
          /\ events[log[k][a].id].op = "DELETE" /\ <<n, log[k][a].id>> \in handled
    BY <1>4 DEF DeleteAhead
  <2>2. a \in 1 .. Len(log'[k]) /\ log'[k][a] = log[k][a] /\ ~(a <= Applies(n, k))
    BY SMT, <1>1, <1>3, <2>1
  <2>3. Applies(n, k)' < a
    BY <2>1, <2>2 DEF Lags
  <2>4. events'[log[k][a].id] = events[log[k][a].id] /\ handled \subseteq handled'
    BY DEF Keeps, IInv, Known
  <2>5. DeleteAhead(n, k)'
    BY <2>1, <2>2, <2>3, <2>4 DEF DeleteAhead
  <2>6. QED
    BY <2>5 DEF Tracks
<1>5. CASE \E i \in Past : Follows(n, k, i)
  <2>1. PICK i \in Past : Follows(n, k, i)
    BY <1>5
  <2>2. Holds(n, k, i)'
    BY <2>1, HoldsStays DEF Follows, IInv
  <2>3. i = 0 \/ (On(k, i)' /\ <<n, i>> \in handled')
    BY <2>1 DEF Follows, On, Keeps
  <2>4. ASSUME NEW a \in 1 .. Len(log'[k]), a <= Applies(n, k)', log'[k][a].kind = "event"
        PROVE  log'[k][a].id <= i
    <3>1. ~(Applies(n, k)' < a)
      BY SMT, <1>2, <1>3, <2>4
    <3>2. a <= Applies(n, k) /\ a \in 1 .. Len(log[k])
      BY <2>4, <3>1 DEF Lags
    <3>3. log'[k][a] = log[k][a]
      BY <1>3, <3>2
    <3>4. QED
      BY <2>1, <2>4, <3>2, <3>3 DEF Follows
  <2>5. i \in Past'
    <3>1. i = 0 \/ i \in EventIds'
      BY <2>1 DEF Follows, On, Keeps
    <3>2. 0 \in Past' /\ EventIds' \subseteq Past'
      <4>1. events' \in Seq(Operations)
        BY DEF IInv, TypeOK, Operations
      <4>2. QED
        BY SMT, <4>1 DEF Past, EventIds
    <3>3. QED
      BY <3>1, <3>2
  <2>6. Follows(n, k, i)'
    BY <2>2, <2>3, <2>4 DEF Follows
  <2>7. QED
    BY <2>5, <2>6 DEF Tracks
<1>6. QED
  BY <1>4, <1>5 DEF Tracks

\* Steps that accept and apply nothing.
LEMMA HeldStays ==
  ASSUME IInv, IInv', Consumed, Keeps, Versions, WriterExact, HandledInOrder, ReplicasTrack,
         UNCHANGED <<events, store, handled>>,
         \A k \in Keys : \A n \in ReplicaNodeIds[k] \ Writers[k] : Lags(n, k)
  PROVE  Versions' /\ WriterExact' /\ HandledInOrder' /\ ReplicasTrack'
<1>1. Versions'
  BY VersionsStay
<1>2. \A n, k : SameEntry(n, k)
  BY DEF SameEntry
<1>3. \A k \in Keys : Writers[k] \subseteq Nodes /\ ReplicaNodeIds[k] \subseteq Nodes
  BY SMT, ReplicationAssumption
<1>4. WriterExact'
  BY <1>2, <1>3, WriterKeeps DEF IInv
<1>5. EventIds' = EventIds
  BY DEF EventIds
<1>6. HandledInOrder'
  BY <1>5, HandledStays DEF HandledInOrder, OpIds
<1>7. ReplicasTrack'
  BY <1>2, <1>3, TrackStays DEF ReplicasTrack
<1>8. QED
  BY <1>1, <1>4, <1>6, <1>7

\* Consumers that stand still apply nothing new.
LEMMA LagsIdle ==
  ASSUME IInv, IInv', Consumed, Consumed', NEW n \in Nodes, NEW k \in Keys,
         offset'[n][k] = offset[n][k], acking'[n] = acking[n]
  PROVE  Lags(n, k)
<1>1. Applies(n, k)' = Applies(n, k) /\ Applies(n, k) \in Nat
  BY AppliesWithin DEF Applies
<1>2. Applies(n, k)' <= Applies(n, k)
  BY SMT, <1>1
<1>3. QED
  BY <1>2, LagsBack

\* An operation that its writer accepts and holds.
LEMMA AcceptHeld ==
  \A e \in Operations, n \in Nodes, j \in Past :
    \A N :
      /\ Benign /\ IInv /\ IInv' /\ Consumed /\ Consumed' /\ CInv /\ Keeps
      /\ events' = Append(events, e) /\ n \in Writers[e.key] /\ N = Len(events) + 1
      /\ Before(e.key, j, N) /\ (e.op = "PUT" => e.version = VersionFrom(j))
      /\ Holds(n, e.key, N)' /\ OthersSame(n, e.key)
      /\ UNCHANGED <<offset, acking, handled>>
      => Versions' /\ WriterExact' /\ HandledInOrder' /\ ReplicasTrack'
\* The last operation on a key before another is one.
<1>BeforeUnique. ASSUME TypeOK, NEW k, NEW i \in Past, NEW j \in Past, NEW id,
                        Before(k, i, id), Before(k, j, id)
                 PROVE  i = j
  <2> USE <1>BeforeUnique
  <2>1. i \in Nat /\ j \in Nat
    BY PastNumbers
  <2>2. i # 0 => i <= j
    BY DEF Before, On
  <2>3. j # 0 => j <= i
    BY DEF Before, On
  <2>4. QED
    BY SMT, <2>1, <2>2, <2>3
\* Versions count on when an operation is accepted.
<1>VersionsGrow. ASSUME TypeOK, Versions, NEW e \in Operations, events' = Append(events, e),
                        NEW j \in Past, Before(e.key, j, Len(events) + 1),
                        e.op = "PUT" => e.version = VersionFrom(j)
                 PROVE  Versions'
  <2> USE <1>VersionsGrow
  <2>0. PICK N : N = Len(events) + 1
    OBVIOUS
  <2>1. /\ EventIds' = EventIds \cup {N} /\ Past' = Past \cup {N} /\ events'[N] = e
        /\ \A i \in EventIds : events'[i] = events[i] /\ i < N
        /\ \A i \in Past : i = 0 \/ i \in EventIds
        /\ N \notin EventIds /\ N # 0
    BY <2>0, AcceptedLast
  <2>2. /\ \A i \in EventIds : i \in Nat /\ events[i].version \in Nat
        /\ \A i \in Past : i \in Nat
        /\ N \in Nat
    <3>1. Len(events) \in Nat /\ EventIds \subseteq Nat /\ Past \subseteq Nat
          /\ \A i \in EventIds : events[i].version \in Nat
      BY PastNumbers
    <3>2. N \in Nat
      BY <2>0, <3>1, Successor
    <3>3. QED
      BY <3>1, <3>2
  <2>3. \A i \in EventIds : ~(N < i)
    BY SMT, <2>1, <2>2
  <2>4. \A x : \A i \in EventIds : On(x, i)' <=> On(x, i)
    BY <2>1 DEF On
  <2>5. \A i \in Past : VersionFrom(i)' = VersionFrom(i)
    BY <2>1 DEF VersionFrom
  <2>6. ASSUME NEW x \in Keys, NEW id \in EventIds', On(x, id)', events'[id].op = "PUT", id # N
        PROVE  Counted(x, id)'
    <3>1. id \in EventIds /\ On(x, id) /\ events'[id] = events[id]
      BY <2>1, <2>4, <2>6
    <3>2. ASSUME NEW i \in Past', Before(x, i, id)' PROVE events'[id].version = VersionFrom(i)'
      <4>1. i < id
        BY <3>2 DEF Before
      <4>2. i \in Past
        BY <2>1, <2>3, <3>1, <4>1
      <4>3. Before(x, i, id)
        BY <2>1, <2>4, <3>2, <4>1, <4>2 DEF Before
      <4>4. QED
        BY <2>5, <2>6, <3>1, <4>2, <4>3 DEF Versions, Counted
    <3>3. ASSUME NEW i \in EventIds', On(x, i)', i < id, events'[i].op = "PUT", NoDelete(x, i, id)'
          PROVE  events'[i].version < events'[id].version
      <4>1. i \in EventIds /\ On(x, i) /\ events'[i] = events[i]
        BY <2>1, <2>3, <2>4, <3>1, <3>3
      <4>2. NoDelete(x, i, id)
        BY <2>1, <2>4, <3>3 DEF NoDelete
      <4>3. QED
        BY <2>6, <3>1, <3>3, <4>1, <4>2 DEF Versions, Counted
    <3>4. QED
      BY <3>2, <3>3 DEF Counted
  <2>7. ASSUME NEW x \in Keys, On(x, N)', e.op = "PUT"
        PROVE  Counted(x, N)'
    <3>1. x = e.key /\ Before(x, j, N) /\ e.version = VersionFrom(j) /\ ~(N < N)
      <4>1. ~(N < N)
        BY SMT, <2>2
      <4>2. QED
        BY <2>0, <2>1, <2>7, <4>1 DEF On
    <3>2. ASSUME NEW i \in Past', Before(x, i, N)' PROVE e.version = VersionFrom(i)'
      <4>1. i < N
        BY <3>2 DEF Before
      <4>2. i \in Past
        BY <2>1, <3>1, <4>1
      <4>3. Before(x, i, N)
        BY <2>1, <2>4, <3>2, <4>1, <4>2 DEF Before
      <4>4. i = j
        BY <3>1, <4>2, <4>3, <1>BeforeUnique
      <4>5. QED
        BY <2>5, <3>1, <4>4
    <3>3. ASSUME NEW i \in EventIds', On(x, i)', i < N, events'[i].op = "PUT", NoDelete(x, i, N)'
          PROVE  events'[i].version < e.version
      <4>1. i \in EventIds /\ On(x, i) /\ events'[i] = events[i] /\ events[i].op = "PUT"
        BY <2>1, <2>4, <3>1, <3>3
      <4>2. i <= j
        BY <3>1, <3>3, <4>1 DEF Before
      <4>3. j \in EventIds /\ On(x, j) /\ j < N /\ j # 0
        <5>1. j # 0
          <6>1. 0 < i
            BY <4>1, PastNumbers
          <6>2. QED
            BY SMT, <2>2, <4>1, <4>2, <6>1
        <5>2. QED
          BY <2>1, <3>1, <5>1 DEF Before
      <4>4. i = j \/ i < j
        BY SMT, <2>2, <4>1, <4>2
      <4>5. events[j].op = "PUT"
        <5>1. CASE i = j
          BY <4>1, <5>1
        <5>2. CASE i < j
          BY <2>1, <2>4, <3>3, <4>3, <5>2 DEF NoDelete
        <5>3. QED
          BY <4>4, <5>1, <5>2
      <4>6. e.version = events[j].version + 1
        BY <3>1, <4>3, <4>5 DEF VersionFrom
      <4>7. i < j => events[i].version < events[j].version
        <5> SUFFICES ASSUME i < j PROVE events[i].version < events[j].version
          OBVIOUS
        <5>1. ASSUME NEW m \in EventIds, On(x, m), i < m, m < j PROVE events[m].op = "PUT"
          BY <2>1, <2>4, <3>3, <5>1 DEF NoDelete
        <5>2. NoDelete(x, i, j)
          BY <5>1 DEF NoDelete
        <5>3. QED
          BY <4>1, <4>3, <4>5, <5>2 DEF Versions, Counted
      <4>8. /\ events[i].version \in Nat /\ events[j].version \in Nat
            /\ events'[i].version = events[i].version
        BY <2>2, <4>1, <4>3
      <4>9. QED
        BY SMT, <4>4, <4>6, <4>7, <4>8
    <3>4. QED
      BY <2>1, <3>2, <3>3 DEF Counted
  <2>8. QED
    BY <2>1, <2>6, <2>7 DEF Versions
\* The accepted operation is what its node, the writer of the key, holds then.
<1>WriterMoves.
      ASSUME Benign, TypeOK, Keeps, WriterExact, NEW e \in Operations, events' = Append(events, e),
             NEW n \in Nodes, n \in Writers[e.key], NEW N, N = Len(events) + 1, Holds(n, e.key, N)',
             OthersSame(n, e.key),
             \A x \in Keys : Writers[x] \subseteq Nodes
      PROVE  WriterExact'
  <2> USE <1>WriterMoves
  <2> SUFFICES ASSUME NEW k \in Keys, NEW w \in Writers[k]
               PROVE  \E i \in Past' : Holds(w, k, i)' /\ Before(k, i, Len(events) + 1)'
    BY DEF WriterExact
  <2>1. /\ Len(events) \in Nat /\ Len(events') = N
        /\ EventIds' = EventIds \cup {N} /\ Past' = Past \cup {N} /\ events'[N] = e
        /\ \A i \in EventIds : events'[i] = events[i] /\ i < N
        /\ \A i \in Past : i = 0 \/ i \in EventIds
        /\ N \notin EventIds /\ N # 0
    BY AcceptedLast
  <2>2. PICK M : M = Len(events') + 1
    OBVIOUS
  <2>3. /\ Len(events) + 1 = N /\ \A i \in Past : i < N => i < M
        /\ N < M /\ \A i \in EventIds : i <= N
    <3>1. Past \subseteq Nat /\ EventIds \subseteq Nat
      BY PastNumbers
    <3>2. QED
      BY SMT, <2>1, <2>2, <3>1
  <2>4. \A x : \A i \in EventIds : On(x, i)' <=> On(x, i)
    BY <2>1 DEF On
  <2>5. CASE k = e.key
    <3>1. w = n
      <4>1. n \in Writers[k]
        BY <2>5
      <4>2. QED
        BY <4>1 DEF Benign
    <3>2. On(k, N)'
      BY <2>1, <2>5 DEF On
    <3>3. \A m \in EventIds' : m <= N
      <4>1. N <= N
        BY SMT, <2>1
      <4>2. QED
        BY <2>1, <2>3, <4>1
    <3>4. Before(k, N, Len(events) + 1)'
      BY <2>2, <2>3, <3>2, <3>3 DEF Before
    <3>5. QED
      BY <2>1, <2>5, <3>1, <3>4
  <2>6. CASE k # e.key
    <3>1. PICK i \in Past : Holds(w, k, i) /\ Before(k, i, N)
      BY <2>3 DEF WriterExact
    <3>2. Holds(w, k, i)'
      BY <2>6, <3>1, HoldsStays DEF OthersSame
    <3>3. i = 0 \/ On(k, i)'
      BY <2>1, <2>4, <3>1 DEF Before
    <3>4. i < M
      BY <2>3, <3>1 DEF Before
    <3>5. ASSUME NEW m \in EventIds', On(k, m)' PROVE m <= i
      <4>1. m # N
        BY <2>1, <2>6, <3>5 DEF On
      <4>2. m \in EventIds /\ On(k, m) /\ m < N
        BY <2>1, <2>4, <3>5, <4>1
      <4>3. QED
        BY <3>1, <4>2 DEF Before
    <3>6. Before(k, i, Len(events) + 1)'
      BY <2>2, <3>3, <3>4, <3>5 DEF Before
    <3>7. QED
      BY <2>1, <3>2, <3>6
  <2>7. QED
    BY <2>5, <2>6
<1>Main. ASSUME Benign, IInv, IInv', Consumed, Consumed', CInv, Keeps,
                NEW e \in Operations, events' = Append(events, e), NEW n \in Nodes, n \in Writers[e.key],
                NEW N, N = Len(events) + 1, NEW j \in Past, Before(e.key, j, N),
                e.op = "PUT" => e.version = VersionFrom(j), Holds(n, e.key, N)',
                OthersSame(n, e.key),
                UNCHANGED <<offset, acking, handled>>
         PROVE  Versions' /\ WriterExact' /\ HandledInOrder' /\ ReplicasTrack'
  <2> USE <1>Main
  <2>1. TypeOK /\ Versions /\ WriterExact /\ HandledInOrder /\ ReplicasTrack
    BY DEF CInv, IInv
  <2>2. Versions'
    BY <2>1, <1>VersionsGrow
  <2>3. \A x \in Keys : Writers[x] \subseteq Nodes /\ ReplicaNodeIds[x] \subseteq Nodes
    BY SMT, ReplicationAssumption
  <2>4. WriterExact'
    BY <2>1, <2>3, <1>WriterMoves
  <2>5. \A u \in EventIds' : u \in EventIds \/ \A i \in EventIds : ~(u < i)
    <3>1. EventIds' = EventIds \cup {N} /\ \A i \in EventIds : i < N
      BY <2>1, AcceptedLast
    <3>2. EventIds \subseteq Nat /\ Len(events) \in Nat
      BY <2>1, PastNumbers
    <3>3. ASSUME NEW i \in EventIds PROVE ~(N < i)
      <4>1. i < N /\ i \in Nat /\ N = Len(events) + 1 /\ Len(events) \in Nat
        BY <3>1, <3>2
      <4>2. QED
        BY <4>1, Successor, NotBoth
    <3>4. QED
      BY <3>1, <3>3
  <2>6. HandledInOrder'
    BY <2>1, <2>5, HandledStays DEF HandledInOrder, OpIds
  <2>7. ASSUME NEW x \in Keys, NEW m \in ReplicaNodeIds[x] \ Writers[x] PROVE Tracks(m, x)'
    <3>1. m \in Nodes /\ SameEntry(m, x) /\ Tracks(m, x)
      BY <2>1, <2>3 DEF ReplicasTrack, OthersSame
    <3>2. Lags(m, x)
      BY <3>1, LagsIdle
    <3>3. QED
      BY <3>1, <3>2, TrackStays
  <2>8. ReplicasTrack'
    BY <2>7 DEF ReplicasTrack
  <2>9. QED
    BY <2>2, <2>4, <2>6, <2>8
<1> QED
  BY <1>Main

\* A PUT of a writer.
LEMMA PutHeld ==
  ASSUME Benign, IInv, IInv', Consumed, Consumed', CInv, Keeps,
         NEW k \in Keys, NEW n \in Writers[k], n \in Nodes, PUT(n, k)
  PROVE  PInv' /\ Versions' /\ WriterExact' /\ HandledInOrder' /\ ReplicasTrack'
<1> DEFINE s == store[n]
<1>1. PICK N : N = Len(events) + 1
  OBVIOUS
<1>2. PICK e : e = [sourceNodeId |-> n, key |-> k, op |-> "PUT", version |-> VersionAfter(s, k)]
  OBVIOUS
<1>3. TypeOK /\ IsStore(s) /\ N \in Nat
  <2>1. TypeOK /\ IsStore(s)
    BY DEF IInv, TypeOK
  <2>2. Len(events) \in Nat
    BY <2>1, PastNumbers
  <2>3. QED
    BY <1>1, <2>1, <2>2, Successor
<1>4. e.sourceNodeId = n /\ e.key = k /\ e.op = "PUT" /\ e.version = VersionAfter(s, k)
  BY <1>2
<1>5. e \in Operations
  <2>1. VersionAfter(s, k) \in Nat
    <3>1. VersionAfter(s, k) \in Nat \ {0}
      BY <1>3, SetType
    <3>2. QED
      BY SMT, <3>1
  <2> HIDE DEF s
  <2>2. QED
    BY SMT, <1>2, <2>1 DEF Operations
<1>6. replicateWithFaults(n, e) /\ UNCHANGED <<publishing, log, fault, offset, acking, handled>>
  BY <1>2 DEF PUT, consumer
<1>7. events' = Append(events, e)
  BY <1>6 DEF replicateWithFaults
<1>8. PICK r \in set(s, k, N) : store' = [store EXCEPT ![n] = r]
  BY <1>1 DEF PUT
<1>9. r = Put(s, k, [val |-> N, ver |-> VersionAfter(s, k)])
  BY <1>3, <1>8, NoEviction
<1>10. store'[n] = r /\ OthersSame(n, k)
  <2>1. Rewrites(s, k, r)
    BY <1>9 DEF Rewrites
  <2>2. QED
    BY <1>3, <1>8, <2>1, EntriesAfter
<1>11. k \in DOMAIN r /\ r[k] = [val |-> N, ver |-> VersionAfter(s, k)]
  <2>1. Has(Put(s, k, [val |-> N, ver |-> VersionAfter(s, k)]), k, N, VersionAfter(s, k))
    BY EntryAfterPut
  <2>2. Has(r, k, N, VersionAfter(s, k))
    BY <1>9, <2>1
  <2>3. QED
    BY <2>2 DEF Has
<1>12. events'[N] = e /\ N # 0
  BY <1>1, <1>3, <1>5, <1>7, AcceptedLast
<1>13. Holds(n, k, N)'
  <2> HIDE DEF s
  <2>1. QED
    BY <1>4, <1>10, <1>11, <1>12 DEF Holds
<1>14. PICK j \in Past : Holds(n, k, j) /\ Before(k, j, N)
  BY <1>1 DEF CInv, WriterExact
<1>15. e.version = VersionFrom(j)
  <2>1. CASE k \in DOMAIN s
    <3>1. j # 0 /\ events[j].op = "PUT" /\ s[k] = [val |-> j, ver |-> events[j].version]
      BY <1>14, <2>1 DEF Holds
    <3>2. s[k].ver = events[j].version
      BY SMT, <3>1
    <3>3. QED
      BY <1>4, <2>1, <3>1, <3>2 DEF VersionAfter, VersionFrom
  <2>2. CASE k \notin DOMAIN s
    BY <1>4, <1>14, <2>2 DEF Holds, VersionAfter, VersionFrom
  <2>3. QED
    BY <2>1, <2>2
<1> HIDE DEF s
<1>16. PInv'
  BY <1>4, <1>5, <1>6, AcceptFlow DEF CInv
<1>17. QED
  BY <1>1, <1>4, <1>5, <1>6, <1>7, <1>10, <1>13, <1>14, <1>15, <1>16, AcceptHeld

\* A DELETE of a writer.
LEMMA DeleteHeld ==
  ASSUME Benign, IInv, IInv', Consumed, Consumed', CInv, Keeps,
         NEW k \in Keys, NEW n \in Writers[k], n \in Nodes, DELETE(n, k)
  PROVE  PInv' /\ Versions' /\ WriterExact' /\ HandledInOrder' /\ ReplicasTrack'
<1>1. PICK N : N = Len(events) + 1
  OBVIOUS
<1>2. PICK e : e = [sourceNodeId |-> n, key |-> k, op |-> "DELETE", version |-> 0]
  OBVIOUS
<1>3. TypeOK
  BY DEF IInv
<1>4. e \in Operations /\ e.sourceNodeId = n /\ e.key = k /\ e.op = "DELETE"
  BY SMT, <1>2 DEF Operations
<1>5. replicateWithFaults(n, e) /\ UNCHANGED <<publishing, log, fault, offset, acking, handled>>
  BY <1>2 DEF DELETE, consumer
<1>6. events' = Append(events, e)
  BY <1>5 DEF replicateWithFaults
<1>7. store' = [store EXCEPT ![n] = Drop(store[n], k)]
  BY DEF DELETE
<1>8. store'[n] = Drop(store[n], k) /\ OthersSame(n, k)
  <2>1. Rewrites(store[n], k, Drop(store[n], k))
    BY DEF Rewrites
  <2>2. QED
    BY <1>3, <1>7, <2>1, EntriesAfter
<1>9. k \notin DOMAIN store'[n]
  BY <1>8, EntryAfterDrop
<1>10. events'[N] = e /\ N # 0
  BY <1>1, <1>3, <1>4, <1>6, AcceptedLast
<1>11. "DELETE" # "PUT"
  OBVIOUS
<1>12. Holds(n, k, N)'
  BY <1>4, <1>9, <1>10, <1>11 DEF Holds
<1>13. PICK j \in Past : Before(k, j, N)
  BY <1>1 DEF CInv, WriterExact
<1>14. PInv'
  BY <1>4, <1>5, AcceptFlow DEF CInv
<1>15. QED
  BY <1>1, <1>4, <1>5, <1>6, <1>8, <1>11, <1>12, <1>13, <1>14, AcceptHeld

\* The targets of an event are replicas of its key that take no writes for it.
LEMMA TargetsAreReplicas ==
  \A k \in Keys, id \in EventIds :
    \A n :
      /\ Benign /\ IInv /\ Sources /\ events[id].key = k
      => n \in targetNodeIds(id) <=> n \in ReplicaNodeIds[k] \ Writers[k]
\* One node takes the writes of a key.
<1>OneWriter. ASSUME Benign, NEW k \in Keys, NEW v \in Writers[k], NEW w \in Writers[k]
              PROVE  v = w
  BY <1>OneWriter DEF Benign
<1>Main. ASSUME Benign, IInv, Sources, NEW k \in Keys, NEW id \in EventIds, events[id].key = k, NEW n
         PROVE  n \in targetNodeIds(id) <=> n \in ReplicaNodeIds[k] \ Writers[k]
  <2> USE <1>Main
  <2>1. events[id].sourceNodeId \in Writers[k]
    BY DEF Sources
  <2>2. n \in Writers[k] <=> n = events[id].sourceNodeId
    BY <2>1, <1>OneWriter
  <2>3. QED
    BY <2>2 DEF targetNodeIds
<1> QED
  BY <1>Main

\* n is handed event id, at position p of partition k, which concerns it.
Handed(n, k, p, id) ==
  /\ Receives(n, k, "event") /\ p = offset[n][k] + 1 /\ p \in 1 .. Len(log[k])
  /\ log[k][p] = EventMessage(id) /\ id \in EventIds /\ events[id].key = k
  /\ n \in targetNodeIds(id)

\* Where n then stands: it has applied nothing from there on.
Stands(n, k, p, id) ==
  /\ p \in Nat /\ log[k][p].kind = "event" /\ log[k][p].id = id
  /\ Applies(n, k) = p - 1 /\ Len(log[k]) \in Nat
  /\ Placed(k, p) /\ n \in ReplicaNodeIds[k] \ Writers[k]

\* The consumer of a target that is handed an event stands so.
LEMMA HandedAt ==
  ASSUME Benign, IInv, Consumed, CInv, NEW n \in Nodes, NEW k \in Keys, NEW p, NEW id,
         Handed(n, k, p, id)
  PROVE  Stands(n, k, p, id)
<1>1. log[k][p].kind = "event" /\ log[k][p].id = id
  <2>1. log[k][p] = EventMessage(id)
    BY DEF Handed
  <2>2. QED
    BY SMT, <2>1 DEF EventMessage
<1>2. p = offset[n][k] + 1 /\ acking[n] = NoAck /\ p \in 1 .. Len(log[k])
  BY DEF Handed, Receives
<1>3. Applies(n, k) = offset[n][k] /\ offset[n][k] \in Nat /\ Len(log[k]) \in Nat
  BY <1>2, AppliesWithin DEF Applies
<1>4. p \in Nat /\ Applies(n, k) = p - 1
  BY SMT, <1>2, <1>3
<1>5. Placed(k, p)
  BY <1>1, <1>2 DEF CInv, PInv, LogOrder
<1>6. n \in ReplicaNodeIds[k] \ Writers[k]
  BY TargetsAreReplicas DEF Handed, CInv, PInv
<1>7. QED
  BY <1>1, <1>3, <1>4, <1>5, <1>6 DEF Stands

\* n has applied operation m on k.
Seen(n, k, m) ==
  /\ <<n, m>> \in handled
  /\ \E b \in 1 .. Len(log[k]) : b <= Applies(n, k) /\ log[k][b] = EventMessage(m)

\* And it has applied what comes before.
LEMMA HandedAfter ==
  \A n \in Nodes, k \in Keys, m \in EventIds :
    \A p, id :
      /\ Benign /\ IInv /\ Consumed /\ CInv /\ Handed(n, k, p, id) /\ On(k, m) /\ m < id
      => Seen(n, k, m)
\* Before an event with targets its partition has every earlier operation on the key.
<1>Earlier. ASSUME Benign, IInv, PInv, NEW k \in Keys, NEW p \in 1 .. Len(log[k]),
                   log[k][p].kind = "event", NEW n, n \in targetNodeIds(log[k][p].id),
                   NEW m \in EventIds, On(k, m), m < log[k][p].id
            PROVE  \E b \in 1 .. Len(log[k]) : b < p /\ log[k][b] = EventMessage(m)
  <2> USE <1>Earlier
  <2>1. PICK id \in EventIds : id = log[k][p].id
    BY DEF IInv, Known
  <2>2. Placed(k, p)
    BY DEF PInv, LogOrder
  <2>3. events[id].key = k /\ events[m].key = k
    BY <2>1, <2>2 DEF Placed, On
  <2>4. targetNodeIds(m) # {}
    <3>1. n \in ReplicaNodeIds[k] \ Writers[k]
      BY <2>1, <2>3, TargetsAreReplicas DEF PInv
    <3>2. n \in targetNodeIds(m)
      BY <2>3, <3>1, TargetsAreReplicas DEF PInv
    <3>3. QED
      BY <3>2
  <2>5. id \in Nat /\ m \in Nat /\ ~(id < m) /\ id # m
    <3>1. EventIds \subseteq Nat
      BY PastNumbers DEF IInv
    <3>2. QED
      BY SMT, <2>1, <3>1
  <2>6. events[m].sourceNodeId \in Nodes
    BY <2>3, ReplicationAssumption DEF PInv, Sources
  <2>7. ~Unsent(events[m].sourceNodeId, m)
    BY <2>1, <2>2, <2>3, <2>5, <2>6 DEF Placed
  <2>8. Logged(m)
    BY <2>4, <2>7 DEF PInv, Complete
  <2>9. PICK b \in 1 .. Len(log[k]) : log[k][b] = EventMessage(m)
    BY <2>3, <2>8 DEF Logged
  <2>10. log[k][b].kind = "event" /\ log[k][b].id = m
    BY <2>9, EventFields
  <2>11. ~(p < b)
    <3> SUFFICES ASSUME p < b PROVE FALSE
      OBVIOUS
    <3>1. Placed(k, b)
      BY <2>10 DEF PInv, LogOrder
    <3>2. id <= m
      BY <2>1, <2>10, <3>1 DEF Placed
    <3>3. QED
      BY SMT, <2>1, <2>5, <3>2
  <2>12. b # p
    BY <2>1, <2>5, <2>10
  <2>13. Len(log[k]) \in Nat
    <3>1. log \in [Keys -> Seq(Messages)]
      BY DEF IInv, TypeOK
    <3>2. log[k] \in Seq(Messages)
      BY <3>1
    <3>3. QED
      BY SMT, <3>2
  <2>14. b < p
    BY SMT, <2>11, <2>12, <2>13
  <2>15. QED
    BY <2>9, <2>14
<1>Main. ASSUME Benign, IInv, Consumed, CInv, NEW n \in Nodes, NEW k \in Keys, NEW p, NEW id,
                Handed(n, k, p, id), NEW m \in EventIds, On(k, m), m < id
         PROVE  Seen(n, k, m)
  <2> USE <1>Main
  <2>1. /\ p \in Nat /\ log[k][p].kind = "event" /\ log[k][p].id = id
        /\ Applies(n, k) = p - 1 /\ Len(log[k]) \in Nat /\ n \in ReplicaNodeIds[k] \ Writers[k]
    <3>1. Stands(n, k, p, id)
      BY HandedAt
    <3>2. QED
      BY <3>1 DEF Stands
  <2>2. p = offset[n][k] + 1 /\ p \in 1 .. Len(log[k]) /\ n \in targetNodeIds(id)
    BY DEF Handed
  <2>3. PICK b \in 1 .. Len(log[k]) : b < p /\ log[k][b] = EventMessage(m)
    BY <2>1, <2>2, <1>Earlier DEF CInv
  <2>4. offset[n][k] \in Nat
    <3>1. offset \in [Nodes -> [Keys -> Nat]]
      BY DEF IInv, TypeOK
    <3>2. QED
      BY <3>1
  <2>5. b \in 1 .. offset[n][k] /\ b <= Applies(n, k)
    BY <2>1, <2>2, <2>3, <2>4, Behind
  <2>6. Done(n, log[k][b])
    BY <2>5 DEF Consumed
  <2>7. log[k][b].kind = "event" /\ log[k][b].id = m
    BY <2>3, EventFields
  <2>8. n \in targetNodeIds(m)
    BY <2>1, TargetsAreReplicas DEF On, CInv, PInv
  <2>9. <<n, m>> \in handled
    BY <2>6, <2>7, <2>8 DEF Done
  <2>10. QED
    BY <2>3, <2>5, <2>9 DEF Seen
<1> QED
  BY <1>Main

\* A write that is newer than what the replica follows is applied, and gets the
\* version it has at the writer.
LEMMA NewerApplied ==
  ASSUME Benign, IInv, Consumed, CInv, NEW n \in Nodes, NEW k \in Keys, NEW p, NEW id,
         Handed(n, k, p, id), events[id].op = "PUT", NEW i \in Past, Follows(n, k, i), i < id,
         NEW r \in Applied(store[n], id)
  PROVE  r = Put(store[n], k, [val |-> id, ver |-> events[id].version])
<1> DEFINE s == store[n]
<1>1. id \in EventIds /\ events[id].key = k /\ On(k, id)
  BY DEF Handed, On
<1>2. Before(k, i, id)
  <2>1. ASSUME NEW m \in EventIds, On(k, m), m < id PROVE m <= i
    <3>1. PICK b \in 1 .. Len(log[k]) : b <= Applies(n, k) /\ log[k][b] = EventMessage(m)
      BY <2>1, HandedAfter DEF Seen
    <3>2. log[k][b].kind = "event" /\ log[k][b].id = m
      BY SMT, <3>1 DEF EventMessage
    <3>3. QED
      BY <3>1, <3>2 DEF Follows
  <2>2. i = 0 \/ On(k, i)
    BY DEF Follows
  <2>3. QED
    BY <2>1, <2>2 DEF Before
<1>3. events[id].version = VersionFrom(i)
  BY <1>1, <1>2 DEF CInv, Versions, Counted
<1>4. VersionAfter(s, k) = events[id].version
      /\ ~(k \in DOMAIN s /\ s[k].ver >= events[id].version)
  <2>1. CASE k \in DOMAIN s
    <3>1. i # 0 /\ events[i].op = "PUT" /\ s[k] = [val |-> i, ver |-> events[i].version]
      BY <2>1 DEF Holds, Follows
    <3>2. s[k].ver = events[i].version
      BY <2>1, HoldsFields DEF Follows
    <3>3. events[id].version = s[k].ver + 1 /\ VersionAfter(s, k) = s[k].ver + 1
      BY <1>3, <2>1, <3>1, <3>2 DEF VersionAfter, VersionFrom
    <3>4. s[k].ver \in Nat
      BY <3>1, <3>2, PastNumbers DEF IInv
    <3> HIDE DEF s
    <3>5. QED
      BY <3>3, <3>4, Successor
  <2>2. CASE k \notin DOMAIN s
    BY <1>3, <2>2 DEF Holds, Follows, VersionAfter, VersionFrom
  <2>3. QED
    BY <2>1, <2>2
<1>5. r \in set(s, k, id)
  BY <1>1, <1>4 DEF Applied, applyRemoteWrite
<1>6. IsStore(s)
  BY DEF IInv, TypeOK
<1>7. QED
  BY <1>4, <1>5, <1>6, NoEviction

\* A write that the replica has seen, with no DELETE since, is ignored.
LEMMA OlderIgnored ==
  ASSUME Benign, IInv, CInv, NEW n \in Nodes, NEW k \in Keys, NEW p, NEW id,
         Handed(n, k, p, id), events[id].op = "PUT", NEW i \in Past, Follows(n, k, i),
         \/ i = id
         \/ id < i /\ events[i].op = "PUT" /\ NoDelete(k, id, i),
         NEW r \in Applied(store[n], id)
  PROVE  r = store[n]
<1> DEFINE s == store[n]
<1>1. id \in EventIds /\ events[id].key = k /\ On(k, id) /\ 0 < id /\ 0 \notin EventIds
  BY PastNumbers DEF Handed, On, IInv
<1>2. i # 0 /\ events[i].op = "PUT" /\ i \in EventIds /\ On(k, i)
  <2>1. i # 0
    <3>1. id \in Nat
      BY <1>1, PastNumbers DEF IInv
    <3>2. QED
      BY SMT, <1>1, <3>1
  <2>2. QED
    BY <2>1 DEF Follows, On
<1>3. k \in DOMAIN s /\ s[k] = [val |-> i, ver |-> events[i].version]
  BY <1>2 DEF Holds, Follows
<1>4. s[k].ver = events[i].version
  BY <1>3, HoldsFields DEF Follows
<1>5. i = id \/ events[id].version < events[i].version
  BY <1>1, <1>2 DEF CInv, Versions, Counted
<1>6. events[id].version \in Nat /\ events[i].version \in Nat
  BY <1>1, <1>2, PastNumbers DEF IInv
<1>7. events[i].version >= events[id].version
  BY SMT, <1>5, <1>6
<1>8. QED
  BY <1>1, <1>3, <1>4, <1>7 DEF Applied, applyRemoteWrite

\* The event a consumer is handed is one of the partition's key.
LEMMA HandedOver ==
  ASSUME Benign, IInv, CInv, NEW n \in Nodes, NEW k \in Keys, Receives(n, k, "event")
  PROVE  \E p, id :
           /\ p = offset[n][k] + 1 /\ id = NextMessage(n, k).id
           /\ id \in EventIds /\ events[id].key = k
           /\ n \in targetNodeIds(id) => Handed(n, k, p, id)
<1>1. PICK p : p = offset[n][k] + 1
  OBVIOUS
<1>2. PICK id : id = NextMessage(n, k).id
  OBVIOUS
<1>3. /\ p \in 1 .. Len(log[k]) /\ log[k][p] \in Messages /\ log[k][p].kind = "event"
      /\ log[k][p].id = id /\ id \in EventIds
  BY <1>1, <1>2, ReceivedKnown DEF NextMessage
<1>4. log[k][p] = EventMessage(id)
  BY SMT, <1>3 DEF Messages, EventMessage
<1>5. events[id].key = k
  BY <1>3 DEF CInv, PInv, LogOrder, Placed
<1>6. QED
  BY <1>1, <1>2, <1>3, <1>4, <1>5 DEF Handed

\* A write that is newer than all that the replica has handled is applied.
LEMMA NewestApplied ==
  ASSUME Benign, IInv, Consumed, CInv, NEW n \in Nodes, NEW k \in Keys,
         handleReplicationEvent(n, k), NEW id, id = NextMessage(n, k).id,
         n \in targetNodeIds(id), events[id].op = "PUT",
         \A i \in EventIds : <<n, i>> \in handled /\ events[i].key = k => i <= id
  PROVE  Value(n, k)' = id
<1>1. PICK p : Handed(n, k, p, id)
  <2>1. Receives(n, k, "event")
    BY DEF handleReplicationEvent
  <2>2. QED
    BY <2>1, HandedOver
<1>2. /\ p \in Nat /\ log[k][p].kind = "event" /\ log[k][p].id = id /\ Len(log[k]) \in Nat
      /\ Applies(n, k) = p - 1 /\ n \in ReplicaNodeIds[k] \ Writers[k]
  <2>1. Stands(n, k, p, id)
    BY <1>1, HandedAt
  <2>2. QED
    BY <2>1 DEF Stands
<1>3. id \in EventIds /\ id \in Nat /\ EventIds \subseteq Nat /\ p \in 1 .. Len(log[k])
  BY <1>1, PastNumbers DEF Handed, IInv
<1>4. PICK r \in Applied(store[n], id) : store' = [store EXCEPT ![n] = r]
  BY DEF handleReplicationEvent
<1>5. store'[n] = r
  <2>1. store = [m \in Nodes |-> store[m]]
    BY DEF IInv, TypeOK
  <2>2. DOMAIN store = Nodes
    BY <2>1, FunctionDomain
  <2>3. QED
    BY <1>4, <2>2
<1>6. ~DeleteAhead(n, k)
  <2> SUFFICES ASSUME DeleteAhead(n, k) PROVE FALSE
    OBVIOUS
  <2>1. PICK a \in 1 .. Len(log[k]) :
          /\ Applies(n, k) < a /\ log[k][a].kind = "event"
          /\ events[log[k][a].id].op = "DELETE" /\ <<n, log[k][a].id>> \in handled
    BY DEF DeleteAhead
  <2>2. PICK m \in EventIds : m = log[k][a].id
    BY DEF IInv, Known
  <2>3. "DELETE" # "PUT"
    OBVIOUS
  <2>4. m # id
    BY <2>1, <2>2, <2>3
  <2>5. a # p
    BY <1>2, <2>2, <2>4
  <2>6. p < a
    <3>1. p - 1 < a
      BY <1>2, <2>1
    <3>2. QED
      BY <1>2, <2>5, <3>1, Position
  <2>7. Placed(k, a)
    BY <2>1 DEF CInv, PInv, LogOrder
  <2>8. events[m].key = k /\ id <= m
    BY <1>2, <1>3, <2>2, <2>6, <2>7 DEF Placed
  <2>9. m <= id
    BY <2>1, <2>2, <2>8
  <2>10. QED
    BY <1>3, <2>4, <2>8, <2>9, Antisymmetric
<1>7. PICK i \in Past : Follows(n, k, i)
  BY <1>2, <1>6 DEF CInv, ReplicasTrack, Tracks
<1>8. i \in Nat /\ i <= id
  <2>1. i \in Nat
    BY PastNumbers DEF IInv
  <2>2. i = 0 \/ i <= id
    BY <1>7 DEF Follows, On
  <2>3. QED
    BY <1>3, <2>1, <2>2, ZeroAtMost
<1>9. CASE i < id
  <2>1. r = Put(store[n], k, [val |-> id, ver |-> events[id].version])
    BY <1>1, <1>4, <1>7, <1>9, NewerApplied
  <2>2. Has(Put(store[n], k, [val |-> id, ver |-> events[id].version]), k, id,
            events[id].version)
    BY EntryAfterPut
  <2>3. Has(r, k, id, events[id].version)
    BY <2>1, <2>2
  <2>4. QED
    BY <1>5, <2>3 DEF Value, Has
<1>10. CASE i = id
  <2>1. r = store[n]
    BY <1>1, <1>4, <1>7, <1>10, OlderIgnored
  <2>2. id # 0
    BY <1>3, PastNumbers DEF IInv
  <2>3. k \in DOMAIN store[n] /\ store[n][k] = [val |-> id, ver |-> events[id].version]
    BY <1>7, <1>10, <2>2 DEF Follows, Holds
  <2>4. store[n][k].val = id
    BY <1>7, <1>10, <2>2, <2>3, HoldsFields DEF Follows
  <2>5. QED
    BY <1>5, <2>1, <2>3, <2>4 DEF Value
<1>11. QED
  BY SMT, <1>3, <1>8, <1>9, <1>10

\* Event m comes after position p of partition k.
Ahead(k, p, m) ==
  \E a \in 1 .. Len(log[k]) : p < a /\ log[k][a].kind = "event" /\ log[k][a].id = m

\* A replicated event is handled.
LEMMA EventHeld ==
  \A n \in Nodes, k \in Keys :
    /\ Benign /\ IInv /\ IInv' /\ Consumed /\ Consumed' /\ CInv /\ Keeps
    /\ handleReplicationEvent(n, k)
    => PInv' /\ Versions' /\ WriterExact' /\ HandledInOrder' /\ ReplicasTrack'
\* Otherwise the replica has handled a DELETE that is newer than the write.
<1>DeletedSince.
      ASSUME IInv, CInv, NEW n \in Nodes, NEW k \in Keys, NEW id \in EventIds, NEW i \in Past,
             Follows(n, k, i), id < i, ~(events[i].op = "PUT" /\ NoDelete(k, id, i))
      PROVE  \E m \in EventIds : /\ On(k, m) /\ events[m].op = "DELETE" /\ id < m
                                 /\ <<n, m>> \in handled
  <2> USE <1>DeletedSince
  <2>1. i # 0
    <3>1. id \in Nat
      BY PastNumbers DEF IInv
    <3>2. QED
      BY SMT, <3>1
  <2>2. i \in EventIds /\ On(k, i) /\ <<n, i>> \in handled
    BY <2>1 DEF Follows, On
  <2>3. \A m \in EventIds : events[m].op \in {"PUT", "DELETE"}
    <3>1. events \in Seq(Operations)
      BY DEF IInv, TypeOK
    <3>2. \A m \in EventIds : events[m] \in Operations
      BY SMT, <3>1 DEF EventIds
    <3>3. QED
      BY SMT, <3>2 DEF Operations
  <2>4. CASE events[i].op # "PUT"
    BY <2>2, <2>3, <2>4
  <2>5. CASE ~NoDelete(k, id, i)
    <3>1. PICK m \in EventIds : On(k, m) /\ id < m /\ m < i /\ events[m].op # "PUT"
      BY <2>5 DEF NoDelete
    <3>2. i \in OpIds /\ events[i].key = k
      BY <2>2, IdsInRange DEF IInv, On
    <3>3. <<n, m>> \in handled
      BY <2>2, <3>1, <3>2 DEF CInv, HandledInOrder
    <3>4. QED
      BY <2>3, <3>1, <3>3
  <2>6. QED
    BY <2>4, <2>5
\* Such a DELETE is to come again.
<1>ComesAgain.
      ASSUME Benign, IInv, Consumed, CInv, NEW n \in Nodes, NEW k \in Keys, NEW p, NEW id,
             Handed(n, k, p, id), NEW m \in EventIds, On(k, m), id < m, <<n, m>> \in handled
      PROVE  Ahead(k, p, m)
  <2> USE <1>ComesAgain
  <2>1. /\ p \in Nat /\ log[k][p].kind = "event" /\ log[k][p].id = id /\ Len(log[k]) \in Nat
        /\ Placed(k, p)
    <3>1. Stands(n, k, p, id)
      BY HandedAt
    <3>2. QED
      BY <3>1 DEF Stands
  <2>2. m \in OpIds /\ events[m].key = k
    BY IdsInRange DEF IInv, On
  <2>3. Logged(m)
    BY <2>2 DEF CInv, HandledInOrder
  <2>4. PICK a \in 1 .. Len(log[k]) : log[k][a] = EventMessage(m)
    BY <2>2, <2>3 DEF Logged
  <2>5. log[k][a].kind = "event" /\ log[k][a].id = m
    BY SMT, <2>4 DEF EventMessage
  <2>6. ~(m <= id) /\ m # id
    <3>1. EventIds \subseteq Nat /\ id \in EventIds
      BY PastNumbers DEF IInv, Handed
    <3>2. QED
      BY SMT, <3>1
  <2>7. ~(a < p)
    BY <2>1, <2>5, <2>6 DEF Placed
  <2>8. a # p
    BY <2>1, <2>5, <2>6
  <2>9. p < a
    BY SMT, <2>1, <2>7, <2>8
  <2>10. QED
    BY <2>5, <2>9 DEF Ahead
\* A replica that handles an event keeps following.
<1>EventTracks.
      ASSUME Benign, IInv, Consumed, CInv, NEW n \in Nodes, NEW k \in Keys, NEW p, NEW id,
             Handed(n, k, p, id), NEW r \in Applied(store[n], id), store'[n] = r,
             handled' = handled \cup {<<n, id>>}, UNCHANGED <<events, log>>, Applies(n, k)' = p
      PROVE  Tracks(n, k)'
  <2> USE <1>EventTracks
  <2>1. /\ p \in Nat /\ log[k][p].kind = "event" /\ log[k][p].id = id /\ Len(log[k]) \in Nat
        /\ Placed(k, p) /\ Applies(n, k) = p - 1 /\ n \in ReplicaNodeIds[k] \ Writers[k]
    <3>1. Stands(n, k, p, id)
      BY HandedAt
    <3>2. QED
      BY <3>1 DEF Stands
  <2>2. id \in EventIds /\ events[id].key = k /\ On(k, id) /\ id # 0 /\ id \in Past /\ id \in Nat
    <3>1. id \in EventIds /\ events[id].key = k
      BY DEF Handed
    <3>2. id # 0 /\ id \in Past /\ id \in Nat
      BY <3>1, PastNumbers DEF IInv
    <3>3. QED
      BY <3>1, <3>2 DEF On
  <2>3. Past' = Past /\ EventIds' = EventIds
    BY DEF Past, EventIds
  <2>4. ASSUME Holds(n, k, id)' PROVE Tracks(n, k)'
    <3>1. On(k, id)' /\ <<n, id>> \in handled'
      BY <2>2, <2>3 DEF On
    <3>2. ASSUME NEW a \in 1 .. Len(log[k]), a <= p, log[k][a].kind = "event"
          PROVE  log[k][a].id <= id
      <4>1. CASE a < p
        BY <2>1, <3>2, <4>1 DEF Placed
      <4>2. CASE a = p
        <5>1. id <= id
          BY <2>2, AtMost
        <5>2. QED
          BY <2>1, <4>2, <5>1
      <4>3. a < p \/ a = p
        BY <2>1, <3>2, Position
      <4>4. QED
        BY <4>1, <4>2, <4>3
    <3>3. Follows(n, k, id)'
      BY <2>4, <3>1, <3>2 DEF Follows
    <3>4. QED
      BY <2>2, <2>3, <3>3 DEF Tracks
  <2>5. ASSUME NEW a \in 1 .. Len(log[k]), p < a, log[k][a].kind = "event",
               events[log[k][a].id].op = "DELETE", <<n, log[k][a].id>> \in handled
        PROVE  Tracks(n, k)'
    <3>1. DeleteAhead(n, k)'
      BY <2>5 DEF DeleteAhead
    <3>2. QED
      BY <3>1 DEF Tracks
  <2>6. CASE events[id].op # "PUT"
    <3>1. r = Drop(store[n], k)
      BY <2>2, <2>6 DEF Applied, applyRemoteDelete
    <3>2. k \notin DOMAIN store'[n]
      BY <3>1, EntryAfterDrop
    <3>3. Holds(n, k, id)'
      BY <2>6, <3>2 DEF Holds
    <3>4. QED
      BY <2>4, <3>3
  <2>7. CASE events[id].op = "PUT" /\ DeleteAhead(n, k)
    <3>1. PICK a \in 1 .. Len(log[k]) :
            /\ Applies(n, k) < a /\ log[k][a].kind = "event"
            /\ events[log[k][a].id].op = "DELETE" /\ <<n, log[k][a].id>> \in handled
      BY <2>7 DEF DeleteAhead
    <3>2. "DELETE" # "PUT"
      OBVIOUS
    <3>3. a # p
      BY <2>1, <2>7, <3>1, <3>2
    <3>4. p < a
      BY <2>1, <3>1, <3>3, Position
    <3>5. QED
      BY <2>5, <3>1, <3>4
  <2>8. ASSUME events[id].op = "PUT", NEW i \in Past, Follows(n, k, i) PROVE Tracks(n, k)'
    <3>1. CASE i < id
      <4>1. r = Put(store[n], k, [val |-> id, ver |-> events[id].version])
        BY <2>8, <3>1, NewerApplied
      <4>2. k \in DOMAIN store'[n] /\ store'[n][k] = [val |-> id, ver |-> events[id].version]
        <5>1. Has(Put(store[n], k, [val |-> id, ver |-> events[id].version]), k, id,
                  events[id].version)
          BY EntryAfterPut
        <5>2. Has(store'[n], k, id, events[id].version)
          BY <4>1, <5>1
        <5>3. QED
          BY <5>2 DEF Has
      <4>3. Holds(n, k, id)'
        BY <2>2, <2>8, <4>2 DEF Holds
      <4>4. QED
        BY <2>4, <4>3
    <3>2. CASE \/ i = id
               \/ id < i /\ events[i].op = "PUT" /\ NoDelete(k, id, i)
      <4>1. r = store[n]
        BY <2>8, <3>2, OlderIgnored
      <4>2. Holds(n, k, i)'
        BY <2>8, <4>1 DEF Follows, Holds
      <4>3. ASSUME NEW a \in 1 .. Len(log[k]), a <= p, log[k][a].kind = "event"
            PROVE  log[k][a].id <= i
        <5>1. CASE a <= Applies(n, k)
          BY <2>8, <4>3, <5>1 DEF Follows
        <5>2. CASE a = p
          <6>1. id <= i
            <7>1. i \in Nat
              BY PastNumbers DEF IInv
            <7>2. QED
              BY <2>2, <3>2, <7>1, AtMost
          <6>2. QED
            BY <2>1, <5>2, <6>1
        <5>3. a <= Applies(n, k) \/ a = p
          BY <2>1, <4>3, Position
        <5>4. QED
          BY <5>1, <5>2, <5>3
      <4>4. i = 0 \/ (On(k, i)' /\ <<n, i>> \in handled')
        BY <2>3, <2>8 DEF Follows, On
      <4>5. Follows(n, k, i)'
        BY <4>2, <4>3, <4>4 DEF Follows
      <4>6. QED
        BY <2>3, <4>5 DEF Tracks
    <3>3. CASE id < i /\ ~(events[i].op = "PUT" /\ NoDelete(k, id, i))
      <4>1. PICK m \in EventIds : /\ On(k, m) /\ events[m].op = "DELETE" /\ id < m
                                  /\ <<n, m>> \in handled
        BY <2>2, <2>8, <3>3, <1>DeletedSince
      <4>2. Ahead(k, p, m)
        BY <4>1, <1>ComesAgain
      <4>3. PICK a \in 1 .. Len(log[k]) : p < a /\ log[k][a].kind = "event" /\ log[k][a].id = m
        BY <4>2 DEF Ahead
      <4>4. QED
        BY <2>5, <4>1, <4>3
    <3>4. i < id \/ i = id \/ id < i
      <4>1. i \in Nat
        BY PastNumbers DEF IInv
      <4>2. QED
        BY <2>2, <4>1, Compared
    <3>5. QED
      BY <3>1, <3>2, <3>3, <3>4
  <2>9. Tracks(n, k)
    BY <2>1 DEF CInv, ReplicasTrack
  <2>10. QED
    BY <2>6, <2>7, <2>8, <2>9 DEF Tracks
\* What applying an event makes of a store.
<1>AppliedForms. ASSUME Benign, NEW s, IsStore(s), NEW k \in Keys, NEW id, events[id].key = k,
                        NEW r \in Applied(s, id)
                 PROVE  Rewrites(s, k, r)
  <2> USE <1>AppliedForms
  <2>1. r = s \/ r \in set(s, k, id) \/ r = Drop(s, k)
    BY DEF Applied, applyRemoteWrite, applyRemoteDelete
  <2>2. QED
    BY <2>1, NoEviction DEF Rewrites
\* A node that is not a target passes over the event.
<1>PassedOver.
      ASSUME Benign, IInv, IInv', Consumed, Consumed', CInv, Keeps, NEW n \in Nodes, NEW k \in Keys,
             Receives(n, k, "event"), n \notin targetNodeIds(NextMessage(n, k).id), Advance(n, k),
             UNCHANGED <<events, store, acking, handled, log>>
      PROVE  Versions' /\ WriterExact' /\ HandledInOrder' /\ ReplicasTrack'
  <2> USE <1>PassedOver
  <2>1. n \notin ReplicaNodeIds[k] \ Writers[k]
    <3>1. PICK id : id = NextMessage(n, k).id /\ id \in EventIds /\ events[id].key = k
      BY HandedOver
    <3>2. n \notin targetNodeIds(id)
      BY <3>1
    <3>3. QED
      BY <3>1, <3>2, TargetsAreReplicas DEF CInv, PInv
  <2>2. ASSUME NEW x \in Keys, NEW m \in ReplicaNodeIds[x] \ Writers[x] PROVE Lags(m, x)
    <3>1. m \in Nodes
      BY SMT, ReplicationAssumption
    <3>2. m # n \/ x # k
      BY <2>1, <2>2
    <3>3. offset'[m][x] = offset[m][x]
      BY <3>1, <3>2, AdvanceMoves DEF IInv
    <3>4. QED
      BY <3>1, <3>3, LagsIdle
  <2>3. QED
    BY <2>2, HeldStays DEF CInv
\* A target applies the event.
<1>TargetApplies.
      ASSUME Benign, IInv, IInv', Consumed, Consumed', CInv, Keeps, NEW n \in Nodes, NEW k \in Keys,
             NEW p, NEW id, Handed(n, k, p, id), NEW r \in Applied(store[n], id),
             store' = [store EXCEPT ![n] = r], handled' = handled \cup {<<n, id>>},
             acking' = [acking EXCEPT ![n] = [id |-> id, key |-> k]], UNCHANGED <<events, log, offset>>
      PROVE  Versions' /\ WriterExact' /\ HandledInOrder' /\ ReplicasTrack'
  <2> USE <1>TargetApplies
  <2>1. /\ p \in Nat /\ Placed(k, p) /\ n \in ReplicaNodeIds[k] \ Writers[k]
        /\ \A m \in EventIds : On(k, m) /\ m < id => <<n, m>> \in handled
    <3>1. p \in Nat /\ Placed(k, p) /\ n \in ReplicaNodeIds[k] \ Writers[k]
      <4>1. Stands(n, k, p, id)
        BY HandedAt
      <4>2. QED
        BY <4>1 DEF Stands
    <3>2. ASSUME NEW m \in EventIds, On(k, m), m < id PROVE <<n, m>> \in handled
      BY <3>2, HandedAfter DEF Seen
    <3>3. QED
      BY <3>1, <3>2
  <2>2. /\ id \in EventIds /\ events[id].key = k /\ acking[n] = NoAck /\ p = offset[n][k] + 1
        /\ p \in 1 .. Len(log[k]) /\ log[k][p] = EventMessage(id)
    BY DEF Handed, Receives
  <2>3. TypeOK /\ IsStore(store[n]) /\ DOMAIN acking = Nodes
    BY DEF IInv, TypeOK
  <2>4. /\ store'[n] = r
        /\ \A m \in Nodes, x \in Keys : m # n \/ x # k => SameEntry(m, x)
    <3>1. Rewrites(store[n], k, r)
      BY <2>2, <2>3, <1>AppliedForms
    <3>2. store'[n] = r /\ OthersSame(n, k)
      BY <2>3, <3>1, EntriesAfter
    <3>3. QED
      BY <3>2 DEF OthersSame
  <2>5. EventIds' = EventIds /\ \A x \in Keys : Writers[x] \subseteq Nodes /\ ReplicaNodeIds[x] \subseteq Nodes
    BY SMT, ReplicationAssumption DEF EventIds
  <2>6. Versions'
    BY VersionsStay DEF CInv
  <2>7. ASSUME NEW x \in Keys, NEW w \in Writers[x] PROVE w \in Nodes /\ SameEntry(w, x)
    BY <2>1, <2>4, <2>5
  <2>8. WriterExact'
    BY <2>3, <2>7, WriterKeeps DEF CInv
  <2>9. ASSUME NEW m \in Nodes, NEW u \in OpIds, <<m, u>> \in handled'
        PROVE  /\ u \in EventIds' /\ Logged(u)'
               /\ \A v \in EventIds' : On(events[u].key, v)' /\ v < u => <<m, v>> \in handled'
    <3>1. CASE <<m, u>> \in handled
      BY <2>5, <2>9, <3>1, HandledStays DEF CInv
    <3>2. CASE m = n /\ u = id
      <4>1. Logged(id)
        BY <2>2 DEF Logged
      <4>2. Logged(id)'
        BY <2>2, <4>1, LoggedStays
      <4>3. \A v \in EventIds' : On(k, v)' /\ v < id => <<n, v>> \in handled'
        BY <2>1, <2>5 DEF On
      <4>4. events'[u].key = k
        BY <2>2, <3>2
      <4>5. QED
        BY <2>2, <2>5, <3>2, <4>2, <4>3, <4>4
    <3>3. <<m, u>> \in handled \/ (m = n /\ u = id)
      BY SMT, <2>9
    <3>4. QED
      BY <3>1, <3>2, <3>3
  <2>10. HandledInOrder'
    BY <2>9 DEF HandledInOrder, OpIds
  <2>11. /\ acking'[n] = [id |-> id, key |-> k] /\ acking'[n] # NoAck /\ acking'[n].key = k
         /\ \A m \in Nodes : m # n => acking'[m] = acking[m]
    <3>1. acking'[n] = [id |-> id, key |-> k] /\ \A m \in Nodes : m # n => acking'[m] = acking[m]
      BY <2>3
    <3>2. id \in Nat
      BY <2>2, <2>3, PastNumbers
    <3>3. [id |-> id, key |-> k] \in [id : Nat, key : Keys]
      BY SMT, <3>2
    <3>4. [id |-> id, key |-> k].key = k
      OBVIOUS
    <3>5. QED
      BY <3>1, <3>3, <3>4, ReplicationAssumption
  <2>12. Applies(n, k)' = p
    BY <2>2, <2>11 DEF Applies
  <2>13. ASSUME NEW x \in Keys, NEW m \in ReplicaNodeIds[x] \ Writers[x] PROVE Tracks(m, x)'
    <3>1. m \in Nodes /\ Tracks(m, x)
      BY <2>5 DEF CInv, ReplicasTrack
    <3>2. CASE m = n /\ x = k
      BY <2>4, <2>12, <3>2, <1>EventTracks
    <3>3. CASE m # n
      <4>1. Lags(m, x)
        BY <2>11, <3>1, <3>3, LagsIdle
      <4>2. QED
        BY <2>4, <3>1, <3>3, <4>1, TrackStays
    <3>4. CASE m = n /\ x # k
      <4>1. Applies(m, x)' = offset[m][x] /\ Applies(m, x) = offset[m][x]
        BY <2>2, <2>11, <3>4 DEF Applies
      <4>2. Applies(m, x) \in Nat
        BY <3>1, AppliesWithin
      <4>3. Applies(m, x)' <= Applies(m, x)
        BY <4>1, <4>2, AtMost
      <4>4. Lags(m, x)
        BY <3>1, <4>3, LagsBack
      <4>5. QED
        BY <2>4, <3>1, <3>4, <4>4, TrackStays
    <3>5. QED
      BY <3>2, <3>3, <3>4
  <2>14. ReplicasTrack'
    BY <2>13 DEF ReplicasTrack
  <2>15. QED
    BY <2>6, <2>8, <2>10, <2>14
<1>Main. ASSUME Benign, IInv, IInv', Consumed, Consumed', CInv, Keeps, NEW n \in Nodes, NEW k \in Keys,
                handleReplicationEvent(n, k)
         PROVE  PInv' /\ Versions' /\ WriterExact' /\ HandledInOrder' /\ ReplicasTrack'
  <2> USE <1>Main
  <2>1. Receives(n, k, "event") /\ UNCHANGED <<events, publisher, log, fault>>
    BY DEF handleReplicationEvent
  <2>2. PInv'
    <3>1. \A x \in Keys : Published(x)
      BY <2>1 DEF Published
    <3>2. QED
      BY <2>1, <3>1, QuietFlow DEF publisher, CInv
  <2>3. PICK p, id :
          /\ p = offset[n][k] + 1 /\ id = NextMessage(n, k).id
          /\ id \in EventIds /\ events[id].key = k
          /\ n \in targetNodeIds(id) => Handed(n, k, p, id)
    BY <2>1, HandedOver
  <2>4. CASE n \notin targetNodeIds(id)
    <3>1. Advance(n, k) /\ UNCHANGED <<store, acking, handled>>
      BY <2>3, <2>4 DEF handleReplicationEvent
    <3>2. QED
      BY <2>1, <2>2, <2>3, <2>4, <3>1, <1>PassedOver
  <2>5. CASE n \in targetNodeIds(id)
    <3>1. /\ \E s \in Applied(store[n], id) : store' = [store EXCEPT ![n] = s]
          /\ handled' = handled \cup {<<n, id>>}
          /\ acking' = [acking EXCEPT ![n] = [id |-> id, key |-> k]]
          /\ UNCHANGED offset
      BY <2>3, <2>5 DEF handleReplicationEvent
    <3>2. QED
      BY <2>1, <2>2, <2>3, <2>5, <3>1, <1>TargetApplies
  <2>6. QED
    BY <2>4, <2>5
<1> QED
  BY <1>Main

\* No step takes anything back.
LEMMA StepKeeps ==
  ASSUME IInv, [Next]_vars
  PROVE  Keeps
<1> USE DEF consumer, publisher
<1>1. ASSUME events' = events \/ \E e : events' = Append(events, e)
      PROVE  EventIds \subseteq EventIds' /\ \A id \in EventIds : events'[id] = events[id]
  <2>1. events \in Seq(Operations)
    BY DEF IInv, TypeOK
  <2>2. QED
    BY SMT, <1>1, <2>1 DEF EventIds
<1>2. ASSUME UNCHANGED log \/ \E k \in Keys : \E msg : Produce(k, msg)
      PROVE  \A k \in Keys : /\ Len(log[k]) <= Len(log'[k])
                             /\ \A i \in 1 .. Len(log[k]) : log'[k][i] = log[k][i]
  <2>1. CASE UNCHANGED log
    <3>1. \A k \in Keys : Len(log[k]) \in Nat
      BY SMT DEF IInv, TypeOK
    <3>2. \A k \in Keys : Len(log[k]) <= Len(log[k])
      BY SMT, <3>1
    <3>3. QED
      BY <2>1, <3>2
  <2>2. QED
    BY <1>2, <2>1, ProduceKeeps DEF IInv
<1>3. ASSUME events' = events \/ \E e : events' = Append(events, e),
             UNCHANGED log \/ \E k \in Keys : \E msg : Produce(k, msg),
             handled \subseteq handled'
      PROVE  Keeps
  BY <1>1, <1>2, <1>3 DEF Keeps
<1>4. ASSUME NEW k \in Keys, NEW n \in Writers[k], PUT(n, k) \/ DELETE(n, k)
      PROVE  Keeps
  BY <1>3, <1>4 DEF PUT, DELETE, replicateWithFaults
<1>5. ASSUME NEW n \in Nodes, publish(n) \/ publishTwice(n) PROVE Keeps
  <2>1. publishing[n] # <<>> /\ publishing[n] \in Seq(OpIds)
    BY <1>5 DEF publish, publishTwice, IInv, TypeOK
  <2>2. 1 \in 1 .. Len(publishing[n]) /\ Head(publishing[n]) = publishing[n][1]
    BY SMT, <2>1
  <2>3. events[Head(publishing[n])].key \in Keys
    BY <2>2, IdsInRange DEF IInv, Known
  <2>4. QED
    BY <1>3, <1>5, <2>3 DEF publish, publishTwice
<1>6. ASSUME NEW n \in Nodes, publishOvertakes(n) PROVE Keeps
  <2>1. PICK i \in 2 .. Len(publishing[n]) :
          Produce(events[publishing[n][i]].key, EventMessage(publishing[n][i]))
    BY <1>6 DEF publishOvertakes
  <2>2. i \in 1 .. Len(publishing[n])
    BY SMT DEF IInv, TypeOK
  <2>3. events[publishing[n][i]].key \in Keys
    BY <2>2, IdsInRange DEF IInv, Known
  <2>4. QED
    BY <1>3, <1>6, <2>1, <2>3 DEF publishOvertakes
<1>7. ASSUME NEW n \in Nodes, ackPublished(n) PROVE Keeps
  <2>1. acking[n].key \in Keys
    <3>1. acking[n] # NoAck /\ acking \in [Nodes -> {NoAck} \cup [id : OpIds, key : Keys]]
      BY <1>7 DEF ackPublished, IInv, TypeOK
    <3>2. acking[n] \in [id : OpIds, key : Keys]
      BY <3>1
    <3>3. QED
      BY SMT, <3>2
  <2>2. QED
    BY <1>3, <1>7, <2>1 DEF ackPublished
<1>8. ASSUME NEW n \in Nodes, NEW k \in Keys, handleReplicationEvent(n, k) \/ handleAck(n, k)
      PROVE  Keeps
  <2>1. UNCHANGED <<events, log>> /\ handled \subseteq handled'
    BY <1>8 DEF handleReplicationEvent, handleAck
  <2>2. QED
    BY <1>3, <2>1
<1>9. ASSUME NEW n \in Nodes,
             \/ replicate(n) \/ publishFails(n) \/ takeSnapshot(n) \/ handleRestart(n)
             \/ \E id \in pendingAcks[n] : ackTimeout(n, id)
             \/ \E delay \in Delays : DELAY_REPLICATION(n, delay)
             \/ \E drop \in BOOLEAN : DROP_MESSAGES(n, drop)
             \/ ackFails(n) \/ rewind(n) \/ crash(n)
      PROVE  Keeps
  <2>1. UNCHANGED <<events, log, handled>>
    BY <1>9 DEF replicate, publishFails, takeSnapshot, handleRestart, ackTimeout,
       DELAY_REPLICATION, DROP_MESSAGES, ackFails, rewind, crash
  <2>2. QED
    BY <1>3, <2>1
<1>10. CASE UNCHANGED vars
  BY <1>3, <1>10 DEF vars
<1>11. QED
  BY <1>4, <1>5, <1>6, <1>7, <1>8, <1>9, <1>10 DEF Next

\* Sends and timers.
LEMMA SendHeld ==
  ASSUME Benign, IInv, IInv', Consumed, Consumed', CInv, Keeps,
         UNCHANGED <<events, store, handled, offset, acking>>
  PROVE  Versions' /\ WriterExact' /\ HandledInOrder' /\ ReplicasTrack'
<1>1. ASSUME NEW x \in Keys, NEW m \in ReplicaNodeIds[x] \ Writers[x] PROVE Lags(m, x)
  <2>1. m \in Nodes
    BY SMT, ReplicationAssumption
  <2>2. QED
    BY <2>1, LagsIdle
<1>2. QED
  BY <1>1, HeldStays DEF CInv

\* Acks: one is published, fails to be, is received, or is asked for again.
LEMMA AckHeld ==
  ASSUME Benign, IInv, IInv', Consumed, Consumed', CInv, Keeps, NEW n \in Nodes,
         \/ \E k \in Keys : handleAck(n, k)
         \/ ackPublished(n) \/ ackFails(n) \/ rewind(n)
  PROVE  Versions' /\ WriterExact' /\ HandledInOrder' /\ ReplicasTrack'
<1>1. UNCHANGED <<events, store, handled>>
  BY DEF handleAck, ackPublished, ackFails, rewind
<1>2. ASSUME NEW m \in Nodes, NEW x \in Keys, m # n PROVE Lags(m, x)
  <2>1. offset'[m] = offset[m] /\ acking'[m] = acking[m]
    <3>1. DOMAIN offset = Nodes /\ DOMAIN acking = Nodes
      BY DEF IInv, TypeOK
    <3>2. CASE \E k \in Keys : handleAck(n, k)
      BY <1>2, <3>1, <3>2, AdvanceMoves DEF handleAck, IInv
    <3>3. CASE ackPublished(n)
      BY <1>2, <3>1, <3>3 DEF ackPublished, Advance
    <3>4. CASE ackFails(n) \/ rewind(n)
      BY <1>2, <3>1, <3>4 DEF ackFails, rewind
    <3>5. QED
      BY <3>2, <3>3, <3>4
  <2>2. QED
    BY <2>1, LagsIdle
<1>3. ASSUME NEW x \in Keys PROVE Lags(n, x)
  <2>1. offset[n][x] \in Nat /\ Applies(n, x) \in Nat /\ offset[n][x] <= Applies(n, x)
        /\ acking \in [Nodes -> {NoAck} \cup [id : OpIds, key : Keys]]
    <3>1. offset \in [Nodes -> [Keys -> Nat]]
          /\ acking \in [Nodes -> {NoAck} \cup [id : OpIds, key : Keys]]
      BY DEF IInv, TypeOK
    <3>2. offset[n][x] \in Nat
      BY <3>1
    <3>3. QED
      BY SMT, <3>1, <3>2 DEF Applies
  <2>2. ASSUME NEW k \in Keys, handleAck(n, k) PROVE Lags(n, x)
    <3>1. Receives(n, k, "ack") /\ Advance(n, k) /\ UNCHANGED <<log, acking>>
      BY <2>2 DEF handleAck
    <3>2. acking[n] = NoAck /\ log[k][offset[n][k] + 1].kind = "ack"
      BY <3>1 DEF Receives
    <3>3. CASE x # k
      <4>1. offset'[n][x] = offset[n][x]
        BY <3>1, <3>3, AdvanceMoves DEF IInv
      <4>2. QED
        BY <3>1, <4>1, LagsIdle
    <3>4. CASE x = k
      <4>1. offset'[n][x] = offset[n][x] + 1
        BY <3>1, <3>4, AdvanceMoves DEF IInv
      <4>2. Applies(n, x) = offset[n][x] /\ Applies(n, x)' = offset[n][x] + 1
        BY <3>1, <3>2, <4>1 DEF Applies
      <4>3. Len(log[x]) \in Nat
        BY AppliesWithin
      <4>4. ASSUME NEW a \in 1 .. Len(log[x]), log[x][a].kind = "event"
            PROVE  Applies(n, x)' < a \/ a <= Applies(n, x)
        <5>1. "ack" # "event"
          OBVIOUS
        <5>2. a # offset[n][x] + 1
          BY <3>2, <3>4, <4>4, <5>1
        <5>3. QED
          BY <2>1, <4>2, <4>3, <5>2, Beyond
      <4>5. QED
        BY <3>1, <4>4 DEF Lags
    <3>5. QED
      BY <3>3, <3>4
  <2>3. CASE ackPublished(n)
    <3>1. /\ acking[n] # NoAck /\ acking[n].key \in Keys /\ Advance(n, acking[n].key)
          /\ acking'[n] = NoAck
      <4>1. acking[n] # NoAck /\ Advance(n, acking[n].key) /\ acking'[n] = NoAck
        BY <2>1, <2>3 DEF ackPublished
      <4>2. acking[n] \in [id : OpIds, key : Keys]
        BY <2>1, <4>1
      <4>3. acking[n].key \in Keys
        BY <4>2, AckFields
      <4>4. QED
        BY <4>1, <4>3
    <3>2. PICK k \in Keys : k = acking[n].key
      BY <3>1
    <3>3. offset'[n][x] = IF x = k THEN offset[n][x] + 1 ELSE offset[n][x]
      BY <3>1, <3>2, AdvanceMoves DEF IInv
    <3>4. Applies(n, x)' = Applies(n, x)
      BY <3>1, <3>2, <3>3 DEF Applies
    <3>5. Applies(n, x)' <= Applies(n, x)
      BY <2>1, <3>4, AtMost
    <3>6. QED
      BY <3>5, LagsBack
  <2>4. CASE ackFails(n) \/ rewind(n)
    <3>1. acking'[n] = NoAck /\ offset'[n][x] \in Nat /\ offset'[n][x] <= offset[n][x]
      <4>1. acking'[n] = NoAck
        BY <2>1, <2>4 DEF ackFails, rewind
      <4>2. offset \in [Nodes -> [Keys -> Nat]] /\ offset' \in [Nodes -> [Keys -> Nat]]
        BY DEF IInv, TypeOK
      <4>3. CASE ackFails(n)
        <5>1. offset' = offset
          BY <4>3 DEF ackFails
        <5>2. QED
          BY <2>1, <4>1, <5>1, AtMost
      <4>4. CASE rewind(n)
        <5>1. offset'[n] \in Committed(n)
          BY <4>2, <4>4 DEF rewind
        <5>2. offset'[n][x] <= offset[n][x]
          BY <5>1 DEF Committed
        <5>3. QED
          BY <4>1, <4>2, <5>2
      <4>5. QED
        BY <2>4, <4>3, <4>4
    <3>2. Applies(n, x)' = offset'[n][x]
      BY <3>1 DEF Applies
    <3>3. Applies(n, x)' <= Applies(n, x)
      BY <2>1, <3>1, <3>2, Through
    <3>4. QED
      BY <3>3, LagsBack
  <2>5. QED
    BY <2>2, <2>3, <2>4
<1>4. \A k \in Keys : ReplicaNodeIds[k] \subseteq Nodes
  BY SMT, ReplicationAssumption
<1>5. \A k \in Keys : \A m \in ReplicaNodeIds[k] \ Writers[k] : Lags(m, k)
  BY <1>2, <1>3, <1>4
<1>6. QED
  BY <1>1, <1>5, HeldStays DEF CInv

\* Acks in the topic are no events.
LEMMA AckFlow ==
  ASSUME Benign, IInv, IInv', PInv, Keeps, NEW n \in Nodes,
         \/ \E k \in Keys : handleAck(n, k)
         \/ ackPublished(n) \/ ackFails(n) \/ rewind(n)
  PROVE  PInv'
<1>1. UNCHANGED <<events, delaying, publishing, fault>>
  BY DEF handleAck, ackPublished, ackFails, rewind, publisher
<1>2. CASE UNCHANGED log
  <2>1. \A x \in Keys : Published(x)
    BY <1>2 DEF Published
  <2>2. QED
    BY <1>1, <2>1, QuietFlow
<1>3. CASE ackPublished(n)
  <2>1. PICK k, msg : k = acking[n].key /\ msg = AckMessage(acking[n].id, n)
    OBVIOUS
  <2>2. log' = [log EXCEPT ![k] = Append(@, msg)] /\ log \in [Keys -> Seq(Messages)]
    BY <1>3, <2>1 DEF ackPublished, Produce, IInv, TypeOK
  <2>3. msg.kind # "event"
    <3>1. msg.kind = "ack"
      BY SMT, <2>1 DEF AckMessage
    <3>2. QED
      BY <3>1
  <2>4. ASSUME NEW x \in Keys PROVE Published(x)
    <3>1. log'[x] = (IF x = k THEN Append(log[x], msg) ELSE log[x]) /\ log[x] \in Seq(Messages)
      BY <2>2
    <3>2. \/ Len(log'[x]) = Len(log[x])
          \/ Len(log'[x]) = Len(log[x]) + 1 /\ log'[x][Len(log[x]) + 1] = msg
      BY SMT, <3>1
    <3>3. QED
      BY <2>3, <3>2 DEF Published
  <2>5. QED
    BY <1>1, <2>4, QuietFlow
<1>4. QED
  BY <1>2, <1>3 DEF handleAck, ackFails, rewind

\* Every step keeps the replicas following.
LEMMA CInvStep ==
  ASSUME Benign, IInv, IInv', Consumed, Consumed', CInv, [Next]_vars
  PROVE  CInv'
<1>1. Keeps
  BY StepKeeps
<1>2. PInv
  BY DEF CInv
<1>3. ASSUME NEW k \in Keys, NEW n \in Writers[k], PUT(n, k) \/ DELETE(n, k)
      PROVE  CInv'
  <2>1. n \in Nodes
    BY SMT, ReplicationAssumption
  <2>2. QED
    BY <1>1, <1>3, <2>1, PutHeld, DeleteHeld DEF CInv
<1>4. ASSUME NEW n \in Nodes, NEW k \in Keys, handleReplicationEvent(n, k)
      PROVE  CInv'
  BY <1>1, <1>4, EventHeld DEF CInv
<1>5. ASSUME NEW n \in Nodes,
             \/ \E k \in Keys : handleAck(n, k)
             \/ ackPublished(n) \/ ackFails(n) \/ rewind(n)
      PROVE  CInv'
  BY <1>1, <1>2, <1>5, AckFlow, AckHeld DEF CInv
<1>6. ASSUME NEW n \in Nodes, replicate(n) \/ publish(n) \/ publishTwice(n)
      PROVE  CInv'
  <2>1. PInv'
    BY <1>1, <1>2, <1>6, HandoverFlow, PublishFlow
  <2>2. UNCHANGED <<events, store, handled, offset, acking>>
    BY <1>6 DEF replicate, publish, publishTwice, consumer
  <2>3. QED
    BY <1>1, <2>1, <2>2, SendHeld DEF CInv
<1>7. ASSUME \/ \E n \in Nodes : \E id \in pendingAcks[n] : ackTimeout(n, id)
             \/ UNCHANGED vars
      PROVE  CInv'
  <2>1. UNCHANGED <<events, store, handled, offset, acking, delaying, publishing, fault, log>>
    BY <1>7 DEF ackTimeout, consumer, vars
  <2>2. \A x \in Keys : Published(x)
    BY <2>1 DEF Published
  <2>3. PInv'
    BY <1>1, <1>2, <2>1, <2>2, QuietFlow
  <2>4. QED
    BY <1>1, <2>1, <2>3, SendHeld DEF CInv
<1>8. \A n \in Nodes :
        ~( \/ publishOvertakes(n) \/ publishFails(n) \/ takeSnapshot(n) \/ handleRestart(n)
           \/ crash(n)
           \/ \E delay \in Delays : DELAY_REPLICATION(n, delay)
           \/ \E drop \in BOOLEAN : DROP_MESSAGES(n, drop) )
  <2>1. \A kind \in {"reordered", "lost", "delay", "drop", "restart", "crash"} :
          kind \notin FaultKinds
    BY SMT DEF Benign
  <2>2. {"crash", "restart"} \cap FaultKinds = {}
    BY SMT, <2>1
  <2>3. QED
    BY <2>1, <2>2 DEF publishOvertakes, publishFails, takeSnapshot, handleRestart, crash,
       DELAY_REPLICATION, DROP_MESSAGES, Fault
<1>9. QED
  BY <1>3, <1>4, <1>5, <1>6, <1>7, <1>8 DEF Next

\* The invariants behind both theorems.
LEMMA BenignInvariant ==
  ASSUME Benign
  PROVE  Spec => [](IInv /\ Consumed /\ CInv)
<1>1. Init => Consumed
  BY ConsumedInit
<1>2. IInv' => TypedNext
  <2> SUFFICES ASSUME IInv' PROVE TypedNext
    OBVIOUS
  <2>1. offset' \in [Nodes -> [Keys -> Nat]] /\ log' \in [Keys -> Seq(Messages)']
    BY DEF IInv, TypeOK
  <2>2. QED
    BY SMT, <2>1 DEF TypedNext
<1>3. IInv /\ TypedNext /\ Consumed /\ [Next]_vars => Consumed'
  <2>1. "crash" \notin FaultKinds
    BY SMT DEF Benign
  <2>2. QED
    BY <2>1, ConsumedStep
<1>4. Init => CInv
  BY CInvInit
<1>5. IInv /\ IInv' /\ Consumed /\ Consumed' /\ CInv /\ [Next]_vars => CInv'
  BY CInvStep
<1>6. QED
  BY <1>1, <1>2, <1>3, <1>4, <1>5, InvInit, InvStep, PTL DEF Spec

\* Whatever is sent twice, redelivered or left without an ack, once every
\* operation has been published and consumed the replicas of a key hold what
\* the node that takes its writes holds: with one writer per key, room for
\* every key, and consumers of all partitions.
THEOREM ReplicasConverge ==
  ASSUME Benign
  PROVE  Spec => []Converged
<1>1. IInv /\ Consumed /\ CInv => Converged
  BY CInvConverges
<1>2. QED
  BY <1>1, BenignInvariant, PTL

\* In the same circumstances the version check of a replica ignores no write
\* that is newer than everything the replica has handled for the key.
THEOREM NewestWritesTakeEffect ==
  ASSUME Benign
  PROVE  Spec => NewestWriteApplied
<1> DEFINE A == \A n \in Nodes, k \in Keys :
                  handleReplicationEvent(n, k) =>
                    LET id == NextMessage(n, k).id IN
                    /\ n \in targetNodeIds(id) /\ events[id].op = "PUT"
                    /\ \A i \in EventIds : <<n, i>> \in handled /\ events[i].key = k => i <= id
                    => Value(n, k)' = id
<1>1. IInv /\ Consumed /\ CInv => A
  BY NewestApplied
<1>2. Spec => [][A]_vars
  <2> HIDE DEF A
  <2>1. QED
    BY <1>1, BenignInvariant, PTL
<1>3. QED
  BY SMT, <1>2 DEF NewestWriteApplied

=============================================================================
