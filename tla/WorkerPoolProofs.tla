-------------------------- MODULE WorkerPoolProofs --------------------------
(***************************************************************************)
(* Proofs that the safety properties of WorkerPool hold for every set of   *)
(* tasks, every pool size and every number of crashes.                     *)
(***************************************************************************)
EXTENDS WorkerPool, FiniteSetTheorems, TLAPS

\* A task nobody submitted is nowhere in the pool.
FreshNowhere ==
  \A t \in Tasks :
    promise[t] = "unsubmitted" => InQueue(t) = {} /\ OnWorkers(t) = {}

\* Only a live pool holds queued or pending tasks.
DisposedEmpty == disposed => queue = <<>> /\ pending = {}

IInv ==
  /\ TypeOK
  /\ WorkConserving
  /\ PromiseTracked
  /\ PlacedOnce
  /\ FreshNowhere
  /\ DisposedEmpty

\* Types hold initially and every handler preserves them.
LEMMA TypeInit == Init => TypeOK
<1> SUFFICES ASSUME Init PROVE TypeOK
  OBVIOUS
<1>1. DOMAIN workers = 0 .. Size - 1
  BY DEF Init
<1>2. QED
  BY <1>1, PoolAssumption DEF Init, TypeOK

\* settle keeps pending a set of tasks and promise a promise state.
LEMMA SettleType ==
  ASSUME TypeOK, NEW t, NEW how \in {"resolved", "rejected"}, settle(t, how)
  PROVE  /\ pending' \subseteq Tasks
         /\ promise' \in [Tasks -> {"unsubmitted", "pending", "resolved",
                                    "rejected"}]
BY DEF TypeOK, settle

\* drainQueueTo keeps the worker table and the queue well typed.
LEMMA DrainType ==
  ASSUME TypeOK, NEW ws, NEW w \in DOMAIN ws,
         ws \in [DOMAIN ws -> Tasks \cup {NoTask}], drainQueueTo(ws, w)
  PROVE  /\ DOMAIN workers' = DOMAIN ws
         /\ workers' \in [DOMAIN ws -> Tasks \cup {NoTask}]
         /\ queue' \in Seq(Tasks)
<1>1. CASE queue = <<>> \/ disposed
  BY <1>1 DEF drainQueueTo, TypeOK
<1>2. CASE ~(queue = <<>> \/ disposed)
  <2>1. Head(queue) \in Tasks /\ Tail(queue) \in Seq(Tasks)
    BY <1>2 DEF TypeOK
  <2>2. QED
    BY Zenon, <1>2, <2>1 DEF drainQueueTo
<1>3. QED
  BY <1>1, <1>2

\* replaceWorker keeps the worker table, the queue and exited well typed.
LEMMA ReplaceType ==
  ASSUME TypeOK, NEW w \in DOMAIN workers, replaceWorker(w)
  PROVE  /\ workers' \in [DOMAIN workers' -> Tasks \cup {NoTask}]
         /\ DOMAIN workers' \subseteq 0 .. nextWorkerId' - 1
         /\ exited' \subseteq DOMAIN workers'
         /\ nextWorkerId' \in Nat
         /\ queue' \in Seq(Tasks)
<1> DEFINE kept == [x \in DOMAIN workers \ {w} |-> workers[x]]
           fresh == [x \in DOMAIN kept \cup {nextWorkerId} |->
                       IF x = nextWorkerId THEN NoTask ELSE kept[x]]
<1>1. /\ kept \in [DOMAIN workers \ {w} -> Tasks \cup {NoTask}]
      /\ DOMAIN kept = DOMAIN workers \ {w}
  BY DEF TypeOK
<1>2. CASE disposed
  BY <1>1, <1>2 DEF TypeOK, replaceWorker
<1>3. CASE ~disposed
  <2>1. /\ DOMAIN fresh = (DOMAIN workers \ {w}) \cup {nextWorkerId}
        /\ fresh \in [DOMAIN fresh -> Tasks \cup {NoTask}]
        /\ nextWorkerId \in DOMAIN fresh
    BY <1>1
  <2>2. /\ nextWorkerId' = nextWorkerId + 1
        /\ exited' = exited \ {w}
        /\ drainQueueTo(fresh, nextWorkerId)
    BY <1>3 DEF replaceWorker
  <2> HIDE DEF fresh
  <2>3. /\ DOMAIN workers' = DOMAIN fresh
        /\ workers' \in [DOMAIN fresh -> Tasks \cup {NoTask}]
        /\ queue' \in Seq(Tasks)
    BY <2>1, <2>2, DrainType
  <2>4. QED
    BY <2>1, <2>2, <2>3 DEF TypeOK
<1>4. QED
  BY <1>2, <1>3

\* Every step of the pool keeps every variable in its type.
LEMMA TypeStep == TypeOK /\ [Next]_vars => TypeOK'
<1> SUFFICES ASSUME TypeOK, [Next]_vars PROVE TypeOK'
  OBVIOUS
<1>1. ASSUME NEW t \in Tasks, submitTask(t) PROVE TypeOK'
  <2>1. Append(queue, t) \in Seq(Tasks) /\ Append(submitted, t) \in Seq(Tasks)
    BY DEF TypeOK
  <2>2. CASE disposed
    BY Zenon, <1>1, <2>2 DEF TypeOK, submitTask
  <2>3. CASE ~disposed
    <3>1. /\ promise' = [promise EXCEPT ![t] = "pending"]
          /\ pending' = pending \cup {t}
          /\ submitted' = Append(submitted, t)
          /\ dispatchOrQueue(t)
          /\ UNCHANGED <<exited, nextWorkerId, disposed, crashes>>
      BY <1>1, <2>3 DEF submitTask
    <3>2. /\ DOMAIN workers' = DOMAIN workers
          /\ workers' \in [DOMAIN workers -> Tasks \cup {NoTask}]
          /\ queue' \in Seq(Tasks)
      BY Zenon, <2>1, <3>1 DEF dispatchOrQueue, Idle, TypeOK
    <3>3. QED
      BY <2>1, <3>1, <3>2 DEF TypeOK
  <2>4. QED
    BY <2>2, <2>3
<1>2. ASSUME NEW t \in Tasks, handleTimeout(t) PROVE TypeOK'
  <2>1. settle(t, "rejected") /\ UNCHANGED <<submitted, disposed, crashes>>
    BY <1>2 DEF handleTimeout
  <2>2. ASSUME NEW w \in DOMAIN workers, replaceWorker(w) PROVE TypeOK'
    BY SMTT(30), <2>1, <2>2, SettleType, ReplaceType DEF TypeOK
  <2>3. CASE UNCHANGED <<workers, exited, nextWorkerId, queue>>
    BY <2>1, <2>3, SettleType DEF TypeOK
  <2>4. QED
    BY <1>2, <2>2, <2>3 DEF handleTimeout
<1>3. ASSUME NEW w \in DOMAIN workers, NEW how \in {"resolved", "rejected"},
             handleWorkerMessage(w, how)
      PROVE  TypeOK'
  <2> DEFINE ws == [workers EXCEPT ![w] = NoTask]
  <2>1. /\ DOMAIN ws = DOMAIN workers
        /\ ws \in [DOMAIN ws -> Tasks \cup {NoTask}]
    BY DEF TypeOK
  <2>2. /\ settle(workers[w], how)
        /\ drainQueueTo(ws, w)
        /\ UNCHANGED <<exited, nextWorkerId, submitted, disposed, crashes>>
    BY <1>3 DEF handleWorkerMessage
  <2> HIDE DEF ws
  <2>3. /\ DOMAIN workers' = DOMAIN ws
        /\ workers' \in [DOMAIN ws -> Tasks \cup {NoTask}]
        /\ queue' \in Seq(Tasks)
    BY <2>1, <2>2, DrainType
  <2>4. QED
    BY <2>1, <2>2, <2>3, SettleType DEF TypeOK
<1>4. ASSUME NEW w \in DOMAIN workers, handleWorkerError(w) PROVE TypeOK'
  BY SMTT(30), <1>4, SettleType, ReplaceType DEF TypeOK, handleWorkerError
<1>5. ASSUME NEW w \in DOMAIN workers, NEW code \in ExitCodes,
             handleWorkerExit(w, code)
      PROVE  TypeOK'
  <2>1. CASE code # 0
    BY SMTT(30), <1>5, <2>1, SettleType, ReplaceType DEF TypeOK, handleWorkerExit
  <2>2. CASE code = 0
    BY <1>5, <2>2 DEF TypeOK, handleWorkerExit
  <2>3. QED
    BY <2>1, <2>2
<1>6. CASE dispose
  BY <1>6 DEF TypeOK, dispose
<1>7. CASE disposeEnd
  BY <1>7 DEF TypeOK, disposeEnd
<1>8. CASE UNCHANGED vars
  BY <1>8 DEF TypeOK, vars
<1>9. QED
  BY <1>1, <1>2, <1>3, <1>4, <1>5, <1>6, <1>7, <1>8 DEF Next

-----------------------------------------------------------------------------

\* Where a task is, for a worker table that is not the current one.
OnTable(ws, t) == {x \in DOMAIN ws : ws[x] = t}

\* drainQueueTo moves at most the head of the queue to w: no task is lost,
\* duplicated or invented.
LEMMA DrainPlaces ==
  ASSUME TypeOK, NEW ws, NEW w \in DOMAIN ws, ws[w] = NoTask,
         ws \in [DOMAIN ws -> Tasks \cup {NoTask}], drainQueueTo(ws, w),
         NEW t \in Tasks,
         \A i, j \in InQueue(t) : i = j,
         \A x, y \in OnTable(ws, t) : x = y,
         InQueue(t) = {} \/ OnTable(ws, t) = {}
  PROVE  /\ \A i, j \in InQueue(t)' : i = j
         /\ \A x, y \in OnWorkers(t)' : x = y
         /\ InQueue(t)' = {} \/ OnWorkers(t)' = {}
         /\ InQueue(t)' = {} /\ OnWorkers(t)' = {}
              <=> InQueue(t) = {} /\ OnTable(ws, t) = {}
<1>1. CASE queue = <<>> \/ disposed
  BY <1>1 DEF drainQueueTo, InQueue, OnWorkers, OnTable
<1>2. CASE ~(queue = <<>> \/ disposed)
  <2>1. /\ workers' = [ws EXCEPT ![w] = Head(queue)]
        /\ queue' = Tail(queue)
        /\ queue \in Seq(Tasks) /\ queue # <<>>
    BY <1>2 DEF drainQueueTo, TypeOK
  <2>2. /\ Len(queue) \in Nat \ {0} /\ Len(queue') = Len(queue) - 1
        /\ Head(queue) = queue[1]
        /\ \A i \in 1 .. Len(queue') : queue'[i] = queue[i + 1]
    BY <2>1
  <2>3. CASE Head(queue) = t
    <3>1. InQueue(t) = {1}
      BY <2>2, <2>3 DEF InQueue
    <3>2. InQueue(t)' = {}
      BY <2>2, <3>1 DEF InQueue
    <3>3. OnWorkers(t)' = {w}
      BY <2>1, <2>3, <3>1 DEF OnWorkers, OnTable
    <3>4. QED
      BY <3>1, <3>2, <3>3
  <2>4. CASE Head(queue) # t
    <3>1. OnWorkers(t)' = OnTable(ws, t)
      <4>1. NoTask # t
        BY PoolAssumption
      <4>2. QED
        BY <2>1, <2>4, <4>1 DEF OnWorkers, OnTable
    <3>2. \A i \in InQueue(t)' : i + 1 \in InQueue(t) /\ i \in Nat
      BY <2>2 DEF InQueue
    <3>3. \A i \in InQueue(t) : i - 1 \in InQueue(t)'
      BY <2>2, <2>4 DEF InQueue
    <3>4. InQueue(t)' = {} <=> InQueue(t) = {}
      BY <3>2, <3>3
    <3>5. \A i, j \in InQueue(t)' : i = j
      BY <3>2
    <3>6. QED
      BY <3>1, <3>4, <3>5
  <2>5. QED
    BY <2>3, <2>4
<1>3. QED
  BY <1>1, <1>2

\* What settling a task does to promises: no task becomes unsubmitted, and
\* pending tasks are still exactly those with an unsettled promise.
LEMMA SettleTracks ==
  ASSUME TypeOK, PromiseTracked, NEW t, NEW how \in {"resolved", "rejected"},
         settle(t, how)
  PROVE  /\ PromiseTracked'
         /\ t \notin pending' /\ pending' \subseteq pending
         /\ \A u \in Tasks : promise'[u] = "unsubmitted"
                              => promise[u] = "unsubmitted"
<1>1. CASE t \in pending
  <2>1. t \in Tasks /\ promise' = [promise EXCEPT ![t] = how]
    BY <1>1 DEF TypeOK, settle
  <2>2. QED
    BY <2>1 DEF TypeOK, PromiseTracked, settle
<1>2. CASE t \notin pending
  BY <1>2 DEF PromiseTracked, settle
<1>3. QED
  BY <1>1, <1>2

\* The parts of the invariant besides the types.
Placement ==
  WorkConserving /\ PromiseTracked /\ PlacedOnce /\ FreshNowhere /\ DisposedEmpty

\* A worker w is freed of its task, which settles, and the idle worker v
\* (w itself, or its replacement) takes the head of the queue: the common
\* core of handleWorkerMessage, handleTimeout, handleWorkerError and
\* handleWorkerExit.
LEMMA FreedStep ==
  ASSUME IInv, NEW w \in DOMAIN workers, NEW how \in {"resolved", "rejected"},
         settle(workers[w], how), UNCHANGED disposed,
         NEW ws, NEW v \in DOMAIN ws, ws[v] = NoTask,
         ws \in [DOMAIN ws -> Tasks \cup {NoTask}], drainQueueTo(ws, v),
         \A t \in Tasks :
           OnTable(ws, t) = IF t = workers[w] THEN {} ELSE OnWorkers(t),
         \A x \in DOMAIN ws \ {v} : x \in DOMAIN workers /\ ws[x] = workers[x]
  PROVE  Placement'
<1> USE DEF IInv
<1>1. WorkConserving'
  <2> SUFFICES ASSUME queue' # <<>> PROVE Idle' = {}
    BY DEF WorkConserving
  <2>1. queue # <<>> /\ ~disposed
    BY DEF drainQueueTo, DisposedEmpty
  <2>2. workers' = [ws EXCEPT ![v] = Head(queue)] /\ Head(queue) \in Tasks
    BY <2>1 DEF drainQueueTo, TypeOK
  <2>3. \A x \in DOMAIN ws \ {v} : ws[x] # NoTask
    BY <2>1 DEF WorkConserving, Idle
  <2>4. QED
    BY <2>2, <2>3, PoolAssumption DEF Idle
<1>2. /\ PromiseTracked'
      /\ workers[w] \notin pending' /\ pending' \subseteq pending
      /\ \A u \in Tasks : promise'[u] = "unsubmitted"
                           => promise[u] = "unsubmitted"
  BY SettleTracks
<1>3. ASSUME NEW t \in Tasks
      PROVE  /\ \A i, j \in InQueue(t)' : i = j
             /\ \A x, y \in OnWorkers(t)' : x = y
             /\ InQueue(t)' = {} \/ OnWorkers(t)' = {}
             /\ InQueue(t)' = {} /\ OnWorkers(t)' = {}
                  <=> InQueue(t) = {} /\ OnTable(ws, t) = {}
  <2>1. /\ \A i, j \in InQueue(t) : i = j
        /\ \A x, y \in OnTable(ws, t) : x = y
        /\ InQueue(t) = {} \/ OnTable(ws, t) = {}
    BY DEF PlacedOnce
  <2>2. QED
    BY <2>1, DrainPlaces
<1>4. PlacedOnce'
  <2>1. ASSUME NEW t \in Tasks, t \in pending'
        PROVE  InQueue(t)' # {} \/ OnWorkers(t)' # {}
    <3>1. t \in pending /\ t # workers[w]
      BY <1>2, <2>1
    <3>2. OnTable(ws, t) = OnWorkers(t)
      BY <3>1
    <3>3. QED
      BY <1>3, <3>1, <3>2 DEF PlacedOnce
  <2>2. QED
    BY <1>3, <2>1 DEF PlacedOnce
<1>5. FreshNowhere'
  BY <1>2, <1>3 DEF FreshNowhere
<1>6. DisposedEmpty'
  BY <1>2 DEF DisposedEmpty, drainQueueTo
<1>7. QED
  BY <1>1, <1>2, <1>4, <1>5, <1>6 DEF Placement

\* Settling the task of w and replacing w keeps the invariant.
LEMMA ReplaceStep ==
  ASSUME IInv, NEW w \in DOMAIN workers, settle(workers[w], "rejected"),
         replaceWorker(w), UNCHANGED disposed
  PROVE  Placement'
<1> USE DEF IInv
<1> DEFINE kept == [x \in DOMAIN workers \ {w} |-> workers[x]]
           fresh == [x \in DOMAIN kept \cup {nextWorkerId} |->
                       IF x = nextWorkerId THEN NoTask ELSE kept[x]]
<1>1. nextWorkerId \notin DOMAIN workers
  BY DEF TypeOK
<1>2. CASE disposed
  <2>1. workers' = kept /\ queue' = queue /\ queue = <<>> /\ pending = {}
    BY <1>2 DEF replaceWorker, DisposedEmpty
  <2>2. /\ PromiseTracked' /\ pending' = {}
        /\ \A u \in Tasks : promise'[u] = "unsubmitted"
                             => promise[u] = "unsubmitted"
    BY <2>1, SettleTracks
  <2>3. \A t \in Tasks : /\ OnWorkers(t)' \subseteq OnWorkers(t)
                         /\ InQueue(t)' = InQueue(t)
    BY <2>1 DEF OnWorkers, InQueue
  <2>4. PlacedOnce' /\ FreshNowhere'
    BY <2>2, <2>3 DEF PlacedOnce, FreshNowhere
  <2>5. WorkConserving' /\ DisposedEmpty'
    BY <2>1, <2>2 DEF WorkConserving, DisposedEmpty
  <2>6. QED
    BY <2>2, <2>4, <2>5 DEF Placement
<1>3. CASE ~disposed
  <2>1. /\ DOMAIN fresh = (DOMAIN workers \ {w}) \cup {nextWorkerId}
        /\ fresh \in [DOMAIN fresh -> Tasks \cup {NoTask}]
        /\ nextWorkerId \in DOMAIN fresh /\ fresh[nextWorkerId] = NoTask
    BY DEF TypeOK
  <2>2. \A x \in DOMAIN fresh \ {nextWorkerId} :
          x \in DOMAIN workers \ {w} /\ fresh[x] = workers[x]
    BY <1>1, <2>1
  <2>3. drainQueueTo(fresh, nextWorkerId)
    BY <1>3 DEF replaceWorker
  <2> HIDE DEF fresh
  <2>4. ASSUME NEW t \in Tasks
        PROVE  OnTable(fresh, t) = IF t = workers[w] THEN {} ELSE OnWorkers(t)
    <3>1. \A x \in DOMAIN workers \ {w} : x \in DOMAIN fresh \ {nextWorkerId}
      BY <1>1, <2>1
    <3>2. OnTable(fresh, t) = OnWorkers(t) \ {w}
      BY <2>1, <2>2, <3>1, PoolAssumption DEF OnTable, OnWorkers
    <3>3. CASE t = workers[w]
      <4>1. OnWorkers(t) = {w}
        BY <3>3 DEF PlacedOnce, OnWorkers
      <4>2. QED
        BY <3>2, <3>3, <4>1
    <3>4. CASE t # workers[w]
      BY <3>2, <3>4 DEF OnWorkers
    <3>5. QED
      BY <3>3, <3>4
  <2>5. QED
    BY <2>1, <2>2, <2>3, <2>4, FreedStep
<1>4. QED
  BY <1>2, <1>3

\* submitTask places a task that was nowhere: on an idle worker, or at the
\* tail of the queue when there is none.
LEMMA SubmitStep ==
  ASSUME IInv, NEW t \in Tasks, submitTask(t)
  PROVE  Placement'
<1> USE DEF IInv
<1>1. promise[t] = "unsubmitted" /\ InQueue(t) = {} /\ OnWorkers(t) = {}
      /\ t \notin pending /\ UNCHANGED disposed
  BY DEF submitTask, FreshNowhere, PromiseTracked
<1>2. CASE disposed
  <2>1. /\ promise' = [promise EXCEPT ![t] = "rejected"]
        /\ UNCHANGED <<workers, queue, pending>>
    BY <1>2 DEF submitTask
  <2>2. PromiseTracked'
    BY <1>1, <2>1 DEF PromiseTracked, TypeOK
  <2>3. FreshNowhere'
    BY <2>1 DEF FreshNowhere, TypeOK, InQueue, OnWorkers
  <2>4. WorkConserving' /\ PlacedOnce' /\ DisposedEmpty'
    BY <1>1, <2>1 DEF WorkConserving, Idle, PlacedOnce, InQueue, OnWorkers,
                      DisposedEmpty
  <2>5. QED
    BY <2>2, <2>3, <2>4 DEF Placement
<1>3. CASE ~disposed
  <2>1. /\ promise' = [promise EXCEPT ![t] = "pending"]
        /\ pending' = pending \cup {t}
        /\ dispatchOrQueue(t)
    BY <1>3 DEF submitTask
  <2>2. PromiseTracked' /\ DisposedEmpty'
    BY <1>1, <1>3, <2>1 DEF PromiseTracked, TypeOK, DisposedEmpty
  <2>3. ASSUME NEW w \in Idle, workers' = [workers EXCEPT ![w] = t],
               queue' = queue
        PROVE  Placement'
    <3>1. w \in DOMAIN workers /\ workers[w] = NoTask /\ NoTask \notin Tasks
      BY PoolAssumption DEF Idle
    <3>2. /\ \A u \in Tasks : InQueue(u)' = InQueue(u)
          /\ \A u \in Tasks \ {t} : OnWorkers(u)' = OnWorkers(u)
          /\ OnWorkers(t)' = {w}
      BY <1>1, <2>3, <3>1 DEF InQueue, OnWorkers
    <3>3. WorkConserving'
      BY <2>3, <3>1 DEF WorkConserving
    <3>4. PlacedOnce'
      BY <1>1, <2>1, <3>2 DEF PlacedOnce
    <3>5. FreshNowhere'
      BY <2>1, <3>2 DEF FreshNowhere, TypeOK
    <3>6. QED
      BY <2>2, <3>3, <3>4, <3>5 DEF Placement
  <2>4. ASSUME Idle = {}, queue' = Append(queue, t), workers' = workers
        PROVE  Placement'
    <3>1. /\ Len(queue) \in Nat /\ Len(queue') = Len(queue) + 1
          /\ queue'[Len(queue) + 1] = t
          /\ \A i \in 1 .. Len(queue) : queue'[i] = queue[i]
      BY <2>4 DEF TypeOK
    <3>2. /\ \A u \in Tasks \ {t} : InQueue(u)' = InQueue(u)
          /\ InQueue(t)' = {Len(queue) + 1}
      BY <1>1, <3>1 DEF InQueue
    <3>3. \A u \in Tasks : OnWorkers(u)' = OnWorkers(u)
      BY <2>4 DEF OnWorkers
    <3>4. WorkConserving'
      BY <2>4 DEF WorkConserving, Idle
    <3>5. PlacedOnce'
      <4>1. ASSUME NEW u \in Tasks, u # t
            PROVE  /\ InQueue(u)' = InQueue(u) /\ OnWorkers(u)' = OnWorkers(u)
                   /\ u \in pending' <=> u \in pending
        BY Zenon, <2>1, <3>2, <3>3, <4>1
      <4>2. OnWorkers(t)' = {} /\ InQueue(t)' = {Len(queue) + 1}
        BY Zenon, <1>1, <3>2, <3>3
      <4>3. PlacedOnce
        BY Zenon
      <4>4. ASSUME NEW u \in Tasks
            PROVE  /\ \A i, j \in InQueue(u)' : i = j
                   /\ \A w, x \in OnWorkers(u)' : w = x
                   /\ InQueue(u)' = {} \/ OnWorkers(u)' = {}
                   /\ u \in pending' => InQueue(u)' # {} \/ OnWorkers(u)' # {}
        <5>1. CASE u = t
          BY Zenon, <4>2, <5>1
        <5>2. CASE u # t
          <6>1. /\ InQueue(u)' = InQueue(u) /\ OnWorkers(u)' = OnWorkers(u)
                /\ u \in pending' <=> u \in pending
            BY Zenon, <4>1, <5>2
          <6>2. /\ \A i, j \in InQueue(u) : i = j
                /\ \A w, x \in OnWorkers(u) : w = x
                /\ InQueue(u) = {} \/ OnWorkers(u) = {}
                /\ u \in pending => InQueue(u) # {} \/ OnWorkers(u) # {}
            BY Zenon, <4>3 DEF PlacedOnce
          <6>3. QED
            BY Zenon, <6>1, <6>2
        <5>3. QED
          BY Zenon, <5>1, <5>2
      <4>5. QED
        BY Zenon, <4>4 DEF PlacedOnce
    <3>6. FreshNowhere'
      BY <2>1, <3>2, <3>3 DEF FreshNowhere, TypeOK
    <3>7. QED
      BY <2>2, <3>4, <3>5, <3>6 DEF Placement
  <2>5. QED
    BY <2>1, <2>3, <2>4 DEF dispatchOrQueue
<1>4. QED
  BY <1>2, <1>3

\* Every step of the pool preserves the inductive invariant.
LEMMA InvStep == IInv /\ [Next]_vars => IInv'
<1> SUFFICES ASSUME IInv, [Next]_vars PROVE Placement'
  BY TypeStep DEF IInv, Placement
<1>1. ASSUME NEW t \in Tasks, submitTask(t) PROVE Placement'
  BY <1>1, SubmitStep
<1>2. ASSUME NEW t \in Tasks, handleTimeout(t) PROVE Placement'
  <2>1. settle(t, "rejected") /\ t \in pending /\ UNCHANGED disposed
    BY <1>2 DEF handleTimeout, TimerDue
  <2>2. ASSUME NEW w \in DOMAIN workers, workers[w] = t, replaceWorker(w)
        PROVE  Placement'
    BY <2>1, <2>2, ReplaceStep
  <2>3. CASE UNCHANGED <<workers, queue>>
    <3>1. PromiseTracked' /\ pending' \subseteq pending
          /\ \A u \in Tasks : promise'[u] = "unsubmitted"
                              => promise[u] = "unsubmitted"
      BY <2>1, SettleTracks DEF IInv
    <3>2. QED
      BY <2>1, <2>3, <3>1 DEF IInv, Placement, WorkConserving, Idle, PlacedOnce,
         FreshNowhere, DisposedEmpty, InQueue, OnWorkers
  <2>4. QED
    BY <1>2, <2>2, <2>3 DEF handleTimeout
<1>3. ASSUME NEW w \in DOMAIN workers, NEW how \in {"resolved", "rejected"},
             handleWorkerMessage(w, how)
      PROVE  Placement'
  <2> DEFINE ws == [workers EXCEPT ![w] = NoTask]
  <2>1. /\ DOMAIN ws = DOMAIN workers /\ ws[w] = NoTask
        /\ ws \in [DOMAIN ws -> Tasks \cup {NoTask}]
        /\ \A x \in DOMAIN ws \ {w} : x \in DOMAIN workers /\ ws[x] = workers[x]
    BY DEF IInv, TypeOK
  <2>2. settle(workers[w], how) /\ drainQueueTo(ws, w) /\ UNCHANGED disposed
    BY <1>3 DEF handleWorkerMessage
  <2> HIDE DEF ws
  <2>3. ASSUME NEW t \in Tasks
        PROVE  OnTable(ws, t) = IF t = workers[w] THEN {} ELSE OnWorkers(t)
    <3>1. OnTable(ws, t) = OnWorkers(t) \ {w}
      BY <2>1, PoolAssumption DEF OnTable, OnWorkers
    <3>2. CASE t = workers[w]
      <4>1. OnWorkers(t) = {w}
        BY <3>2 DEF IInv, PlacedOnce, OnWorkers
      <4>2. QED
        BY <3>1, <3>2, <4>1
    <3>3. CASE t # workers[w]
      BY <3>1, <3>3 DEF OnWorkers
    <3>4. QED
      BY <3>2, <3>3
  <2>4. QED
    BY <2>1, <2>2, <2>3, FreedStep
<1>4. ASSUME NEW w \in DOMAIN workers, handleWorkerError(w) PROVE Placement'
  BY <1>4, ReplaceStep DEF handleWorkerError
<1>5. ASSUME NEW w \in DOMAIN workers, NEW code \in ExitCodes,
             handleWorkerExit(w, code)
      PROVE  Placement'
  <2>1. CASE code # 0
    BY <1>5, <2>1, ReplaceStep DEF handleWorkerExit
  <2>2. CASE code = 0
    <3>1. UNCHANGED <<workers, queue, pending, promise, disposed>>
      BY <1>5, <2>2 DEF handleWorkerExit
    <3>2. QED
      BY <3>1 DEF IInv, Placement, WorkConserving, Idle, PromiseTracked,
         PlacedOnce, FreshNowhere, DisposedEmpty, InQueue, OnWorkers
  <2>3. QED
    BY <2>1, <2>2
<1>6. CASE dispose
  <2>1. /\ queue' = <<>> /\ pending' = {} /\ workers' = workers
        /\ promise' = [t \in Tasks |->
                         IF t \in pending THEN "rejected" ELSE promise[t]]
    BY <1>6 DEF dispose
  <2>2. \A t \in Tasks : InQueue(t)' = {} /\ OnWorkers(t)' = OnWorkers(t)
    BY <2>1 DEF InQueue, OnWorkers
  <2>3. WorkConserving' /\ PromiseTracked' /\ DisposedEmpty'
    BY <2>1 DEF IInv, WorkConserving, PromiseTracked, DisposedEmpty
  <2>4. PlacedOnce' /\ FreshNowhere'
    BY <2>1, <2>2 DEF IInv, PlacedOnce, FreshNowhere
  <2>5. QED
    BY <2>3, <2>4 DEF Placement
<1>7. CASE disposeEnd
  <2>1. /\ workers' = [w \in {} |-> NoTask]
        /\ UNCHANGED <<queue, pending, promise, disposed>>
    BY <1>7 DEF disposeEnd
  <2>2. \A t \in Tasks : InQueue(t)' = InQueue(t) /\ OnWorkers(t)' = {}
    BY <2>1 DEF InQueue, OnWorkers
  <2>3. pending = {} /\ queue = <<>>
    BY <1>7 DEF disposeEnd, IInv, DisposedEmpty
  <2>4. QED
    BY <2>1, <2>2, <2>3 DEF IInv, Placement, WorkConserving, PromiseTracked,
       PlacedOnce, FreshNowhere, DisposedEmpty
<1>8. CASE UNCHANGED vars
  BY <1>8 DEF IInv, Placement, WorkConserving, Idle, PromiseTracked, PlacedOnce,
     FreshNowhere, DisposedEmpty, InQueue, OnWorkers, vars
<1>9. QED
  BY <1>1, <1>2, <1>3, <1>4, <1>5, <1>6, <1>7, <1>8 DEF Next

\* The pool starts idle and empty.
LEMMA InvInit == Init => IInv
<1> SUFFICES ASSUME Init PROVE IInv
  OBVIOUS
<1>1. \A t \in Tasks : InQueue(t) = {} /\ OnWorkers(t) = {}
  BY PoolAssumption DEF Init, InQueue, OnWorkers
<1>2. QED
  BY <1>1, TypeInit DEF Init, IInv, WorkConserving, PromiseTracked, PlacedOnce,
     FreshNowhere, DisposedEmpty

\* The inductive invariant holds of every reachable state of the pool.
LEMMA Invariance == Spec => []IInv
BY InvInit, InvStep, PTL DEF Spec

\* Handlers keep the worker table, the queue and the promises well typed.
THEOREM PoolTypes == Spec => []TypeOK
<1>1. IInv => TypeOK
  BY DEF IInv
<1>2. QED
  BY <1>1, Invariance, PTL

\* No worker is idle while a task waits in the queue, in any pool.
THEOREM PoolWorkConserving == Spec => []WorkConserving
<1>1. IInv => WorkConserving
  BY DEF IInv
<1>2. QED
  BY <1>1, Invariance, PTL

\* pendingByTaskId holds exactly the tasks whose promise is unsettled.
THEOREM PoolPromiseTracked == Spec => []PromiseTracked
<1>1. IInv => PromiseTracked
  BY DEF IInv
<1>2. QED
  BY <1>1, Invariance, PTL

\* No task is lost or run twice by dispatch, drainQueueTo or replaceWorker.
THEOREM PoolPlacedOnce == Spec => []PlacedOnce
<1>1. IInv => PlacedOnce
  BY DEF IInv
<1>2. QED
  BY <1>1, Invariance, PTL

\* Promise, pending table and placement of every task agree after any order
\* of answers, timeouts, errors and exits.
THEOREM PoolTasksTracked == Spec => []TasksTracked
<1>1. PromiseTracked /\ PlacedOnce => TasksTracked
  BY DEF TasksTracked
<1>2. QED
  BY <1>1, PoolPromiseTracked, PoolPlacedOnce, PTL

-----------------------------------------------------------------------------

\* Replacing a worker of a live pool removes one worker and spawns one.
LEMMA ReplaceSize ==
  ASSUME TypeOK, PoolKeepsItsSize, NEW w \in DOMAIN workers, replaceWorker(w),
         UNCHANGED disposed
  PROVE  PoolKeepsItsSize'
<1> SUFFICES ASSUME ~disposed PROVE Cardinality(DOMAIN workers') = Size
  BY DEF PoolKeepsItsSize
<1> DEFINE D == DOMAIN workers
           kept == [x \in D \ {w} |-> workers[x]]
           fresh == [x \in DOMAIN kept \cup {nextWorkerId} |->
                       IF x = nextWorkerId THEN NoTask ELSE kept[x]]
<1>1. /\ DOMAIN fresh = (D \ {w}) \cup {nextWorkerId}
      /\ fresh \in [DOMAIN fresh -> Tasks \cup {NoTask}]
      /\ nextWorkerId \in DOMAIN fresh
  BY DEF TypeOK
<1>2. drainQueueTo(fresh, nextWorkerId)
  BY DEF replaceWorker
<1>3. DOMAIN workers' = DOMAIN fresh
  <2> HIDE DEF fresh
  <2>1. QED
    BY <1>1, <1>2, DrainType
<1>4. IsFiniteSet(D) /\ Cardinality(D) = Size
  <2>1. nextWorkerId - 1 \in Int /\ 0 \in Int /\ D \in SUBSET (0 .. nextWorkerId - 1)
    BY DEF TypeOK
  <2>2. IsFiniteSet(0 .. nextWorkerId - 1)
    BY <2>1, FS_Interval
  <2>3. QED
    BY <2>1, <2>2, FS_Subset DEF PoolKeepsItsSize
<1>5. IsFiniteSet(D \ {w}) /\ Cardinality(D \ {w}) = Size - 1
  <2> HIDE DEF D
  <2>1. w \in D
    BY DEF D
  <2>2. QED
    BY <1>4, <2>1, FS_RemoveElement
<1>6. nextWorkerId \notin D \ {w}
  BY DEF TypeOK
<1>7. Cardinality((D \ {w}) \cup {nextWorkerId}) = Size - 1 + 1
  <2> HIDE DEF D
  <2>1. QED
    BY <1>5, <1>6, FS_AddElement
<1>8. QED
  BY <1>1, <1>3, <1>7, PoolAssumption

\* Every step keeps the number of tracked workers of a live pool.
LEMMA SizeStep == TypeOK /\ PoolKeepsItsSize /\ [Next]_vars => PoolKeepsItsSize'
<1> SUFFICES ASSUME TypeOK, PoolKeepsItsSize, [Next]_vars PROVE PoolKeepsItsSize'
  OBVIOUS
<1>1. ASSUME NEW t \in Tasks, submitTask(t) PROVE PoolKeepsItsSize'
  <2>1. DOMAIN workers' = DOMAIN workers /\ UNCHANGED disposed
    BY <1>1 DEF submitTask, dispatchOrQueue, TypeOK
  <2>2. QED
    BY <2>1 DEF PoolKeepsItsSize
<1>2. ASSUME NEW t \in Tasks, handleTimeout(t) PROVE PoolKeepsItsSize'
  <2>1. CASE UNCHANGED <<workers, disposed>>
    BY <2>1 DEF PoolKeepsItsSize
  <2>2. QED
    BY <1>2, <2>1, ReplaceSize DEF handleTimeout
<1>3. ASSUME NEW w \in DOMAIN workers, NEW how \in {"resolved", "rejected"},
             handleWorkerMessage(w, how)
      PROVE  PoolKeepsItsSize'
  <2> DEFINE ws == [workers EXCEPT ![w] = NoTask]
  <2>1. /\ DOMAIN ws = DOMAIN workers
        /\ ws \in [DOMAIN ws -> Tasks \cup {NoTask}]
    BY DEF TypeOK
  <2>2. drainQueueTo(ws, w) /\ UNCHANGED disposed
    BY <1>3 DEF handleWorkerMessage
  <2> HIDE DEF ws
  <2>3. DOMAIN workers' = DOMAIN workers
    BY <2>1, <2>2, DrainType
  <2>4. QED
    BY <2>2, <2>3 DEF PoolKeepsItsSize
<1>4. ASSUME NEW w \in DOMAIN workers, handleWorkerError(w)
      PROVE  PoolKeepsItsSize'
  BY <1>4, ReplaceSize DEF handleWorkerError
<1>5. ASSUME NEW w \in DOMAIN workers, NEW code \in ExitCodes,
             handleWorkerExit(w, code)
      PROVE  PoolKeepsItsSize'
  <2>1. CASE code # 0
    BY <1>5, <2>1, ReplaceSize DEF handleWorkerExit
  <2>2. CASE code = 0
    BY <1>5, <2>2 DEF handleWorkerExit, PoolKeepsItsSize
  <2>3. QED
    BY <2>1, <2>2
<1>6. CASE dispose \/ disposeEnd
  BY <1>6 DEF dispose, disposeEnd, PoolKeepsItsSize
<1>7. CASE UNCHANGED vars
  BY <1>7 DEF PoolKeepsItsSize, vars
<1>8. QED
  BY <1>1, <1>2, <1>3, <1>4, <1>5, <1>6, <1>7 DEF Next

\* Crashes, non-zero exits and timeouts never shrink or grow a live pool:
\* it tracks Size workers until dispose, for every Size.
THEOREM PoolSizeKept == Spec => []PoolKeepsItsSize
<1>1. Init => PoolKeepsItsSize
  <2> SUFFICES ASSUME Init PROVE Cardinality(DOMAIN workers) = Size
    BY DEF PoolKeepsItsSize
  <2>1. DOMAIN workers = 0 .. Size - 1 /\ Size - 1 \in Int /\ 0 \in Int
    BY PoolAssumption DEF Init
  <2>2. Cardinality(0 .. Size - 1) = Size
    BY <2>1, FS_Interval, PoolAssumption
  <2>3. QED
    BY <2>1, <2>2
<1>2. QED
  BY <1>1, SizeStep, PoolTypes, PTL DEF Spec
=============================================================================
