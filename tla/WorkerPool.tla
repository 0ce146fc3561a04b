----------------------------- MODULE WorkerPool -----------------------------
(***************************************************************************)
(* WorkerPool (packages/worker-pool): a fixed-size pool of worker threads, *)
(* a FIFO queue of tasks, a per-task timeout and self-healing replacement  *)
(* of crashed or stuck workers.  Every handler runs to completion on the   *)
(* main thread, so each handler is one action; the interleaving is that of *)
(* worker messages, timers, crashes, submissions and dispose.              *)
(*                                                                         *)
(* A task id stands for the task and for the promise submitTask returned.  *)
(* Payloads, results and event emission are abstracted.                    *)
(***************************************************************************)
EXTENDS Naturals, Sequences, FiniteSets

CONSTANTS
  Tasks,       \* tasks that may be submitted, each at most once
  NoTask,      \* currentTaskId = null
  Wedged,      \* tasks whose handler never answers (e.g. an endless loop)
  Size,        \* max(1, options.size)
  PerCallTimeouts, \* TRUE if callers pass their own timeoutMs, so that
               \* timers may fire in any order; FALSE if every task has the
               \* default timeout and timers fire in submission order
  ExitCodes,   \* codes a worker thread may exit with on its own
  MaxCrashes   \* bound on worker crashes and exits

ASSUME PoolAssumption ==
  /\ NoTask \notin Tasks
  /\ Wedged \subseteq Tasks
  /\ Size \in Nat \ {0}
  /\ PerCallTimeouts \in BOOLEAN
  /\ ExitCodes \subseteq Nat
  /\ MaxCrashes \in Nat

VARIABLES
  workers,       \* tracked workers: worker id -> currentTaskId
  exited,        \* tracked workers whose thread has exited with code 0
  nextWorkerId,
  queue,         \* tasks waiting for a worker
  pending,       \* pendingByTaskId
  submitted,     \* the accepted tasks in the order their timers were armed
  promise,       \* task -> state of the promise handed to its submitter
  disposed,
  crashes        \* crashes so far, for the bound

vars == <<workers, exited, nextWorkerId, queue, pending, submitted, promise,
          disposed, crashes>>

Init ==
  /\ workers = [w \in 0 .. Size - 1 |-> NoTask]
  /\ exited = {}
  /\ nextWorkerId = Size
  /\ queue = <<>>
  /\ pending = {}
  /\ submitted = <<>>
  /\ promise = [t \in Tasks |-> "unsubmitted"]
  /\ disposed = FALSE
  /\ crashes = 0

-----------------------------------------------------------------------------
(* Helpers *)

Idle == {w \in DOMAIN workers : workers[w] = NoTask}

\* Forget a settled task.  A promise settles once: settling it again is a
\* no-op, and so is settling a task that is no longer pending.
settle(t, how) ==
  /\ pending' = pending \ {t}
  /\ promise' = IF t \in pending THEN [promise EXCEPT ![t] = how] ELSE promise

\* drainQueueTo, for the idle worker w of ws.
DrainNothing(ws, w) == workers' = ws /\ queue' = queue
DrainKeepsHead(ws, w) ==
  workers' = (IF queue = <<>> THEN ws ELSE [ws EXCEPT ![w] = Head(queue)])
    /\ queue' = queue
drainQueueTo(ws, w) ==
  IF queue = <<>> \/ disposed
  THEN workers' = ws /\ queue' = queue
  ELSE /\ workers' = [ws EXCEPT ![w] = Head(queue)]
       /\ queue' = Tail(queue)

\* replaceWorker: stop tracking w, spawn a fresh worker unless disposed, and
\* let the fresh worker take the next queued task.  The listeners of w are
\* removed, so nothing it still posts is seen.
ReplaceForgetsWorker(w) ==
  /\ exited' = exited \ {w}
  /\ workers' = [x \in DOMAIN workers \ {w} |-> workers[x]]
  /\ UNCHANGED <<nextWorkerId, queue>>
replaceWorker(w) ==
  LET kept == [x \in DOMAIN workers \ {w} |-> workers[x]] IN
  /\ exited' = exited \ {w}
  /\ IF disposed
     THEN workers' = kept /\ UNCHANGED <<nextWorkerId, queue>>
     ELSE /\ nextWorkerId' = nextWorkerId + 1
          /\ drainQueueTo([x \in DOMAIN kept \cup {nextWorkerId} |->
                             IF x = nextWorkerId THEN NoTask ELSE kept[x]],
                          nextWorkerId)

-----------------------------------------------------------------------------
(* Public API *)

\* dispatch to the first idle worker, or wait in the queue.  The list of
\* workers is in spawn order, so the first idle one has the smallest id.
dispatchOrQueue(t) ==
  \/ \E w \in Idle :
       /\ \A x \in Idle : w <= x
       /\ workers' = [workers EXCEPT ![w] = t]
       /\ UNCHANGED queue
  \/ /\ Idle = {}
     /\ queue' = Append(queue, t)
     /\ UNCHANGED workers

submitTask(t) ==
  /\ promise[t] = "unsubmitted"
  /\ \/ /\ disposed
        /\ promise' = [promise EXCEPT ![t] = "rejected"]
        /\ UNCHANGED <<workers, queue, pending, submitted>>
     \/ /\ ~disposed
        /\ promise' = [promise EXCEPT ![t] = "pending"]
        /\ pending' = pending \cup {t}
        /\ submitted' = Append(submitted, t)
        /\ dispatchOrQueue(t)
  /\ UNCHANGED <<exited, nextWorkerId, disposed, crashes>>

\* The synchronous part of dispose.
DisposeForgetsQueue ==
  /\ ~disposed
  /\ disposed' = TRUE
  /\ promise' = [t \in Tasks |->
                   IF t \in pending /\ \E w \in DOMAIN workers : workers[w] = t
                   THEN "rejected" ELSE promise[t]]
  /\ queue' = <<>>
  /\ pending' = {}
  /\ UNCHANGED <<workers, exited, nextWorkerId, submitted, crashes>>
dispose ==
  /\ ~disposed
  /\ disposed' = TRUE
  /\ promise' = [t \in Tasks |->
                   IF t \in pending THEN "rejected" ELSE promise[t]]
  /\ queue' = <<>>
  /\ pending' = {}
  /\ UNCHANGED <<workers, exited, nextWorkerId, submitted, crashes>>

\* Its continuation, once every terminate() has returned.
disposeEnd ==
  /\ disposed
  /\ DOMAIN workers # {}
  /\ workers' = [w \in {} |-> NoTask]
  /\ exited' = {}
  /\ UNCHANGED <<nextWorkerId, queue, pending, submitted, promise, disposed,
                 crashes>>

-----------------------------------------------------------------------------
(* Events *)

\* A worker answers the task it runs; how is the outcome it reports.
handleWorkerMessage(w, how) ==
  /\ w \in DOMAIN workers \ exited
  /\ workers[w] \in Tasks \ Wedged
  /\ settle(workers[w], how)
  /\ drainQueueTo([workers EXCEPT ![w] = NoTask], w)
  /\ UNCHANGED <<exited, nextWorkerId, submitted, disposed, crashes>>

\* The timer of t is armed exactly while t is pending.  Timers of the same
\* duration fire in the order they were armed.
TimerDue(t) ==
  /\ t \in pending
  /\ \/ PerCallTimeouts
     \/ \E i \in 1 .. Len(submitted) :
          /\ submitted[i] = t
          /\ \A j \in 1 .. i - 1 : submitted[j] \notin pending

\* When it fires, the worker running t is replaced; a task still in the
\* queue stays there.
TimeoutLeavesWorker(t) ==
  /\ TimerDue(t)
  /\ settle(t, "rejected")
  /\ UNCHANGED <<workers, exited, nextWorkerId, queue, submitted, disposed,
                 crashes>>
handleTimeout(t) ==
  /\ TimerDue(t)
  /\ settle(t, "rejected")
  /\ \/ \E w \in DOMAIN workers : workers[w] = t /\ replaceWorker(w)
     \/ /\ \A w \in DOMAIN workers : workers[w] # t
        /\ UNCHANGED <<workers, exited, nextWorkerId, queue>>
  /\ UNCHANGED <<submitted, disposed, crashes>>

\* An 'error' event: the thread died of an uncaught exception.
handleWorkerError(w) ==
  /\ w \in DOMAIN workers \ exited
  /\ crashes < MaxCrashes
  /\ settle(workers[w], "rejected")
  /\ replaceWorker(w)
  /\ crashes' = crashes + 1
  /\ UNCHANGED <<submitted, disposed>>

\* An 'exit' event that no 'error' event preceded.  After dispose it is
\* ignored; code 0 leaves the dead worker tracked.
handleWorkerExit(w, code) ==
  /\ w \in DOMAIN workers \ exited
  /\ crashes < MaxCrashes
  /\ ~disposed
  /\ \/ /\ code # 0
        /\ settle(workers[w], "rejected")
        /\ replaceWorker(w)
     \/ /\ code = 0
        /\ exited' = exited \cup {w}
        /\ UNCHANGED <<workers, nextWorkerId, queue, pending, promise>>
  /\ crashes' = crashes + 1
  /\ UNCHANGED <<submitted, disposed>>

Next ==
  \/ \E t \in Tasks : submitTask(t)
  \/ \E t \in Tasks : handleTimeout(t)
  \/ \E w \in DOMAIN workers, how \in {"resolved", "rejected"} :
       handleWorkerMessage(w, how)
  \/ \E w \in DOMAIN workers : handleWorkerError(w)
  \/ \E w \in DOMAIN workers, code \in ExitCodes : handleWorkerExit(w, code)
  \/ dispose
  \/ disposeEnd

Spec == Init /\ [][Next]_vars

\* Timers fire, workers that do not run a wedged task answer, and terminate()
\* returns.  Submissions, crashes and dispose are the environment's choice.
Fairness ==
  /\ \A t \in Tasks : WF_vars(handleTimeout(t))
  /\ \A t \in Tasks :
       WF_vars(\E w \in DOMAIN workers, how \in {"resolved", "rejected"} :
                 workers[w] = t /\ handleWorkerMessage(w, how))
  /\ WF_vars(disposeEnd)

FairSpec == Spec /\ Fairness

-----------------------------------------------------------------------------
(* Properties *)

\* Every variable has its type.
TypeOK ==
  /\ workers \in [DOMAIN workers -> Tasks \cup {NoTask}]
  /\ DOMAIN workers \subseteq 0 .. nextWorkerId - 1
  /\ exited \subseteq DOMAIN workers
  /\ nextWorkerId \in Nat
  /\ queue \in Seq(Tasks)
  /\ pending \subseteq Tasks
  /\ submitted \in Seq(Tasks)
  /\ promise \in [Tasks -> {"unsubmitted", "pending", "resolved", "rejected"}]
  /\ disposed \in BOOLEAN
  /\ crashes \in Nat

\* Until dispose the pool tracks exactly Size workers, whatever crashes,
\* exits and timeouts do: each replaceWorker removes one and spawns one.
PoolKeepsItsSize == ~disposed => Cardinality(DOMAIN workers) = Size

\* No worker idles while a task waits: submitTask queues only when every
\* worker is busy, and a freed or fresh worker takes the head of the queue.
WorkConserving == queue # <<>> => Idle = {}

\* A caller's promise is unsettled exactly while the pool still tracks its
\* task, so no handler drops a task without settling its promise.
PromiseTracked == \A t \in Tasks : promise[t] = "pending" <=> t \in pending

\* How many places hold task t: queue slots and workers.
InQueue(t) == {i \in 1 .. Len(queue) : queue[i] = t}
OnWorkers(t) == {w \in DOMAIN workers : workers[w] = t}

\* A task is in at most one place, and before dispose a pending task is in
\* one: no hand-over between queue, worker and replacement worker loses a
\* task or runs it twice.
PlacedOnce ==
  \A t \in Tasks :
    /\ \A i, j \in InQueue(t) : i = j
    /\ \A w, x \in OnWorkers(t) : w = x
    /\ InQueue(t) = {} \/ OnWorkers(t) = {}
    /\ t \in pending => InQueue(t) # {} \/ OnWorkers(t) # {}

\* The pool's three views of a task agree, whichever of answer, timeout, error
\* and exit comes first: the caller's promise, pendingByTaskId, and the queue
\* slot or worker that holds it.
TasksTracked == PromiseTracked /\ PlacedOnce

\* Every submitted task's promise settles, wedged tasks and crashed workers
\* included.
EverySubmissionSettles ==
  \A t \in Tasks : promise[t] = "pending" ~> promise[t] \in {"resolved", "rejected"}

\* WorkerPool.ts:14-16: "a wedged task is rejected and its worker is
\* terminated and replaced, so one stuck task can't permanently shrink pool
\* capacity": no worker is occupied by the same task forever, whether the
\* task answers, is wedged, or runs on a thread that exited.
WorkerFreed ==
  \A t \in Tasks : OnWorkers(t) # {} ~> OnWorkers(t) = {}
=============================================================================
