------------------------------ MODULE CacheNode ------------------------------
(***************************************************************************)
(* The life of one cache node process over its snapshot directory: start   *)
(* with retry, recovery, periodic and final snapshots step by step,        *)
(* retention, the fault injector's KILL and RESTART, the cleanup sweep     *)
(* that awaits a worker thread, graceful stop and crash.                   *)
(*                                                                         *)
(* Every await is a point where other handlers run, so a method is cut     *)
(* into one action per stretch between awaits.  A file is absent, torn     *)
(* (writeFile has truncated it and has not ended, or never will), or       *)
(* whole.  Accepted PUTs are numbered; storage maps a key to the number of *)
(* the PUT it holds, 0 for none.  Snapshots are numbered in the order in   *)
(* which they are created, which is the order of createdAt.  Replicated    *)
(* writes, capacity and eviction are left to the other modules.            *)
(***************************************************************************)
EXTENDS Integers, FiniteSets

CONSTANTS
  Keys,
  MaxRetained,   \* maxRetainedSnapshots
  TtlWrites,     \* the PUTs that carry a TTL
  absent, torn,  \* states of a file that is not whole
  whole,         \* a complete metadata file
  FaultKinds,    \* what may go wrong, see Fault
  MaxWrites,     \* bound on accepted PUTs
  MaxSnapshots,  \* bound on snapshots created
  MaxFaults,     \* bound on faults
  MaxSweeps      \* bound on cleanup sweeps awaiting their worker at a time

AllFaultKinds == {"crash", "ioError", "taskFails", "kafkaDown", "KILL", "RESTART"}

ASSUME CacheNodeAssumption ==
  /\ MaxRetained \in Nat \ {0}
  /\ {MaxWrites, MaxSnapshots, MaxFaults, MaxSweeps} \subseteq Nat
  /\ TtlWrites \subseteq 1 .. MaxWrites
  /\ FaultKinds \subseteq AllFaultKinds
  /\ {absent, torn} \cap [Keys -> 0 .. MaxWrites] = {}
  /\ {absent, torn} \cap (0 .. MaxSnapshots) = {}
  /\ absent # torn /\ absent # whole /\ torn # whole

VARIABLES
  phase,     \* down, starting, connecting, running, stopping or aborting
  storage,   \* key -> number of the PUT held, 0 if the key is not in the map
  writes,    \* PUTs accepted
  expired,   \* PUTs whose TTL is over
  killed,    \* FaultInjector.state.killed
  recovery,  \* progress of recover: none, pointer or read, and of which id
  verified,  \* integrityVerified of the last recovery
  sweeps,    \* slot -> keys a cleanup task will find expired
  job,       \* the takeSnapshot in progress
  data,      \* id -> the .snapshot file: absent, torn or the entries
  meta,      \* id -> the .meta.json file: absent, torn or whole
  latest,    \* latest.json: absent, torn or an id
  created,   \* snapshot ids used
  owed,      \* storage when stop was called
  faults     \* faults so far

disk == <<data, meta, latest, created>>
content == <<storage, writes, expired>>
vars == <<phase, content, killed, recovery, verified, sweeps, job, disk, owed,
          faults>>

Ids == 1 .. MaxSnapshots
Empty == [k \in Keys |-> 0]
NoRecovery == [at |-> "none", id |-> 0]
NoJob == [at |-> "idle", id |-> 0, entries |-> Empty, todo |-> {}, final |-> FALSE]
NoSweeps == [i \in 1 .. MaxSweeps |-> {}]

Init ==
  /\ phase = "down"
  /\ storage = Empty /\ writes = 0 /\ expired = {}
  /\ killed = FALSE
  /\ recovery = NoRecovery
  /\ verified = TRUE
  /\ sweeps = NoSweeps
  /\ job = NoJob
  /\ data = [id \in Ids |-> absent]
  /\ meta = [id \in Ids |-> absent]
  /\ latest = absent
  /\ created = 0
  /\ owed = Empty
  /\ faults = 0

\* One of the faults the environment may still inject.
Fault(kind) ==
  /\ kind \in FaultKinds
  /\ faults < MaxFaults
  /\ faults' = faults + 1

\* The HTTP server is closed last, at the very end of stop.
Listening == phase \in {"running", "stopping"}

-----------------------------------------------------------------------------
(* Requests and time *)

PUT(k) ==
  /\ Listening /\ ~killed
  /\ writes < MaxWrites
  /\ writes' = writes + 1
  /\ storage' = [storage EXCEPT ![k] = writes + 1]
  /\ UNCHANGED <<phase, expired, killed, recovery, verified, sweeps, job, disk,
                 owed, faults>>

DELETE(k) ==
  /\ Listening /\ ~killed
  /\ storage[k] # 0
  /\ storage' = [storage EXCEPT ![k] = 0]
  /\ UNCHANGED <<phase, writes, expired, killed, recovery, verified, sweeps, job,
                 disk, owed, faults>>

\* A GET of an expired entry removes it; any other GET changes nothing here.
GET(k) ==
  /\ Listening /\ ~killed
  /\ storage[k] \in expired
  /\ storage' = [storage EXCEPT ![k] = 0]
  /\ UNCHANGED <<phase, writes, expired, killed, recovery, verified, sweeps, job,
                 disk, owed, faults>>

\* The TTL of an entry runs out.  A restored entry keeps its deadline.
Expire(w) ==
  /\ w \in (TtlWrites \cap 1 .. writes) \ expired
  /\ expired' = expired \cup {w}
  /\ UNCHANGED <<phase, storage, writes, killed, recovery, verified, sweeps, job,
                 disk, owed, faults>>

-----------------------------------------------------------------------------
(* Cleanup sweep *)

ExpiredKeys == {k \in Keys : storage[k] \in expired}

\* Up to the await: the entries are handed to a worker, which finds those
\* that have expired.  The timer does not wait for the previous sweep.
runCleanupSweep(i) ==
  /\ phase = "running"
  /\ sweeps[i] = {} /\ ExpiredKeys # {}
  /\ sweeps' = [sweeps EXCEPT ![i] = ExpiredKeys]
  /\ UNCHANGED <<phase, content, killed, recovery, verified, job, disk, owed,
                 faults>>

\* After the await: the keys found are deleted.
cleanupResult(i) ==
  /\ sweeps[i] # {}
  /\ storage' = [k \in Keys |-> IF k \in sweeps[i] THEN 0 ELSE storage[k]]
  /\ sweeps' = [sweeps EXCEPT ![i] = {}]
  /\ UNCHANGED <<phase, writes, expired, killed, recovery, verified, job, disk,
                 owed, faults>>

cleanupFails(i) ==
  /\ sweeps[i] # {}
  /\ sweeps' = [sweeps EXCEPT ![i] = {}]
  /\ Fault("taskFails")
  /\ UNCHANGED <<phase, content, killed, recovery, verified, job, disk, owed>>

-----------------------------------------------------------------------------
(* SnapshotManager *)

\* takeSnapshot up to the first await: the entries are collected and handed to
\* a worker for serialization.  A second call while one is in progress throws.
capture(final) ==
  job' = [NoJob EXCEPT !.at = "serialize", !.entries = storage, !.final = final]

\* The periodic timer, armed by start and cleared by stop.
takeSnapshot ==
  /\ phase = "running"
  /\ job.at = "idle" /\ created < MaxSnapshots
  /\ capture(FALSE)
  /\ UNCHANGED <<phase, content, killed, recovery, verified, sweeps, disk, owed,
                 faults>>

jobOnly == <<phase, content, killed, recovery, verified, sweeps, owed, faults>>

\* The worker has answered: the id is drawn and writeFile opens the data file.
serialized ==
  /\ job.at = "serialize"
  /\ created' = created + 1
  /\ job' = [job EXCEPT !.at = "data", !.id = created + 1]
  /\ data' = [data EXCEPT ![created + 1] = torn]
  /\ UNCHANGED <<meta, latest>> /\ UNCHANGED jobOnly

\* The task was rejected; the finally clause ends the attempt.
SerializeFailsInProgress ==
  /\ job.at = "serialize"
  /\ job' = [job EXCEPT !.at = "failed"]
  /\ Fault("taskFails")
  /\ UNCHANGED <<phase, content, killed, recovery, verified, sweeps, disk, owed>>
serializeFails ==
  /\ job.at = "serialize"
  /\ job' = NoJob
  /\ Fault("taskFails")
  /\ UNCHANGED <<phase, content, killed, recovery, verified, sweeps, disk, owed>>

\* FileSnapshotStore.write: the data file first, then the metadata file.
WritesCurrent ==
  /\ job.at = "data"
  /\ data' = [data EXCEPT ![job.id] = storage]
  /\ meta' = [meta EXCEPT ![job.id] = torn]
  /\ job' = [job EXCEPT !.at = "meta"]
  /\ UNCHANGED <<latest, created>> /\ UNCHANGED jobOnly
dataWritten ==
  /\ job.at = "data"
  /\ data' = [data EXCEPT ![job.id] = job.entries]
  /\ meta' = [meta EXCEPT ![job.id] = torn]
  /\ job' = [job EXCEPT !.at = "meta"]
  /\ UNCHANGED <<latest, created>> /\ UNCHANGED jobOnly

\* The pointer is opened, and so truncated, once both files are written.
metaWritten ==
  /\ job.at = "meta"
  /\ meta' = [meta EXCEPT ![job.id] = whole]
  /\ latest' = torn
  /\ job' = [job EXCEPT !.at = "latest"]
  /\ UNCHANGED <<data, created>> /\ UNCHANGED jobOnly

latestWritten ==
  /\ job.at = "latest"
  /\ latest' = job.id
  /\ job' = [job EXCEPT !.at = "list"]
  /\ UNCHANGED <<data, meta, created>> /\ UNCHANGED jobOnly

\* An I/O error on the file being written: it stays torn, the attempt ends.
writeFails ==
  /\ job.at \in {"data", "meta", "latest"}
  /\ job' = NoJob
  /\ Fault("ioError")
  /\ UNCHANGED <<phase, content, killed, recovery, verified, sweeps, disk, owed>>

Listed == {id \in Ids : meta[id] # absent}

\* pruneOldSnapshots: list parses every metadata file and throws on a torn
\* one; what is older than the newest MaxRetained is deleted.
PastRetentionFromOldest ==
  {id \in Listed : Cardinality({o \in Listed : o < id}) >= MaxRetained}
PastRetentionOffByOne ==
  {id \in Listed : Cardinality({newer \in Listed : newer > id}) + 1 >= MaxRetained}
PastRetention ==
  {id \in Listed : Cardinality({newer \in Listed : newer > id}) >= MaxRetained}

pruneOldSnapshots ==
  /\ job.at = "list"
  /\ job' = IF \E id \in Listed : meta[id] = torn
            THEN NoJob
            ELSE [job EXCEPT !.at = "prune", !.todo = PastRetention]
  /\ UNCHANGED disk /\ UNCHANGED jobOnly

\* FileSnapshotStore.delete, newest first: the two unlinks run in parallel.
delete(id) ==
  /\ job.at = "prune"
  /\ id \in job.todo /\ \A other \in job.todo : other <= id
  /\ \/ /\ data[id] # absent
        /\ data' = [data EXCEPT ![id] = absent]
        /\ UNCHANGED meta
     \/ /\ meta[id] # absent
        /\ meta' = [meta EXCEPT ![id] = absent]
        /\ UNCHANGED data
  /\ job' = IF data'[id] = absent /\ meta'[id] = absent
            THEN [job EXCEPT !.todo = @ \ {id}] ELSE job
  /\ UNCHANGED <<latest, created>> /\ UNCHANGED jobOnly

snapshotDone ==
  /\ job.at = "prune" /\ job.todo = {}
  /\ job' = NoJob
  /\ UNCHANGED disk /\ UNCHANGED jobOnly

-----------------------------------------------------------------------------
(* RecoveryEngine *)

\* recover up to the first await, shared by start and handleRestart.
recover ==
  /\ storage' = Empty
  /\ recovery' = [at |-> "pointer", id |-> 0]

\* What follows recover: start goes on to connect or fails, and startWithRetry
\* then calls stop, whose first step is a final snapshot; handleRestart answers
\* 200 and resets the fault injector, or answers 500 and leaves the node as is.
recovered(ok) ==
  /\ recovery' = NoRecovery
  /\ verified' = ok
  /\ phase' = IF phase # "starting" THEN phase
              ELSE IF ok THEN "connecting" ELSE "aborting"
  /\ IF phase = "starting" /\ ~ok THEN capture(TRUE) ELSE UNCHANGED job
  /\ killed' = IF ok THEN FALSE ELSE killed
  /\ UNCHANGED <<writes, expired, sweeps, disk, owed, faults>>

\* restoreLatest: no pointer file means a brand-new node, a torn one throws.
readLatestPointer ==
  /\ recovery.at = "pointer"
  /\ UNCHANGED storage
  /\ \/ latest = absent /\ recovered(TRUE)
     \/ latest = torn /\ recovered(FALSE)
     \/ /\ latest \in Ids
        /\ recovery' = [at |-> "read", id |-> latest]
        /\ UNCHANGED <<phase, writes, expired, killed, verified, sweeps, job,
                       disk, owed, faults>>

Restored(entries) ==
  [k \in Keys |-> IF entries[k] = 0 THEN storage[k] ELSE entries[k]]

\* restoreById: null, hence an empty start, if a file cannot be read; an error
\* if the checksum does not match; else every entry is set in storage.
RestoreNothing ==
  /\ recovery.at = "read"
  /\ UNCHANGED storage
  /\ recovered(TRUE)
restoreById ==
  /\ recovery.at = "read"
  /\ LET id == recovery.id IN
     IF data[id] = absent \/ meta[id] # whole
     THEN UNCHANGED storage /\ recovered(TRUE)
     ELSE IF data[id] = torn
     THEN UNCHANGED storage /\ recovered(FALSE)
     ELSE storage' = Restored(data[id]) /\ recovered(TRUE)

-----------------------------------------------------------------------------
(* Fault injector *)

KILL ==
  /\ Listening
  /\ killed' = TRUE
  /\ Fault("KILL")
  /\ UNCHANGED <<phase, content, recovery, verified, sweeps, job, disk, owed>>

\* apply lifts the kill first, then onRestart runs handleRestart.
RESTART ==
  /\ Listening /\ recovery = NoRecovery
  /\ killed' = FALSE
  /\ recover
  /\ Fault("RESTART")
  /\ UNCHANGED <<phase, writes, expired, verified, sweeps, job, disk, owed>>

-----------------------------------------------------------------------------
(* Process *)

\* A fresh CacheNodeServer: the first attempt of a process or a retry.
start ==
  /\ phase = "down" /\ created < MaxSnapshots
  /\ phase' = "starting"
  /\ recover
  /\ UNCHANGED <<writes, expired, killed, verified, sweeps, job, disk, owed,
                 faults>>

\* replicationEngine.start, then the timers and the HTTP server.
connected ==
  /\ phase = "connecting"
  /\ phase' = "running"
  /\ UNCHANGED <<content, killed, recovery, verified, sweeps, job, disk, owed,
                 faults>>

connectFails ==
  /\ phase = "connecting"
  /\ phase' = "aborting"
  /\ capture(TRUE)
  /\ Fault("kafkaDown")
  /\ UNCHANGED <<content, killed, recovery, verified, sweeps, disk, owed>>

\* SIGTERM.  The final takeSnapshot throws when one is in progress, which stop
\* logs and passes over.
stop ==
  /\ phase = "running" /\ created < MaxSnapshots
  /\ phase' = "stopping"
  /\ owed' = storage
  /\ IF job.at = "idle" THEN capture(TRUE) ELSE UNCHANGED job
  /\ UNCHANGED <<content, killed, recovery, verified, sweeps, disk, faults>>

ProcessEnds ==
  /\ phase' = "down"
  /\ storage' = Empty
  /\ killed' = FALSE
  /\ recovery' = NoRecovery
  /\ sweeps' = NoSweeps
  /\ job' = NoJob
  /\ UNCHANGED <<writes, expired, verified, disk, owed>>

\* stop has awaited its final snapshot and closed everything.  A periodic
\* snapshot still in progress ends with the process.
exit ==
  /\ phase \in {"stopping", "aborting"}
  /\ ~job.final
  /\ ProcessEnds
  /\ UNCHANGED faults

crash ==
  /\ phase # "down"
  /\ ProcessEnds
  /\ Fault("crash")

Next ==
  \/ \E k \in Keys : PUT(k) \/ DELETE(k) \/ GET(k)
  \/ \E w \in TtlWrites : Expire(w)
  \/ \E i \in 1 .. MaxSweeps :
       runCleanupSweep(i) \/ cleanupResult(i) \/ cleanupFails(i)
  \/ takeSnapshot
  \/ serialized
  \/ serializeFails
  \/ dataWritten
  \/ metaWritten
  \/ latestWritten
  \/ writeFails
  \/ pruneOldSnapshots
  \/ \E id \in Ids : delete(id)
  \/ snapshotDone
  \/ readLatestPointer
  \/ restoreById
  \/ KILL
  \/ RESTART
  \/ start
  \/ connected
  \/ connectFails
  \/ stop
  \/ exit
  \/ crash

Spec == Init /\ [][Next]_vars

\* Worker tasks and file operations end, and stop runs to its end; requests,
\* timers, signals and faults are the environment's choice.
Fairness ==
  /\ WF_vars(serialized) /\ WF_vars(dataWritten) /\ WF_vars(metaWritten)
  /\ WF_vars(latestWritten) /\ WF_vars(pruneOldSnapshots)
  /\ WF_vars(\E id \in Ids : delete(id)) /\ WF_vars(snapshotDone)
  /\ WF_vars(readLatestPointer) /\ WF_vars(restoreById)
  /\ WF_vars(connected) /\ WF_vars(exit)

FairSpec == Spec /\ Fairness

-----------------------------------------------------------------------------
(* Properties *)

Entries == [Keys -> 0 .. MaxWrites]
Jobs == [at : {"idle", "serialize", "data", "meta", "latest", "list", "prune"},
         id : 0 .. MaxSnapshots, entries : Entries, todo : SUBSET Ids,
         final : BOOLEAN]

\* Every variable has its type.
TypeOK ==
  /\ phase \in {"down", "starting", "connecting", "running", "stopping",
                "aborting"}
  /\ storage \in Entries /\ writes \in 0 .. MaxWrites
  /\ expired \subseteq TtlWrites
  /\ killed \in BOOLEAN /\ verified \in BOOLEAN
  /\ recovery \in [at : {"none", "pointer", "read"}, id : 0 .. MaxSnapshots]
  /\ sweeps \in [1 .. MaxSweeps -> SUBSET Keys]
  /\ job \in Jobs
  /\ data \in [Ids -> {absent, torn} \cup Entries]
  /\ meta \in [Ids -> {absent, torn, whole}]
  /\ latest \in {absent, torn} \cup Ids
  /\ created \in 0 .. MaxSnapshots
  /\ owed \in Entries
  /\ faults \in 0 .. MaxFaults

Complete(id) == data[id] \in Entries /\ meta[id] = whole

\* A latest.json that can be parsed names a snapshot whose data and metadata
\* files are both complete, whatever crashed or failed between the writes of
\* takeSnapshot and whatever pruneOldSnapshots deleted since.  It is what makes
\* the silent null of restoreById harmless at startup.
LatestComplete == latest \in Ids => Complete(latest)

\* When start goes on to accept traffic, storage holds exactly the entries of
\* the snapshot latest.json names, or nothing if there never was one; a node
\* never gets that far on a torn pointer.
StartServesLatest ==
  phase = "connecting" =>
    \/ latest = absent /\ storage = Empty
    \/ latest \in Ids /\ storage = data[latest]

\* pruneOldSnapshots touches a complete snapshot only if maxRetainedSnapshots
\* newer complete ones stay, also when earlier prunings were cut short.
KeepsRetained ==
  [][\A id \in Ids :
       Complete(id) /\ ~Complete(id)' =>
         Cardinality({newer \in Ids : newer > id /\ Complete(newer)'})
           >= MaxRetained]_vars

\* The final snapshot of stop, when it gets as far as the pointer, is the one
\* latest.json names and holds exactly what storage held when stop was called,
\* although requests are still served meanwhile and pruning follows.
FinalSnapshotKept ==
  phase = "stopping" /\ job.final /\ job.at \in {"list", "prune"} =>
    latest = job.id /\ data[latest] = owed

\* stop always comes to its end, though it waits for a final snapshot.
StopEnds == phase \in {"stopping", "aborting"} ~> phase = "down"

\* snapshotInProgress never stays set: each attempt ends, also a failed one,
\* so that a later one can run.
SnapshotEnds == job.at # "idle" ~> job.at = "idle"

\* Neither a stop nor a snapshot hangs, whichever of its steps fails.
NothingHangs == StopEnds /\ SnapshotEnds

\* CacheNodeServer.ts:350-351: the final snapshot is taken "so a clean shutdown
\* never loses writes that happened since the last periodic snapshot".
CleanShutdownKeepsWrites ==
  [][phase = "stopping" /\ exit =>
       \A k \in Keys : owed[k] # 0 =>
         latest \in Ids /\ data[latest][k] = owed[k]]_vars

\* RecoveryEngine.ts:27-29: storage is cleared "so recovery always starts from
\* a known-empty state rather than merging with whatever was already in
\* memory": it is still empty when the entries are applied.
RecoveryStartsEmpty == [][restoreById => storage = Empty]_vars

\* The cleanup sweep removes expired keys (CacheNodeServer.ts:310) and no
\* others.
SweepOnlyExpired ==
  [][\A i \in 1 .. MaxSweeps : cleanupResult(i) =>
       \A k \in Keys : storage[k] # 0 /\ storage'[k] = 0
         => storage[k] \in expired]_vars

\* RecoveryEngine.ts:87-89: a node whose last recovery "did not verify cleanly"
\* does not accept traffic.
UnverifiedNeverServes ==
  Listening /\ ~killed /\ recovery = NoRecovery => verified

\* SnapshotManager.ts:48-49: "How many past snapshots to keep on disk; older
\* ones are pruned after each successful new snapshot": once an attempt that
\* moved the pointer has ended, no more than MaxRetained are left.
RetentionBounded ==
  [][snapshotDone \/ (pruneOldSnapshots /\ job' = NoJob)
       => Cardinality({id \in Ids : Complete(id)'}) <= MaxRetained]_vars
=============================================================================
