--------------------------- MODULE CacheNodeProofs ---------------------------
(***************************************************************************)
(* For any keys, bounds and retention count, and any crashes and I/O       *)
(* errors: a readable latest.json names a complete snapshot, and a node    *)
(* that starts to serve holds exactly that snapshot.                       *)
(***************************************************************************)
EXTENDS CacheNode, FiniteSetTheorems, TLAPS

-----------------------------------------------------------------------------
(* The inductive invariant *)

\* Nothing exists on disk under an id that was not drawn yet.
Undrawn ==
  \A id \in Ids : id > created => data[id] = absent /\ meta[id] = absent

\* How far the files of the snapshot in progress have got: while its files
\* are written the pointer names another snapshot, and it does not exist in a
\* readable form between their completion and the pointer's.
JobOnDisk ==
  /\ job.at = "serialize" => created < MaxSnapshots
  /\ job.at \notin {"idle", "serialize"} => job.id \in Ids /\ job.id = created
  /\ job.at \in {"data", "meta"} => latest # job.id
  /\ job.at = "meta" => data[job.id] = job.entries
  /\ job.at = "latest" => Complete(job.id) /\ latest = torn
  /\ job.at \in {"list", "prune"} => latest = job.id
  /\ job.at = "prune" => job.id \notin job.todo

\* What each phase of the process implies: no snapshot is taken before the
\* recovery of a start is over, and nobody writes to storage until then.
PhaseInv ==
  /\ phase \in {"down", "starting", "connecting"} => job = NoJob
  /\ phase \in {"down", "connecting", "aborting"} => recovery = NoRecovery
  /\ phase = "starting" => recovery # NoRecovery /\ storage = Empty
  /\ phase \in {"starting", "connecting"} => created < MaxSnapshots
  /\ phase \in {"down", "starting", "connecting"} => sweeps = NoSweeps
  /\ recovery.at = "read" => recovery.id \in Ids
  /\ recovery.at = "read" /\ phase = "starting" => recovery.id = latest

IInv ==
  /\ TypeOK /\ Undrawn /\ JobOnDisk /\ PhaseInv
  /\ LatestComplete /\ StartServesLatest

-----------------------------------------------------------------------------
(* Types *)

\* The empty values the code starts from are well typed.
LEMMA EmptyTypes ==
  /\ Empty \in Entries /\ NoJob \in Jobs /\ NoSweeps \in [1 .. MaxSweeps -> SUBSET Keys]
  /\ NoRecovery \in [at : {"none", "pointer", "read"}, id : 0 .. MaxSnapshots]
BY CacheNodeAssumption DEF Empty, Entries, NoJob, Jobs, NoSweeps, NoRecovery

\* A fault stays within its budget.
LEMMA FaultType ==
  ASSUME TypeOK, NEW kind, Fault(kind)
  PROVE  faults' \in 0 .. MaxFaults
BY CacheNodeAssumption DEF TypeOK, Fault

\* capture produces a well-typed job.
LEMMA CaptureType ==
  ASSUME TypeOK, NEW final \in BOOLEAN, capture(final)
  PROVE  /\ job' \in Jobs /\ job'.at = "serialize" /\ job'.final = final
         /\ job'.entries = storage
BY Zenon, EmptyTypes DEF TypeOK, capture, NoJob, Jobs

\* Requests, expiry and the cleanup sweep preserve the types.
LEMMA RequestTypes ==
  ASSUME TypeOK,
         \/ \E k \in Keys : PUT(k) \/ DELETE(k) \/ GET(k)
         \/ \E w \in TtlWrites : Expire(w)
         \/ \E i \in 1 .. MaxSweeps :
              runCleanupSweep(i) \/ cleanupResult(i) \/ cleanupFails(i)
  PROVE  TypeOK'
<1> USE CacheNodeAssumption DEF TypeOK, disk, Entries
<1>1. ASSUME NEW k \in Keys, PUT(k) PROVE TypeOK'
  BY SMTT(30), <1>1 DEF PUT
<1>2. ASSUME NEW k \in Keys, DELETE(k) PROVE TypeOK'
  BY SMTT(30), <1>2 DEF DELETE
<1>3. ASSUME NEW k \in Keys, GET(k) PROVE TypeOK'
  BY SMTT(30), <1>3 DEF GET
<1>4. ASSUME NEW w \in TtlWrites, Expire(w) PROVE TypeOK'
  BY SMTT(30), <1>4 DEF Expire
<1>5. ASSUME NEW i \in 1 .. MaxSweeps, runCleanupSweep(i) PROVE TypeOK'
  <2>1. ExpiredKeys \in SUBSET Keys
    BY DEF ExpiredKeys
  <2>2. QED
    BY Zenon, <1>5, <2>1 DEF runCleanupSweep, content
<1>6. ASSUME NEW i \in 1 .. MaxSweeps, cleanupResult(i) PROVE TypeOK'
  BY SMTT(30), <1>6 DEF cleanupResult
<1>7. ASSUME NEW i \in 1 .. MaxSweeps, cleanupFails(i) PROVE TypeOK'
  BY SMTT(30), <1>7 DEF cleanupFails, content, Fault
<1>8. QED
  BY Zenon, <1>1, <1>2, <1>3, <1>4, <1>5, <1>6, <1>7

\* Every step of takeSnapshot preserves the types.
LEMMA SnapshotTypes ==
  ASSUME TypeOK, JobOnDisk,
         \/ takeSnapshot \/ serialized \/ serializeFails \/ dataWritten
         \/ metaWritten \/ latestWritten \/ writeFails \/ pruneOldSnapshots
         \/ (\E id \in Ids : delete(id)) \/ snapshotDone
  PROVE  TypeOK'
<1> USE CacheNodeAssumption, EmptyTypes DEF TypeOK, disk, content, jobOnly, Ids
<1>1. CASE takeSnapshot
  <2>1. job' \in Jobs
    BY Zenon, <1>1, CaptureType DEF takeSnapshot
  <2>2. QED
    BY <1>1, <2>1 DEF takeSnapshot
<1>2. CASE serialized
  <2>1. created + 1 \in Ids
    BY SMTT(30), <1>2 DEF serialized, JobOnDisk
  <2> DEFINE new == [job EXCEPT !.at = "data", !.id = created + 1]
  <2>a. created + 1 \in 0 .. MaxSnapshots
    BY <2>1
  <2>b. new \in Jobs
    BY Zenon, <2>a DEF Jobs
  <2>2. job' \in Jobs
    BY <1>2, <2>b DEF serialized
  <2>3. data' \in [Ids -> {absent, torn} \cup Entries]
    BY <1>2, <2>1 DEF serialized
  <2>4. QED
    BY SMTT(30), <1>2, <2>1, <2>2, <2>3 DEF serialized
<1>3. CASE serializeFails
  BY SMTT(30), <1>3 DEF serializeFails, Fault
<1>4. CASE dataWritten
  BY Zenon, <1>4 DEF dataWritten, Jobs
<1>5. CASE metaWritten
  BY Zenon, <1>5 DEF metaWritten, Jobs
<1>6. CASE latestWritten
  BY Zenon, <1>6 DEF latestWritten, JobOnDisk, Jobs
<1>7. CASE writeFails
  BY <1>7 DEF writeFails, Fault
<1>8. CASE pruneOldSnapshots
  <2>1. PastRetention \in SUBSET Ids
    BY DEF PastRetention, Listed
  <2>2. QED
    BY ZenonT(30), <1>8, <2>1 DEF pruneOldSnapshots, Jobs
<1>9. ASSUME NEW id \in Ids, delete(id) PROVE TypeOK'
  <2>1. data' \in [Ids -> {absent, torn} \cup Entries]
        /\ meta' \in [Ids -> {absent, torn, whole}]
    BY Zenon, <1>9 DEF delete
  <2>2. job' \in Jobs
    BY Zenon, <1>9 DEF delete, Jobs
  <2>3. QED
    BY SMTT(30), <1>9, <2>1, <2>2 DEF delete
<1>10. CASE snapshotDone
  BY <1>10 DEF snapshotDone
<1>11. QED
  BY Zenon, <1>1, <1>2, <1>3, <1>4, <1>5, <1>6, <1>7, <1>8, <1>9, <1>10

\* How recovery ends preserves the types.
LEMMA RecoveredTypes ==
  ASSUME TypeOK, NEW ok \in BOOLEAN, recovered(ok), storage' \in Entries
  PROVE  TypeOK'
<1>1. job' \in Jobs
  BY ZenonT(30), CaptureType DEF recovered, TypeOK
<1>2. QED
  BY Zenon, <1>1, EmptyTypes DEF recovered, TypeOK, disk

\* Recovery, the fault injector and the life of the process preserve the types.
LEMMA ProcessTypes ==
  ASSUME TypeOK, PhaseInv,
         \/ readLatestPointer \/ restoreById \/ KILL \/ RESTART \/ start
         \/ connected \/ connectFails \/ stop \/ exit \/ crash
  PROVE  TypeOK'
<1> USE CacheNodeAssumption, EmptyTypes DEF disk, content
<1>1. CASE readLatestPointer
  <2>1. CASE latest = absent /\ recovered(TRUE)
    BY Zenon, <1>1, <2>1, RecoveredTypes DEF readLatestPointer, TypeOK
  <2>2. CASE latest = torn /\ recovered(FALSE)
    BY Zenon, <1>1, <2>2, RecoveredTypes DEF readLatestPointer, TypeOK
  <2>3. CASE /\ latest \in Ids
             /\ recovery' = [at |-> "read", id |-> latest]
             /\ UNCHANGED <<phase, writes, expired, killed, verified, sweeps, job,
                            disk, owed, faults>>
    BY <1>1, <2>3 DEF readLatestPointer, TypeOK, Ids
  <2>4. QED
    BY Zenon, <1>1, <2>1, <2>2, <2>3 DEF readLatestPointer
<1>2. CASE restoreById
  <2> DEFINE id == recovery.id
  <2>1. CASE data[id] = absent \/ meta[id] # whole
    BY Zenon, <1>2, <2>1, RecoveredTypes DEF restoreById, TypeOK
  <2>2. CASE ~(data[id] = absent \/ meta[id] # whole) /\ data[id] = torn
    BY Zenon, <1>2, <2>2, RecoveredTypes DEF restoreById, TypeOK
  <2>3. CASE ~(data[id] = absent \/ meta[id] # whole) /\ data[id] # torn
    <3>1. data[id] \in Entries
      BY <1>2, <2>3 DEF restoreById, PhaseInv, TypeOK
    <3>2. Restored(data[id]) \in Entries
      BY SMTT(30), <3>1 DEF Restored, Entries, TypeOK
    <3>3. storage' = Restored(data[id]) /\ recovered(TRUE)
      BY Zenon, <1>2, <2>3 DEF restoreById
    <3>4. QED
      BY Zenon, <3>2, <3>3, RecoveredTypes
  <2>4. QED
    BY <2>1, <2>2, <2>3
<1>3. CASE KILL
  BY SMTT(30), <1>3 DEF KILL, TypeOK, Fault
<1>4. CASE RESTART
  <2>1. faults' \in 0 .. MaxFaults
    BY <1>4, FaultType DEF RESTART
  <2>2. recovery' \in [at : {"none", "pointer", "read"}, id : 0 .. MaxSnapshots]
    BY <1>4 DEF RESTART, recover
  <2>3. QED
    BY Zenon, <1>4, <2>1, <2>2 DEF RESTART, TypeOK, recover
<1>5. CASE start
  BY <1>5 DEF start, TypeOK, recover
<1>6. CASE connected
  BY <1>6 DEF connected, TypeOK
<1>7. CASE connectFails
  <2>1. job' \in Jobs
    BY Zenon, <1>7, CaptureType DEF connectFails
  <2>2. QED
    BY SMTT(30), <1>7, <2>1 DEF connectFails, TypeOK, Fault
<1>8. CASE stop
  <2>1. job' \in Jobs
    BY Zenon, <1>8, CaptureType DEF stop, TypeOK
  <2>2. QED
    BY <1>8, <2>1 DEF stop, TypeOK
<1>9. CASE exit
  BY Zenon, <1>9 DEF exit, ProcessEnds, TypeOK
<1>10. CASE crash
  <2>1. faults' \in 0 .. MaxFaults
    BY <1>10, FaultType DEF crash
  <2>2. QED
    BY Zenon, <1>10, <2>1 DEF crash, ProcessEnds, TypeOK
<1>11. QED
  BY SMTT(30), <1>1, <1>2, <1>3, <1>4, <1>5, <1>6, <1>7, <1>8, <1>9, <1>10

-----------------------------------------------------------------------------
(* Initial states *)

\* The initial state, an empty directory and no process, satisfies IInv.
LEMMA InvInit == Init => IInv
<1> SUFFICES ASSUME Init PROVE IInv
  OBVIOUS
<1>1. TypeOK
  <2>1. 0 \in 0 .. MaxWrites /\ 0 \in 0 .. MaxSnapshots /\ 0 \in 0 .. MaxFaults
    BY CacheNodeAssumption
  <2>2. data \in [Ids -> {absent, torn} \cup Entries]
        /\ meta \in [Ids -> {absent, torn, whole}]
    BY DEF Init
  <2>3. QED
    BY ZenonT(30), <2>1, <2>2, EmptyTypes DEF Init, TypeOK
<1>2. Undrawn /\ JobOnDisk /\ PhaseInv
  BY DEF Init, Undrawn, JobOnDisk, PhaseInv, NoJob, NoRecovery
<1>3. LatestComplete /\ StartServesLatest
  BY CacheNodeAssumption DEF Init, LatestComplete, StartServesLatest, Ids
<1>4. QED
  BY <1>1, <1>2, <1>3 DEF IInv

-----------------------------------------------------------------------------
(* Steps that leave the disk and the snapshot in progress alone *)

\* Requests, expiry and the cleanup sweep happen only while the node serves.
LEMMA RequestStep ==
  ASSUME IInv,
         \/ \E k \in Keys : PUT(k) \/ DELETE(k) \/ GET(k)
         \/ \E w \in TtlWrites : Expire(w)
         \/ \E i \in 1 .. MaxSweeps :
              runCleanupSweep(i) \/ cleanupResult(i) \/ cleanupFails(i)
  PROVE  IInv'
<1>1. TypeOK'
  BY RequestTypes DEF IInv
<1>2. UNCHANGED <<phase, recovery, job, disk>>
  BY DEF PUT, DELETE, GET, Expire, runCleanupSweep, cleanupResult, cleanupFails
<1>3. Undrawn' /\ JobOnDisk' /\ LatestComplete'
  BY <1>2 DEF IInv, Undrawn, JobOnDisk, LatestComplete, Complete, disk
<1>4. phase \in {"down", "starting", "connecting"} =>
        UNCHANGED <<storage, sweeps>>
  BY Zenon DEF PUT, DELETE, GET, Expire, runCleanupSweep, cleanupResult, cleanupFails,
         Listening, IInv, PhaseInv, NoSweeps
<1>5. PhaseInv' /\ StartServesLatest'
  BY <1>2, <1>4 DEF IInv, PhaseInv, StartServesLatest, disk
<1>6. QED
  BY <1>1, <1>3, <1>5 DEF IInv

-----------------------------------------------------------------------------
(* The steps of takeSnapshot *)

\* A snapshot in progress means that the process is past its recovery.
LEMMA JobPhase ==
  ASSUME IInv, job.at # "idle"
  PROVE  phase \notin {"down", "starting", "connecting"}
BY DEF IInv, PhaseInv, NoJob

\* A step of a snapshot in progress keeps what is said of the phases.
LEMMA JobPhaseStep ==
  ASSUME IInv, phase \notin {"down", "starting", "connecting"},
         UNCHANGED <<phase, recovery>>
  PROVE  PhaseInv' /\ StartServesLatest'
BY DEF IInv, PhaseInv, StartServesLatest

\* Every step of takeSnapshot preserves the invariant.
LEMMA SnapshotStep ==
  ASSUME IInv,
         \/ takeSnapshot \/ serialized \/ serializeFails \/ dataWritten
         \/ metaWritten \/ latestWritten \/ writeFails \/ pruneOldSnapshots
         \/ (\E id \in Ids : delete(id)) \/ snapshotDone
  PROVE  IInv'
<1>1. TypeOK'
  BY SnapshotTypes DEF IInv
<1>2. phase \notin {"down", "starting", "connecting"} /\ UNCHANGED <<phase, recovery>>
  BY ZenonT(30), JobPhase DEF takeSnapshot, serialized, serializeFails, dataWritten,
     metaWritten, latestWritten, writeFails, pruneOldSnapshots, delete,
     snapshotDone, jobOnly
<1>3. PhaseInv' /\ StartServesLatest'
  BY SMTT(30), <1>2, JobPhaseStep
<1>4. Undrawn' /\ JobOnDisk' /\ LatestComplete'
  <2> USE CacheNodeAssumption
      DEF IInv, TypeOK, Undrawn, JobOnDisk, LatestComplete, Complete, disk, Ids
  <2>1. CASE takeSnapshot
    BY Zenon, <2>1, CaptureType DEF takeSnapshot
  <2>2. CASE serialized
    BY SMTT(30), <2>2 DEF serialized, Jobs
  <2>3. CASE serializeFails \/ writeFails \/ snapshotDone
    BY SMTT(30), <2>3 DEF serializeFails, writeFails, snapshotDone, NoJob
  <2>4. CASE dataWritten
    BY <2>4 DEF dataWritten, Jobs
  <2>5. CASE metaWritten
    BY SMTT(30), <2>5 DEF metaWritten, Jobs
  <2>6. CASE latestWritten
    BY <2>6 DEF latestWritten, Jobs
  <2>7. CASE pruneOldSnapshots
    <3>1. {newer \in Listed : newer > job.id} = {}
      BY <2>7 DEF pruneOldSnapshots, Listed
    <3>2. job.id \notin PastRetention
      <4>1. Cardinality({newer \in Listed : newer > job.id}) = 0
        BY Zenon, <3>1, FS_EmptySet
      <4>2. ~(0 >= MaxRetained)
        OBVIOUS
      <4>3. QED
        BY <4>1, <4>2, Zenon DEF PastRetention
    <3>3. QED
      BY <2>7, <3>2 DEF pruneOldSnapshots, NoJob, Jobs
  <2>8. ASSUME NEW id \in Ids, delete(id)
        PROVE  Undrawn' /\ JobOnDisk' /\ LatestComplete'
    BY ZenonT(60), <2>8 DEF delete, Jobs
  <2>9. QED
    BY ZenonT(30), <2>1, <2>2, <2>3, <2>4, <2>5, <2>6, <2>7, <2>8
<1>5. QED
  BY <1>1, <1>3, <1>4 DEF IInv

-----------------------------------------------------------------------------
(* Recovery and the life of the process *)

\* capture does not touch the disk and is allowed while ids are left.
LEMMA CaptureStep ==
  ASSUME IInv, NEW final \in BOOLEAN, capture(final), created < MaxSnapshots,
         UNCHANGED disk
  PROVE  Undrawn' /\ JobOnDisk' /\ LatestComplete'
BY CaptureType
   DEF IInv, Undrawn, JobOnDisk, LatestComplete, Complete, disk

\* A step that leaves the disk and the job alone keeps what is said of them.
LEMMA DiskStutters ==
  ASSUME IInv, UNCHANGED <<disk, job>>
  PROVE  Undrawn' /\ JobOnDisk' /\ LatestComplete'
BY DEF IInv, Undrawn, JobOnDisk, LatestComplete, Complete, disk

\* recovered keeps the invariant if a start that goes on serves what the
\* pointer names.
LEMMA RecoveredStep ==
  ASSUME IInv, NEW ok \in BOOLEAN, recovered(ok), recovery # NoRecovery,
         storage' \in Entries,
         phase = "starting" /\ ok =>
           \/ latest = absent /\ storage' = Empty
           \/ latest \in Ids /\ storage' = data[latest]
  PROVE  IInv'
<1>1. TypeOK'
  BY RecoveredTypes DEF IInv
<1>2. Undrawn' /\ JobOnDisk' /\ LatestComplete'
  <2>1. CASE phase = "starting" /\ ~ok
    BY Zenon, <2>1, CaptureStep DEF recovered, IInv, PhaseInv
  <2>2. CASE ~(phase = "starting" /\ ~ok)
    BY Zenon, <2>2, DiskStutters DEF recovered
  <2>3. QED
    BY <2>1, <2>2
<1>3. phase \in {"starting", "running", "stopping"}
  BY DEF IInv, TypeOK, PhaseInv
<1>4. PhaseInv'
  BY Zenon, <1>3 DEF recovered, IInv, PhaseInv, NoRecovery, disk
<1>5. StartServesLatest'
  BY <1>3 DEF recovered, StartServesLatest, disk
<1>6. QED
  BY <1>1, <1>2, <1>4, <1>5 DEF IInv

\* Restoring complete entries into empty storage yields those entries.
LEMMA RestoredIntoEmpty ==
  ASSUME NEW entries \in Entries, storage = Empty
  PROVE  Restored(entries) = entries
<1>1. entries = [k \in Keys |-> entries[k]]
  BY DEF Entries
<1>2. \A k \in Keys : (IF entries[k] = 0 THEN storage[k] ELSE entries[k]) = entries[k]
  BY DEF Empty
<1>3. QED
  BY <1>1, <1>2, Zenon DEF Restored

\* Recovery and the life of the process preserve the invariant.
LEMMA ProcessStep ==
  ASSUME IInv,
         \/ readLatestPointer \/ restoreById \/ KILL \/ RESTART \/ start
         \/ connected \/ connectFails \/ stop \/ exit \/ crash
  PROVE  IInv'
<1>0. TypeOK'
  BY ProcessTypes DEF IInv
<1>1. CASE readLatestPointer
  <2>1. recovery # NoRecovery /\ storage' = storage
    BY <1>1 DEF readLatestPointer, NoRecovery
  <2>2. CASE latest = absent /\ recovered(TRUE)
    BY Zenon, <2>1, <2>2, RecoveredStep DEF IInv, TypeOK, PhaseInv
  <2>3. CASE latest = torn /\ recovered(FALSE)
    BY ZenonT(30), <2>1, <2>3, RecoveredStep DEF IInv, TypeOK
  <2>4. CASE /\ latest \in Ids
             /\ recovery' = [at |-> "read", id |-> latest]
             /\ UNCHANGED <<phase, writes, expired, killed, verified, sweeps, job,
                            disk, owed, faults>>
    <3>1. PhaseInv' /\ StartServesLatest'
      BY <1>1, <2>1, <2>4
         DEF readLatestPointer, IInv, PhaseInv, StartServesLatest, NoRecovery, disk
    <3>2. QED
      BY SMTT(30), <1>0, <2>4, <3>1, DiskStutters DEF IInv
  <2>5. QED
    BY Zenon, <1>1, <2>2, <2>3, <2>4 DEF readLatestPointer
<1>2. CASE restoreById
  <2> DEFINE id == recovery.id
  <2>1. recovery # NoRecovery /\ recovery.at = "read" /\ id \in Ids
    BY <1>2 DEF restoreById, NoRecovery, IInv, PhaseInv
  <2>2. phase = "starting" => id = latest /\ Complete(id) /\ storage = Empty
    BY SMTT(30), <2>1 DEF IInv, PhaseInv, LatestComplete
  <2>a. absent \notin Entries /\ torn \notin Entries
    BY CacheNodeAssumption DEF Entries
  <2>3. CASE data[id] = absent \/ meta[id] # whole
    <3>1. phase # "starting"
      BY <2>2, <2>3, <2>a DEF Complete
    <3>2. QED
      BY Zenon, <1>2, <2>1, <2>3, <3>1, RecoveredStep DEF restoreById, IInv, TypeOK
  <2>4. CASE ~(data[id] = absent \/ meta[id] # whole) /\ data[id] = torn
    BY Zenon, <1>2, <2>1, <2>4, RecoveredStep DEF restoreById, IInv, TypeOK
  <2>5. CASE ~(data[id] = absent \/ meta[id] # whole) /\ data[id] # torn
    <3>1. data[id] \in Entries
      BY <2>1, <2>5 DEF IInv, TypeOK
    <3>2. Restored(data[id]) \in Entries
      BY <3>1 DEF Restored, Entries, IInv, TypeOK
    <3>3. storage' = Restored(data[id]) /\ recovered(TRUE)
      BY ZenonT(30), <1>2, <2>5 DEF restoreById
    <3>4. phase = "starting" => latest \in Ids /\ storage' = data[latest]
      BY <2>1, <2>2, <3>1, <3>3, RestoredIntoEmpty
    <3>5. QED
      BY Zenon, <2>1, <3>2, <3>3, <3>4, RecoveredStep
  <2>6. QED
    BY <2>3, <2>4, <2>5
<1>3. CASE KILL
  <2>1. PhaseInv' /\ StartServesLatest'
    BY <1>3 DEF KILL, IInv, PhaseInv, StartServesLatest, disk, content
  <2>2. QED
    BY <1>0, <1>3, <2>1, DiskStutters DEF KILL, IInv
<1>4. CASE RESTART
  <2>1. PhaseInv' /\ StartServesLatest'
    BY <1>4 DEF RESTART, recover, Listening, IInv, PhaseInv, StartServesLatest,
                NoRecovery, disk
  <2>2. QED
    BY <1>0, <1>4, <2>1, DiskStutters DEF RESTART, IInv
<1>5. CASE start
  <2>1. PhaseInv' /\ StartServesLatest'
    BY <1>5 DEF start, recover, IInv, PhaseInv, StartServesLatest, NoRecovery, disk
  <2>2. QED
    BY <1>0, <1>5, <2>1, DiskStutters DEF start, IInv
<1>6. CASE connected
  <2>1. PhaseInv' /\ StartServesLatest'
    BY <1>6 DEF connected, IInv, PhaseInv, StartServesLatest, NoRecovery
  <2>2. QED
    BY <1>0, <1>6, <2>1, DiskStutters DEF connected, IInv
<1>7. CASE connectFails
  <2>1. PhaseInv' /\ StartServesLatest'
    BY <1>7 DEF connectFails, IInv, PhaseInv, StartServesLatest, NoRecovery
  <2>2. Undrawn' /\ JobOnDisk' /\ LatestComplete'
    BY ZenonT(30), <1>7, CaptureStep DEF connectFails, IInv, PhaseInv
  <2>3. QED
    BY <1>0, <2>1, <2>2 DEF IInv
<1>8. CASE stop
  <2>1. PhaseInv' /\ StartServesLatest'
    BY <1>8 DEF stop, IInv, PhaseInv, StartServesLatest, disk, content
  <2>2. Undrawn' /\ JobOnDisk' /\ LatestComplete'
    BY Zenon, <1>8, CaptureStep, DiskStutters DEF stop
  <2>3. QED
    BY <1>0, <2>1, <2>2 DEF IInv
<1>9. CASE exit \/ crash
  <2>1. ProcessEnds
    BY <1>9 DEF exit, crash
  <2>2. PhaseInv' /\ StartServesLatest'
    BY SMTT(30), <2>1 DEF ProcessEnds, PhaseInv, StartServesLatest, NoRecovery
  <2>3. Undrawn' /\ JobOnDisk' /\ LatestComplete'
    BY <2>1 DEF ProcessEnds, IInv, Undrawn, JobOnDisk, LatestComplete, Complete,
                disk, NoJob
  <2>4. QED
    BY <1>0, <2>2, <2>3 DEF IInv
<1>10. QED
  BY <1>1, <1>2, <1>3, <1>4, <1>5, <1>6, <1>7, <1>8, <1>9

-----------------------------------------------------------------------------
(* The theorems *)

\* IInv is an invariant.
LEMMA Invariance == Spec => []IInv
<1>1. IInv /\ [Next]_vars => IInv'
  <2> SUFFICES ASSUME IInv, [Next]_vars PROVE IInv'
    OBVIOUS
  <2>1. CASE Next
    BY <2>1, RequestStep, SnapshotStep, ProcessStep DEF Next
  <2>2. CASE UNCHANGED vars
    <3>1. TypeOK'
      BY <2>2 DEF vars, disk, content, IInv, TypeOK
    <3>2. Undrawn' /\ JobOnDisk' /\ LatestComplete'
      BY <2>2 DEF vars, disk, IInv, Undrawn, JobOnDisk, LatestComplete, Complete
    <3>3. PhaseInv' /\ StartServesLatest'
      BY <2>2 DEF vars, disk, content, IInv, PhaseInv, StartServesLatest
    <3>4. QED
      BY <3>1, <3>2, <3>3 DEF IInv
  <2>3. QED
    BY <2>1, <2>2
<1>2. QED
  BY InvInit, <1>1, PTL DEF Spec

\* The variables of a cache node keep their types.
THEOREM NodeTypes == Spec => []TypeOK
<1>1. IInv => TypeOK
  BY DEF IInv
<1>2. QED
  BY <1>1, Invariance, PTL

\* A latest.json that parses always names a complete snapshot: neither a crash
\* or I/O error inside takeSnapshot nor retention leaves it dangling.
THEOREM PointerIsComplete == Spec => []LatestComplete
<1>1. IInv => LatestComplete
  BY DEF IInv
<1>2. QED
  BY <1>1, Invariance, PTL

\* A node that passes recovery at startup serves exactly the snapshot that
\* latest.json names.
THEOREM StartIsFaithful == Spec => []StartServesLatest
<1>1. IInv => StartServesLatest
  BY SMTT(30) DEF IInv
<1>2. QED
  BY <1>1, Invariance, PTL

-----------------------------------------------------------------------------
(* The final snapshot *)

\* From its capture on, the final snapshot of stop carries what stop owes, and
\* so does its data file once written.
FinalInv ==
  /\ phase = "running" => ~job.final
  /\ phase = "stopping" /\ job.final =>
       /\ job.entries = owed
       /\ job.at \in {"meta", "latest", "list", "prune"} => data[job.id] = owed

\* Every step keeps it so.
LEMMA FinalStep ==
  ASSUME IInv, FinalInv, [Next]_vars
  PROVE  FinalInv'
<1> USE DEF FinalInv
<1>0. TypeOK /\ JobOnDisk
  BY DEF IInv
<1>1. CASE UNCHANGED <<phase, job, data, owed>>
  BY <1>1
<1>2. CASE takeSnapshot
  BY Zenon, <1>0, <1>2, CaptureType DEF takeSnapshot
<1>3. CASE serialized
  BY SMTT(30), <1>0, <1>3 DEF serialized, jobOnly, TypeOK, Jobs
<1>4. CASE serializeFails \/ writeFails \/ snapshotDone
  BY <1>4 DEF serializeFails, writeFails, snapshotDone, NoJob
<1>5. CASE dataWritten
  BY <1>0, <1>5 DEF dataWritten, jobOnly, TypeOK, Jobs, JobOnDisk
<1>6. CASE metaWritten \/ latestWritten
  BY <1>0, <1>6 DEF metaWritten, latestWritten, jobOnly, TypeOK, Jobs
<1>7. CASE pruneOldSnapshots
  BY <1>0, <1>7 DEF pruneOldSnapshots, jobOnly, disk, NoJob, TypeOK, Jobs
<1>8. ASSUME NEW id \in Ids, delete(id) PROVE FinalInv'
  BY <1>0, <1>8 DEF delete, jobOnly, TypeOK, Jobs, JobOnDisk
<1>9. CASE stop
  <2>1. CASE job.at = "idle"
    BY ZenonT(30), <1>0, <1>9, <2>1, CaptureType DEF stop
  <2>2. CASE job.at # "idle"
    <3>1. ~job.final'
      BY <1>0, <1>9, <2>2 DEF stop
    <3>2. QED
      BY <3>1
  <2>3. QED
    BY <2>1, <2>2
<1>10. CASE phase' \notin {"running", "stopping"}
  BY <1>10
<1>11. CASE connected
  <2>1. job' = NoJob
    BY <1>11 DEF connected, IInv, PhaseInv
  <2>2. QED
    BY <1>11, <2>1 DEF connected, NoJob
<1>12. ASSUME NEW ok \in BOOLEAN, recovered(ok) PROVE FinalInv'
  BY Zenon, <1>12, <1>10, <1>1 DEF recovered, disk
<1>13. CASE readLatestPointer \/ restoreById
  BY Zenon, <1>1, <1>12, <1>13 DEF readLatestPointer, restoreById, disk
<1>14. CASE start \/ connectFails \/ exit \/ crash
  BY ZenonT(30), <1>10, <1>14 DEF start, connectFails, exit, crash, ProcessEnds
<1>15. CASE \/ \E k \in Keys : PUT(k) \/ DELETE(k) \/ GET(k)
            \/ \E w \in TtlWrites : Expire(w)
            \/ \E i \in 1 .. MaxSweeps :
                 runCleanupSweep(i) \/ cleanupResult(i) \/ cleanupFails(i)
            \/ KILL \/ RESTART \/ UNCHANGED vars
  BY <1>1, <1>15 DEF PUT, DELETE, GET, Expire, runCleanupSweep, cleanupResult,
     cleanupFails, KILL, RESTART, vars, disk
<1>16. QED
  BY SMTT(30), <1>2, <1>3, <1>4, <1>5, <1>6, <1>7, <1>8, <1>9, <1>11, <1>13, <1>14, <1>15
     DEF Next

\* When stop gets to take its final snapshot, what it leaves behind is exactly
\* what storage held when it was called.
THEOREM FinalSnapshotIsKept == Spec => []FinalSnapshotKept
<1>1. Init => FinalInv
  BY DEF Init, FinalInv
<1>2. IInv /\ FinalInv /\ [Next]_vars => FinalInv'
  BY FinalStep
<1>3. IInv /\ FinalInv => FinalSnapshotKept
  BY DEF IInv, JobOnDisk, FinalInv, FinalSnapshotKept
<1>4. QED
  BY <1>1, <1>2, <1>3, Invariance, PTL DEF Spec

-----------------------------------------------------------------------------
(* Retention *)

\* The complete snapshots newer than id, and that they are enough to retain.
Newer(id) == {n \in Ids : n > id /\ Complete(n)}
Safe(id) == Cardinality(Newer(id)) >= MaxRetained

\* What pruning is about to delete, or began to delete before it was cut short,
\* is older than enough complete snapshots.
RetentionInv ==
  /\ \A id \in Ids : meta[id] = whole /\ data[id] \notin Entries => Safe(id)
  /\ job.at \in {"data", "meta"} => meta[job.id] # whole
  /\ job.at = "prune" => \A id \in job.todo : Safe(id)

\* More snapshots are enough, too.
LEMMA MoreAreSafe ==
  ASSUME NEW S, NEW T, S \subseteq T, T \subseteq Ids, Cardinality(S) >= MaxRetained
  PROVE  Cardinality(T) >= MaxRetained
<1>1. 1 \in Int /\ MaxSnapshots \in Int
  BY CacheNodeAssumption
<1>2. IsFiniteSet(T)
  BY Zenon, <1>1, FS_Interval, FS_Subset DEF Ids
<1>3. /\ Cardinality(S) <= Cardinality(T)
      /\ Cardinality(S) \in Nat /\ Cardinality(T) \in Nat
  BY Zenon, <1>2, FS_Subset, FS_CardinalityType
<1>4. QED
  BY <1>3, CacheNodeAssumption

\* A snapshot is safe when it is not newer than one that was, and what is newer
\* than that one stays complete.
LEMMA SafeStays ==
  ASSUME NEW id \in Ids, NEW j \in Ids, id <= j, Safe(j),
         \A n \in Ids : n > j /\ Complete(n) => Complete(n)'
  PROVE  Safe(id)'
<1>1. Newer(j) \subseteq Newer(id)' /\ Newer(id)' \subseteq Ids
  BY DEF Newer, Ids
<1>2. QED
  BY Zenon, <1>1, MoreAreSafe DEF Safe

\* In particular a snapshot stays safe when every complete one stays complete.
LEMMA SafeKept ==
  ASSUME NEW id \in Ids, Safe(id), \A n \in Ids : Complete(n) => Complete(n)'
  PROVE  Safe(id)'
<1>1. id <= id
  BY DEF Ids
<1>2. QED
  BY Zenon, <1>1, SafeStays

\* What the list of pruneOldSnapshots puts past retention is safe to delete: one
\* of the newer ones that is listed and not complete is itself safe.
LEMMA ListedSafe ==
  ASSUME TypeOK, RetentionInv, ~ \E id \in Listed : meta[id] = torn,
         NEW id \in PastRetention
  PROVE  Safe(id)
<1> DEFINE L == {n \in Listed : n > id}
<1>1. id \in Ids /\ Cardinality(L) >= MaxRetained /\ L \subseteq Ids
  BY DEF PastRetention, Listed
<1>2. \A n \in L : n \in Ids /\ n > id /\ meta[n] = whole
  BY DEF Listed, TypeOK
<1>3. CASE \A n \in L : data[n] \in Entries
  <2>1. L \subseteq Newer(id) /\ Newer(id) \subseteq L
    <3>1. absent # whole
      BY CacheNodeAssumption
    <3>2. QED
      BY Zenon, <1>2, <1>3, <3>1 DEF Newer, Complete, Listed
  <2>2. L = Newer(id)
    BY Zenon, <2>1
  <2>3. QED
    BY Zenon, <1>1, <2>2 DEF Safe
<1>4. ASSUME NEW n \in L, data[n] \notin Entries PROVE Safe(id)
  <2>1. Safe(n) /\ n \in Ids /\ n > id
    BY Zenon, <1>2, <1>4 DEF RetentionInv
  <2>2. Newer(n) \subseteq Newer(id) /\ Newer(id) \subseteq Ids
    BY SMTT(30), <1>1, <2>1 DEF Newer, Ids
  <2>3. QED
    BY Zenon, <2>1, <2>2, MoreAreSafe DEF Safe
<1>5. QED
  BY Zenon, <1>3, <1>4

\* Without a job there is no capture in progress.
LEMMA NoJobIdle == NoJob.at = "idle"
BY DEF NoJob

\* All other steps leave the files alone.
LEMMA OtherSteps ==
  ASSUME TypeOK, [Next]_vars
  PROVE  \/ serialized \/ dataWritten \/ metaWritten \/ pruneOldSnapshots
         \/ \E id \in Ids : delete(id)
         \/ /\ UNCHANGED <<data, meta>>
            /\ job' = job \/ job' = NoJob \/ job'.at \in {"serialize", "list"}
<1> DEFINE Quiet == /\ UNCHANGED <<data, meta>>
                    /\ job' = job \/ job' = NoJob \/ job'.at \in {"serialize", "list"}
<1>1. ASSUME NEW final \in BOOLEAN, capture(final), UNCHANGED <<data, meta>> PROVE Quiet
  BY Zenon, <1>1, CaptureType
<1>2. CASE \/ \E k \in Keys : PUT(k) \/ DELETE(k) \/ GET(k)
           \/ \E w \in TtlWrites : Expire(w)
           \/ \E i \in 1 .. MaxSweeps :
                runCleanupSweep(i) \/ cleanupResult(i) \/ cleanupFails(i)
           \/ KILL \/ RESTART \/ start \/ connected \/ UNCHANGED vars
  BY Zenon, <1>2 DEF PUT, DELETE, GET, Expire, runCleanupSweep, cleanupResult,
     cleanupFails, KILL, RESTART, start, connected, vars, disk
<1>3. CASE serializeFails \/ writeFails \/ snapshotDone \/ exit \/ crash
  BY Zenon, <1>3 DEF serializeFails, writeFails, snapshotDone, exit, crash, ProcessEnds, disk
<1>4. CASE takeSnapshot \/ connectFails \/ stop
  BY Zenon, <1>1, <1>4 DEF takeSnapshot, connectFails, stop, disk
<1>5. CASE latestWritten
  BY <1>5 DEF latestWritten, TypeOK, Jobs
<1>6. ASSUME NEW ok \in BOOLEAN, recovered(ok) PROVE Quiet
  BY Zenon, <1>1, <1>6 DEF recovered, disk
<1>7. CASE readLatestPointer \/ restoreById
  BY Zenon, <1>6, <1>7 DEF readLatestPointer, restoreById, disk
<1>8. QED
  BY Zenon, <1>2, <1>3, <1>4, <1>5, <1>7 DEF Next

\* Steps that touch neither file of a snapshot.
LEMMA QuietRetention ==
  ASSUME RetentionInv, data' = data, meta' = meta,
         job' = job \/ job'.at \notin {"data", "meta", "prune"}
  PROVE  RetentionInv'
<1>1. ASSUME NEW id, Safe(id) PROVE Safe(id)'
  BY Zenon, <1>1 DEF Safe, Newer, Complete
<1>2. QED
  BY Zenon, <1>1 DEF RetentionInv

\* Every step preserves RetentionInv.
LEMMA RetentionStep ==
  ASSUME IInv, RetentionInv, [Next]_vars
  PROVE  RetentionInv'
<1>0. TypeOK /\ JobOnDisk /\ Undrawn
  BY DEF IInv
<1>1. CASE serialized
  <2>1. PICK new \in Ids : /\ new = created + 1 /\ new > created
                           /\ data' = [data EXCEPT ![new] = torn] /\ meta' = meta
                           /\ job' = [job EXCEPT !.at = "data", !.id = new]
    <3>1. created \in 0 .. MaxSnapshots /\ created < MaxSnapshots
      BY Zenon, <1>0, <1>1 DEF serialized, TypeOK, JobOnDisk
    <3>2. created + 1 \in Ids /\ created + 1 > created
      BY <3>1, CacheNodeAssumption DEF Ids
    <3>3. QED
      BY Zenon, <1>1, <3>2 DEF serialized
  <2>2. meta[new] = absent /\ job'.at = "data" /\ job'.id = new
    BY <1>0, <2>1 DEF Undrawn, TypeOK, Jobs
  <2>3. \A n \in Ids : n # new => data'[n] = data[n]
    BY <1>0, <2>1 DEF TypeOK
  <2>4. absent # whole
    BY CacheNodeAssumption
  <2>5. \A n \in Ids : Complete(n) => Complete(n)'
    BY Zenon, <2>1, <2>2, <2>3, <2>4 DEF Complete
  <2>6. ASSUME NEW id \in Ids, Safe(id) PROVE Safe(id)'
    BY Zenon, <2>5, <2>6, SafeKept
  <2>7. ASSUME NEW n \in Ids, meta'[n] = whole, data'[n] \notin Entries PROVE Safe(n)'
    BY Zenon, <2>1, <2>2, <2>3, <2>4, <2>6, <2>7 DEF RetentionInv
  <2>8. QED
    BY <2>1, <2>2, <2>4, <2>7 DEF RetentionInv
<1>2. CASE dataWritten
  <2>1. /\ job.at = "data" /\ job.id \in Ids /\ data' = [data EXCEPT ![job.id] = job.entries]
        /\ meta' = [meta EXCEPT ![job.id] = torn] /\ job' = [job EXCEPT !.at = "meta"]
    BY <1>0, <1>2 DEF dataWritten, JobOnDisk
  <2>2. meta[job.id] # whole /\ meta'[job.id] = torn /\ torn # whole
    BY <1>0, <2>1, CacheNodeAssumption DEF RetentionInv, TypeOK
  <2>3. \A n \in Ids : n # job.id => data'[n] = data[n] /\ meta'[n] = meta[n]
    BY <1>0, <2>1 DEF TypeOK
  <2>4. ASSUME NEW n \in Ids, Safe(n) PROVE Safe(n)'
    <3>1. \A x \in Ids : Complete(x) => Complete(x)'
      BY Zenon, <2>2, <2>3 DEF Complete
    <3>2. QED
      BY Zenon, <2>4, <3>1, SafeKept
  <2>5. job'.at = "meta" /\ job'.id = job.id
    BY <1>0, <2>1 DEF TypeOK, Jobs
  <2>6. ASSUME NEW n \in Ids, meta'[n] = whole, data'[n] \notin Entries PROVE Safe(n)'
    BY Zenon, <2>2, <2>3, <2>4, <2>6 DEF RetentionInv
  <2>7. QED
    BY <2>2, <2>5, <2>6 DEF RetentionInv
<1>3. CASE metaWritten
  <2>1. /\ job.at = "meta" /\ job.id \in Ids /\ data' = data /\ data[job.id] = job.entries
        /\ meta' = [meta EXCEPT ![job.id] = whole] /\ job' = [job EXCEPT !.at = "latest"]
    BY <1>0, <1>3 DEF metaWritten, JobOnDisk
  <2>2. job.entries \in Entries /\ meta'[job.id] = whole /\ job'.at = "latest"
    BY <1>0, <2>1 DEF TypeOK, Jobs
  <2>3. \A n \in Ids : n # job.id => meta'[n] = meta[n]
    BY <1>0, <2>1 DEF TypeOK
  <2>4. ASSUME NEW n \in Ids, Safe(n) PROVE Safe(n)'
    <3>1. \A x \in Ids : Complete(x) => Complete(x)'
      BY Zenon, <2>1, <2>2, <2>3 DEF Complete
    <3>2. QED
      BY Zenon, <2>4, <3>1, SafeKept
  <2>5. ASSUME NEW n \in Ids, meta'[n] = whole, data'[n] \notin Entries PROVE Safe(n)'
    BY Zenon, <2>1, <2>2, <2>3, <2>4, <2>5 DEF RetentionInv
  <2>6. QED
    BY <2>2, <2>5 DEF RetentionInv
<1>4. CASE pruneOldSnapshots
  <2>1. data' = data /\ meta' = meta
    BY <1>4 DEF pruneOldSnapshots, disk
  <2>2. CASE \E id \in Listed : meta[id] = torn
    BY Zenon, <1>4, <2>1, <2>2, NoJobIdle, QuietRetention DEF pruneOldSnapshots
  <2>3. CASE ~ \E id \in Listed : meta[id] = torn
    <3>1. job'.at = "prune" /\ job'.todo = PastRetention
      BY <1>0, <1>4, <2>3 DEF pruneOldSnapshots, TypeOK, Jobs
    <3>2. ASSUME NEW id \in PastRetention PROVE Safe(id)'
      BY Zenon, <1>0, <2>1, <2>3, ListedSafe DEF Safe, Newer, Complete
    <3>3. ASSUME NEW id \in Ids, Safe(id) PROVE Safe(id)'
      BY Zenon, <2>1, <3>3 DEF Safe, Newer, Complete
    <3>4. \A id \in Ids : meta'[id] = whole /\ data'[id] \notin Entries => Safe(id)'
      BY Zenon, <2>1, <3>3 DEF RetentionInv
    <3>5. QED
      BY <3>1, <3>2, <3>4 DEF RetentionInv
  <2>4. QED
    BY Zenon, <2>2, <2>3
<1>5. ASSUME NEW id \in Ids, delete(id) PROVE RetentionInv'
  <2>1. /\ job.at = "prune" /\ id \in job.todo /\ \A other \in job.todo : other <= id
        /\ job.todo \subseteq Ids
    BY <1>0, <1>5 DEF delete, TypeOK, Jobs
  <2>2. \A n \in Ids : n # id => data'[n] = data[n] /\ meta'[n] = meta[n]
    BY <1>0, <1>5 DEF delete, TypeOK
  <2>3. job'.at = "prune" /\ job'.todo \subseteq job.todo
    BY <1>0, <1>5 DEF delete, TypeOK, Jobs
  <2>4. \A n \in Ids : n > id /\ Complete(n) => Complete(n)'
    <3>1. \A n \in Ids : n > id => n # id
      BY DEF Ids
    <3>2. QED
      BY Zenon, <2>2, <3>1 DEF Complete
  <2>5. ASSUME NEW n \in Ids, n <= id PROVE Safe(n)'
    BY Zenon, <2>1, <2>4, <2>5, SafeStays DEF RetentionInv
  <2>6. ASSUME NEW n \in Ids, ~(n <= id), Safe(n) PROVE Safe(n)'
    <3>1. \A x \in Ids : x > n => x # id
      BY <2>6 DEF Ids
    <3>2. \A x \in Ids : x > n /\ Complete(x) => Complete(x)'
      BY Zenon, <2>2, <3>1 DEF Complete
    <3>3. n <= n
      BY DEF Ids
    <3>4. QED
      BY Zenon, <2>6, <3>2, <3>3, SafeStays
  <2>7. ASSUME NEW n \in Ids, meta'[n] = whole, data'[n] \notin Entries PROVE Safe(n)'
    <3>1. CASE n <= id
      BY Zenon, <2>5, <3>1
    <3>2. CASE ~(n <= id)
      <4>1. n # id
        BY <3>2 DEF Ids
      <4>2. Safe(n)
        BY Zenon, <2>2, <2>7, <4>1 DEF RetentionInv
      <4>3. QED
        BY Zenon, <2>6, <3>2, <4>2
    <3>3. QED
      BY Zenon, <3>1, <3>2
  <2>8. \A n \in job'.todo : Safe(n)'
    BY Zenon, <2>1, <2>3, <2>5
  <2>9. QED
    BY <2>3, <2>7, <2>8 DEF RetentionInv
<1>6. CASE /\ UNCHANGED <<data, meta>>
           /\ job' = job \/ job' = NoJob \/ job'.at \in {"serialize", "list"}
  <2>1. job' = job \/ job'.at \notin {"data", "meta", "prune"}
    BY <1>6, NoJobIdle
  <2>2. QED
    BY Zenon, <1>6, <2>1, QuietRetention
<1>7. QED
  BY Zenon, <1>1, <1>2, <1>3, <1>4, <1>5, <1>6, OtherSteps DEF IInv

\* Retention deletes a complete snapshot only when enough newer complete ones
\* stay, whatever earlier prunings left behind.
THEOREM RetentionIsKept == Spec => KeepsRetained
<1>1. Init => RetentionInv
  <2>1. Init => \A id \in Ids : meta[id] = absent
    BY DEF Init
  <2>2. Init => job.at = "idle"
    BY Zenon, NoJobIdle DEF Init
  <2>3. absent # whole
    BY CacheNodeAssumption
  <2>4. QED
    BY <2>1, <2>2, <2>3 DEF RetentionInv
<1>2. IInv /\ RetentionInv /\ [Next]_vars => RetentionInv'
  BY RetentionStep
<1>3. ASSUME IInv, RetentionInv, [Next]_vars, NEW id \in Ids, Complete(id), ~Complete(id)'
      PROVE  Cardinality({newer \in Ids : newer > id /\ Complete(newer)'}) >= MaxRetained
  <2>1. TypeOK /\ JobOnDisk /\ Undrawn
    BY Zenon, <1>3 DEF IInv
  <2>2. CASE serialized
    <3>1. meta[created + 1] = absent /\ absent # whole
      BY <2>1, <2>2, CacheNodeAssumption DEF serialized, TypeOK, JobOnDisk, Undrawn, Ids
    <3>2. id # created + 1
      BY Zenon, <1>3, <3>1 DEF Complete
    <3>3. data'[id] = data[id] /\ meta'[id] = meta[id]
      BY <2>1, <2>2, <3>2 DEF serialized, TypeOK
    <3>4. QED
      BY Zenon, <1>3, <3>3 DEF Complete
  <2>3. CASE dataWritten
    <3>1. id # job.id
      BY Zenon, <1>3, <2>3 DEF RetentionInv, Complete, dataWritten
    <3>2. data'[id] = data[id] /\ meta'[id] = meta[id]
      BY <2>1, <2>3, <3>1 DEF dataWritten, TypeOK
    <3>3. QED
      BY Zenon, <1>3, <3>2 DEF Complete
  <2>4. CASE metaWritten
    <3>1. data'[id] = data[id] /\ (meta'[id] = meta[id] \/ meta'[id] = whole)
      BY <2>1, <2>4 DEF metaWritten, TypeOK
    <3>2. QED
      BY Zenon, <1>3, <3>1 DEF Complete
  <2>5. CASE UNCHANGED <<data, meta>>
    BY Zenon, <1>3, <2>5 DEF Complete
  <2>6. ASSUME NEW j \in Ids, delete(j)
        PROVE  Cardinality({newer \in Ids : newer > id /\ Complete(newer)'}) >= MaxRetained
    <3>1. \A n \in Ids : n # j => data'[n] = data[n] /\ meta'[n] = meta[n]
      BY <2>1, <2>6 DEF delete, TypeOK
    <3>2. id = j
      BY Zenon, <1>3, <3>1 DEF Complete
    <3>3. Safe(id)
      BY Zenon, <1>3, <2>6, <3>2 DEF RetentionInv, delete
    <3>4. \A n \in Ids : n > id /\ Complete(n) => Complete(n)'
      <4>1. \A n \in Ids : n > id => n # j
        BY <3>2 DEF Ids
      <4>2. QED
        BY Zenon, <3>1, <4>1 DEF Complete
    <3>5. id <= id
      BY DEF Ids
    <3>6. Safe(id)'
      BY Zenon, <3>3, <3>4, <3>5, SafeStays
    <3>7. QED
      BY Zenon, <3>6 DEF Safe, Newer
  <2>7. UNCHANGED <<data, meta>> \/ ~pruneOldSnapshots
    BY Zenon DEF pruneOldSnapshots, disk
  <2>8. QED
    BY Zenon, <1>3, <2>1, <2>2, <2>3, <2>4, <2>5, <2>6, <2>7, OtherSteps
<1>4. IInv /\ RetentionInv /\ [Next]_vars =>
        [\A id \in Ids : Complete(id) /\ ~Complete(id)' =>
           Cardinality({newer \in Ids : newer > id /\ Complete(newer)'}) >= MaxRetained]_vars
  BY Zenon, <1>3
<1>5. QED
  BY <1>1, <1>2, <1>4, Invariance, PTL DEF Spec, KeepsRetained
=============================================================================
