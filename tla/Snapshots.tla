------------------------------ MODULE Snapshots ------------------------------
(***************************************************************************)
(* Snapshots of VMs (internal/api/snapshot_handlers.go): the handlers that *)
(* create and delete them and restore a VM from one, the snapshots table,  *)
(* the files below snapshots/<vm>/<id>, and the background jobs that copy  *)
(* new snapshots to the object tier.                                       *)
(*                                                                         *)
(* The id of a snapshot is the second in which it is made.  The content of *)
(* a file is the create that wrote it.  The inside of a tier upload is     *)
(* module SnapshotStore; here an upload reads the local files one by one   *)
(* and then commits what it has read.                                      *)
(***************************************************************************)
EXTENDS Naturals, FiniteSets

CONSTANTS
  VMs, Requests,
  Slots,       \* maxConcurrentTiering
  Nobody,      \* no row, no file, no holder
  MaxClock,    \* bound: seconds that pass
  MaxFaults    \* bound: failing calls of the database, of the file system and of Firecracker

ASSUME SnapshotsAssumption == /\ Slots \in Nat \ {0} /\ MaxClock \in Nat /\ MaxFaults \in Nat
                              /\ Nobody \notin VMs /\ Nobody \notin Requests

Ids == 0..MaxClock

SnapshotFiles == {"vm.snap", "mem.snap"}

NoFiles == [f \in SnapshotFiles |-> Nobody]

VARIABLES
  clock,      \* the current second
  exists,     \* the rows of table vms
  paused,     \* VMs in state paused
  holder,     \* per VM: the request that holds the row lock
  row,        \* table snapshots: id -> VM
  files,      \* per VM and id: the files in the snapshot directory
  req,        \* per request: where it is, its operation, VM and snapshot id
  tier,       \* per create: where its background job is
  got,        \* per create: what its background job has read
  manifest,   \* per VM and id: what the tier has committed
  faults,
  made,       \* history: per VM and id, how many creates used that directory
  doomed      \* history: the snapshots whose files a delete has removed

reqVars == <<req, holder>>
tierVars == <<tier, got, manifest>>
histVars == <<made, doomed>>
snapshotVars == <<clock, exists, paused, reqVars, row, files, tierVars, faults, histVars>>

Idle == [at |-> "idle", op |-> "none", vm |-> Nobody, id |-> 0]

At(r, s) == req[r].at = s

Go(r, s) == req' = [req EXCEPT ![r].at = s]

Fault == faults < MaxFaults /\ faults' = faults + 1

SnapshotsInit ==
  /\ clock = 0
  /\ exists = VMs /\ paused = VMs
  /\ holder = [v \in VMs |-> Nobody]
  /\ row = [i \in Ids |-> Nobody]
  /\ files = [v \in VMs |-> [i \in Ids |-> NoFiles]]
  /\ req = [r \in Requests |-> Idle]
  /\ tier = [r \in Requests |-> "none"]
  /\ got = [r \in Requests |-> NoFiles]
  /\ manifest = [v \in VMs |-> [i \in Ids |-> NoFiles]]
  /\ faults = 0
  /\ made = [v \in VMs |-> [i \in Ids |-> 0]] /\ doomed = {}

-----------------------------------------------------------------------------
(* The checks every handler makes before it asks for the lock.             *)

Received(r, op, v, i) ==
  /\ At(r, "idle")
  /\ req' = [req EXCEPT ![r] = [at |-> "lock", op |-> op, vm |-> v, id |-> i]]
  /\ UNCHANGED <<clock, exists, paused, holder, row, files, tierVars, faults, histVars>>

\* The id of a new snapshot is not known before the lock is held.
HandleCreateSnapshot(r, v) ==
  v \in exists /\ v \in paused /\ Received(r, "create", v, 0)

HandleDeleteSnapshot(r, i) ==
  row[i] # Nobody /\ Received(r, "delete", row[i], i)

ResumeFromSnapshot(r, v, i) ==
  v \in exists /\ v \notin paused /\ Received(r, "restore", v, i)

HandleDeleteVM(r, v) ==
  v \in exists /\ Received(r, "drop", v, 0)

\* Mutant: the delete goes on when the lock is taken.
AcquireLockNotForDelete(r) ==
  LET v == req[r].vm IN
  /\ At(r, "lock")
  /\ IF v \in exists /\ (holder[v] = Nobody \/ req[r].op = "delete")
     THEN holder' = [holder EXCEPT ![v] = r] /\ Go(r, req[r].op)
     ELSE Go(r, "done") /\ UNCHANGED holder
  /\ UNCHANGED <<clock, exists, paused, row, files, tierVars, faults, histVars>>

\* AcquireLock updates the row of the VM: it also fails when there is none.
AcquireLock(r) ==
  LET v == req[r].vm IN
  /\ At(r, "lock")
  /\ IF v \in exists /\ holder[v] = Nobody
     THEN holder' = [holder EXCEPT ![v] = r] /\ Go(r, req[r].op)
     ELSE Go(r, "done") /\ UNCHANGED holder
  /\ UNCHANGED <<clock, exists, paused, row, files, tierVars, faults, histVars>>

\* The deferred ReleaseLock, whoever holds the lock.
ReleaseLock(r) ==
  /\ At(r, "unlock")
  /\ holder' = [holder EXCEPT ![req[r].vm] = Nobody]
  /\ Go(r, "done")
  /\ UNCHANGED <<clock, exists, paused, row, files, tierVars, faults, histVars>>

-----------------------------------------------------------------------------
(* handleCreateSnapshot                                                    *)

\* The id is taken from the clock, and a directory of that name is made or used.
NameSnapshot(r) ==
  /\ At(r, "create")
  /\ req' = [req EXCEPT ![r].at = "write", ![r].id = clock]
  /\ made' = [made EXCEPT ![req[r].vm][clock] = @ + 1]
  /\ UNCHANGED <<clock, exists, paused, holder, row, files, tierVars, faults, doomed>>

\* Firecracker writes the two files, over those that are there.
WriteFile(r, f) ==
  LET v == req[r].vm  i == req[r].id IN
  /\ At(r, "write") /\ files[v][i][f] # r
  /\ files' = [files EXCEPT ![v][i][f] = r]
  /\ UNCHANGED <<clock, exists, paused, reqVars, row, tierVars, faults, histVars>>

\* The runtime reports an error: the directory is removed with all that is in it.
WriteFails(r) ==
  /\ At(r, "write") /\ Fault
  /\ files' = [files EXCEPT ![req[r].vm][req[r].id] = NoFiles]
  /\ Go(r, "unlock")
  /\ UNCHANGED <<clock, exists, paused, holder, row, tierVars, histVars>>

\* Mutant: the row is inserted as soon as one file is there.
RecordSnapshotEarly(r) ==
  LET v == req[r].vm  i == req[r].id IN
  /\ At(r, "write") /\ \E f \in SnapshotFiles : files[v][i][f] = r
  /\ row[i] = Nobody
  /\ row' = [row EXCEPT ![i] = v]
  /\ tier' = [tier EXCEPT ![r] = "waiting"]
  /\ doomed' = doomed \ {i}
  /\ Go(r, "unlock")
  /\ UNCHANGED <<clock, exists, paused, holder, files, got, manifest, faults, made>>

\* The row is inserted and the background job starts; the id must be new.
RecordSnapshot(r) ==
  LET v == req[r].vm  i == req[r].id IN
  /\ At(r, "write") /\ \A f \in SnapshotFiles : files[v][i][f] = r
  /\ row[i] = Nobody
  /\ row' = [row EXCEPT ![i] = v]
  /\ tier' = [tier EXCEPT ![r] = "waiting"]
  /\ doomed' = doomed \ {i}
  /\ Go(r, "unlock")
  /\ UNCHANGED <<clock, exists, paused, holder, files, got, manifest, faults, made>>

\* The insert fails, on a row with this id or for another reason: the files stay.
RecordFails(r) ==
  LET v == req[r].vm  i == req[r].id IN
  /\ At(r, "write") /\ \A f \in SnapshotFiles : files[v][i][f] = r
  /\ IF row[i] # Nobody THEN UNCHANGED faults ELSE Fault
  /\ Go(r, "unlock")
  /\ UNCHANGED <<clock, exists, paused, holder, row, files, tierVars, histVars>>

-----------------------------------------------------------------------------
(* handleDeleteSnapshot and the end of handleDeleteVM                      *)

\* RemoveAll of the directory; when it fails the handler only logs that.
RemoveFiles(r) ==
  LET v == req[r].vm  i == req[r].id IN
  /\ At(r, "delete")
  /\ \/ files' = [files EXCEPT ![v][i] = NoFiles] /\ UNCHANGED faults
     \/ Fault /\ UNCHANGED files
  /\ doomed' = doomed \union {i}
  /\ Go(r, "deleterow")
  /\ UNCHANGED <<clock, exists, paused, holder, row, tierVars, made>>

DeleteSnapshotRow(r) ==
  /\ At(r, "deleterow")
  /\ \/ row' = [row EXCEPT ![req[r].id] = Nobody] /\ UNCHANGED faults
     \/ Fault /\ UNCHANGED row
  /\ Go(r, "unlock")
  /\ UNCHANGED <<clock, exists, paused, holder, files, tierVars, histVars>>

(***************************************************************************)
(* The row of the VM goes.  ON DELETE CASCADE takes its snapshot rows with *)
(* it only on the connection of the pool on which the PRAGMA was executed. *)
(* The directory snapshots/<vm> is not part of the VM's storage.           *)
(***************************************************************************)
DeleteVMRow(r) ==
  LET v == req[r].vm IN
  /\ At(r, "drop")
  /\ exists' = exists \ {v} /\ paused' = paused \ {v}
  /\ \/ row' = [i \in Ids |-> IF row[i] = v THEN Nobody ELSE row[i]]
     \/ UNCHANGED row
  /\ Go(r, "unlock")
  /\ UNCHANGED <<clock, holder, files, tierVars, faults, histVars>>

-----------------------------------------------------------------------------
(* resumeVMFromSnapshot                                                    *)

\* resolveResumableSnapshot: the row is there, is this VM's and has its files.
ResolveSnapshot(r) ==
  LET v == req[r].vm  i == req[r].id IN
  /\ At(r, "restore")
  /\ Go(r, IF row[i] = v /\ \A f \in SnapshotFiles : files[v][i][f] # Nobody THEN "load" ELSE "unlock")
  /\ UNCHANGED <<clock, exists, paused, holder, row, files, tierVars, faults, histVars>>

\* The new process has loaded the files, or it failed.
LoadEnds(r) ==
  /\ At(r, "load") /\ Go(r, "unlock")
  /\ UNCHANGED <<clock, exists, paused, holder, row, files, tierVars, faults, histVars>>

-----------------------------------------------------------------------------
(* The background jobs: tierGuard and tierSnapshot.  They hold no lock.    *)

Uploading == {r \in Requests : tier[r] = "uploading"}

\* Mutant: a semaphore with one place too few.
TakeSlotShort(r) ==
  /\ tier[r] = "waiting" /\ Cardinality(Uploading) + 1 < Slots
  /\ tier' = [tier EXCEPT ![r] = "uploading"]
  /\ UNCHANGED <<clock, exists, paused, reqVars, row, files, got, manifest, faults, histVars>>

TakeSlot(r) ==
  /\ tier[r] = "waiting" /\ Cardinality(Uploading) < Slots
  /\ tier' = [tier EXCEPT ![r] = "uploading"]
  /\ UNCHANGED <<clock, exists, paused, reqVars, row, files, got, manifest, faults, histVars>>

TierFile(r, f) ==
  LET c == files[req[r].vm][req[r].id][f] IN
  /\ tier[r] = "uploading" /\ got[r][f] = Nobody /\ c # Nobody
  /\ got' = [got EXCEPT ![r][f] = c]
  /\ UNCHANGED <<clock, exists, paused, reqVars, row, files, tier, manifest, faults, histVars>>

\* A missing file, a failed upload or the timeout: the job ends and frees its slot.
TierFails(r) ==
  /\ tier[r] = "uploading"
  /\ tier' = [tier EXCEPT ![r] = "over"]
  /\ UNCHANGED <<clock, exists, paused, reqVars, row, files, got, manifest, faults, histVars>>

\* Mutant: a file that is gone is left out of the manifest.
TierCommitsPartly(r) ==
  /\ tier[r] = "uploading" /\ \E f \in SnapshotFiles : got[r][f] # Nobody
  /\ manifest' = [manifest EXCEPT ![req[r].vm][req[r].id] = got[r]]
  /\ tier' = [tier EXCEPT ![r] = "over"]
  /\ UNCHANGED <<clock, exists, paused, reqVars, row, files, got, faults, histVars>>

TierCommits(r) ==
  /\ tier[r] = "uploading" /\ \A f \in SnapshotFiles : got[r][f] # Nobody
  /\ manifest' = [manifest EXCEPT ![req[r].vm][req[r].id] = got[r]]
  /\ tier' = [tier EXCEPT ![r] = "over"]
  /\ UNCHANGED <<clock, exists, paused, reqVars, row, files, got, faults, histVars>>

-----------------------------------------------------------------------------
\* A second passes.
Tick == /\ clock < MaxClock /\ clock' = clock + 1
        /\ UNCHANGED <<exists, paused, reqVars, row, files, tierVars, faults, histVars>>

\* The VM leaves the paused state, by an operation that takes the lock itself.
StopVM(v) ==
  /\ v \in paused /\ holder[v] = Nobody
  /\ paused' = paused \ {v}
  /\ UNCHANGED <<clock, exists, reqVars, row, files, tierVars, faults, histVars>>

HandlerStep(r) ==
  \/ AcquireLock(r) \/ ReleaseLock(r)
  \/ NameSnapshot(r) \/ WriteFails(r) \/ RecordSnapshot(r) \/ RecordFails(r)
  \/ \E f \in SnapshotFiles : WriteFile(r, f)
  \/ RemoveFiles(r) \/ DeleteSnapshotRow(r) \/ DeleteVMRow(r)
  \/ ResolveSnapshot(r) \/ LoadEnds(r)

TierStep(r) ==
  \/ TakeSlot(r) \/ TierFails(r) \/ TierCommits(r)
  \/ \E f \in SnapshotFiles : TierFile(r, f)

SnapshotsNext ==
  \/ \E r \in Requests :
       \/ \E v \in VMs : \/ HandleCreateSnapshot(r, v) \/ HandleDeleteVM(r, v)
                         \/ \E i \in Ids : ResumeFromSnapshot(r, v, i)
       \/ \E i \in Ids : HandleDeleteSnapshot(r, i)
       \/ HandlerStep(r) \/ TierStep(r)
  \/ Tick
  \/ \E v \in VMs : StopVM(v)

\* Handlers and jobs run on; requests, stops and the clock are not forced.
SnapshotsFairness == \A r \in Requests : WF_snapshotVars(HandlerStep(r)) /\ WF_snapshotVars(TierStep(r))

-----------------------------------------------------------------------------
OneCreate(c) == \E r \in Requests : \A f \in SnapshotFiles : c[f] = r

(***************************************************************************)
(* A restore that has resolved its snapshot finds the files until it has   *)
(* loaded them, and the row too, as long as the id stands for one VM's     *)
(* snapshot only: create, delete and restore of one VM exclude each other  *)
(* from the resolve to the load (resumeVMFromSnapshot takes the lock       *)
(* before it resolves; a delete takes the same lock).  The row is keyed by *)
(* the id alone and the lock by the VM: a delete that read the row of one  *)
(* VM's snapshot removes that of another VM made in the same second.       *)
(***************************************************************************)
LoadFindsSnapshot ==
  \A r \in Requests : At(r, "load") =>
    LET v == req[r].vm  i == req[r].id IN
    /\ \A f \in SnapshotFiles : files[v][i][f] # Nobody
    /\ (\A w \in VMs \ {v} : made[w][i] = 0) => row[i] = v

(***************************************************************************)
(* A recorded snapshot that nobody is deleting has both of its files, of   *)
(* one create, as long as no second create of that VM fell into the same   *)
(* second: whatever fails, and whatever happens to other snapshots.        *)
(***************************************************************************)
RecordedIsWhole ==
  \A i \in Ids : row[i] # Nobody /\ i \notin doomed /\ made[row[i]][i] = 1 =>
    OneCreate(files[row[i]][i])

(***************************************************************************)
(* What the tier has committed for a snapshot is one create's pair of      *)
(* files, although the background job reads them after the lock is gone    *)
(* and deletes may come in between (same restriction as above).            *)
(***************************************************************************)
TieredIsWhole ==
  \A v \in VMs : \A i \in Ids :
    manifest[v][i] # NoFiles /\ made[v][i] = 1 => OneCreate(manifest[v][i])

(***************************************************************************)
(* Every background job comes to its turn and ends, so that again and      *)
(* again none is under way: slots are given back on every way out of       *)
(* tierGuard.                                                              *)
(***************************************************************************)
TieringEnds == []<>(\A r \in Requests : tier[r] \in {"none", "over"})

(***************************************************************************)
(* A snapshot, where it is recorded and where it is tiered, is whole.      *)
(***************************************************************************)
SnapshotsAreWhole == RecordedIsWhole /\ TieredIsWhole
==============================================================================
