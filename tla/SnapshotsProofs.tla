-------------------------- MODULE SnapshotsProofs ---------------------------
(***************************************************************************)
(* Proofs about module Snapshots, for any number of VMs, requests, slots   *)
(* and seconds, and any number of failing calls; and about module          *)
(* SnapshotStore, for any set of files and any number of Puts, Gets,       *)
(* crashes and power losses.                                               *)
(***************************************************************************)
EXTENDS Snapshots, SnapshotStore, TLAPS

USE DEF reqVars, tierVars, histVars, snapshotVars

SnapshotsSpec == SnapshotsInit /\ [][SnapshotsNext]_snapshotVars

Ops == {"create", "delete", "restore", "drop"}

\* Where a request holds the lock of its VM.
Held == Ops \union {"write", "deleterow", "load", "unlock"}

Labels == Held \union {"idle", "lock", "done"}

FileStates == [SnapshotFiles -> Requests \union {Nobody}]

SnapshotsType ==
  /\ clock \in Ids
  /\ holder \in [VMs -> Requests \union {Nobody}]
  /\ row \in [Ids -> VMs \union {Nobody}]
  /\ files \in [VMs -> [Ids -> FileStates]]
  /\ req \in [Requests -> [at : Labels, op : Ops \union {"none"}, vm : VMs \union {Nobody}, id : Ids]]
  /\ tier \in [Requests -> {"none", "waiting", "uploading", "over"}]
  /\ got \in [Requests -> FileStates]
  /\ manifest \in [VMs -> [Ids -> FileStates]]
  /\ made \in [VMs -> [Ids -> Nat]]
  /\ \A r \in Requests : ~At(r, "idle") => req[r].vm \in VMs /\ req[r].op \in Ops

\* The request works on this VM and this id.
On(r, v, i) == req[r].vm = v /\ req[r].id = i

\* A request that is past AcquireLock holds the lock until ReleaseLock.
LockInv == \A r \in Requests : req[r].at \in Held => holder[req[r].vm] = r

\* A directory nobody has used is empty and nothing refers to it.
UnusedInv ==
  \A v \in VMs, i \in Ids : made[v][i] = 0 =>
    /\ row[i] # v
    /\ files[v][i] = NoFiles /\ manifest[v][i] = NoFiles
    /\ \A r \in Requests :
         On(r, v, i) => ~At(r, "write") /\ tier[r] = "none"
                        /\ req[r].at \notin {"delete", "deleterow", "load"}
                        /\ ~(At(r, "lock") /\ req[r].op = "delete")

\* While the first create of a directory writes, there is nothing else in it.
WritingInv ==
  \A r \in Requests : At(r, "write") =>
    LET v == req[r].vm  i == req[r].id IN
    made[v][i] = 1 => /\ row[i] # v /\ manifest[v][i] = NoFiles
                      /\ \A f \in SnapshotFiles : files[v][i][f] \in {Nobody, r}
                      /\ \A q \in Requests : On(q, v, i) => tier[q] = "none"

\* A background job begins with nothing read, when its create is through, and
\* what it reads was written by that create if no other one used the directory.
TierInv ==
  \A r \in Requests :
    /\ req[r].at \notin {"unlock", "done"} => tier[r] = "none"
    /\ tier[r] = "none" => got[r] = NoFiles
    /\ tier[r] # "none" =>
         LET v == req[r].vm  i == req[r].id IN
         made[v][i] = 1 =>
           \A f \in SnapshotFiles : files[v][i][f] \in {Nobody, r} /\ got[r][f] \in {Nobody, r}

SnapshotsInv ==
  /\ SnapshotsType /\ LockInv /\ UnusedInv /\ WritingInv /\ TierInv
  /\ LoadFindsSnapshot /\ RecordedIsWhole /\ TieredIsWhole
-----------------------------------------------------------------------------
\* What the assignments to req do: one request moves, the others stay.
LEMMA GoEffect ==
  ASSUME SnapshotsType, NEW r \in Requests, NEW s \in Labels, Go(r, s)
  PROVE  /\ req' \in [Requests -> [at : Labels, op : Ops \union {"none"}, vm : VMs \union {Nobody}, id : Ids]]
         /\ req'[r].at = s /\ req'[r].op = req[r].op
         /\ req'[r].vm = req[r].vm /\ req'[r].id = req[r].id
         /\ \A q \in Requests \ {r} : req'[q] = req[q]
BY DEF SnapshotsType, Go

LEMMA ReceivedEffect ==
  ASSUME SnapshotsType, NEW r \in Requests, NEW op \in Ops, NEW v \in VMs, NEW i \in Ids,
         Received(r, op, v, i)
  PROVE  /\ req' \in [Requests -> [at : Labels, op : Ops \union {"none"}, vm : VMs \union {Nobody}, id : Ids]]
         /\ req'[r].at = "lock" /\ req'[r].op = op
         /\ req'[r].vm = v /\ req'[r].id = i
         /\ \A q \in Requests \ {r} : req'[q] = req[q]
BY DEF SnapshotsType, Received, Labels

\* The VM of a request that holds a lock is one of the VMs, and holds the lock alone.
LEMMA Exclusive ==
  ASSUME SnapshotsType, LockInv, NEW r \in Requests, NEW q \in Requests,
         req[r].at \in Held, req[q].at \in Held, req[r].vm = req[q].vm
  PROVE  r = q
BY DEF LockInv

\* What two updates do: of one VM's directory, and of one file in it.
LEMMA CellEffect ==
  ASSUME NEW S, NEW m \in [VMs -> [Ids -> S]], NEW v \in VMs, NEW i \in Ids, NEW c \in S,
         NEW n, n = [m EXCEPT ![v][i] = c]
  PROVE  /\ n \in [VMs -> [Ids -> S]]
         /\ n[v][i] = c
         /\ \A w \in VMs, j \in Ids : (w # v \/ j # i) => n[w][j] = m[w][j]
OBVIOUS

LEMMA ConstantFacts ==
  /\ 0 \in Ids /\ NoFiles \in FileStates /\ Nobody \notin VMs /\ Nobody \notin Requests
  /\ \A f \in SnapshotFiles : NoFiles[f] = Nobody
BY SnapshotsAssumption DEF Ids, NoFiles, FileStates

-----------------------------------------------------------------------------
\* A new request.
LEMMA ReceivedPreserves ==
  ASSUME SnapshotsInv, NEW r \in Requests, NEW op \in Ops, NEW v \in VMs, NEW i \in Ids,
         op = "delete" => row[i] = v,
         Received(r, op, v, i)
  PROVE  SnapshotsInv'
<1> USE DEF SnapshotsInv, At
<1>0. /\ req[r].at = "idle"
      /\ UNCHANGED <<clock, exists, paused, holder, row, files, tier, got, manifest, faults, made, doomed>>
  BY DEF Received
<1>1. /\ req' \in [Requests -> [at : Labels, op : Ops \union {"none"}, vm : VMs \union {Nobody}, id : Ids]]
      /\ req'[r].at = "lock" /\ req'[r].op = op
      /\ req'[r].vm = v /\ req'[r].id = i
      /\ \A q \in Requests \ {r} : req'[q] = req[q]
  BY ReceivedEffect
<1>2. SnapshotsType'
  BY <1>0, <1>1 DEF SnapshotsType
<1>3. LockInv'
  BY <1>0, <1>1 DEF LockInv, Held, Ops
<1>4. UnusedInv'
  BY <1>0, <1>1 DEF UnusedInv, On, TierInv
<1>5. WritingInv'
  BY <1>0, <1>1 DEF WritingInv, On, TierInv
<1>6. TierInv'
  BY <1>0, <1>1 DEF TierInv
<1>7. LoadFindsSnapshot'
  BY <1>0, <1>1 DEF LoadFindsSnapshot
<1>8. RecordedIsWhole' /\ TieredIsWhole'
  BY <1>0 DEF RecordedIsWhole, TieredIsWhole, OneCreate
<1> QED
  BY <1>2, <1>3, <1>4, <1>5, <1>6, <1>7, <1>8
\* Steps of a handler that only move on: the lock is had or not, the snapshot
\* is found or not, the load or the failed insert is over, the lock is given back.
LEMMA MovePreserves ==
  ASSUME SnapshotsInv, NEW r \in Requests,
         AcquireLock(r) \/ ReleaseLock(r) \/ ResolveSnapshot(r) \/ LoadEnds(r) \/ RecordFails(r)
  PROVE  SnapshotsInv'
<1> USE DEF SnapshotsInv, At
<1>0. /\ req[r].at \in {"lock", "unlock", "restore", "load", "write"} /\ req[r].vm \in VMs /\ req[r].op \in Ops
      /\ UNCHANGED <<clock, exists, paused, row, files, tier, got, manifest, made, doomed>>
  BY DEF AcquireLock, ReleaseLock, ResolveSnapshot, LoadEnds, RecordFails, SnapshotsType
<1> DEFINE s == req'[r].at
<1>1. /\ req' \in [Requests -> [at : Labels, op : Ops \union {"none"}, vm : VMs \union {Nobody}, id : Ids]]
      /\ s \in Labels /\ req'[r].op = req[r].op
      /\ req'[r].vm = req[r].vm /\ req'[r].id = req[r].id
      /\ \A q \in Requests \ {r} : req'[q] = req[q]
  <2>1. \E t \in Labels : Go(r, t)
    BY <1>0 DEF AcquireLock, ReleaseLock, ResolveSnapshot, LoadEnds, RecordFails, Labels, Held
  <2> QED
    BY <2>1, GoEffect
<1>2. /\ AcquireLock(r) => \/ /\ s = req[r].op /\ holder[req[r].vm] = Nobody
                              /\ holder' = [holder EXCEPT ![req[r].vm] = r]
                           \/ s = "done" /\ holder' = holder
      /\ ReleaseLock(r) => s = "done" /\ req[r].at = "unlock"
                            /\ holder' = [holder EXCEPT ![req[r].vm] = Nobody]
      /\ ResolveSnapshot(r) =>
           /\ req[r].at = "restore" /\ s \in {"load", "unlock"} /\ holder' = holder
           /\ s = "load" => /\ row[req[r].id] = req[r].vm
                            /\ \A f \in SnapshotFiles : files[req[r].vm][req[r].id][f] # Nobody
      /\ LoadEnds(r) \/ RecordFails(r) =>
           s = "unlock" /\ req[r].at \in {"load", "write"} /\ holder' = holder
  <2>1. \A t : Go(r, t) => s = t
    BY DEF SnapshotsType, Go
  <2> QED
    BY <1>0, <1>1, <2>1 DEF AcquireLock, ReleaseLock, ResolveSnapshot, LoadEnds, RecordFails
<1>3. SnapshotsType'
  <2>1. holder' \in [VMs -> Requests \union {Nobody}]
    BY <1>0, <1>2 DEF SnapshotsType
  <2>2. ~At(r, "idle")' /\ \A q \in Requests : req'[q].vm = req[q].vm /\ req'[q].op = req[q].op
    BY <1>0, <1>1, <1>2 DEF Ops
  <2> QED
    BY <1>0, <1>1, <2>1, <2>2 DEF SnapshotsType
<1>4. LockInv'
  <2>1. CASE AcquireLock(r)
    <3> SUFFICES ASSUME NEW q \in Requests, req'[q].at \in Held PROVE holder'[req'[q].vm] = q
      BY DEF LockInv
    <3>1. CASE q = r
      <4>1. s # "done"
        BY <3>1 DEF Held, Ops
      <4> QED
        BY <1>0, <1>1, <1>2, <2>1, <3>1, <4>1 DEF SnapshotsType
    <3>2. CASE q # r
      <4>1. req'[q] = req[q] /\ holder[req[q].vm] = q /\ req[q].vm \in VMs
        BY <1>1, <3>2 DEF LockInv, SnapshotsType, Held, Ops
      <4> QED
        BY <1>0, <1>2, <2>1, <4>1, SnapshotsAssumption DEF SnapshotsType
    <3> QED
      BY <3>1, <3>2
  <2>2. CASE ReleaseLock(r)
    <3> SUFFICES ASSUME NEW q \in Requests, req'[q].at \in Held PROVE holder'[req'[q].vm] = q
      BY DEF LockInv
    <3>1. q # r /\ req'[q] = req[q]
      BY <1>1, <1>2, <2>2 DEF Held, Ops
    <3>2. req[q].vm # req[r].vm /\ req[q].vm \in VMs
      BY <1>0, <1>2, <2>2, <3>1, Exclusive DEF Held, SnapshotsType, Ops
    <3> QED
      BY <1>0, <1>2, <2>2, <3>1, <3>2 DEF LockInv, SnapshotsType
  <2>3. CASE ResolveSnapshot(r) \/ LoadEnds(r) \/ RecordFails(r)
    BY <1>0, <1>1, <1>2, <2>3 DEF LockInv, Held, Ops
  <2> QED
    BY <2>1, <2>2, <2>3
<1>5. UnusedInv'
  <2>1. /\ s # "write" /\ s # "lock" /\ s # "deleterow"
        /\ s = "delete" => req[r].at = "lock" /\ req[r].op = "delete"
        /\ s = "load" => row[req[r].id] = req[r].vm
    BY <1>0, <1>2 DEF AcquireLock, Ops
  <2> QED
    BY <1>0, <1>1, <2>1 DEF UnusedInv, On
<1>6. WritingInv'
  BY <1>0, <1>1, <1>2 DEF WritingInv, On, Ops
<1>7. TierInv'
  <2>1. tier[r] = "none" \/ s = "done"
    BY <1>0, <1>2 DEF TierInv, AcquireLock
  <2> QED
    BY <1>0, <1>1, <2>1 DEF TierInv
<1>8. LoadFindsSnapshot'
  BY <1>0, <1>1, <1>2 DEF LoadFindsSnapshot, Ops
<1>9. RecordedIsWhole' /\ TieredIsWhole'
  BY <1>0 DEF RecordedIsWhole, TieredIsWhole, OneCreate
<1> QED
  BY <1>3, <1>4, <1>5, <1>6, <1>7, <1>8, <1>9

\* A create takes its name, and with it a directory that may have been used.
LEMMA NamePreserves ==
  ASSUME SnapshotsInv, NEW r \in Requests, NameSnapshot(r)
  PROVE  SnapshotsInv'
<1> USE DEF SnapshotsInv, At
<1> DEFINE v == req[r].vm
<1>0. /\ req[r].at = "create" /\ v \in VMs /\ req[r].op \in Ops /\ clock \in Ids
      /\ UNCHANGED <<clock, exists, paused, holder, row, files, tier, got, manifest, faults, doomed>>
  BY DEF NameSnapshot, SnapshotsType
<1>1. /\ req' \in [Requests -> [at : Labels, op : Ops \union {"none"}, vm : VMs \union {Nobody}, id : Ids]]
      /\ req'[r].at = "write" /\ req'[r].op = req[r].op
      /\ req'[r].vm = v /\ req'[r].id = clock
      /\ \A q \in Requests \ {r} : req'[q] = req[q]
  BY <1>0 DEF NameSnapshot, SnapshotsType, Labels, Held
<1>2. /\ made' \in [VMs -> [Ids -> Nat]]
      /\ made'[v][clock] = made[v][clock] + 1
      /\ \A w \in VMs, j \in Ids : (w # v \/ j # clock) => made'[w][j] = made[w][j]
  BY <1>0 DEF NameSnapshot, SnapshotsType
<1>3. /\ \A w \in VMs, j \in Ids : made'[w][j] = 0 => made[w][j] = 0 /\ (w # v \/ j # clock)
      /\ \A w \in VMs, j \in Ids : made'[w][j] = 1 /\ (w # v \/ j # clock) => made[w][j] = 1
      /\ made'[v][clock] = 1 => made[v][clock] = 0
  <2>1. \A w \in VMs, j \in Ids : made[w][j] \in Nat
    BY DEF SnapshotsType
  <2>2. \A n \in Nat : n + 1 # 0 /\ (n + 1 = 1 => n = 0)
    OBVIOUS
  <2>3. made'[v][clock] # 0 /\ (made'[v][clock] = 1 => made[v][clock] = 0)
    BY <1>0, <1>2, <2>1, <2>2
  <2> HIDE DEF v
  <2> QED
    BY <1>2, <2>3
<1>4. SnapshotsType'
  BY <1>0, <1>1, <1>2 DEF SnapshotsType
<1>5. LockInv'
  BY <1>0, <1>1 DEF LockInv, Held, Ops
<1>6. UnusedInv'
  BY <1>0, <1>1, <1>3 DEF UnusedInv, On
<1>7. WritingInv'
  <2> SUFFICES ASSUME NEW q \in Requests, req'[q].at = "write", made'[req'[q].vm][req'[q].id] = 1
               PROVE  LET w == req'[q].vm  i == req'[q].id IN
                      /\ row[i] # w /\ manifest[w][i] = NoFiles
                      /\ \A f \in SnapshotFiles : files[w][i][f] \in {Nobody, q}
                      /\ \A x \in Requests : req'[x].vm = w /\ req'[x].id = i => tier[x] = "none"
    BY <1>0 DEF WritingInv, On
  <2>1. CASE q = r
    <3>1. made[v][clock] = 0
      BY <1>1, <1>3, <2>1
    <3>2. /\ row[clock] # v /\ manifest[v][clock] = NoFiles /\ files[v][clock] = NoFiles
          /\ \A x \in Requests : On(x, v, clock) => tier[x] = "none"
      BY <1>0, <3>1 DEF UnusedInv
    <3>3. tier[r] = "none"
      BY <1>0 DEF TierInv
    <3> QED
      BY <1>1, <2>1, <3>2, <3>3, ConstantFacts DEF On
  <2>2. CASE q # r
    <3>1. req'[q] = req[q] /\ req[q].vm # v /\ req[q].vm \in VMs /\ req[q].id \in Ids
      BY <1>0, <1>1, <2>2, Exclusive DEF Held, Ops, SnapshotsType
    <3>2. made[req[q].vm][req[q].id] = 1 /\ req[q].at = "write"
      BY <1>3, <3>1
    <3> QED
      BY <1>1, <3>1, <3>2 DEF WritingInv, On
  <2> QED
    BY <2>1, <2>2
<1>8. TierInv'
  <2> SUFFICES ASSUME NEW q \in Requests
               PROVE  /\ req'[q].at \notin {"unlock", "done"} => tier[q] = "none"
                      /\ tier[q] = "none" => got[q] = NoFiles
                      /\ tier[q] # "none" =>
                           LET w == req'[q].vm  i == req'[q].id IN
                           made'[w][i] = 1 =>
                             \A f \in SnapshotFiles : files[w][i][f] \in {Nobody, q} /\ got[q][f] \in {Nobody, q}
    BY <1>0 DEF TierInv
  <2>1. CASE q = r
    BY <1>0, <1>1, <2>1 DEF TierInv
  <2>2. CASE q # r /\ tier[q] # "none"
    <3>1. req'[q] = req[q] /\ req[q].vm \in VMs /\ req[q].id \in Ids
      BY <1>1, <2>2 DEF TierInv, SnapshotsType
    <3>2. made[req[q].vm][req[q].id] # 0
      BY <2>2, <3>1 DEF UnusedInv, On
    <3>3. made'[req[q].vm][req[q].id] = 1 => made[req[q].vm][req[q].id] = 1
      BY <1>3, <3>1, <3>2
    <3> QED
      BY <2>2, <3>1, <3>3 DEF TierInv
  <2>3. CASE q # r /\ tier[q] = "none"
    BY <1>1, <2>3 DEF TierInv
  <2> QED
    BY <2>1, <2>2, <2>3
<1>9. LoadFindsSnapshot'
  <2> SUFFICES ASSUME NEW q \in Requests, req'[q].at = "load"
               PROVE  LET w == req[q].vm  i == req[q].id IN
                      /\ req'[q] = req[q]
                      /\ \A f \in SnapshotFiles : files[w][i][f] # Nobody
                      /\ (\A x \in VMs \ {w} : made'[x][i] = 0) => row[i] = w
    BY <1>0 DEF LoadFindsSnapshot
  <2>1. req'[q] = req[q] /\ req[q].vm \in VMs /\ req[q].id \in Ids
    BY <1>1 DEF SnapshotsType
  <2> QED
    BY <1>3, <2>1 DEF LoadFindsSnapshot
<1>10. RecordedIsWhole'
  <2> SUFFICES ASSUME NEW i \in Ids, row[i] # Nobody, i \notin doomed, made'[row[i]][i] = 1
               PROVE  OneCreate(files[row[i]][i])
    BY <1>0 DEF RecordedIsWhole, OneCreate
  <2>1. row[i] \in VMs /\ made[row[i]][i] # 0
    BY DEF SnapshotsType, UnusedInv
  <2>2. made[row[i]][i] = 1
    BY <1>3, <2>1
  <2> QED
    BY <2>2 DEF RecordedIsWhole
<1>11. TieredIsWhole'
  <2> SUFFICES ASSUME NEW w \in VMs, NEW i \in Ids, manifest[w][i] # NoFiles, made'[w][i] = 1
               PROVE  OneCreate(manifest[w][i])
    BY <1>0 DEF TieredIsWhole, OneCreate
  <2>1. made[w][i] # 0
    BY DEF UnusedInv
  <2>2. made[w][i] = 1
    BY <1>3, <2>1
  <2> QED
    BY <2>2 DEF TieredIsWhole
<1> QED
  BY <1>4, <1>5, <1>6, <1>7, <1>8, <1>9, <1>10, <1>11
\* Firecracker writes a file, or fails and the directory goes: nobody else
\* works on the VM, and a first create works on its own files.
LEMMA WritePreserves ==
  ASSUME SnapshotsInv, NEW r \in Requests,
         WriteFails(r) \/ \E f \in SnapshotFiles : WriteFile(r, f)
  PROVE  SnapshotsInv'
<1> USE DEF SnapshotsInv, At
<1> DEFINE v == req[r].vm
           i == req[r].id
<1>0. /\ req[r].at = "write" /\ v \in VMs /\ i \in Ids
      /\ UNCHANGED <<clock, exists, paused, holder, row, tier, got, manifest, made, doomed>>
  BY DEF WriteFails, WriteFile, SnapshotsType
<1>1. /\ req' \in [Requests -> [at : Labels, op : Ops \union {"none"}, vm : VMs \union {Nobody}, id : Ids]]
      /\ req'[r].at \in {"write", "unlock"}
      /\ \A q \in Requests : req'[q].op = req[q].op /\ req'[q].vm = req[q].vm /\ req'[q].id = req[q].id
      /\ \A q \in Requests \ {r} : req'[q].at = req[q].at
  <2>1. CASE WriteFails(r)
    <3>1. Go(r, "unlock")
      BY <2>1 DEF WriteFails
    <3> QED
      BY <3>1, GoEffect DEF Labels, Held
  <2>2. CASE \E f \in SnapshotFiles : WriteFile(r, f)
    BY <1>0, <2>2 DEF WriteFile, SnapshotsType
  <2> QED
    BY <2>1, <2>2
<1>2. /\ files' \in [VMs -> [Ids -> FileStates]]
      /\ \A f \in SnapshotFiles : files'[v][i][f] \in {Nobody, r, files[v][i][f]}
      /\ \A w \in VMs, j \in Ids : (w # v \/ j # i) => files'[w][j] = files[w][j]
  <2>1. \E c \in FileStates : /\ files' = [files EXCEPT ![v][i] = c]
                            /\ \A f \in SnapshotFiles : c[f] \in {Nobody, r, files[v][i][f]}
    <3>1. CASE WriteFails(r)
      BY <3>1, ConstantFacts DEF WriteFails
    <3>2. ASSUME NEW g \in SnapshotFiles, WriteFile(r, g)
          PROVE  \E c \in FileStates : /\ files' = [files EXCEPT ![v][i] = c]
                                     /\ \A f \in SnapshotFiles : c[f] \in {Nobody, r, files[v][i][f]}
      <4> DEFINE c == [files[v][i] EXCEPT ![g] = r]
      <4>1. files[v][i] \in FileStates
        BY <1>0 DEF SnapshotsType
      <4>2. c \in FileStates /\ \A f \in SnapshotFiles : c[f] \in {Nobody, r, files[v][i][f]}
        BY <4>1 DEF FileStates
      <4>3. files' = [files EXCEPT ![v][i] = c]
        BY <1>0, <3>2 DEF WriteFile, SnapshotsType
      <4> QED
        BY <4>2, <4>3
    <3> QED
      BY <3>1, <3>2
  <2>2. PICK c \in FileStates : /\ files' = [files EXCEPT ![v][i] = c]
                             /\ \A f \in SnapshotFiles : c[f] \in {Nobody, r, files[v][i][f]}
    BY <2>1
  <2>3. files \in [VMs -> [Ids -> FileStates]]
    BY DEF SnapshotsType
  <2>4. /\ files' \in [VMs -> [Ids -> FileStates]]
        /\ files'[v][i] = c
        /\ \A w \in VMs, j \in Ids : (w # v \/ j # i) => files'[w][j] = files[w][j]
    BY <1>0, <2>2, <2>3, CellEffect
  <2> QED
    BY <2>2, <2>4
<1>3. /\ made[v][i] # 0
      /\ made[v][i] = 1 => /\ row[i] # v /\ manifest[v][i] = NoFiles
                           /\ \A f \in SnapshotFiles : files'[v][i][f] \in {Nobody, r}
                           /\ \A q \in Requests : On(q, v, i) => tier[q] = "none"
      /\ \A q \in Requests \ {r} : req[q].at \in Held => req[q].vm # v
  <2>1. made[v][i] # 0
    BY <1>0 DEF UnusedInv, On
  <2>2. \A q \in Requests \ {r} : req[q].at \in Held => req[q].vm # v
    BY <1>0, Exclusive DEF Held
  <2>3. made[v][i] = 1 => /\ row[i] # v /\ manifest[v][i] = NoFiles
                          /\ \A f \in SnapshotFiles : files[v][i][f] \in {Nobody, r}
                          /\ \A q \in Requests : On(q, v, i) => tier[q] = "none"
    BY <1>0 DEF WritingInv
  <2> QED
    BY <1>2, <2>1, <2>2, <2>3
<1>4. SnapshotsType'
  BY <1>0, <1>1, <1>2 DEF SnapshotsType
<1>5. LockInv'
  BY <1>0, <1>1 DEF LockInv, Held
<1>6. UnusedInv'
  <2>1. \A w \in VMs, j \in Ids : made[w][j] = 0 => files'[w][j] = files[w][j]
    BY <1>2, <1>3
  <2>2. \A q \in Requests : \/ req'[q].at = req[q].at
                            \/ req'[q].at = "unlock"
    BY <1>0, <1>1
  <2> HIDE DEF v, i
  <2> QED
    BY <1>0, <1>1, <2>1, <2>2 DEF UnusedInv, On
<1>7. WritingInv'
  <2> SUFFICES ASSUME NEW q \in Requests, req'[q].at = "write", made[req[q].vm][req[q].id] = 1
               PROVE  LET w == req[q].vm  j == req[q].id IN
                      /\ row[j] # w /\ manifest[w][j] = NoFiles
                      /\ \A f \in SnapshotFiles : files'[w][j][f] \in {Nobody, q}
                      /\ \A x \in Requests : req[x].vm = w /\ req[x].id = j => tier[x] = "none"
    BY <1>0, <1>1 DEF WritingInv, On
  <2>1. CASE q = r
    BY <1>3, <2>1 DEF On
  <2>2. CASE q # r
    <3>1. req[q].at = "write" /\ req[q].vm # v /\ req[q].vm \in VMs /\ req[q].id \in Ids
      BY <1>1, <1>3, <2>2 DEF Held, SnapshotsType
    <3> QED
      BY <1>2, <3>1 DEF WritingInv, On
  <2> QED
    BY <2>1, <2>2
<1>8. TierInv'
  <2> SUFFICES ASSUME NEW q \in Requests
               PROVE  /\ req'[q].at \notin {"unlock", "done"} => tier[q] = "none"
                      /\ tier[q] = "none" => got[q] = NoFiles
                      /\ tier[q] # "none" =>
                           LET w == req[q].vm  j == req[q].id IN
                           made[w][j] = 1 =>
                             \A f \in SnapshotFiles : files'[w][j][f] \in {Nobody, q} /\ got[q][f] \in {Nobody, q}
    BY <1>0, <1>1 DEF TierInv
  <2>1. CASE q = r
    BY <1>0, <2>1 DEF TierInv
  <2>2. CASE q # r /\ tier[q] # "none" /\ made[req[q].vm][req[q].id] = 1
    <3>1. ~On(q, v, i) /\ req[q].vm \in VMs /\ req[q].id \in Ids
      BY <1>3, <2>2 DEF On, TierInv, SnapshotsType
    <3>2. files'[req[q].vm][req[q].id] = files[req[q].vm][req[q].id]
      BY <1>2, <3>1 DEF On
    <3> QED
      BY <1>1, <2>2, <3>2 DEF TierInv
  <2>3. CASE q # r /\ (tier[q] = "none" \/ made[req[q].vm][req[q].id] # 1)
    BY <1>1, <2>3 DEF TierInv
  <2> QED
    BY <2>1, <2>2, <2>3
<1>9. LoadFindsSnapshot'
  <2> SUFFICES ASSUME NEW q \in Requests, req'[q].at = "load"
               PROVE  LET w == req[q].vm  j == req[q].id IN
                      /\ \A f \in SnapshotFiles : files'[w][j][f] # Nobody
                      /\ (\A x \in VMs \ {w} : made[x][j] = 0) => row[j] = w
    BY <1>0, <1>1 DEF LoadFindsSnapshot
  <2>1. q # r /\ req[q].at = "load" /\ req[q].vm \in VMs /\ req[q].id \in Ids
    BY <1>1 DEF SnapshotsType
  <2>2. req[q].vm # v
    BY <1>3, <2>1 DEF Held
  <2> QED
    BY <1>2, <2>1, <2>2 DEF LoadFindsSnapshot
<1>10. RecordedIsWhole'
  <2> SUFFICES ASSUME NEW j \in Ids, row[j] # Nobody, j \notin doomed, made[row[j]][j] = 1
               PROVE  OneCreate(files'[row[j]][j])
    BY <1>0 DEF RecordedIsWhole, OneCreate
  <2>1. row[j] \in VMs /\ (row[j] # v \/ j # i)
    BY <1>3 DEF SnapshotsType
  <2> QED
    BY <1>2, <2>1 DEF RecordedIsWhole
<1>11. TieredIsWhole'
  BY <1>0 DEF TieredIsWhole, OneCreate
<1> QED
  BY <1>4, <1>5, <1>6, <1>7, <1>8, <1>9, <1>10, <1>11

\* The snapshot is recorded: both files are this create's.
LEMMA RecordPreserves ==
  ASSUME SnapshotsInv, NEW r \in Requests, RecordSnapshot(r)
  PROVE  SnapshotsInv'
<1> USE DEF SnapshotsInv, At
<1> DEFINE v == req[r].vm
           i == req[r].id
<1>0. /\ req[r].at = "write" /\ v \in VMs /\ i \in Ids
      /\ row[i] = Nobody
      /\ \A f \in SnapshotFiles : files[v][i][f] = r
      /\ row' = [row EXCEPT ![i] = v] /\ tier' = [tier EXCEPT ![r] = "waiting"]
      /\ doomed' = doomed \ {i}
      /\ UNCHANGED <<clock, exists, paused, holder, files, got, manifest, faults, made>>
  BY DEF RecordSnapshot, SnapshotsType
<1>1. /\ req' \in [Requests -> [at : Labels, op : Ops \union {"none"}, vm : VMs \union {Nobody}, id : Ids]]
      /\ req'[r].at = "unlock" /\ req'[r].op = req[r].op
      /\ req'[r].vm = v /\ req'[r].id = i
      /\ \A q \in Requests \ {r} : req'[q] = req[q]
  BY GoEffect DEF RecordSnapshot, Labels, Held
<1>2. /\ row' \in [Ids -> VMs \union {Nobody}]
      /\ row'[i] = v /\ \A j \in Ids \ {i} : row'[j] = row[j]
      /\ tier' \in [Requests -> {"none", "waiting", "uploading", "over"}]
      /\ tier'[r] = "waiting" /\ \A q \in Requests \ {r} : tier'[q] = tier[q]
      /\ tier[r] = "none" /\ got[r] = NoFiles
  BY <1>0 DEF SnapshotsType, TierInv
<1>3. /\ made[v][i] # 0
      /\ \A q \in Requests \ {r} : req[q].at \in Held => req[q].vm # v
  BY <1>0, Exclusive DEF UnusedInv, On, Held
<1>4. SnapshotsType'
  BY <1>0, <1>1, <1>2 DEF SnapshotsType
<1>5. LockInv'
  BY <1>0, <1>1 DEF LockInv, Held
<1>6. UnusedInv'
  <2> SUFFICES ASSUME NEW w \in VMs, NEW j \in Ids, made[w][j] = 0
               PROVE  /\ row'[j] # w
                      /\ files[w][j] = NoFiles /\ manifest[w][j] = NoFiles
                      /\ \A q \in Requests : req'[q].vm = w /\ req'[q].id = j =>
                           /\ req'[q].at # "write" /\ tier'[q] = "none"
                           /\ req'[q].at \notin {"delete", "deleterow", "load"}
                           /\ ~(req'[q].at = "lock" /\ req'[q].op = "delete")
    BY <1>0 DEF UnusedInv, On
  <2>1. w # v \/ j # i
    BY <1>3
  <2> QED
    BY <1>0, <1>1, <1>2, <2>1 DEF UnusedInv, On
<1>7. WritingInv'
  <2> SUFFICES ASSUME NEW q \in Requests, req'[q].at = "write", made[req'[q].vm][req'[q].id] = 1
               PROVE  LET w == req'[q].vm  j == req'[q].id IN
                      /\ row'[j] # w /\ manifest[w][j] = NoFiles
                      /\ \A f \in SnapshotFiles : files[w][j][f] \in {Nobody, q}
                      /\ \A x \in Requests : req'[x].vm = w /\ req'[x].id = j => tier'[x] = "none"
    BY <1>0 DEF WritingInv, On
  <2>1. q # r /\ req'[q] = req[q] /\ req[q].at = "write" /\ req[q].id \in Ids
    BY <1>1 DEF SnapshotsType
  <2>2. req[q].vm # v
    BY <1>3, <2>1 DEF Held
  <2> QED
    BY <1>1, <1>2, <2>1, <2>2 DEF WritingInv, On
<1>8. TierInv'
  <2>1. /\ got[r] = NoFiles
        /\ \A f \in SnapshotFiles : files[v][i][f] \in {Nobody, r} /\ got[r][f] \in {Nobody, r}
    BY <1>0, <1>2, ConstantFacts
  <2> QED
    BY <1>0, <1>1, <1>2, <2>1 DEF TierInv
<1>9. LoadFindsSnapshot'
  <2> SUFFICES ASSUME NEW q \in Requests, req'[q].at = "load"
               PROVE  LET w == req'[q].vm  j == req'[q].id IN
                      /\ \A f \in SnapshotFiles : files[w][j][f] # Nobody
                      /\ (\A x \in VMs \ {w} : made[x][j] = 0) => row'[j] = w
    BY <1>0 DEF LoadFindsSnapshot
  <2>1. q # r /\ req'[q] = req[q] /\ req[q].at = "load" /\ req[q].id \in Ids
    BY <1>1 DEF SnapshotsType
  <2>2. req[q].vm # v
    BY <1>3, <2>1 DEF Held
  <2> QED
    BY <1>0, <1>2, <1>3, <2>1, <2>2 DEF LoadFindsSnapshot
<1>10. RecordedIsWhole'
  <2> SUFFICES ASSUME NEW j \in Ids, row'[j] # Nobody, j \notin doomed', made[row'[j]][j] = 1
               PROVE  OneCreate(files[row'[j]][j])
    BY <1>0 DEF RecordedIsWhole, OneCreate
  <2>1. CASE j = i
    BY <1>0, <1>2, <2>1 DEF OneCreate
  <2>2. CASE j # i
    BY <1>0, <1>2, <2>2 DEF RecordedIsWhole
  <2> QED
    BY <2>1, <2>2
<1>11. TieredIsWhole'
  BY <1>0 DEF TieredIsWhole, OneCreate
<1> QED
  BY <1>4, <1>5, <1>6, <1>7, <1>8, <1>9, <1>10, <1>11
\* The steps of a delete, of a snapshot or of the VM: they take files and rows
\* away from the VM whose lock they hold, and doom what they take files from.
LEMMA DeletePreserves ==
  ASSUME SnapshotsInv, NEW r \in Requests,
         RemoveFiles(r) \/ DeleteSnapshotRow(r) \/ DeleteVMRow(r)
  PROVE  SnapshotsInv'
<1> USE DEF SnapshotsInv, At
<1> DEFINE v == req[r].vm
           i == req[r].id
<1>0. /\ req[r].at \in {"delete", "deleterow", "drop"} /\ v \in VMs /\ i \in Ids
      /\ UNCHANGED <<clock, holder, tier, got, manifest, made>>
  BY DEF RemoveFiles, DeleteSnapshotRow, DeleteVMRow, SnapshotsType
<1>1. /\ req' \in [Requests -> [at : Labels, op : Ops \union {"none"}, vm : VMs \union {Nobody}, id : Ids]]
      /\ (req'[r].at = "deleterow" /\ req[r].at = "delete") \/ req'[r].at = "unlock"
      /\ req'[r].op = req[r].op
      /\ req'[r].vm = v /\ req'[r].id = i
      /\ \A q \in Requests \ {r} : req'[q] = req[q]
  <2>1. (Go(r, "deleterow") /\ req[r].at = "delete") \/ Go(r, "unlock")
    BY DEF RemoveFiles, DeleteSnapshotRow, DeleteVMRow
  <2>2. "deleterow" \in Labels /\ "unlock" \in Labels
    BY DEF Labels, Held
  <2> QED
    BY <2>1, <2>2, GoEffect
<1>2. \A q \in Requests \ {r} : req[q].at \in Held => req[q].vm # v
  BY <1>0, Exclusive DEF Held, Ops
<1>3. /\ row' \in [Ids -> VMs \union {Nobody}]
      /\ \A j \in Ids : row'[j] \in {row[j], Nobody}
      /\ \A j \in Ids : row'[j] # row[j] => row[j] = v \/ (j = i /\ made[v][i] # 0)
  <2>1. CASE RemoveFiles(r)
    BY <2>1 DEF RemoveFiles, SnapshotsType
  <2>2. CASE DeleteSnapshotRow(r)
    <3>1. made[v][i] # 0
      BY <1>0, <2>2 DEF UnusedInv, On, DeleteSnapshotRow
    <3> QED
      BY <1>0, <2>2, <3>1 DEF DeleteSnapshotRow, SnapshotsType
  <2>3. CASE DeleteVMRow(r)
    BY <2>3 DEF DeleteVMRow, SnapshotsType
  <2> QED
    BY <2>1, <2>2, <2>3
<1>4. /\ files' \in [VMs -> [Ids -> FileStates]]
      /\ files'[v][i] \in {NoFiles, files[v][i]}
      /\ \A w \in VMs, j \in Ids : (w # v \/ j # i) => files'[w][j] = files[w][j]
      /\ files' # files => i \in doomed'
      /\ doomed \subseteq doomed'
  <2>1. files \in [VMs -> [Ids -> FileStates]] /\ NoFiles \in FileStates
    BY ConstantFacts DEF SnapshotsType
  <2>2. CASE files' = [files EXCEPT ![v][i] = NoFiles] /\ doomed' = doomed \union {i}
    <3>1. /\ files' \in [VMs -> [Ids -> FileStates]]
          /\ files'[v][i] = NoFiles
          /\ \A w \in VMs, j \in Ids : (w # v \/ j # i) => files'[w][j] = files[w][j]
      BY <1>0, <2>1, <2>2, CellEffect
    <3> QED
      BY <2>2, <3>1
  <2>3. CASE files' = files /\ (doomed' = doomed \union {i} \/ doomed' = doomed)
    BY <2>1, <2>3
  <2> QED
    BY <2>2, <2>3 DEF RemoveFiles, DeleteSnapshotRow, DeleteVMRow
<1>5. SnapshotsType'
  BY <1>0, <1>1, <1>3, <1>4 DEF SnapshotsType
<1>6. LockInv'
  BY <1>0, <1>1 DEF LockInv, Held, Ops
<1>7. UnusedInv'
  <2>1. \A w \in VMs, j \in Ids : files[w][j] = NoFiles => files'[w][j] = NoFiles
    BY <1>4
  <2>2. \A w \in VMs, j \in Ids : row[j] # w => row'[j] # w
    BY <1>3, SnapshotsAssumption
  <2> HIDE DEF v, i
  <2> QED
    BY <1>0, <1>1, <2>1, <2>2 DEF UnusedInv, On, v, i
<1>8. WritingInv'
  <2> SUFFICES ASSUME NEW q \in Requests, req'[q].at = "write", made[req'[q].vm][req'[q].id] = 1
               PROVE  LET w == req'[q].vm  j == req'[q].id IN
                      /\ row'[j] # w /\ manifest[w][j] = NoFiles
                      /\ \A f \in SnapshotFiles : files'[w][j][f] \in {Nobody, q}
                      /\ \A x \in Requests : req'[x].vm = w /\ req'[x].id = j => tier[x] = "none"
    BY <1>0 DEF WritingInv, On
  <2>1. q # r /\ req'[q] = req[q] /\ req[q].at = "write" /\ req[q].id \in Ids /\ req[q].vm \in VMs
    BY <1>1 DEF SnapshotsType
  <2>2. req[q].vm # v
    BY <1>2, <2>1 DEF Held
  <2>3. /\ row[req[q].id] # req[q].vm /\ manifest[req[q].vm][req[q].id] = NoFiles
        /\ \A f \in SnapshotFiles : files[req[q].vm][req[q].id][f] \in {Nobody, q}
        /\ \A x \in Requests : req[x].vm = req[q].vm /\ req[x].id = req[q].id => tier[x] = "none"
    BY <2>1 DEF WritingInv, On
  <2>4. row'[req[q].id] # req[q].vm
    BY <1>3, <2>1, <2>3, SnapshotsAssumption
  <2> QED
    <3>1. files'[req[q].vm][req[q].id] = files[req[q].vm][req[q].id]
      BY <1>4, <2>1, <2>2
    <3>2. \A x \in Requests : req'[x].vm = req[x].vm /\ req'[x].id = req[x].id
      BY <1>1
    <3> QED
      BY <2>1, <2>3, <2>4, <3>1, <3>2
<1>9. TierInv'
  <2> SUFFICES ASSUME NEW q \in Requests
               PROVE  /\ req'[q].at \notin {"unlock", "done"} => tier[q] = "none"
                      /\ tier[q] = "none" => got[q] = NoFiles
                      /\ tier[q] # "none" =>
                           LET w == req'[q].vm  j == req'[q].id IN
                           made[w][j] = 1 =>
                             \A f \in SnapshotFiles : files'[w][j][f] \in {Nobody, q} /\ got[q][f] \in {Nobody, q}
    BY <1>0 DEF TierInv
  <2>1. CASE q = r
    BY <1>0, <1>1, <2>1 DEF TierInv
  <2>2. CASE q # r
    <3>1. req'[q] = req[q]
      BY <1>1, <2>2
    <3>2. ASSUME tier[q] # "none"
          PROVE  \A f \in SnapshotFiles :
                   files'[req[q].vm][req[q].id][f] \in {Nobody, files[req[q].vm][req[q].id][f]}
      <4>1. req[q].vm \in VMs /\ req[q].id \in Ids
        BY <3>2 DEF TierInv, SnapshotsType
      <4> QED
        BY <1>4, <4>1, ConstantFacts
    <3> QED
      BY <3>1, <3>2 DEF TierInv
  <2> QED
    BY <2>1, <2>2
<1>10. LoadFindsSnapshot'
  <2> SUFFICES ASSUME NEW q \in Requests, req'[q].at = "load"
               PROVE  LET w == req'[q].vm  j == req'[q].id IN
                      /\ \A f \in SnapshotFiles : files'[w][j][f] # Nobody
                      /\ (\A x \in VMs \ {w} : made[x][j] = 0) => row'[j] = w
    BY <1>0 DEF LoadFindsSnapshot
  <2>1. q # r /\ req'[q] = req[q] /\ req[q].at = "load" /\ req[q].id \in Ids /\ req[q].vm \in VMs
    BY <1>1 DEF SnapshotsType
  <2>2. req[q].vm # v
    BY <1>2, <2>1 DEF Held
  <2>3. /\ \A f \in SnapshotFiles : files[req[q].vm][req[q].id][f] # Nobody
        /\ (\A x \in VMs \ {req[q].vm} : made[x][req[q].id] = 0) => row[req[q].id] = req[q].vm
    BY <2>1 DEF LoadFindsSnapshot
  <2>4. ASSUME \A x \in VMs \ {req[q].vm} : made[x][req[q].id] = 0
        PROVE  row'[req[q].id] = req[q].vm
    <3>1. made[v][req[q].id] = 0
      BY <1>0, <2>2, <2>4
    <3> QED
      BY <1>3, <2>1, <2>2, <2>3, <2>4, <3>1
  <2> QED
    BY <1>4, <2>1, <2>2, <2>3, <2>4
<1>11. RecordedIsWhole'
  <2> SUFFICES ASSUME NEW j \in Ids, row'[j] # Nobody, j \notin doomed', made[row'[j]][j] = 1
               PROVE  OneCreate(files'[row'[j]][j])
    BY <1>0 DEF RecordedIsWhole, OneCreate
  <2>1. row'[j] = row[j] /\ row[j] \in VMs /\ j \notin doomed
    BY <1>3, <1>4 DEF SnapshotsType
  <2>2. files'[row[j]][j] = files[row[j]][j]
    BY <1>4, <2>1
  <2> QED
    BY <2>1, <2>2 DEF RecordedIsWhole
<1>12. TieredIsWhole'
  BY <1>0 DEF TieredIsWhole, OneCreate
<1> QED
  BY <1>5, <1>6, <1>7, <1>8, <1>9, <1>10, <1>11, <1>12

\* A background job: it reads the directory of its create, without the lock.
LEMMA TierPreserves ==
  ASSUME SnapshotsInv, NEW r \in Requests, TierStep(r)
  PROVE  SnapshotsInv'
<1> USE DEF SnapshotsInv, At
<1> DEFINE v == req[r].vm
           i == req[r].id
<1>0. /\ tier[r] # "none"
      /\ UNCHANGED <<clock, exists, paused, req, holder, row, files, faults, made, doomed>>
  BY DEF TierStep, TakeSlot, TierFails, TierCommits, TierFile
<1>1. v \in VMs /\ i \in Ids
  BY <1>0 DEF TierInv, SnapshotsType
<1>2. /\ tier' \in [Requests -> {"none", "waiting", "uploading", "over"}]
      /\ tier'[r] # "none" /\ \A q \in Requests \ {r} : tier'[q] = tier[q]
  BY DEF TierStep, TakeSlot, TierFails, TierCommits, TierFile, SnapshotsType
<1>3. /\ got' \in [Requests -> FileStates]
      /\ \A f \in SnapshotFiles : got'[r][f] \in {got[r][f], files[v][i][f]}
      /\ \A q \in Requests \ {r} : got'[q] = got[q]
  <2>1. CASE got' = got
    BY <2>1 DEF SnapshotsType
  <2>2. ASSUME NEW f \in SnapshotFiles, TierFile(r, f)
        PROVE  /\ got' \in [Requests -> FileStates]
               /\ \A g \in SnapshotFiles : got'[r][g] \in {got[r][g], files[v][i][g]}
               /\ \A q \in Requests \ {r} : got'[q] = got[q]
    <3>1. files[v][i] \in FileStates /\ got[r] \in FileStates
      BY <1>1 DEF SnapshotsType
    <3>2. files[v][i][f] \in Requests \union {Nobody}
      BY <3>1 DEF FileStates
    <3>3. [got[r] EXCEPT ![f] = files[v][i][f]] \in FileStates
      BY <3>1, <3>2 DEF FileStates
    <3>4. got' = [got EXCEPT ![r] = [got[r] EXCEPT ![f] = files[v][i][f]]]
      BY <2>2 DEF TierFile, SnapshotsType
    <3>5. got' \in [Requests -> FileStates] /\ got'[r] = [got[r] EXCEPT ![f] = files[v][i][f]]
          /\ \A q \in Requests \ {r} : got'[q] = got[q]
      BY <3>3, <3>4 DEF SnapshotsType
    <3> QED
      BY <3>1, <3>5 DEF FileStates
  <2> QED
    BY <2>1, <2>2 DEF TierStep, TakeSlot, TierFails, TierCommits
<1>4. \/ manifest' = manifest
      \/ /\ manifest' = [manifest EXCEPT ![v][i] = got[r]]
         /\ \A f \in SnapshotFiles : got[r][f] # Nobody
  BY DEF TierStep, TakeSlot, TierFails, TierCommits, TierFile
<1>5. /\ manifest' \in [VMs -> [Ids -> FileStates]]
      /\ \A w \in VMs, j \in Ids : (w # v \/ j # i) => manifest'[w][j] = manifest[w][j]
      /\ \/ manifest'[v][i] = manifest[v][i]
         \/ manifest'[v][i] = got[r] /\ \A f \in SnapshotFiles : got[r][f] # Nobody
  <2>1. CASE manifest' = manifest
    BY <2>1 DEF SnapshotsType
  <2>2. CASE /\ manifest' = [manifest EXCEPT ![v][i] = got[r]]
             /\ \A f \in SnapshotFiles : got[r][f] # Nobody
    <3>1. got[r] \in FileStates /\ manifest \in [VMs -> [Ids -> FileStates]]
      BY DEF SnapshotsType
    <3> QED
      BY <1>1, <2>2, <3>1, CellEffect
  <2> QED
    BY <1>4, <2>1, <2>2
<1>6. made[v][i] # 0
  BY <1>0, <1>1 DEF UnusedInv, On
<1>7. SnapshotsType'
  BY <1>0, <1>2, <1>3, <1>5 DEF SnapshotsType
<1>8. LockInv' /\ LoadFindsSnapshot' /\ RecordedIsWhole'
  BY <1>0 DEF LockInv, LoadFindsSnapshot, RecordedIsWhole, OneCreate
<1>9. UnusedInv'
  <2> SUFFICES ASSUME NEW w \in VMs, NEW j \in Ids, made[w][j] = 0
               PROVE  /\ row[j] # w
                      /\ files[w][j] = NoFiles /\ manifest'[w][j] = NoFiles
                      /\ \A q \in Requests : req[q].vm = w /\ req[q].id = j =>
                           /\ req[q].at # "write" /\ tier'[q] = "none"
                           /\ req[q].at \notin {"delete", "deleterow", "load"}
                           /\ ~(req[q].at = "lock" /\ req[q].op = "delete")
    BY <1>0 DEF UnusedInv, On
  <2>1. w # v \/ j # i
    BY <1>6
  <2> QED
    BY <1>2, <1>5, <2>1 DEF UnusedInv, On
<1>10. WritingInv'
  <2> SUFFICES ASSUME NEW q \in Requests, req[q].at = "write", made[req[q].vm][req[q].id] = 1
               PROVE  LET w == req[q].vm  j == req[q].id IN
                      /\ row[j] # w /\ manifest'[w][j] = NoFiles
                      /\ \A f \in SnapshotFiles : files[w][j][f] \in {Nobody, q}
                      /\ \A x \in Requests : req[x].vm = w /\ req[x].id = j => tier'[x] = "none"
    BY <1>0 DEF WritingInv, On
  <2>1. ~On(r, req[q].vm, req[q].id) /\ req[q].vm \in VMs /\ req[q].id \in Ids
    BY <1>0 DEF WritingInv, SnapshotsType
  <2> QED
    BY <1>2, <1>5, <2>1 DEF WritingInv, On
<1>11. TierInv'
  <2>1. \A q \in Requests : tier[q] = "none" <=> tier'[q] = "none"
    BY <1>0, <1>2
  <2>2. \A q \in Requests \ {r} : got'[q] = got[q]
    BY <1>3
  <2>3. made[v][i] = 1 => \A f \in SnapshotFiles : got'[r][f] \in {Nobody, r}
    BY <1>0, <1>3 DEF TierInv
  <2> QED
    BY <1>0, <2>1, <2>2, <2>3 DEF TierInv
<1>12. TieredIsWhole'
  <2> SUFFICES ASSUME NEW w \in VMs, NEW j \in Ids, manifest'[w][j] # NoFiles, made[w][j] = 1
               PROVE  OneCreate(manifest'[w][j])
    BY <1>0 DEF TieredIsWhole, OneCreate
  <2>1. CASE manifest'[w][j] = manifest[w][j]
    BY <2>1 DEF TieredIsWhole
  <2>2. CASE manifest'[w][j] # manifest[w][j]
    <3>1. w = v /\ j = i /\ manifest'[w][j] = got[r] /\ \A f \in SnapshotFiles : got[r][f] # Nobody
      BY <1>5, <2>2
    <3>2. \A f \in SnapshotFiles : got[r][f] = r
      BY <1>0, <3>1 DEF TierInv
    <3> QED
      BY <3>1, <3>2 DEF OneCreate
  <2> QED
    BY <2>1, <2>2
<1> QED
  BY <1>7, <1>8, <1>9, <1>10, <1>11, <1>12

-----------------------------------------------------------------------------
LEMMA InitSnapshotsInv == SnapshotsInit => SnapshotsInv
<1> SUFFICES ASSUME SnapshotsInit PROVE SnapshotsInv
  OBVIOUS
<1> USE DEF SnapshotsInit, At, Idle
<1>1. SnapshotsType
  BY ConstantFacts DEF SnapshotsType, Labels
<1>2. LockInv /\ WritingInv /\ LoadFindsSnapshot
  BY DEF LockInv, WritingInv, LoadFindsSnapshot, Held, Ops
<1>3. UnusedInv
  BY SnapshotsAssumption DEF UnusedInv, On
<1>4. TierInv
  BY DEF TierInv
<1>5. RecordedIsWhole /\ TieredIsWhole
  BY DEF RecordedIsWhole, TieredIsWhole
<1> QED
  BY <1>1, <1>2, <1>3, <1>4, <1>5 DEF SnapshotsInv

LEMMA NextSnapshotsInv == SnapshotsInv /\ [SnapshotsNext]_snapshotVars => SnapshotsInv'
<1> SUFFICES ASSUME SnapshotsInv, [SnapshotsNext]_snapshotVars PROVE SnapshotsInv'
  OBVIOUS
<1>1. ASSUME NEW r \in Requests, NEW v \in VMs,
             \/ HandleCreateSnapshot(r, v) \/ HandleDeleteVM(r, v)
             \/ \E i \in Ids : ResumeFromSnapshot(r, v, i)
      PROVE  SnapshotsInv'
  BY <1>1, ReceivedPreserves, ConstantFacts
  DEF HandleCreateSnapshot, HandleDeleteVM, ResumeFromSnapshot, Ops
<1>2. ASSUME NEW r \in Requests, NEW i \in Ids, HandleDeleteSnapshot(r, i)
      PROVE  SnapshotsInv'
  <2>1. row[i] \in VMs /\ Received(r, "delete", row[i], i)
    BY <1>2 DEF HandleDeleteSnapshot, SnapshotsInv, SnapshotsType
  <2> QED
    BY <2>1, ReceivedPreserves DEF Ops
<1>3. ASSUME NEW r \in Requests, HandlerStep(r) PROVE SnapshotsInv'
  BY <1>3, MovePreserves, NamePreserves, WritePreserves, RecordPreserves, DeletePreserves
  DEF HandlerStep
<1>4. ASSUME NEW r \in Requests, TierStep(r) PROVE SnapshotsInv'
  BY <1>4, TierPreserves
<1>5. CASE Tick \/ \E v \in VMs : StopVM(v)
  <2>1. UNCHANGED <<holder, row, files, req, tier, got, manifest, made, doomed>> /\ clock' \in Ids
    BY <1>5, SnapshotsAssumption DEF Tick, StopVM, SnapshotsInv, SnapshotsType, Ids
  <2> QED
    BY <2>1 DEF SnapshotsInv, SnapshotsType, LockInv, UnusedInv, WritingInv, TierInv, On, At,
                LoadFindsSnapshot, RecordedIsWhole, TieredIsWhole, OneCreate
<1>6. CASE UNCHANGED snapshotVars
  BY <1>6 DEF SnapshotsInv, SnapshotsType, LockInv, UnusedInv, WritingInv, TierInv, On, At,
              LoadFindsSnapshot, RecordedIsWhole, TieredIsWhole, OneCreate
<1> QED
  BY <1>1, <1>2, <1>3, <1>4, <1>5, <1>6 DEF SnapshotsNext

\* A restore finds what it resolved until it has loaded it, whatever creates,
\* deletes and restores of any VMs run beside it (resumeVMFromSnapshot and
\* handleDeleteSnapshot, snapshot_handlers.go and vm_handlers.go).
THEOREM LoadIsProtected == SnapshotsSpec => []LoadFindsSnapshot
<1>1. SnapshotsInv => LoadFindsSnapshot
  BY DEF SnapshotsInv
<1> QED
  BY <1>1, InitSnapshotsInv, NextSnapshotsInv, PTL DEF SnapshotsSpec

\* A recorded snapshot, and what the tier has committed of one, is the pair of
\* files of one create (handleCreateSnapshot, tierSnapshot).
THEOREM SnapshotsStayWhole == SnapshotsSpec => []SnapshotsAreWhole
<1>1. SnapshotsInv => SnapshotsAreWhole
  BY DEF SnapshotsInv, SnapshotsAreWhole
<1> QED
  BY <1>1, InitSnapshotsInv, NextSnapshotsInv, PTL DEF SnapshotsSpec

-----------------------------------------------------------------------------
(* The object store                                                        *)

USE DEF Names, Content, putVars, getVars

\* The manifest a Get works from, the files it has staged and the files it has
\* moved agree at every point; nothing else of it is in the destination.
RestoreInvOf(g) ==
    /\ get[g] \in {"stage", "promote", "ok"} => pin[g] \in Puts
    /\ \A f \in Files : staged[g][f] \in {Absent, pin[g]}
    /\ get[g] = "idle" => \A f \in Files : staged[g][f] = Absent
    /\ get[g] \in {"idle", "stage"} => moved[g] = {}
    /\ get[g] = "promote" => \A f \in Files \ moved[g] : staged[g][f] = pin[g]
    /\ get[g] \in {"promote", "ok"} => \A f \in moved[g] : dest[g][f] = pin[g]
    /\ get[g] \in {"idle", "stage", "promote"} =>
         \A f \in Files \ moved[g] : dest[g][f] \in {Absent, Foreign}
    /\ get[g] = "ok" => moved[g] = Files
    /\ get[g] = "error" => \A f \in Files : dest[g][f] \in {Absent, Foreign}

RestoreInv == \A g \in Gets : RestoreInvOf(g)

\* No other Put has been called.
Alone(p) == \A q \in Puts \ {p} : put[q] = "idle"

Safe(p, f) == obj[f] = p /\ disk[f] = {p}

\* What a Put that is alone has stored is on disk before the manifest exists,
\* in any form that a power loss could bring out.
StoredInv(p) ==
    /\ \A n \in Names : obj[n] \in {p, Absent} /\ disk[n] \subseteq {p, Absent}
    /\ put[p] \in {"idle", "files"} => obj[Manifest] = Absent /\ disk[Manifest] = {Absent}
    /\ put[p] = "files" => \A f \in Files : /\ up[p][f] = "renamed" => obj[f] = p
                                           /\ up[p][f] = "done" => Safe(p, f)
    /\ put[p] = "manifest" \/ obj[Manifest] = p \/ p \in disk[Manifest] =>
         \A f \in Files : Safe(p, f)

CommitInv ==
    \A p \in Puts : /\ put[p] = "idle" => \A n \in Names : up[p][n] = "todo"
                    /\ Alone(p) => StoredInv(p)

-----------------------------------------------------------------------------
PutStates == {"idle", "files", "manifest", "ok", "error", "dead"}
UpStates == {"todo", "renamed", "done", "failed"}
GetStates == {"idle", "stage", "promote", "ok", "error", "dead"}

LEMMA UpType ==
  ASSUME TypeOK, NEW p \in Puts, NEW n \in Names, NEW s \in UpStates, SetUp(p, n, s)
  PROVE  /\ up' \in [Puts -> [Names -> UpStates]]
         /\ up'[p][n] = s
         /\ \A m \in Names \ {n} : up'[p][m] = up[p][m]
         /\ \A q \in Puts \ {p} : up'[q] = up[q]
BY DEF TypeOK, SetUp, UpStates

LEMMA OutcomeType ==
  ASSUME TypeOK, NEW p \in Puts, NEW n \in Names, NEW s \in {"ok", "error"}, Outcome(p, n, s)
  PROVE  put' \in [Puts -> PutStates]
BY DEF TypeOK, Outcome, PutStates

LEMMA StagedType ==
  ASSUME TypeOK, NEW g \in Gets, GetError(g)
  PROVE  get' \in [Gets -> GetStates] /\ staged' \in [Gets -> [Files -> Content]]
BY DEF TypeOK, GetError, GetStates

LEMMA NextTypeOK == TypeOK /\ [Next]_vars => TypeOK'
<1> SUFFICES ASSUME TypeOK, [Next]_vars PROVE TypeOK'
  OBVIOUS
<1> USE DEF PutStates, UpStates, GetStates
<1>1. ASSUME NEW p \in Puts, NEW n \in Names,
             \/ RenameObject(p, n) \/ UploadFails(p, n)
             \/ SyncDir(p, n) \/ SyncDirFails(p, n)
      PROVE  TypeOK'
  <2>1. up' \in [Puts -> [Names -> UpStates]]
    BY <1>1, UpType DEF RenameObject, UploadFails, SyncDir, SyncDirFails
  <2>2. put' \in [Puts -> PutStates]
    BY <1>1, OutcomeType DEF RenameObject, UploadFails, SyncDir, SyncDirFails, TypeOK
  <2>3. obj' \in [Names -> Content]
    <3>1. obj' = obj \/ \E c \in Content : obj' = [obj EXCEPT ![n] = c]
      BY <1>1 DEF RenameObject, UploadFails, SyncDir, SyncDirFails
    <3> QED
      BY <3>1 DEF TypeOK
  <2>4. disk' \in [Names -> SUBSET Content]
    <3>1. CASE SyncDir(p, n)
      BY <3>1 DEF SyncDir, TypeOK
    <3>2. CASE RenameObject(p, n) \/ UploadFails(p, n) \/ SyncDirFails(p, n)
      <4>1. disk' = disk \/ \E c \in Content : disk' = [disk EXCEPT ![n] = @ \union {c}]
        BY <3>2 DEF RenameObject, UploadFails, SyncDirFails
      <4> QED
        BY <4>1 DEF TypeOK
    <3> QED
      BY <1>1, <3>1, <3>2
  <2> QED
    BY <1>1, <2>1, <2>2, <2>3, <2>4
    DEF RenameObject, UploadFails, SyncDir, SyncDirFails, TypeOK
<1>2. ASSUME NEW p \in Puts, PutBegins(p) \/ FilesJoin(p) PROVE TypeOK'
  BY <1>2 DEF PutBegins, FilesJoin, TypeOK
<1>3. ASSUME NEW g \in Gets, ReadManifest(g) \/ StagingComplete(g) \/ GetReturns(g)
      PROVE  TypeOK'
  BY <1>3 DEF ReadManifest, StagingComplete, GetReturns, TypeOK
<1>4. ASSUME NEW g \in Gets, GetFails(g) PROVE TypeOK'
  BY <1>4, StagedType DEF GetFails, TypeOK
<1>5. ASSUME NEW g \in Gets, PromoteFails(g) PROVE TypeOK'
  <2>1. dest' \in [Gets -> [Files -> Content \union {Foreign}]]
    BY <1>5 DEF PromoteFails, TypeOK
  <2> QED
    BY <1>5, <2>1, StagedType DEF PromoteFails, TypeOK
<1>6. ASSUME NEW g \in Gets, NEW f \in Files, GetFile(g, f) PROVE TypeOK'
  <2>1. staged' \in [Gets -> [Files -> Content]]
    BY <1>6 DEF GetFile, TypeOK
  <2> QED
    BY <1>6, <2>1 DEF GetFile, TypeOK
<1>7. ASSUME NEW g \in Gets, NEW f \in Files, PromoteFile(g, f) PROVE TypeOK'
  <2>1. staged' \in [Gets -> [Files -> Content]]
    BY <1>7 DEF PromoteFile, TypeOK
  <2>2. dest' \in [Gets -> [Files -> Content \union {Foreign}]]
    BY <1>7 DEF PromoteFile, TypeOK
  <2>3. moved' \in [Gets -> SUBSET Files]
    BY <1>7 DEF PromoteFile, TypeOK
  <2> QED
    BY <1>7, <2>1, <2>2, <2>3 DEF PromoteFile, TypeOK
<1>8. CASE DaemonCrashes \/ PowerFails
  <2>1. put' \in [Puts -> PutStates] /\ get' \in [Gets -> GetStates]
    BY <1>8 DEF DaemonCrashes, PowerFails, CallsDie, TypeOK
  <2>2. crashes' \in 0 .. MaxCrashes
    BY <1>8, StoreAssumption DEF DaemonCrashes, PowerFails, Crash, TypeOK
  <2>3. obj' \in [Names -> Content] /\ disk' \in [Names -> SUBSET Content]
    BY <1>8 DEF DaemonCrashes, PowerFails, TypeOK
  <2> QED
    BY <1>8, <2>1, <2>2, <2>3 DEF DaemonCrashes, PowerFails, TypeOK
<1>9. CASE UNCHANGED vars
  BY <1>9 DEF vars, TypeOK
<1> QED
  BY <1>1, <1>2, <1>3, <1>4, <1>5, <1>6, <1>7, <1>8, <1>9 DEF Next, PutStep, GetStep

THEOREM TypeCorrect == Spec => []TypeOK
<1>1. Init => TypeOK
  BY StoreAssumption DEF Init, TypeOK
<1> QED
  BY <1>1, NextTypeOK, PTL DEF Spec

-----------------------------------------------------------------------------
\* A Get works on its own state only.
LEMMA OtherGets ==
  ASSUME TypeOK, NEW g \in Gets, GetStep(g)
  PROVE  \A h \in Gets \ {g} :
           /\ get'[h] = get[h] /\ pin'[h] = pin[h] /\ staged'[h] = staged[h]
           /\ moved'[h] = moved[h] /\ dest'[h] = dest[h]
BY DEF GetStep, ReadManifest, GetFails, StagingComplete, GetFile, PromoteFile,
       PromoteFails, GetReturns, GetError, TypeOK

LEMMA RestoreStep ==
  ASSUME TypeOK, RestoreInv, [Next]_vars
  PROVE  RestoreInv'
<1>1. ASSUME NEW g \in Gets, GetStep(g) PROVE RestoreInv'
  <2>0. RestoreInvOf(g)
    BY DEF RestoreInv
  <2>8. SUFFICES RestoreInvOf(g)'
    <3>1. ASSUME NEW h \in Gets \ {g} PROVE RestoreInvOf(h)'
      BY <1>1, OtherGets DEF RestoreInv, RestoreInvOf
    <3> QED
      BY <3>1 DEF RestoreInv
  <2>1. CASE ReadManifest(g)
    <3>1. pin'[g] \in Puts /\ get'[g] = "stage"
      BY <2>1 DEF ReadManifest, TypeOK
    <3> QED
      BY <2>0, <2>1, <3>1 DEF ReadManifest, RestoreInvOf
  <2>2. CASE GetFails(g)
    <3>1. get'[g] = "error" /\ \A f \in Files : staged'[g][f] = Absent
      BY <2>2 DEF GetFails, GetError, TypeOK
    <3> QED
      BY <2>0, <2>2, <3>1 DEF GetFails, RestoreInvOf
  <2>3. CASE StagingComplete(g)
    <3>1. get'[g] = "promote"
      BY <2>3 DEF StagingComplete, TypeOK
    <3> QED
      BY <2>0, <2>3, <3>1 DEF StagingComplete, RestoreInvOf
  <2>4. ASSUME NEW f \in Files, GetFile(g, f) PROVE RestoreInvOf(g)'
    <3>1. /\ staged'[g][f] = pin[g]
          /\ \A e \in Files \ {f} : staged'[g][e] = staged[g][e]
      BY <2>4 DEF GetFile, TypeOK
    <3> QED
      BY <2>0, <2>4, <3>1 DEF GetFile, RestoreInvOf
  <2>5. ASSUME NEW f \in Files, PromoteFile(g, f) PROVE RestoreInvOf(g)'
    <3>1. /\ dest'[g][f] = staged[g][f] /\ staged'[g][f] = Absent
          /\ \A e \in Files \ {f} : /\ staged'[g][e] = staged[g][e]
                                   /\ dest'[g][e] = dest[g][e]
          /\ moved'[g] = moved[g] \union {f}
      BY <2>5 DEF PromoteFile, TypeOK
    <3>2. staged[g][f] = pin[g]
      BY <2>0, <2>5 DEF PromoteFile, RestoreInvOf
    <3> QED
      BY <2>0, <2>5, <3>1, <3>2 DEF PromoteFile, RestoreInvOf
  <2>6. CASE PromoteFails(g)
    <3>1. get'[g] = "error" /\ \A f \in Files : staged'[g][f] = Absent
      BY <2>6 DEF PromoteFails, GetError, TypeOK
    <3>2. \A f \in Files : dest'[g][f] \in {Absent, Foreign}
      BY <2>0, <2>6 DEF PromoteFails, RestoreInvOf, TypeOK
    <3> QED
      BY <3>1, <3>2 DEF RestoreInvOf
  <2>7. CASE GetReturns(g)
    <3>1. get'[g] = "ok"
      BY <2>7 DEF GetReturns, TypeOK
    <3> QED
      BY <2>0, <2>7, <3>1 DEF GetReturns, RestoreInvOf
  <2> QED
    BY <1>1, <2>1, <2>2, <2>3, <2>4, <2>5, <2>6, <2>7 DEF GetStep
<1>2. ASSUME NEW p \in Puts, PutStep(p) PROVE RestoreInv'
  <2>1. UNCHANGED getVars
    BY <1>2 DEF PutStep, PutBegins, FilesJoin, RenameObject, UploadFails, SyncDir,
                SyncDirFails
  <2> QED
    BY <2>1 DEF RestoreInv, RestoreInvOf
<1>3. CASE DaemonCrashes \/ PowerFails
  <2>1. /\ \A g \in Gets : get'[g] = get[g] \/ get'[g] = "dead"
        /\ UNCHANGED <<pin, staged, moved, dest>>
    BY <1>3 DEF DaemonCrashes, PowerFails, CallsDie
  <2> QED
    BY <2>1 DEF RestoreInv, RestoreInvOf
<1>4. CASE UNCHANGED vars
  BY <1>4 DEF vars, RestoreInv, RestoreInvOf
<1> QED
  BY <1>1, <1>2, <1>3, <1>4 DEF Next

\* Whatever other Puts do to the objects meanwhile, a Get delivers the files of
\* one Put, or leaves the destination as it was.
THEOREM RestoreIsAllOrNothing == Spec => []RestoreAllOrNothing
<1>1. Init => RestoreInv
  BY DEF Init, RestoreInv, RestoreInvOf
<1>2. TypeOK /\ RestoreInv /\ [Next]_vars => RestoreInv'
  BY RestoreStep
<1>3. RestoreInv => RestoreAllOrNothing
  BY DEF RestoreInv, RestoreInvOf, RestoreAllOrNothing
<1> QED
  BY <1>1, <1>2, <1>3, TypeCorrect, PTL DEF Spec

\* The one rename of a Get goes to a name that is free, and its roll-back removes
\* only what it has moved, which is of a Put (promoteRestored).
THEOREM ForeignFilesStay == Spec => ForeignFilesKept
<1> DEFINE Kept == \A g \in Gets, f \in Files :
                     dest[g][f] = Foreign => dest'[g][f] = Foreign
<1>1. TypeOK /\ RestoreInv /\ [Next]_vars => Kept
  <2> SUFFICES ASSUME TypeOK, RestoreInv, [Next]_vars,
                      NEW g \in Gets, NEW f \in Files, dest[g][f] = Foreign
               PROVE  dest'[g][f] = Foreign
    OBVIOUS
  <2>1. ASSUME NEW h \in Gets, NEW e \in Files, PromoteFile(h, e)
        PROVE  dest'[g][f] = Foreign
    BY <2>1, StoreAssumption DEF PromoteFile, TypeOK
  <2>2. ASSUME NEW h \in Gets, PromoteFails(h) PROVE dest'[g][f] = Foreign
    <3>1. h = g => f \notin moved[g]
      BY <2>2, StoreAssumption DEF PromoteFails, RestoreInv, RestoreInvOf
    <3> QED
      BY <2>2, <3>1 DEF PromoteFails, TypeOK
  <2>3. CASE UNCHANGED dest
    BY <2>3
  <2> QED
    BY <2>1, <2>2, <2>3
    DEF Next, PutStep, PutBegins, FilesJoin, RenameObject, UploadFails, SyncDir,
        SyncDirFails, GetStep, ReadManifest, GetFails, StagingComplete, GetFile,
        GetReturns, DaemonCrashes, PowerFails, vars
<1>2. Init => RestoreInv
  BY DEF Init, RestoreInv, RestoreInvOf
<1>3. TypeOK /\ RestoreInv /\ [Next]_vars => RestoreInv'
  BY RestoreStep
<1>4. TypeOK /\ RestoreInv /\ [Next]_vars => [Kept]_vars
  BY <1>1
<1> QED
  BY <1>2, <1>3, <1>4, TypeCorrect, PTL DEF Spec, ForeignFilesKept

-----------------------------------------------------------------------------
\* A Put is never idle again.
LEMMA NotIdleAgain ==
  ASSUME TypeOK, [Next]_vars, NEW q \in Puts, put[q] # "idle"
  PROVE  put'[q] # "idle"
<1>1. ASSUME NEW p \in Puts, PutStep(p) PROVE put'[q] # "idle"
  BY <1>1 DEF PutStep, PutBegins, FilesJoin, RenameObject, UploadFails, SyncDir,
              SyncDirFails, Outcome, TypeOK
<1>2. ASSUME NEW g \in Gets, GetStep(g) PROVE put'[q] # "idle"
  BY <1>2 DEF GetStep, ReadManifest, GetFails, StagingComplete, GetFile, PromoteFile,
              PromoteFails, GetReturns
<1>3. CASE DaemonCrashes \/ PowerFails
  BY <1>3 DEF DaemonCrashes, PowerFails, CallsDie
<1> QED
  BY <1>1, <1>2, <1>3 DEF Next, vars

\* A step of Put p, alone, on one of its objects.
LEMMA ObjectStep ==
  ASSUME TypeOK, NEW p \in Puts, StoredInv(p), NEW n \in Names,
         \/ RenameObject(p, n) \/ UploadFails(p, n)
         \/ SyncDir(p, n) \/ SyncDirFails(p, n)
  PROVE  StoredInv(p)'
<1> USE DEF Safe
<1>1. p # Absent /\ Manifest \notin Files
  BY StoreAssumption
<1>2. /\ up'[p][n] \in UpStates
      /\ \A m \in Names \ {n} : up'[p][m] = up[p][m]
  BY UpType DEF RenameObject, UploadFails, SyncDir, SyncDirFails, UpStates
<1>3. CASE RenameObject(p, n)
  <2>1. /\ obj'[n] = p /\ disk'[n] = disk[n] \union {p} /\ up'[p][n] = "renamed"
        /\ \A m \in Names \ {n} : obj'[m] = obj[m] /\ disk'[m] = disk[m]
        /\ put' = put
    BY <1>3, UpType DEF RenameObject, TypeOK, UpStates
  <2>2. CASE n = Manifest
    <3>1. put[p] = "manifest"
      BY <1>3, <2>2 DEF RenameObject, Turn
    <3> QED
      BY <1>1, <1>2, <2>1, <2>2, <3>1 DEF StoredInv
  <2>3. CASE n \in Files
    <3>1. put[p] = "files"
      BY <1>1, <1>3, <2>3 DEF RenameObject, Turn
    <3> QED
      BY <1>1, <1>2, <2>1, <2>3, <3>1 DEF StoredInv
  <2> QED
    BY <2>2, <2>3
<1>4. CASE UploadFails(p, n)
  <2>1. obj' = obj /\ disk' = disk /\ up'[p][n] = "failed"
    BY <1>4, UpType DEF UploadFails, UpStates
  <2>2. IF n = Manifest THEN put[p] = "manifest" /\ put'[p] = "error"
                        ELSE put[p] = "files" /\ put'[p] = "files"
    BY <1>4 DEF UploadFails, Turn, Outcome, TypeOK
  <2> QED
    BY <1>1, <1>2, <2>1, <2>2 DEF StoredInv
<1>5. CASE SyncDir(p, n)
  <2>1. /\ obj' = obj /\ \A m \in Names : disk'[m] = {obj[m]}
        /\ up[p][n] = "renamed" /\ up'[p][n] = "done"
    BY <1>5, UpType DEF SyncDir, UpStates
  <2>2. IF n = Manifest THEN put[p] = "manifest" /\ put'[p] = "ok"
                        ELSE put[p] = "files" /\ put'[p] = "files"
    BY <1>5 DEF SyncDir, Turn, Outcome, TypeOK
  <2> QED
    BY <1>1, <1>2, <2>1, <2>2 DEF StoredInv
<1>6. CASE SyncDirFails(p, n)
  <2>1. /\ obj'[n] \in {obj[n], Absent} /\ up'[p][n] = "failed"
        /\ disk'[n] = disk[n] \/ disk'[n] = disk[n] \union {Absent}
        /\ \A m \in Names \ {n} : obj'[m] = obj[m] /\ disk'[m] = disk[m]
    BY <1>6, UpType DEF SyncDirFails, TypeOK, UpStates
  <2>2. IF n = Manifest THEN put[p] = "manifest" /\ put'[p] = "error"
                        ELSE put[p] = "files" /\ put'[p] = "files"
    BY <1>6 DEF SyncDirFails, Turn, Outcome, TypeOK
  <2> QED
    BY <1>1, <1>2, <2>1, <2>2 DEF StoredInv
<1> QED
  BY <1>3, <1>4, <1>5, <1>6

LEMMA StoredStep ==
  ASSUME TypeOK, CommitInv, [Next]_vars, NEW p \in Puts, Alone(p)'
  PROVE  StoredInv(p)'
<1> USE DEF Safe
<1>1. Alone(p) /\ StoredInv(p)
  BY NotIdleAgain DEF Alone, CommitInv
<1>2. ASSUME NEW q \in Puts, PutStep(q) PROVE StoredInv(p)'
  <2>1. q = p
    <3>1. put[q] # "idle" \/ put'[q] # "idle"
      BY <1>2 DEF PutStep, PutBegins, FilesJoin, RenameObject, UploadFails, SyncDir,
                  SyncDirFails, Turn, TypeOK
    <3> QED
      BY <1>1, <3>1 DEF Alone
  <2>2. ASSUME NEW n \in Names,
               \/ RenameObject(p, n) \/ UploadFails(p, n)
               \/ SyncDir(p, n) \/ SyncDirFails(p, n)
        PROVE  StoredInv(p)'
    BY <1>1, <2>2, ObjectStep
  <2>3. CASE PutBegins(p)
    <3>1. put'[p] = "files" /\ put[p] = "idle" /\ \A n \in Names : up[p][n] = "todo"
      BY <2>3 DEF PutBegins, TypeOK, CommitInv
    <3> QED
      BY <1>1, <2>3, <3>1 DEF PutBegins, StoredInv
  <2>4. CASE FilesJoin(p)
    <3>1. /\ put[p] = "files" /\ put'[p] \in {"manifest", "error"}
          /\ put'[p] = "manifest" => \A f \in Files : up[p][f] = "done"
      BY <2>4 DEF FilesJoin, TypeOK
    <3> QED
      BY <1>1, <2>4, <3>1 DEF FilesJoin, StoredInv
  <2> QED
    BY <1>2, <2>1, <2>2, <2>3, <2>4 DEF PutStep
<1>3. ASSUME NEW g \in Gets, GetStep(g) PROVE StoredInv(p)'
  <2>1. UNCHANGED putVars
    BY <1>3 DEF GetStep, ReadManifest, GetFails, StagingComplete, GetFile, PromoteFile,
                PromoteFails, GetReturns
  <2> QED
    BY <1>1, <2>1 DEF StoredInv
<1>4. CASE DaemonCrashes \/ PowerFails
  <2>1. (put'[p] = put[p] /\ put[p] \notin {"files", "manifest"}) \/ put'[p] = "dead"
    BY <1>4 DEF DaemonCrashes, PowerFails, CallsDie
  <2>2. CASE DaemonCrashes
    BY <1>1, <2>1, <2>2 DEF DaemonCrashes, StoredInv
  <2>3. CASE PowerFails
    <3>1. PICK o \in [Names -> Content] :
            /\ \/ \A n \in Names : o[n] \in disk[n]
               \/ \A n \in Names : o[n] = Absent
            /\ obj' = o /\ disk' = [n \in Names |-> {o[n]}]
      BY <2>3 DEF PowerFails
    <3>2. p # Absent
      BY StoreAssumption
    <3> QED
      BY <1>1, <2>1, <3>1, <3>2 DEF StoredInv
  <2> QED
    BY <1>4, <2>2, <2>3
<1>5. CASE UNCHANGED vars
  BY <1>1, <1>5 DEF vars, StoredInv
<1> QED
  BY <1>2, <1>3, <1>4, <1>5 DEF Next

LEMMA CommitStep ==
  ASSUME TypeOK, CommitInv, [Next]_vars
  PROVE  CommitInv'
<1>1. ASSUME NEW p \in Puts, put'[p] = "idle" PROVE \A n \in Names : up'[p][n] = "todo"
  <2>1. put[p] = "idle"
    BY <1>1, NotIdleAgain
  <2>2. up'[p] = up[p]
    <3>1. ASSUME NEW q \in Puts, NEW n \in Names,
                 \/ RenameObject(q, n) \/ UploadFails(q, n)
                 \/ SyncDir(q, n) \/ SyncDirFails(q, n)
          PROVE  up'[p] = up[p]
      <4>1. q # p
        BY <2>1, <3>1 DEF RenameObject, UploadFails, SyncDir, SyncDirFails, Turn
      <4> QED
        BY <3>1, <4>1, UpType DEF RenameObject, UploadFails, SyncDir, SyncDirFails, UpStates
    <3>2. ASSUME NEW q \in Puts, PutBegins(q) \/ FilesJoin(q) PROVE up' = up
      BY <3>2 DEF PutBegins, FilesJoin
    <3>3. ASSUME NEW g \in Gets, GetStep(g) PROVE up' = up
      BY <3>3 DEF GetStep, ReadManifest, GetFails, StagingComplete, GetFile, PromoteFile,
                  PromoteFails, GetReturns
    <3>4. CASE DaemonCrashes \/ PowerFails \/ UNCHANGED vars
      BY <3>4 DEF DaemonCrashes, PowerFails, vars
    <3> QED
      BY <3>1, <3>2, <3>3, <3>4 DEF Next, PutStep
  <2> QED
    BY <2>1, <2>2 DEF CommitInv
<1> QED
  BY <1>1, StoredStep DEF CommitInv

\* The manifest is a commit marker that survives crashes and power losses.
THEOREM ManifestCommits == Spec => []CommittedIsComplete
<1>1. Init => CommitInv
  BY StoreAssumption DEF Init, CommitInv, StoredInv
<1>2. TypeOK /\ CommitInv /\ [Next]_vars => CommitInv'
  BY CommitStep
<1>3. CommitInv => CommittedIsComplete
  BY DEF CommitInv, StoredInv, Alone, Safe, CommittedIsComplete
<1> QED
  BY <1>1, <1>2, <1>3, TypeCorrect, PTL DEF Spec
=============================================================================
