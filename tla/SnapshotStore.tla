---------------------------- MODULE SnapshotStore ----------------------------
(***************************************************************************)
(* The object tier for snapshots (internal/snapshotstore): TieredStore.Put *)
(* uploads the files of a snapshot in parallel and writes the manifest     *)
(* last; Get reads the manifest, downloads and verifies the files into a   *)
(* staging directory and then moves them to their destination.             *)
(*                                                                         *)
(* The model is about one snapshot id.  The content of an object is        *)
(* identified by the Put that wrote it: all that Get does with content is  *)
(* compare it with the digests in the manifest, and the manifest of Put p  *)
(* has the digests of p's files.  Compression is transparent, names and    *)
(* sizes that Put and Get refuse at once are no steps.                     *)
(***************************************************************************)
EXTENDS Naturals, FiniteSets

CONSTANTS
  Files,        \* the files of the snapshot: vm.snap and mem.snap
  Manifest,     \* the name of the object manifest.json
  Puts, Gets,   \* calls of Put and of Get for this id
  Absent,       \* "no such file"
  Foreign,      \* a file that was at a destination before the Get
  MaxCrashes    \* bound: crashes of the daemon and power losses

ASSUME StoreAssumption == /\ Files # {} /\ IsFiniteSet(Files)
                          /\ Manifest \notin Files
                          /\ Absent \notin Puts /\ Foreign \notin Puts
                          /\ Absent # Foreign
                          /\ MaxCrashes \in Nat

Names == Files \union {Manifest}

Content == Puts \union {Absent}

VARIABLES
  obj,       \* the objects below <root>/<id>, as a process sees them
  disk,      \* per object: what a power loss may leave of it
  put, up,   \* per Put: where it is, and how far each object is
  get,       \* per Get: where it is
  pin,       \* per Get: whose manifest it has read
  staged,    \* per Get: the files in its staging directory
  moved,     \* per Get: the files it has moved to the destination
  dest,      \* per Get: its destination directory
  crashes

vars == <<obj, disk, put, up, get, pin, staged, moved, dest, crashes>>

putVars == <<obj, disk, put, up>>
getVars == <<get, pin, staged, moved, dest>>

-----------------------------------------------------------------------------
(***************************************************************************)
(* FSBlob.Put: the bytes go to a temporary file, which is synced and       *)
(* renamed; then the directory is synced.  Between the two the object is   *)
(* visible but may not survive.                                            *)
(***************************************************************************)

\* Put p is to store object n now: the manifest when all files are stored.
Turn(p, n) == put[p] = IF n = Manifest THEN "manifest" ELSE "files"

SetUp(p, n, s) == up' = [up EXCEPT ![p][n] = s]

\* The outcome of the last object decides how Put returns.
Outcome(p, n, s) == put' = IF n = Manifest THEN [put EXCEPT ![p] = s] ELSE put

RenameObject(p, n) ==
    /\ Turn(p, n) /\ up[p][n] = "todo"
    /\ obj' = [obj EXCEPT ![n] = p]
    /\ disk' = [disk EXCEPT ![n] = @ \union {p}]
    /\ SetUp(p, n, "renamed")
    /\ UNCHANGED <<put, getVars, crashes>>

\* Mutation of SyncDir: Put relies on the rename alone.
SyncDirSkipped(p, n) ==
    /\ Turn(p, n) /\ up[p][n] = "renamed"
    /\ SetUp(p, n, "done")
    /\ Outcome(p, n, "ok")
    /\ UNCHANGED <<obj, disk, getVars, crashes>>

\* fsyncDir: every entry of the directory is on disk as it is now.
SyncDir(p, n) ==
    /\ Turn(p, n) /\ up[p][n] = "renamed"
    /\ disk' = [m \in Names |-> {obj[m]}]
    /\ SetUp(p, n, "done")
    /\ Outcome(p, n, "ok")
    /\ UNCHANGED <<obj, getVars, crashes>>

\* The sync fails: whatever has the object's name now is removed, if it can be.
SyncDirFails(p, n) ==
    /\ Turn(p, n) /\ up[p][n] = "renamed"
    /\ \/ /\ obj' = [obj EXCEPT ![n] = Absent]
          /\ disk' = [disk EXCEPT ![n] = @ \union {Absent}]
       \/ UNCHANGED <<obj, disk>>
    /\ SetUp(p, n, "failed")
    /\ Outcome(p, n, "error")
    /\ UNCHANGED <<getVars, crashes>>

\* Anything before the rename fails, or the context was cancelled by then.
UploadFails(p, n) ==
    /\ Turn(p, n) /\ up[p][n] = "todo"
    /\ SetUp(p, n, "failed")
    /\ Outcome(p, n, "error")
    /\ UNCHANGED <<obj, disk, getVars, crashes>>

(***************************************************************************)
(* TieredStore.Put: one goroutine per file, then g.Wait, then the manifest. *)
(***************************************************************************)
PutBegins(p) ==
    /\ put[p] = "idle"
    /\ put' = [put EXCEPT ![p] = "files"]
    /\ UNCHANGED <<obj, disk, up, getVars, crashes>>

FilesJoin(p) ==
    /\ put[p] = "files"
    /\ \A f \in Files : up[p][f] \in {"done", "failed"}
    /\ put' = [put EXCEPT ![p] = IF \A f \in Files : up[p][f] = "done"
                                   THEN "manifest" ELSE "error"]
    /\ UNCHANGED <<obj, disk, up, getVars, crashes>>

-----------------------------------------------------------------------------
(***************************************************************************)
(* TieredStore.Get.  The destination of each Get is its own; the order of  *)
(* the manifest's list, in which files are moved, is left open.            *)
(***************************************************************************)

\* Get returns an error; the staging directory is removed.
GetError(g) == /\ get' = [get EXCEPT ![g] = "error"]
               /\ staged' = [staged EXCEPT ![g] = [f \in Files |-> Absent]]

ReadManifest(g) ==
    /\ get[g] = "idle"
    /\ obj[Manifest] # Absent
    /\ get' = [get EXCEPT ![g] = "stage"]
    /\ pin' = [pin EXCEPT ![g] = obj[Manifest]]
    /\ UNCHANGED <<putVars, staged, moved, dest, crashes>>

\* Mutation of GetFile: what has been downloaded is not verified.
GetFileUnverified(g, f) ==
    /\ get[g] = "stage" /\ staged[g][f] = Absent
    /\ obj[f] # Absent
    /\ staged' = [staged EXCEPT ![g][f] = obj[f]]
    /\ UNCHANGED <<putVars, get, pin, moved, dest, crashes>>

\* getFile: size and digest must be the ones in the manifest.
GetFile(g, f) ==
    /\ get[g] = "stage" /\ staged[g][f] = Absent
    /\ obj[f] # Absent /\ obj[f] = pin[g]
    /\ staged' = [staged EXCEPT ![g][f] = obj[f]]
    /\ UNCHANGED <<putVars, get, pin, moved, dest, crashes>>

\* No manifest, an object that is missing or does not verify, or a local error.
GetFails(g) ==
    /\ get[g] \in {"idle", "stage"}
    /\ GetError(g)
    /\ UNCHANGED <<putVars, pin, moved, dest, crashes>>

StagingComplete(g) ==
    /\ get[g] = "stage"
    /\ \A f \in Files : staged[g][f] # Absent
    /\ get' = [get EXCEPT ![g] = "promote"]
    /\ UNCHANGED <<putVars, pin, staged, moved, dest, crashes>>

\* Mutation of PromoteFile: no Lstat before the rename.
PromoteFileOver(g, f) ==
    /\ get[g] = "promote" /\ f \in Files \ moved[g]
    /\ dest' = [dest EXCEPT ![g][f] = staged[g][f]]
    /\ staged' = [staged EXCEPT ![g][f] = Absent]
    /\ moved' = [moved EXCEPT ![g] = @ \union {f}]
    /\ UNCHANGED <<putVars, get, pin, crashes>>

\* promoteRestored: Lstat, then rename.
PromoteFile(g, f) ==
    /\ get[g] = "promote" /\ f \in Files \ moved[g]
    /\ dest[g][f] = Absent
    /\ dest' = [dest EXCEPT ![g][f] = staged[g][f]]
    /\ staged' = [staged EXCEPT ![g][f] = Absent]
    /\ moved' = [moved EXCEPT ![g] = @ \union {f}]
    /\ UNCHANGED <<putVars, get, pin, crashes>>

\* Mutation of PromoteFails: the files already moved stay.
PromoteFailsWithoutRollback(g) ==
    /\ get[g] = "promote" /\ moved[g] # Files
    /\ GetError(g)
    /\ UNCHANGED <<putVars, pin, moved, dest, crashes>>

\* The name is taken, or Lstat or the rename fails: what was moved is removed
\* (which, right after the rename, is taken to succeed).
PromoteFails(g) ==
    /\ get[g] = "promote" /\ moved[g] # Files
    /\ dest' = [dest EXCEPT ![g] =
                  [f \in Files |-> IF f \in moved[g] THEN Absent ELSE dest[g][f]]]
    /\ GetError(g)
    /\ UNCHANGED <<putVars, pin, moved, crashes>>

GetReturns(g) ==
    /\ get[g] = "promote" /\ moved[g] = Files
    /\ get' = [get EXCEPT ![g] = "ok"]
    /\ UNCHANGED <<putVars, pin, staged, moved, dest, crashes>>

-----------------------------------------------------------------------------
\* The daemon ends: its calls go no further.
CallsDie == /\ put' = [p \in Puts |-> IF put[p] \in {"files", "manifest"}
                                        THEN "dead" ELSE put[p]]
            /\ get' = [g \in Gets |-> IF get[g] \in {"stage", "promote"}
                                        THEN "dead" ELSE get[g]]

Crash == crashes < MaxCrashes /\ crashes' = crashes + 1

\* Temporary files stay behind, which nobody looks at.
DaemonCrashes ==
    /\ Crash /\ CallsDie
    /\ UNCHANGED <<obj, disk, up, pin, staged, moved, dest>>

\* The host goes down.  An entry that was not synced is there or not, the entry
\* of the directory <root>/<id>, which no Put syncs, included.
PowerFails ==
    /\ Crash /\ CallsDie
    /\ \E o \in [Names -> Content] :
         /\ \/ \A n \in Names : o[n] \in disk[n]
            \/ \A n \in Names : o[n] = Absent
         /\ obj' = o
         /\ disk' = [n \in Names |-> {o[n]}]
    /\ UNCHANGED <<up, pin, staged, moved, dest>>

-----------------------------------------------------------------------------
Init == /\ obj = [n \in Names |-> Absent]
        /\ disk = [n \in Names |-> {Absent}]
        /\ put = [p \in Puts |-> "idle"]
        /\ up = [p \in Puts |-> [n \in Names |-> "todo"]]
        /\ get = [g \in Gets |-> "idle"]
        /\ pin = [g \in Gets |-> Absent]
        /\ staged = [g \in Gets |-> [f \in Files |-> Absent]]
        /\ moved = [g \in Gets |-> {}]
        /\ dest \in [Gets -> [Files -> {Absent, Foreign}]]
        /\ crashes = 0

PutStep(p) ==
    \/ PutBegins(p) \/ FilesJoin(p)
    \/ \E n \in Names : \/ RenameObject(p, n) \/ UploadFails(p, n)
                        \/ SyncDir(p, n) \/ SyncDirFails(p, n)

GetStep(g) ==
    \/ ReadManifest(g) \/ GetFails(g) \/ StagingComplete(g)
    \/ \E f \in Files : GetFile(g, f) \/ PromoteFile(g, f)
    \/ PromoteFails(g) \/ GetReturns(g)

Next == \/ \E p \in Puts : PutStep(p)
        \/ \E g \in Gets : GetStep(g)
        \/ DaemonCrashes \/ PowerFails

Spec == Init /\ [][Next]_vars

-----------------------------------------------------------------------------
\* Type invariant.
TypeOK ==
    /\ obj \in [Names -> Content]
    /\ disk \in [Names -> SUBSET Content]
    /\ put \in [Puts -> {"idle", "files", "manifest", "ok", "error", "dead"}]
    /\ up \in [Puts -> [Names -> {"todo", "renamed", "done", "failed"}]]
    /\ get \in [Gets -> {"idle", "stage", "promote", "ok", "error", "dead"}]
    /\ pin \in [Gets -> Content]
    /\ staged \in [Gets -> [Files -> Content]]
    /\ moved \in [Gets -> SUBSET Files]
    /\ dest \in [Gets -> [Files -> Content \union {Foreign}]]
    /\ crashes \in 0 .. MaxCrashes

\* The manifest is a commit marker: as long as one Put at most has been called
\* for the id, a manifest that is there has all its files, however that Put
\* failed, and after any crash or power loss (store.go Put, blob.go Put).
CommittedIsComplete ==
    \A p \in Puts :
        obj[Manifest] = p /\ (\A q \in Puts \ {p} : put[q] = "idle")
          => \A f \in Files : obj[f] = p

\* A Get that returns the manifest has restored every file, all from the same
\* Put, although other Puts for the id may have replaced some of the objects
\* meanwhile; one that returns an error has left nothing of its own behind
\* (store.go Get, getFile, promoteRestored).
RestoreAllOrNothing ==
    \A g \in Gets :
        /\ get[g] = "ok" => \E p \in Puts : \A f \in Files : dest[g][f] = p
        /\ get[g] = "error" => \A f \in Files : dest[g][f] \in {Absent, Foreign}

\* A restore never overwrites or removes a file it did not create
\* (promoteRestored).
ForeignFilesKept ==
    [][\A g \in Gets, f \in Files : dest[g][f] = Foreign => dest'[g][f] = Foreign]_vars
==============================================================================
