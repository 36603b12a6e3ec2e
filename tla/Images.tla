-------------------------------- MODULE Images --------------------------------
(***************************************************************************)
(* Images and pull jobs: the handlers that start pulls and delete images   *)
(* (internal/api/image_handlers.go), the registry client and the builder   *)
(* that turns an image into a root file system (internal/registry,         *)
(* internal/builder/docker.go), the tables images and image_pull_jobs, and *)
(* how the creation of a VM uses an image.                                 *)
(*                                                                         *)
(* One image reference is pulled; the registry may move it from one digest *)
(* to another.  The content of a file is the digest of the image it was    *)
(* made from.  Commands that a job runs end, if need be by the timeout of  *)
(* its context.                                                            *)
(***************************************************************************)
EXTENDS Naturals, FiniteSets

CONSTANTS
  Jobs, Digests, Creates, Deletes,
  NoImage,        \* no row, no file, no digest
  QueueSize,      \* capacity of the progress channel
  MaxImageFaults  \* bound: failing writes of the database

ASSUME ImagesAssumption == /\ NoImage \notin Digests \union {"completed", "failed"}
                           /\ QueueSize \in Nat \ {0} /\ MaxImageFaults \in Nat

VARIABLES
  provider,   \* the runtime manages images itself (vmm.ImageProvider)
  latest,     \* the digest the reference stands for in the registry
  refMoved,      \* history: the reference has moved
  images,     \* table images: the digests with a row
  tar,        \* per digest directory: rootfs.tar
  rootfs,     \* per digest directory: rootfs.ext4
  jobRow,     \* table image_pull_jobs: state of each job
  jobMem,     \* the state in the record that job and progress writer share
  job,        \* per job: where it is
  want,       \* per job: the digest it has resolved
  have,       \* per job: the image the container runtime has for it
  queue,      \* per job: progress messages in the channel
  writer,     \* per job: the progress writer, "run" or "over"
  create,     \* per VM create: where it is and the image it uses
  delete,     \* per image delete: where it is, its digest, and the VMs it has seen
  imageFaults,
  spoiled     \* history: digests whose directory a second pull has used

jobVars == <<jobRow, jobMem, job, want, have, queue, writer>>
fileVars == <<tar, rootfs, spoiled>>
imageVars == <<provider, latest, refMoved, images, fileVars, jobVars, create, delete, imageFaults>>

Final == {"completed", "failed"}

SetJob(j, s) == job' = [job EXCEPT ![j] = s]

ImageFault == imageFaults < MaxImageFaults /\ imageFaults' = imageFaults + 1

ImagesInit ==
  /\ provider \in BOOLEAN /\ latest \in Digests /\ refMoved = FALSE
  /\ images = {}
  /\ tar = [d \in Digests |-> NoImage] /\ rootfs = [d \in Digests |-> NoImage]
  /\ jobRow = [j \in Jobs |-> NoImage] /\ jobMem = [j \in Jobs |-> NoImage]
  /\ job = [j \in Jobs |-> "idle"]
  /\ want = [j \in Jobs |-> NoImage] /\ have = [j \in Jobs |-> NoImage]
  /\ queue = [j \in Jobs |-> 0] /\ writer = [j \in Jobs |-> "over"]
  /\ create = [c \in Creates |-> [at |-> "idle", image |-> NoImage]]
  /\ delete = [x \in Deletes |-> [at |-> "idle", image |-> NoImage, saw |-> {}]]
  /\ imageFaults = 0 /\ spoiled = {}

-----------------------------------------------------------------------------
(* The job row and the progress writer                                     *)

\* handleImagePull: the row is inserted and the job starts in the background.
HandleImagePull(j) ==
  /\ job[j] = "idle"
  /\ jobRow' = [jobRow EXCEPT ![j] = "pending"]
  /\ jobMem' = [jobMem EXCEPT ![j] = "pending"]
  /\ SetJob(j, "begin")
  /\ UNCHANGED <<provider, latest, refMoved, images, fileVars, want, have, queue, writer, create, delete, imageFaults>>

\* The row becomes in_progress and the writer starts; if that fails the job is dropped.
BeginJob(j) ==
  /\ job[j] = "begin"
  /\ jobMem' = [jobMem EXCEPT ![j] = "in_progress"]
  /\ \/ /\ jobRow' = [jobRow EXCEPT ![j] = "in_progress"]
        /\ writer' = [writer EXCEPT ![j] = "run"]
        /\ SetJob(j, IF provider THEN "close" ELSE "fetch")
        /\ UNCHANGED imageFaults
     \/ /\ ImageFault /\ SetJob(j, "over") /\ UNCHANGED <<jobRow, writer>>
  /\ UNCHANGED <<provider, latest, refMoved, images, fileVars, want, have, queue, create, delete>>

\* Mutant: the writer does not see the last message of a full channel.
WriteProgressOnce(j) ==
  /\ writer[j] = "run" /\ queue[j] > 0 /\ queue[j] < QueueSize
  /\ queue' = [queue EXCEPT ![j] = @ - 1]
  /\ jobRow' = [jobRow EXCEPT ![j] = jobMem[j]]
  /\ UNCHANGED <<provider, latest, refMoved, images, fileVars, jobMem, job, want, have, writer, create, delete, imageFaults>>

\* The writer saves the shared record with the next progress message in it.
WriteProgress(j) ==
  /\ writer[j] = "run" /\ queue[j] > 0
  /\ queue' = [queue EXCEPT ![j] = @ - 1]
  /\ \/ jobRow' = [jobRow EXCEPT ![j] = jobMem[j]] /\ UNCHANGED imageFaults
     \/ ImageFault /\ UNCHANGED jobRow
  /\ UNCHANGED <<provider, latest, refMoved, images, fileVars, jobMem, job, want, have, writer, create, delete>>

\* The channel is closed and empty: the writer ends.
WriterEnds(j) ==
  /\ writer[j] = "run" /\ queue[j] = 0 /\ job[j] \in {"close", "fail"}
  /\ writer' = [writer EXCEPT ![j] = "over"]
  /\ UNCHANGED <<provider, latest, refMoved, images, fileVars, jobRow, jobMem, job, want, have, queue, create, delete, imageFaults>>

\* A step that reports progress blocks while the channel is full.
Report(j) == queue[j] < QueueSize /\ queue' = [queue EXCEPT ![j] = @ + 1]

-----------------------------------------------------------------------------
(* Client.PullImage and DockerBuilder.Extract                              *)

\* The manifest tells the digest; the directory of that digest is made or used.
FetchManifest(j) ==
  /\ job[j] = "fetch" /\ Report(j)
  /\ want' = [want EXCEPT ![j] = latest]
  /\ spoiled' = IF \E k \in Jobs \ {j} : want[k] = latest THEN spoiled \union {latest} ELSE spoiled
  /\ SetJob(j, "pull")
  /\ UNCHANGED <<provider, latest, refMoved, images, tar, rootfs, jobRow, jobMem, have, writer, create, delete, imageFaults>>

\* The container runtime pulls the reference, not the digest, a second time.
PullByReference(j) ==
  /\ job[j] = "pull" /\ Report(j)
  /\ have' = [have EXCEPT ![j] = latest]
  /\ SetJob(j, "export")
  /\ UNCHANGED <<provider, latest, refMoved, images, fileVars, jobRow, jobMem, want, writer, create, delete, imageFaults>>

ExportFilesystem(j) ==
  /\ job[j] = "export" /\ Report(j)
  /\ tar' = [tar EXCEPT ![want[j]] = have[j]]
  /\ SetJob(j, "format")
  /\ UNCHANGED <<provider, latest, refMoved, images, rootfs, spoiled, jobRow, jobMem, want, have, writer, create, delete, imageFaults>>

\* The kernel is found, or the fallback taken; the file is zeroed and formatted in place.
FormatRootfs(j) ==
  /\ job[j] = "format" /\ Report(j)
  /\ rootfs' = [rootfs EXCEPT ![want[j]] = NoImage]
  /\ SetJob(j, "unpack")
  /\ UNCHANGED <<provider, latest, refMoved, images, tar, spoiled, jobRow, jobMem, want, have, writer, create, delete, imageFaults>>

\* Mutant: the archive is removed first, and an empty file system is a success.
UnpackRootfsLate(j) ==
  /\ job[j] = "unpack" /\ Report(j)
  /\ tar' = [tar EXCEPT ![want[j]] = NoImage]
  /\ SetJob(j, "close")
  /\ UNCHANGED <<provider, latest, refMoved, images, rootfs, spoiled, jobRow, jobMem, want, have, writer, create, delete, imageFaults>>

\* The archive is unpacked into the mounted file and then removed.
UnpackRootfs(j) ==
  /\ job[j] = "unpack" /\ tar[want[j]] # NoImage /\ Report(j)
  /\ rootfs' = [rootfs EXCEPT ![want[j]] = tar[want[j]]]
  /\ tar' = [tar EXCEPT ![want[j]] = NoImage]
  /\ SetJob(j, "close")
  /\ UNCHANGED <<provider, latest, refMoved, images, spoiled, jobRow, jobMem, want, have, writer, create, delete, imageFaults>>

\* Any of these commands fails or the timeout ends it; after the export the archive is removed.
PullFails(j) ==
  /\ job[j] \in {"fetch", "pull", "export", "format", "unpack"}
  /\ tar' = IF job[j] \in {"format", "unpack"} THEN [tar EXCEPT ![want[j]] = NoImage] ELSE tar
  /\ SetJob(j, "fail")
  /\ UNCHANGED <<provider, latest, refMoved, images, rootfs, spoiled, jobRow, jobMem, want, have, queue, writer, create, delete, imageFaults>>

-----------------------------------------------------------------------------
(* The end of executePullJob                                               *)

\* A runtime that manages images resolves the reference itself.
ResolveByRuntime(j) ==
  /\ provider /\ job[j] = "close" /\ writer[j] = "over" /\ want[j] = NoImage
  /\ \/ want' = [want EXCEPT ![j] = latest] /\ UNCHANGED job
     \/ SetJob(j, "fail") /\ UNCHANGED want
  /\ UNCHANGED <<provider, latest, refMoved, images, fileVars, jobRow, jobMem, have, queue, writer, create, delete, imageFaults>>

\* The image is saved: UpsertImage for the runtime's images, else an INSERT that
\* fails when there is a row with this digest.
SaveImage(j) ==
  /\ job[j] = "close" /\ writer[j] = "over" /\ want[j] # NoImage
  /\ \/ /\ provider \/ want[j] \notin images
        /\ images' = images \union {want[j]} /\ SetJob(j, "complete") /\ UNCHANGED imageFaults
     \/ /\ ~provider /\ want[j] \in images
        /\ SetJob(j, "fail") /\ UNCHANGED <<images, imageFaults>>
     \/ ImageFault /\ SetJob(j, "fail") /\ UNCHANGED images
  /\ UNCHANGED <<provider, latest, refMoved, fileVars, jobRow, jobMem, want, have, queue, writer, create, delete>>

\* Mutant: the final state is written while the progress writer still runs.
FinishJobAtOnce(j) ==
  /\ job[j] \in {"complete", "fail"}
  /\ LET s == IF job[j] = "complete" THEN "completed" ELSE "failed" IN
     /\ jobMem' = IF writer[j] = "over" THEN [jobMem EXCEPT ![j] = s] ELSE jobMem
     /\ jobRow' = [jobRow EXCEPT ![j] = s]
  /\ SetJob(j, "over")
  /\ UNCHANGED <<provider, latest, refMoved, images, fileVars, want, have, queue, writer, create, delete, imageFaults>>

\* The final state is written when the writer has ended; a failing write is only logged.
FinishJob(j) ==
  /\ job[j] \in {"complete", "fail"} /\ writer[j] = "over"
  /\ LET s == IF job[j] = "complete" THEN "completed" ELSE "failed" IN
     /\ jobMem' = [jobMem EXCEPT ![j] = s]
     /\ \/ jobRow' = [jobRow EXCEPT ![j] = s] /\ UNCHANGED imageFaults
        \/ ImageFault /\ UNCHANGED jobRow
  /\ SetJob(j, "over")
  /\ UNCHANGED <<provider, latest, refMoved, images, fileVars, want, have, queue, writer, create, delete>>

-----------------------------------------------------------------------------
(* Users of images                                                         *)

\* validateAndResolveImage: the reference or digest is looked up.
ResolveForCreate(c, d) ==
  /\ create[c].at = "idle" /\ d \in images
  /\ create' = [create EXCEPT ![c] = [at |-> "copy", image |-> d]]
  /\ UNCHANGED <<provider, latest, refMoved, images, fileVars, jobVars, delete, imageFaults>>

\* copyFileAtomic makes the VM's own disk of the image, and the VM's row is inserted.
InsertVM(c) ==
  /\ create[c].at = "copy"
  /\ create' = [create EXCEPT ![c].at = "vm"]
  /\ UNCHANGED <<provider, latest, refMoved, images, fileVars, jobVars, delete, imageFaults>>

VMRows == {c \in Creates : create[c].at = "vm"}

\* Mutant: the handler does not look for VMs.
CheckImageUnusedNot(x, d) ==
  /\ delete[x].at = "idle"
  /\ delete' = [delete EXCEPT ![x] = [at |-> "delete", image |-> d, saw |-> VMRows]]
  /\ UNCHANGED <<provider, latest, refMoved, images, fileVars, jobVars, create, imageFaults>>

\* handleDeleteImage: no VM uses the image ...
CheckImageUnused(x, d) ==
  /\ delete[x].at = "idle" /\ \A c \in VMRows : create[c].image # d
  /\ delete' = [delete EXCEPT ![x] = [at |-> "delete", image |-> d, saw |-> VMRows]]
  /\ UNCHANGED <<provider, latest, refMoved, images, fileVars, jobVars, create, imageFaults>>

\* ... and its row goes; the files stay.
DeleteImage(x) ==
  /\ delete[x].at = "delete"
  /\ images' = images \ {delete[x].image}
  /\ delete' = [delete EXCEPT ![x].at = "over"]
  /\ UNCHANGED <<provider, latest, refMoved, fileVars, jobVars, create, imageFaults>>

\* Somebody pushes a new image under the same reference.
MoveReference(d) ==
  /\ ~refMoved /\ d # latest /\ latest' = d /\ refMoved' = TRUE
  /\ UNCHANGED <<provider, images, fileVars, jobVars, create, delete, imageFaults>>

JobStep(j) ==
  \/ BeginJob(j) \/ WriteProgress(j) \/ WriterEnds(j)
  \/ FetchManifest(j) \/ PullByReference(j) \/ ExportFilesystem(j) \/ FormatRootfs(j)
  \/ UnpackRootfs(j) \/ PullFails(j)
  \/ ResolveByRuntime(j) \/ SaveImage(j) \/ FinishJob(j)

ImagesNext ==
  \/ \E j \in Jobs : HandleImagePull(j) \/ JobStep(j)
  \/ \E c \in Creates : InsertVM(c) \/ \E d \in Digests : ResolveForCreate(c, d)
  \/ \E x \in Deletes : DeleteImage(x) \/ \E d \in Digests : CheckImageUnused(x, d)
  \/ \E d \in Digests : MoveReference(d)

\* Jobs and their progress writers run on; the requests of users are not forced.
ImagesFairness == \A j \in Jobs : WF_imageVars(JobStep(j))

-----------------------------------------------------------------------------
(***************************************************************************)
(* A job that is over stays completed or failed: no progress message that  *)
(* was on its way is written over the final state (the wait for the writer *)
(* in executePullJob, image_handlers.go:289).                              *)
(***************************************************************************)
FinalStateStays ==
  [][\A j \in Jobs : jobRow[j] \in Final => jobRow'[j] = jobRow[j]]_imageVars

(***************************************************************************)
(* A registered image has the root file system of its own digest, when its *)
(* directory served one pull only and the reference did not move meanwhile *)
(* (the container runtime pulls by reference; directories are shared).     *)
(***************************************************************************)
RegisteredIsBuilt ==
  ~provider /\ ~refMoved => \A d \in images \ spoiled : rootfs[d] = d

(***************************************************************************)
(* An image that a VM uses is only lost to a delete that looked for VMs    *)
(* before that VM had a row: a VM that was there keeps its image.          *)
(***************************************************************************)
InUseIsKept ==
  \A c \in VMRows : create[c].image \notin images =>
    \E x \in Deletes : delete[x].image = create[c].image /\ c \notin delete[x].saw

(***************************************************************************)
(* Every job is answered with completed or failed, unless a write of its   *)
(* row failed: the full progress channel blocks nobody for ever, and the   *)
(* writer ends when the channel is closed.                                 *)
(***************************************************************************)
PullJobEnds ==
  []<>((\A j \in Jobs : jobRow[j] \in Final \union {NoImage}) \/ imageFaults > 0)
===============================================================================
