---------------------------- MODULE ImagesProofs ----------------------------
(***************************************************************************)
(* Proofs about modules Images, for any number of pull jobs, digests, VM   *)
(* creates and image deletes, and LayerBuild, for any number of builds,    *)
(* manifests and contents; and for any number of failing writes.           *)
(***************************************************************************)
EXTENDS Images, LayerBuild, FiniteSetTheorems, WellFoundedInduction, TLAPS

USE DEF jobVars, fileVars, imageVars

ImagesSpec == ImagesInit /\ [][ImagesNext]_imageVars

Building == {"pull", "export", "format", "unpack"}

JobLabels == Building \union {"idle", "begin", "fetch", "close", "complete", "fail", "over"}

ImagesType ==
  /\ provider \in BOOLEAN /\ refMoved \in BOOLEAN /\ latest \in Digests
  /\ images \subseteq Digests /\ spoiled \subseteq Digests
  /\ tar \in [Digests -> Digests \union {NoImage}]
  /\ rootfs \in [Digests -> Digests \union {NoImage}]
  /\ jobRow \in [Jobs -> Final \union {NoImage, "pending", "in_progress"}]
  /\ jobMem \in [Jobs -> Final \union {NoImage, "pending", "in_progress"}]
  /\ job \in [Jobs -> JobLabels]
  /\ want \in [Jobs -> Digests \union {NoImage}]
  /\ have \in [Jobs -> Digests \union {NoImage}]
  /\ writer \in [Jobs -> {"run", "over"}]
  /\ create \in [Creates -> [at : {"idle", "copy", "vm"}, image : Digests \union {NoImage}]]
  /\ delete \in [Deletes -> [at : {"idle", "delete", "over"}, image : Digests \union {NoImage},
                              saw : SUBSET Creates]]

\* The final state is written last: a job with one is over, and so is its writer;
\* the record they share gets it no earlier.
FinalInv ==
  \A j \in Jobs : /\ jobRow[j] \in Final \/ jobMem[j] \in Final => job[j] = "over"
                  /\ job[j] \in {"idle", "begin", "over"} => writer[j] = "over"

\* Only an idle create or delete has no image.
NamedInv ==
  /\ \A c \in Creates : create[c].at # "idle" => create[c].image # NoImage
  /\ \A x \in Deletes : delete[x].at = "idle" => delete[x].image = NoImage

\* A delete has seen only VMs that use another image.
SeenInv ==
  \A x \in Deletes : \A c \in delete[x].saw :
    create[c].at = "vm" /\ create[c].image # delete[x].image

\* InUseIsKept, for a create that has not inserted its row yet as well.
KeptInv ==
  \A c \in Creates : create[c].at # "idle" /\ create[c].image \notin images =>
    \E x \in Deletes : delete[x].image = create[c].image /\ c \notin delete[x].saw

UsersInv == NamedInv /\ SeenInv /\ KeptInv

\* While the reference stands still there is one digest: every job wants it, has
\* it, and puts it where it belongs.
OneDigestInv ==
  /\ \A j \in Jobs : want[j] \in {NoImage, latest} /\ have[j] \in {NoImage, latest}
  /\ \A j \in Jobs : /\ job[j] \in {"idle", "begin", "fetch"} => want[j] = NoImage
                     /\ job[j] \in Building \union {"close", "complete"} => want[j] = latest
                     /\ job[j] \in {"export", "format", "unpack"} => have[j] = latest
  /\ \A d \in Digests : tar[d] \in {NoImage, d} /\ rootfs[d] \in {NoImage, d}

\* A directory that is not spoiled has one user, who has filled it before the
\* image is registered and does not touch it afterwards.
DirectoryInv ==
  \A d \in Digests \ spoiled :
    /\ \A j, k \in Jobs : want[j] = d /\ want[k] = d => j = k
    /\ \A j \in Jobs : want[j] = d /\ job[j] \in {"close", "complete"} => rootfs[d] = d
    /\ d \in images => /\ rootfs[d] = d
                       /\ \E j \in Jobs : want[j] = d
                       /\ \A j \in Jobs : want[j] = d => job[j] \in {"complete", "over"}

BuiltInv == ~provider /\ ~refMoved => OneDigestInv /\ DirectoryInv

ImagesInv == ImagesType /\ FinalInv /\ UsersInv /\ BuiltInv
-----------------------------------------------------------------------------
USE DEF SetJob, Final, Building, JobLabels, ImageFault, Report

\* From here on a fault is any step that may fail; how often does not matter.
LEMMA JobType ==
  ASSUME ImagesType, NEW j \in Jobs, HandleImagePull(j) \/ JobStep(j)
  PROVE  ImagesType'
<1>1. CASE HandleImagePull(j)
  BY <1>1 DEF HandleImagePull, ImagesType
<1>2. CASE BeginJob(j)
  BY <1>2 DEF BeginJob, ImagesType
<1>3. CASE WriteProgress(j) \/ WriterEnds(j)
  BY <1>3 DEF WriteProgress, WriterEnds, ImagesType
<1>4. CASE FetchManifest(j) \/ PullByReference(j)
  BY <1>4 DEF FetchManifest, PullByReference, ImagesType
<1>5. CASE ExportFilesystem(j) \/ FormatRootfs(j)
  BY <1>5 DEF ExportFilesystem, FormatRootfs, ImagesType
<1>6. CASE UnpackRootfs(j)
  <2>1. want[j] \in Digests => tar[want[j]] \in Digests \union {NoImage}
    BY DEF ImagesType
  <2>2. rootfs' \in [Digests -> Digests \union {NoImage}] /\ tar' \in [Digests -> Digests \union {NoImage}]
    BY <1>6, <2>1 DEF UnpackRootfs, ImagesType
  <2> QED
    BY <1>6, <2>2 DEF UnpackRootfs, ImagesType
<1>7. CASE PullFails(j)
  BY <1>7 DEF PullFails, ImagesType
<1>8. CASE ResolveByRuntime(j) \/ FinishJob(j)
  BY <1>8 DEF ResolveByRuntime, FinishJob, ImagesType
<1>9. CASE SaveImage(j)
  BY <1>9 DEF SaveImage, ImagesType
<1> QED
  BY <1>1, <1>2, <1>3, <1>4, <1>5, <1>6, <1>7, <1>8, <1>9 DEF JobStep

LEMMA JobFinal ==
  ASSUME ImagesType, FinalInv, NEW j \in Jobs, HandleImagePull(j) \/ JobStep(j)
  PROVE  FinalInv'
<1> USE ImagesAssumption DEF FinalInv, ImagesType
<1>1. CASE HandleImagePull(j) \/ BeginJob(j)
  BY <1>1 DEF HandleImagePull, BeginJob
<1>2. CASE WriteProgress(j) \/ WriterEnds(j)
  BY <1>2 DEF WriteProgress, WriterEnds
<1>3. CASE \/ FetchManifest(j) \/ PullByReference(j) \/ ExportFilesystem(j)
           \/ FormatRootfs(j) \/ UnpackRootfs(j) \/ PullFails(j)
  BY <1>3 DEF FetchManifest, PullByReference, ExportFilesystem, FormatRootfs, UnpackRootfs, PullFails
<1>4. CASE ResolveByRuntime(j) \/ SaveImage(j)
  BY <1>4 DEF ResolveByRuntime, SaveImage
<1>5. CASE FinishJob(j)
  BY <1>5 DEF FinishJob
<1> QED
  BY <1>1, <1>2, <1>3, <1>4, <1>5 DEF JobStep

\* A job adds images and does not take part in creates and deletes.
LEMMA JobUsers ==
  ASSUME UsersInv, NEW j \in Jobs, HandleImagePull(j) \/ JobStep(j)
  PROVE  UsersInv'
<1>1. UNCHANGED <<create, delete>> /\ images \subseteq images'
  BY DEF HandleImagePull, JobStep, BeginJob, WriteProgress, WriterEnds, FetchManifest, PullByReference, ExportFilesystem,
      FormatRootfs, UnpackRootfs, PullFails, ResolveByRuntime, SaveImage, FinishJob
<1> QED
  BY <1>1 DEF UsersInv, NamedInv, SeenInv, KeptInv

LEMMA UserSteps ==
  ASSUME ImagesType, UsersInv,
         \/ \E c \in Creates : InsertVM(c) \/ \E d \in Digests : ResolveForCreate(c, d)
         \/ \E x \in Deletes : DeleteImage(x) \/ \E d \in Digests : CheckImageUnused(x, d)
  PROVE  ImagesType' /\ UsersInv' /\ images' \subseteq images
         /\ UNCHANGED <<provider, latest, refMoved, fileVars, jobVars>>
<1> USE ImagesAssumption DEF UsersInv, NamedInv, SeenInv, KeptInv, ImagesType
<1>1. ASSUME NEW c \in Creates, NEW d \in Digests, ResolveForCreate(c, d)
      PROVE  ImagesType' /\ UsersInv' /\ images' \subseteq images
             /\ UNCHANGED <<provider, latest, refMoved, fileVars, jobVars>>
  BY <1>1 DEF ResolveForCreate
<1>2. ASSUME NEW c \in Creates, InsertVM(c)
      PROVE  ImagesType' /\ UsersInv' /\ images' \subseteq images
             /\ UNCHANGED <<provider, latest, refMoved, fileVars, jobVars>>
  <2>1. /\ create' \in [Creates -> [at : {"idle", "copy", "vm"}, image : Digests \union {NoImage}]]
        /\ create[c].at = "copy" /\ create'[c].at = "vm" /\ create'[c].image = create[c].image
        /\ \A b \in Creates \ {c} : create'[b] = create[b]
    BY <1>2 DEF InsertVM
  <2>2. UNCHANGED <<provider, latest, refMoved, images, fileVars, jobVars, delete, imageFaults>>
    BY <1>2 DEF InsertVM
  <2>3. NamedInv'
    BY <2>1, <2>2
  <2>4. SeenInv'
    BY <2>1, <2>2
  <2>5. KeptInv'
    BY <2>1, <2>2
  <2> QED
    BY <2>1, <2>2, <2>3, <2>4, <2>5
<1>3. ASSUME NEW x \in Deletes, NEW d \in Digests, CheckImageUnused(x, d)
      PROVE  ImagesType' /\ UsersInv' /\ images' \subseteq images
             /\ UNCHANGED <<provider, latest, refMoved, fileVars, jobVars>>
  <2>1. /\ delete[x].at = "idle" /\ delete'[x] = [at |-> "delete", image |-> d, saw |-> VMRows]
        /\ \A y \in Deletes \ {x} : delete'[y] = delete[y]
        /\ \A c \in VMRows : create[c].image # d
        /\ UNCHANGED <<provider, latest, refMoved, images, fileVars, jobVars, create, imageFaults>>
    BY <1>3 DEF CheckImageUnused
  <2>2. VMRows \in SUBSET Creates /\ \A c \in VMRows : create[c].at = "vm"
    BY DEF VMRows
  <2>3. ImagesType'
    BY <1>3, <2>1, <2>2 DEF CheckImageUnused
  <2>4. NamedInv' /\ SeenInv'
    BY <2>1, <2>2
  <2>5. KeptInv'
    <3> SUFFICES ASSUME NEW c \in Creates, create[c].at # "idle", create[c].image \notin images
                 PROVE  \E y \in Deletes : delete'[y].image = create[c].image /\ c \notin delete'[y].saw
      BY <2>1
    <3>1. PICK y \in Deletes : delete[y].image = create[c].image /\ c \notin delete[y].saw
      OBVIOUS
    <3>2. CASE y = x
      BY <2>1, <3>1, <3>2
    <3>3. CASE y # x
      BY <2>1, <3>1, <3>3
    <3> QED
      BY <3>2, <3>3
  <2> QED
    BY <2>1, <2>3, <2>4, <2>5
<1>4. ASSUME NEW x \in Deletes, DeleteImage(x)
      PROVE  ImagesType' /\ UsersInv' /\ images' \subseteq images
             /\ UNCHANGED <<provider, latest, refMoved, fileVars, jobVars>>
  <2>1. /\ delete' \in [Deletes -> [at : {"idle", "delete", "over"}, image : Digests \union {NoImage},
                                     saw : SUBSET Creates]]
        /\ \A y \in Deletes : delete'[y].image = delete[y].image /\ delete'[y].saw = delete[y].saw
        /\ images' = images \ {delete[x].image}
        /\ UNCHANGED <<provider, latest, refMoved, fileVars, jobVars, create, imageFaults>>
    BY <1>4 DEF DeleteImage
  <2>2. NamedInv' /\ SeenInv'
    BY <1>4, <2>1 DEF DeleteImage
  <2>3. KeptInv'
    BY <2>1
  <2> QED
    BY <2>1, <2>2, <2>3
<1> QED
  BY <1>1, <1>2, <1>3, <1>4
-----------------------------------------------------------------------------
\* A job at work on a directory.  What it does there it does to the digest it
\* wants, and to no directory that another job has filled, unless that is spoiled.
LEMMA JobBuilt ==
  ASSUME ImagesType, BuiltInv, NEW j \in Jobs, HandleImagePull(j) \/ JobStep(j)
  PROVE  BuiltInv'
<1> SUFFICES ASSUME ~provider, ~refMoved PROVE (OneDigestInv /\ DirectoryInv)'
  BY DEF BuiltInv, HandleImagePull, JobStep, BeginJob, WriteProgress, WriterEnds, FetchManifest, PullByReference, ExportFilesystem,
      FormatRootfs, UnpackRootfs, PullFails, ResolveByRuntime, SaveImage, FinishJob
<1>0. OneDigestInv /\ DirectoryInv /\ latest \in Digests /\ NoImage \notin Digests
      /\ UNCHANGED latest
  BY ImagesAssumption DEF BuiltInv, ImagesType, HandleImagePull, JobStep, BeginJob, WriteProgress, WriterEnds, FetchManifest, PullByReference, ExportFilesystem,
      FormatRootfs, UnpackRootfs, PullFails, ResolveByRuntime, SaveImage, FinishJob
<1>1. CASE HandleImagePull(j) \/ BeginJob(j)
  BY <1>0, <1>1 DEF HandleImagePull, BeginJob, OneDigestInv, DirectoryInv, ImagesType
<1>2. CASE WriteProgress(j) \/ WriterEnds(j)
  BY <1>0, <1>2 DEF WriteProgress, WriterEnds, OneDigestInv, DirectoryInv
<1>3. CASE FetchManifest(j)
  <2>1. /\ job[j] = "fetch" /\ job' = [job EXCEPT ![j] = "pull"]
        /\ want' = [want EXCEPT ![j] = latest] /\ want[j] = NoImage
        /\ spoiled \subseteq spoiled'
        /\ (\E k \in Jobs \ {j} : want[k] = latest) => latest \in spoiled'
        /\ UNCHANGED <<images, tar, rootfs, have>>
    BY <1>0, <1>3 DEF FetchManifest, OneDigestInv
  <2>2. OneDigestInv'
    BY <1>0, <2>1 DEF OneDigestInv, ImagesType
  <2>3. DirectoryInv'
    <3> SUFFICES ASSUME NEW d \in Digests \ spoiled'
                 PROVE  /\ \A i, k \in Jobs : want'[i] = d /\ want'[k] = d => i = k
                        /\ \A i \in Jobs : want'[i] = d /\ job'[i] \in {"close", "complete"} => rootfs[d] = d
                        /\ d \in images => /\ rootfs[d] = d
                                           /\ \E i \in Jobs : want'[i] = d
                                           /\ \A i \in Jobs : want'[i] = d => job'[i] \in {"complete", "over"}
      BY <2>1 DEF DirectoryInv
    <3>1. d \in Digests \ spoiled
      BY <2>1
    <3>2. CASE d = latest
      <4>1. \A k \in Jobs \ {j} : want[k] # d
        BY <2>1, <3>2
      <4>2. d \notin images
        BY <1>0, <2>1, <3>1, <4>1 DEF DirectoryInv
      <4> QED
        BY <2>1, <4>1, <4>2 DEF ImagesType
    <3>3. CASE d # latest
      <4>1. \A k \in Jobs : want'[k] = d <=> want[k] = d
        BY <1>0, <2>1, <3>3 DEF ImagesType
      <4>2. \A k \in Jobs : want[k] = d => job'[k] = job[k]
        BY <1>0, <2>1, <3>3 DEF ImagesType
      <4> QED
        BY <1>0, <3>1, <4>1, <4>2 DEF DirectoryInv
    <3> QED
      BY <3>2, <3>3
  <2> QED
    BY <2>2, <2>3
<1>4. CASE PullByReference(j) \/ ExportFilesystem(j)
  <2>1. OneDigestInv'
    <3>1. CASE PullByReference(j)
      BY <1>0, <3>1 DEF PullByReference, OneDigestInv, ImagesType
    <3>2. CASE ExportFilesystem(j)
      BY <1>0, <3>2 DEF ExportFilesystem, OneDigestInv, ImagesType
    <3> QED BY <1>4, <3>1, <3>2
  <2>2. DirectoryInv'
    BY <1>0, <1>4 DEF PullByReference, ExportFilesystem, DirectoryInv, ImagesType
  <2> QED
    BY <2>1, <2>2
<1>5. CASE FormatRootfs(j)
  <2>1. /\ want[j] = latest /\ job[j] = "format" /\ job' = [job EXCEPT ![j] = "unpack"]
        /\ rootfs' = [rootfs EXCEPT ![latest] = NoImage]
        /\ UNCHANGED <<images, tar, spoiled, want, have>>
    BY <1>0, <1>5 DEF FormatRootfs, OneDigestInv
  <2>2. OneDigestInv'
    BY <1>0, <2>1 DEF OneDigestInv, ImagesType
  <2>3. DirectoryInv'
    BY <1>0, <2>1 DEF DirectoryInv, ImagesType
  <2> QED
    BY <2>2, <2>3
<1>6. CASE UnpackRootfs(j)
  <2>1. /\ want[j] = latest /\ job[j] = "unpack" /\ job' = [job EXCEPT ![j] = "close"]
        /\ rootfs' = [rootfs EXCEPT ![latest] = latest]
        /\ tar' = [tar EXCEPT ![latest] = NoImage]
        /\ UNCHANGED <<images, spoiled, want, have>>
    BY <1>0, <1>6 DEF UnpackRootfs, OneDigestInv
  <2>2. OneDigestInv'
    BY <1>0, <2>1 DEF OneDigestInv, ImagesType
  <2>3. DirectoryInv'
    BY <1>0, <2>1 DEF DirectoryInv, ImagesType
  <2> QED
    BY <2>2, <2>3
<1>7. CASE PullFails(j)
  <2>1. OneDigestInv'
    BY <1>0, <1>7 DEF PullFails, OneDigestInv, ImagesType
  <2>2. DirectoryInv'
    BY <1>0, <1>7 DEF PullFails, DirectoryInv, ImagesType
  <2> QED
    BY <2>1, <2>2
<1>8. CASE ResolveByRuntime(j)
  BY <1>8 DEF ResolveByRuntime
<1>9. CASE SaveImage(j)
  <2>1. /\ want[j] = latest /\ job[j] = "close"
        /\ \/ job' = [job EXCEPT ![j] = "complete"] /\ images' = images \union {latest}
           \/ job' = [job EXCEPT ![j] = "fail"] /\ images' = images
        /\ UNCHANGED <<tar, rootfs, spoiled, want, have>>
    BY <1>0, <1>9 DEF SaveImage, OneDigestInv
  <2>2. OneDigestInv'
    BY <1>0, <2>1 DEF OneDigestInv, ImagesType
  <2>3. DirectoryInv'
    BY <1>0, <2>1 DEF DirectoryInv, ImagesType
  <2> QED
    BY <2>2, <2>3
<1>10. CASE FinishJob(j)
  <2>1. OneDigestInv'
    BY <1>0, <1>10 DEF FinishJob, OneDigestInv, ImagesType
  <2>2. DirectoryInv'
    BY <1>0, <1>10 DEF FinishJob, DirectoryInv, ImagesType
  <2> QED
    BY <2>1, <2>2
<1> QED
  BY <1>1, <1>2, <1>3, <1>4, <1>5, <1>6, <1>7, <1>8, <1>9, <1>10 DEF JobStep

-----------------------------------------------------------------------------
LEMMA InitImages == ImagesInit => ImagesInv
<1> SUFFICES ASSUME ImagesInit PROVE ImagesInv
  OBVIOUS
<1> USE ImagesAssumption DEF ImagesInit
<1>1. ImagesType
  BY DEF ImagesType
<1>2. FinalInv
  BY DEF FinalInv
<1>3. UsersInv
  BY DEF UsersInv, NamedInv, SeenInv, KeptInv
<1>4. BuiltInv
  BY DEF BuiltInv, OneDigestInv, DirectoryInv
<1> QED
  BY <1>1, <1>2, <1>3, <1>4 DEF ImagesInv

LEMMA NextImages == ImagesInv /\ [ImagesNext]_imageVars => ImagesInv'
<1> SUFFICES ASSUME ImagesInv, [ImagesNext]_imageVars PROVE ImagesInv'
  OBVIOUS
<1>1. CASE \E j \in Jobs : HandleImagePull(j) \/ JobStep(j)
  BY <1>1, JobType, JobFinal, JobUsers, JobBuilt DEF ImagesInv
<1>2. CASE \/ \E c \in Creates : InsertVM(c) \/ \E d \in Digests : ResolveForCreate(c, d)
           \/ \E x \in Deletes : DeleteImage(x) \/ \E d \in Digests : CheckImageUnused(x, d)
  <2>1. ImagesType' /\ UsersInv' /\ images' \subseteq images
        /\ UNCHANGED <<provider, latest, refMoved, fileVars, jobVars>>
    BY <1>2, UserSteps DEF ImagesInv
  <2>2. FinalInv'
    BY <2>1 DEF ImagesInv, FinalInv
  <2>3. BuiltInv'
    BY <2>1 DEF ImagesInv, BuiltInv, OneDigestInv, DirectoryInv
  <2> QED
    BY <2>1, <2>2, <2>3 DEF ImagesInv
<1>3. ASSUME NEW d \in Digests, MoveReference(d) PROVE ImagesInv'
  BY <1>3 DEF MoveReference, ImagesInv, ImagesType, FinalInv, UsersInv, NamedInv, SeenInv, KeptInv, BuiltInv
<1>4. CASE UNCHANGED imageVars
  BY <1>4 DEF ImagesInv, ImagesType, FinalInv, UsersInv, NamedInv, SeenInv, KeptInv,
              BuiltInv, OneDigestInv, DirectoryInv
<1> QED
  BY <1>1, <1>2, <1>3, <1>4 DEF ImagesNext

LEMMA ImagesInvariant == ImagesSpec => []ImagesInv
BY InitImages, NextImages, PTL DEF ImagesSpec

\* A registered image has the root file system of its digest, as long as the
\* reference does not move and the digest's directory served one pull
\* (Client.PullImage, DockerBuilder.Extract, executePullJob).
THEOREM RegisteredImagesAreBuilt == ImagesSpec => []RegisteredIsBuilt
<1>1. ImagesInv => RegisteredIsBuilt
  BY DEF ImagesInv, ImagesType, BuiltInv, DirectoryInv, RegisteredIsBuilt
<1> QED
  BY <1>1, ImagesInvariant, PTL

\* A VM loses its image only to a delete that looked for VMs before the VM had
\* its row (handleDeleteImage, validateAndResolveImage).
THEOREM ImagesInUseAreKept == ImagesSpec => []InUseIsKept
<1>1. ImagesInv => InUseIsKept
  BY DEF ImagesInv, UsersInv, KeptInv, InUseIsKept, VMRows
<1> QED
  BY <1>1, ImagesInvariant, PTL

\* The final state of a pull job is never written over, by no progress message
\* that was still on its way (executePullJob and its progress writer).
THEOREM FinalStatesStay == ImagesSpec => FinalStateStays
<1>1. ImagesInv /\ [ImagesNext]_imageVars
        => [\A j \in Jobs : jobRow[j] \in Final => jobRow'[j] = jobRow[j]]_imageVars
  <2> SUFFICES ASSUME ImagesInv, ImagesNext, NEW j \in Jobs, jobRow[j] \in Final
               PROVE  jobRow'[j] = jobRow[j]
    OBVIOUS
  <2>1. job[j] = "over" /\ writer[j] = "over" /\ jobRow \in [Jobs -> Final \union {NoImage, "pending", "in_progress"}]
    BY DEF ImagesInv, ImagesType, FinalInv
  <2>2. ASSUME NEW k \in Jobs, HandleImagePull(k) \/ JobStep(k) PROVE jobRow'[j] = jobRow[j]
    BY <2>1, <2>2 DEF HandleImagePull, JobStep, BeginJob, WriteProgress, WriterEnds, FetchManifest, PullByReference, ExportFilesystem,
      FormatRootfs, UnpackRootfs, PullFails, ResolveByRuntime, SaveImage, FinishJob
  <2> QED
    BY <2>2 DEF ImagesNext, InsertVM, ResolveForCreate, DeleteImage, CheckImageUnused, MoveReference
<1> QED
  BY <1>1, ImagesInvariant, PTL DEF ImagesSpec, FinalStateStays

-----------------------------------------------------------------------------
(* The order of the layers.  What a recursive function computes is told by *)
(* the set of places up to which it holds: the least place outside of it   *)
(* would be a contradiction (Climb).                                       *)

\* A set of numbers has a least one.
LEMMA LeastPlace ==
  ASSUME NEW S \in SUBSET Nat, S # {}
  PROVE  LET m == CHOOSE x \in S : \A y \in S : x <= y IN m \in S /\ \A y \in S : m <= y
<1>1. \E x \in S : \A y \in S : ~(<<y, x>> \in OpToRel(<, Nat))
  BY NatLessThanWellFounded, WFMin
<1>2. PICK x \in S : \A y \in S : ~(<<y, x>> \in OpToRel(<, Nat))
  BY <1>1
<1>3. ASSUME NEW y \in S PROVE x <= y
  <2>1. ~(y < x)
    BY <1>2 DEF OpToRel
  <2> QED BY <2>1
<1> QED BY <1>3

\* Two sequences, one behind the other.
LEMMA Behind ==
  ASSUME NEW S, NEW a \in Seq(S), NEW b \in Seq(S)
  PROVE  /\ a \o b \in Seq(S) /\ Len(a \o b) = Len(a) + Len(b)
         /\ \A i \in 1 .. Len(a) : (a \o b)[i] = a[i]
         /\ \A i \in 1 .. Len(b) : (a \o b)[Len(a) + i] = b[i]
OBVIOUS

\* f starts with b and takes the steps of G.
Iterates(f, N, b, G) == f[0] = b /\ \A n \in 1 .. N : f[n] = G[n][f[n - 1]]

\* There is such a function, so that a definition by recursion over numbers has its meaning.
LEMMA IterationExists ==
  ASSUME NEW N \in Nat, NEW T, NEW b \in T, NEW G \in [1 .. N -> [T -> T]]
  PROVE  \E f \in [0 .. N -> T] : Iterates(f, N, b, G)
<1> DEFINE Good(k) == \E f \in [0 .. k -> T] : f[0] = b /\ \A n \in 1 .. k : f[n] = G[n][f[n - 1]]
           S == {k \in 0 .. N : ~Good(k)}
<1>1. S = {}
  <2> SUFFICES ASSUME S # {} PROVE FALSE
    OBVIOUS
  <2>1. S \in SUBSET Nat
    OBVIOUS
  <2>2. PICK m \in S : \A y \in S : m <= y
    <3> HIDE DEF S
    <3> QED BY <2>1, LeastPlace
  <2>3. m \in 0 .. N /\ ~Good(m)
    OBVIOUS
  <2> HIDE DEF Good
  <2>4. m # 0
    <3>1. Good(0)
      <4> DEFINE f == [n \in 0 .. 0 |-> b]
      <4>1. f \in [0 .. 0 -> T] /\ f[0] = b /\ \A n \in 1 .. 0 : f[n] = G[n][f[n - 1]]
        OBVIOUS
      <4> QED BY <4>1 DEF Good
    <3> QED BY <2>3, <3>1
  <2>5. m - 1 \in 0 .. N /\ ~(m <= m - 1)
    BY <2>3, <2>4
  <2>6. Good(m - 1)
    BY <2>2, <2>5
  <2>7. PICK f \in [0 .. m - 1 -> T] : f[0] = b /\ \A n \in 1 .. m - 1 : f[n] = G[n][f[n - 1]]
    BY <2>6 DEF Good
  <2> DEFINE g == [n \in 0 .. m |-> IF n = m THEN G[m][f[m - 1]] ELSE f[n]]
  <2>8. m \in Nat /\ m \in 1 .. N
    BY <2>3, <2>4
  <2>9. f[m - 1] \in T /\ G[m][f[m - 1]] \in T
    BY <2>7, <2>8
  <2>10. g \in [0 .. m -> T]
    <3>1. ASSUME NEW n \in 0 .. m PROVE g[n] \in T
      BY <2>7, <2>8, <2>9
    <3> QED BY <3>1
  <2>11. g[0] = b
    BY <2>4, <2>7, <2>8
  <2>12. ASSUME NEW n \in 1 .. m PROVE g[n] = G[n][g[n - 1]]
    <3>1. g[n - 1] = f[n - 1]
      BY <2>8
    <3>2. CASE n = m
      BY <2>8, <3>1, <3>2
    <3>3. CASE n # m
      <4>1. n \in 1 .. m - 1 /\ n \in 0 .. m
        BY <2>8, <3>3
      <4>2. g[n] = f[n]
        BY <3>3, <4>1
      <4> HIDE DEF g
      <4> QED BY <2>7, <3>1, <4>1, <4>2
    <3> QED BY <3>2, <3>3
  <2> HIDE DEF g
  <2>13. Good(m)
    BY <2>10, <2>11, <2>12 DEF Good
  <2> QED BY <2>3, <2>13
<1>2. N \in 0 .. N
  OBVIOUS
<1>3. Good(N)
  <2> HIDE DEF Good
  <2> QED BY <1>1, <1>2
<1> QED BY <1>3 DEF Iterates

\* f[n] is the first n sequences of ss, one behind the other.
Flattens(f, ss, N) == f[0] = <<>> /\ \A n \in 1 .. N : f[n] = f[n - 1] \o ss[n]

\* FlattenSeq puts the sequences one behind the other.
LEMMA FlattenFacts ==
  ASSUME NEW S, NEW ss \in Seq(Seq(S))
  PROVE  \E f \in [0 .. Len(ss) -> Seq(S)] : Flattens(f, ss, Len(ss)) /\ FlattenSeq(ss) = f[Len(ss)]
<1> DEFINE N == Len(ss)
           T == Seq(S)
           G == [n \in 1 .. N |-> [x \in T |-> x \o ss[n]]]
<1>1. N \in Nat /\ \A n \in 1 .. N : ss[n] \in T
  OBVIOUS
<1>2. ASSUME NEW n \in 1 .. N, NEW x \in T PROVE G[n][x] = x \o ss[n] /\ G[n][x] \in T
  <2>1. G[n][x] = x \o ss[n]
    OBVIOUS
  <2>2. x \o ss[n] \in T
    BY <1>1
  <2> HIDE DEF G
  <2> QED BY <2>1, <2>2
<1>3. <<>> \in T
  OBVIOUS
<1> HIDE DEF G, T
<1>4. PICK f \in [0 .. N -> T] : f[0] = <<>> /\ \A n \in 1 .. N : f[n] = G[n][f[n - 1]]
  <2>1. G \in [1 .. N -> [T -> T]]
    BY <1>2 DEF G
  <2>2. N \in Nat
    BY <1>1
  <2> HIDE DEF N
  <2>3. \E f \in [0 .. N -> T] : Iterates(f, N, <<>>, G)
    BY <1>3, <2>1, <2>2, IterationExists
  <2> QED BY <2>3 DEF Iterates
<1>5. ASSUME NEW n \in 1 .. N PROVE f[n] = f[n - 1] \o ss[n]
  <2>1. n - 1 \in 0 .. N
    BY <1>1
  <2>2. f[n - 1] \in T
    BY <1>4, <2>1
  <2> QED BY <1>2, <1>4, <2>2
<1>6. FlattenSeq(ss) = f[N]
  <2>1. CASE N = 0
    <3>1. ss = <<>>
      BY <2>1
    <3> QED BY <1>4, <2>1, <3>1 DEF FlattenSeq
  <2>2. CASE N # 0
    <3> DEFINE E(h) == [i \in 1 .. N |-> IF i = 1 THEN ss[i] ELSE h[i - 1] \o ss[i]]
               h0 == [i \in 1 .. N |-> f[i]]
               fl == CHOOSE h : h = E(h)
    <3>1. h0 = E(h0)
      <4>1. ASSUME NEW i \in 1 .. N PROVE h0[i] = IF i = 1 THEN ss[i] ELSE h0[i - 1] \o ss[i]
        <5>1. CASE i = 1
          <6>0. 1 \in 1 .. N /\ 1 - 1 = 0
            BY <5>1
          <6>1. f[1] = f[0] \o ss[1] /\ f[0] = <<>> /\ ss[1] \in Seq(S)
            BY <1>4, <1>5, <1>1, <6>0 DEF T
          <6> QED BY <5>1, <6>1
        <5>2. CASE i # 1
          <6>1. i - 1 \in 1 .. N
            BY <1>1, <5>2
          <6> QED BY <1>5, <5>2, <6>1
        <5> QED BY <5>1, <5>2
      <4> QED BY <4>1
    <3>2. fl = E(fl)
      <4> HIDE DEF E, h0
      <4> QED BY <3>1
    <3>3. FlattenSeq(ss) = fl[N]
      BY <2>2 DEF FlattenSeq
    <3> DEFINE B == {i \in 1 .. N : fl[i] # f[i]}
    <3>4. B = {}
      <4> SUFFICES ASSUME B # {} PROVE FALSE
        OBVIOUS
      <4>1. B \in SUBSET Nat
        OBVIOUS
      <4>2. PICK m \in B : \A y \in B : m <= y
        <5> HIDE DEF B
        <5> QED BY <4>1, LeastPlace
      <4>3. m \in 1 .. N /\ fl[m] # f[m]
        OBVIOUS
      <4>4. fl[m] = IF m = 1 THEN ss[m] ELSE fl[m - 1] \o ss[m]
        <5> HIDE DEF fl
        <5> QED BY <3>2, <4>3
      <4> HIDE DEF fl, E
      <4>5. CASE m = 1
        <5>0. 1 \in 1 .. N /\ 1 - 1 = 0
          BY <4>3, <4>5
        <5>1. f[1] = f[0] \o ss[1] /\ f[0] = <<>> /\ ss[1] \in Seq(S)
          BY <1>4, <1>5, <1>1, <5>0 DEF T
        <5> QED BY <4>3, <4>4, <4>5, <5>1
      <4>6. CASE m # 1
        <5>1. m - 1 \in 1 .. N /\ ~(m <= m - 1)
          BY <1>1, <4>3, <4>6
        <5>2. fl[m - 1] = f[m - 1]
          BY <4>2, <5>1
        <5> QED BY <1>5, <4>3, <4>4, <4>6, <5>2
      <4> QED BY <4>5, <4>6
    <3>5. N \in 1 .. N
      BY <1>1, <2>2
    <3> HIDE DEF fl
    <3> QED BY <3>3, <3>4, <3>5
  <2> QED BY <2>1, <2>2
<1> QED BY <1>4, <1>5, <1>6 DEF T, Flattens

\* Induction over numbers, with a set for the property.
LEMMA Climb ==
  ASSUME NEW N \in Nat, NEW S \in SUBSET (0 .. N), 0 \in S, \A n \in 1 .. N : n - 1 \in S => n \in S
  PROVE  S = 0 .. N
<1> DEFINE T == (0 .. N) \ S
<1> SUFFICES ASSUME T # {} PROVE FALSE
  OBVIOUS
<1>1. T \in SUBSET Nat
  OBVIOUS
<1>2. PICK m \in T : \A y \in T : m <= y
  <2> HIDE DEF T
  <2> QED BY <1>1, LeastPlace
<1>3. m \in 1 .. N /\ m \notin S /\ m - 1 \in 0 .. N /\ ~(m <= m - 1)
  OBVIOUS
<1>4. m - 1 \in S
  BY <1>2, <1>3
<1> QED BY <1>3, <1>4

\* The entry k of the sequence i of ss is at place o[i] + k of t, and there is nothing else in t.
Spread(o, ss, t) ==
  /\ \A i \in 1 .. Len(ss) : \A k \in 1 .. Len(ss[i]) : o[i] + k \in 1 .. Len(t) /\ t[o[i] + k] = ss[i][k]
  /\ \A e \in 1 .. Len(t) : \E i \in 1 .. Len(ss) : \E k \in 1 .. Len(ss[i]) : e = o[i] + k

\* FlattenSeq has every entry of every sequence, and no other.
LEMMA FlattenSpreads ==
  ASSUME NEW S, NEW ss \in Seq(Seq(S))
  PROVE  FlattenSeq(ss) \in Seq(S) /\ \E o \in [1 .. Len(ss) -> Nat] : Spread(o, ss, FlattenSeq(ss))
<1> DEFINE N == Len(ss)
<1>1. N \in Nat /\ \A n \in 1 .. N : ss[n] \in Seq(S)
  OBVIOUS
<1>2. PICK f \in [0 .. N -> Seq(S)] : Flattens(f, ss, N) /\ FlattenSeq(ss) = f[N]
  BY FlattenFacts
<1>3. f[0] = <<>> /\ \A n \in 1 .. N : f[n] = f[n - 1] \o ss[n]
  BY <1>2 DEF Flattens
<1> DEFINE o == [i \in 1 .. N |-> Len(f[i - 1])]
           A(n) == \A i \in 1 .. n : \A k \in 1 .. Len(ss[i]) : o[i] + k \in 1 .. Len(f[n]) /\ f[n][o[i] + k] = ss[i][k]
           B(n) == \A e \in 1 .. Len(f[n]) : \E i \in 1 .. n : \E k \in 1 .. Len(ss[i]) : e = o[i] + k
           C == {n \in 0 .. N : A(n) /\ B(n)}
<1> HIDE DEF N
<1>4. o \in [1 .. N -> Nat] /\ \A i \in 1 .. N : o[i] = Len(f[i - 1])
  <2>1. ASSUME NEW i \in 1 .. N PROVE Len(f[i - 1]) \in Nat
    <3>1. i - 1 \in 0 .. N
      BY <1>1
    <3>2. f[i - 1] \in Seq(S)
      BY <1>2, <3>1
    <3> QED BY <3>2
  <2> QED BY <2>1
<1> HIDE DEF o
<1>5. 0 \in C
  <2>1. Len(f[0]) = 0 /\ 0 \in 0 .. N
    BY <1>1, <1>3
  <2>2. A(0)
    OBVIOUS
  <2>3. B(0)
    BY <2>1
  <2> HIDE DEF A, B
  <2> QED BY <2>1, <2>2, <2>3
<1>6. ASSUME NEW n \in 1 .. N, n - 1 \in C PROVE n \in C
  <2>1. n \in Nat /\ n - 1 \in Nat /\ n - 1 \in 0 .. N /\ n \in 0 .. N
    BY <1>1
  <2> DEFINE a == f[n - 1]
             b == ss[n]
             t == f[n]
  <2>2. a \in Seq(S) /\ b \in Seq(S) /\ t = a \o b /\ o[n] = Len(a)
    BY <1>1, <1>2, <1>3, <1>4, <2>1
  <2>3. Len(a) \in Nat /\ Len(b) \in Nat /\ Len(t) = Len(a) + Len(b)
        /\ (\A i \in 1 .. Len(a) : t[i] = a[i]) /\ \A i \in 1 .. Len(b) : t[Len(a) + i] = b[i]
    <3> HIDE DEF a, b, t
    <3>1. Len(a \o b) = Len(a) + Len(b)
          /\ (\A i \in 1 .. Len(a) : (a \o b)[i] = a[i]) /\ \A i \in 1 .. Len(b) : (a \o b)[Len(a) + i] = b[i]
      BY <2>2, Behind
    <3> QED BY <2>2, <3>1
  <2>4. /\ \A i \in 1 .. n - 1 : \A k \in 1 .. Len(ss[i]) : o[i] + k \in 1 .. Len(a) /\ a[o[i] + k] = ss[i][k]
        /\ \A e \in 1 .. Len(a) : \E i \in 1 .. n - 1 : \E k \in 1 .. Len(ss[i]) : e = o[i] + k
    <3>1. A(n - 1) /\ B(n - 1)
      <4> HIDE DEF A, B
      <4> QED BY <1>6
    <3> QED BY <3>1
  <2>5. A(n)
    <3> SUFFICES ASSUME NEW i \in 1 .. n, NEW k \in 1 .. Len(ss[i])
                 PROVE  o[i] + k \in 1 .. Len(t) /\ t[o[i] + k] = ss[i][k]
      OBVIOUS
    <3> HIDE DEF a, b, t
    <3>1. CASE i = n
      <4>1. k \in 1 .. Len(b)
        BY <3>1 DEF b
      <4>2. t[Len(a) + k] = b[k] /\ Len(a) + k \in 1 .. Len(t)
        BY <2>3, <4>1
      <4> QED BY <2>2, <3>1, <4>2 DEF b
    <3>2. CASE i # n
      <4>1. i \in 1 .. n - 1
        BY <2>1, <3>2
      <4>2. o[i] + k \in 1 .. Len(a) /\ a[o[i] + k] = ss[i][k]
        BY <2>4, <4>1
      <4>3. t[o[i] + k] = a[o[i] + k] /\ o[i] + k \in 1 .. Len(t)
        BY <2>3, <4>2
      <4> QED BY <4>2, <4>3
    <3> QED BY <3>1, <3>2
  <2>6. B(n)
    <3> SUFFICES ASSUME NEW e \in 1 .. Len(t) PROVE \E i \in 1 .. n : \E k \in 1 .. Len(ss[i]) : e = o[i] + k
      OBVIOUS
    <3> HIDE DEF a, b, t
    <3>1. CASE e <= Len(a)
      <4>1. e \in 1 .. Len(a)
        BY <2>3, <3>1
      <4>2. PICK i \in 1 .. n - 1 : \E k \in 1 .. Len(ss[i]) : e = o[i] + k
        BY <2>4, <4>1
      <4>3. i \in 1 .. n
        BY <2>1
      <4> QED BY <4>2, <4>3
    <3>2. CASE ~(e <= Len(a))
      <4> DEFINE k == e - Len(a)
      <4>1. k \in 1 .. Len(b) /\ e = Len(a) + k /\ n \in 1 .. n
        BY <2>1, <2>3, <3>2
      <4> HIDE DEF k
      <4>2. k \in 1 .. Len(ss[n]) /\ e = o[n] + k
        BY <2>2, <4>1 DEF b
      <4> QED BY <4>1, <4>2
    <3> QED BY <3>1, <3>2
  <2> HIDE DEF A, B
  <2> QED BY <2>1, <2>5, <2>6
<1>7. C = 0 .. N
  <2>1. C \in SUBSET (0 .. N)
    OBVIOUS
  <2> HIDE DEF C
  <2> QED BY <1>1, <1>5, <1>6, <2>1, Climb
<1>8. A(N) /\ B(N) /\ f[N] \in Seq(S)
  <2>1. N \in 0 .. N
    BY <1>1
  <2> HIDE DEF A, B
  <2> QED BY <1>2, <1>7, <2>1
<1>9. Spread(o, ss, f[N])
  BY <1>8 DEF Spread, N
<1> QED BY <1>2, <1>4, <1>8, <1>9 DEF N

-----------------------------------------------------------------------------
(* Manifests                                                               *)

\* A set of places in a sequence has a last one.
LEMMA LastPlace ==
  ASSUME NEW n \in Nat, NEW S \in SUBSET (1 .. n), S # {}
  PROVE  LET m == CHOOSE x \in S : \A y \in S : x >= y IN m \in S /\ \A y \in S : m >= y
<1> DEFINE T == {k \in Nat : n - k \in S}
<1>1. T \in SUBSET Nat /\ T # {}
  <2>1. PICK x \in S : TRUE
    OBVIOUS
  <2>2. n - x \in Nat /\ n - (n - x) = x
    OBVIOUS
  <2> QED BY <2>1, <2>2
<1>2. PICK m \in T : \A y \in T : m <= y
  <2> HIDE DEF T
  <2> QED BY <1>1, LeastPlace
<1>3. n - m \in S
  BY <1>2
<1>4. ASSUME NEW y \in S PROVE n - m >= y
  <2>1. n - y \in Nat /\ n - (n - y) = y
    OBVIOUS
  <2>2. n - y \in T
    BY <2>1
  <2>3. m <= n - y /\ m \in Nat
    BY <1>2, <2>2
  <2> QED BY <2>3
<1> QED BY <1>3, <1>4

\* A list of layers, and lists of names among them.
Fit(ls) == ls \in Seq(ToSet(ls)) /\ \A i \in 1 .. Len(ls) : ls[i].deps \in Seq(Names(ls))

\* The names of the layers are their names.
LEMMA NamesAre ==
  ASSUME NEW ls, Fit(ls)
  PROVE  /\ Len(ls) \in Nat /\ DOMAIN ls = 1 .. Len(ls)
         /\ \A i \in 1 .. Len(ls) : ls[i] \in ToSet(ls) /\ ls[i].name \in Names(ls)
         /\ \A n \in Names(ls) : \E i \in 1 .. Len(ls) : ls[i].name = n
<1>1. Len(ls) \in Nat /\ DOMAIN ls = 1 .. Len(ls)
  BY DEF Fit
<1> QED BY <1>1 DEF Names, ToSet

\* The mentions M are those of the layers.
MentionsOf(M, ls) ==
  /\ M \in Seq([dep : Names(ls), name : Names(ls)])
  /\ \A e \in 1 .. Len(M) : \E i \in 1 .. Len(ls) : \E k \in 1 .. Len(ls[i].deps) :
       M[e].dep = ls[i].deps[k] /\ M[e].name = ls[i].name
  /\ \A i \in 1 .. Len(ls) : \A k \in 1 .. Len(ls[i].deps) : \E e \in 1 .. Len(M) :
       M[e].dep = ls[i].deps[k] /\ M[e].name = ls[i].name

LEMMA MentionsAre ==
  ASSUME NEW ls, Fit(ls)
  PROVE  MentionsOf(Mentions(ls), ls)
<1> DEFINE R == [dep : Names(ls), name : Names(ls)]
           ss == [i \in DOMAIN ls |-> [k \in DOMAIN ls[i].deps |-> [dep |-> ls[i].deps[k], name |-> ls[i].name]]]
           M == FlattenSeq(ss)
<1>1. Len(ls) \in Nat /\ DOMAIN ls = 1 .. Len(ls) /\ \A i \in 1 .. Len(ls) : ls[i].name \in Names(ls)
  BY NamesAre
<1>2. ASSUME NEW i \in 1 .. Len(ls)
      PROVE  /\ ss[i] \in Seq(R) /\ Len(ss[i]) = Len(ls[i].deps)
             /\ \A k \in 1 .. Len(ls[i].deps) : ss[i][k].dep = ls[i].deps[k] /\ ss[i][k].name = ls[i].name
  <2> DEFINE d == ls[i].deps
             a == ls[i].name
             t == [k \in 1 .. Len(d) |-> [dep |-> d[k], name |-> a]]
  <2>1. d \in Seq(Names(ls)) /\ a \in Names(ls)
    BY <1>1 DEF Fit
  <2>2. ss[i] = t
    BY <1>1, <2>1
  <2> HIDE DEF d, a
  <2>3. t \in Seq(R) /\ Len(t) = Len(d) /\ \A k \in 1 .. Len(d) : t[k].dep = d[k] /\ t[k].name = a
    BY <2>1
  <2> HIDE DEF t, ss, R
  <2> QED BY <2>2, <2>3 DEF d, a
<1>3. ss \in Seq(Seq(R)) /\ Len(ss) = Len(ls)
  <2>1. DOMAIN ss = 1 .. Len(ls) /\ ss = [i \in 1 .. Len(ls) |-> ss[i]]
    BY <1>1
  <2> HIDE DEF ss, R
  <2>2. ss \in [1 .. Len(ls) -> Seq(R)]
    BY <1>2, <2>1
  <2> QED BY <1>1, <2>2
<1> HIDE DEF ss, R
<1>4. M \in Seq(R) /\ \E o \in [1 .. Len(ss) -> Nat] : Spread(o, ss, M)
  BY <1>3, FlattenSpreads
<1>5. PICK o \in [1 .. Len(ss) -> Nat] : Spread(o, ss, M)
  BY <1>4
<1> HIDE DEF M
<1>6. ASSUME NEW e \in 1 .. Len(M)
      PROVE  \E i \in 1 .. Len(ls) : \E k \in 1 .. Len(ls[i].deps) : M[e].dep = ls[i].deps[k] /\ M[e].name = ls[i].name
  <2>1. PICK i \in 1 .. Len(ss) : \E k \in 1 .. Len(ss[i]) : e = o[i] + k
    BY <1>5 DEF Spread
  <2>2. PICK k \in 1 .. Len(ss[i]) : e = o[i] + k
    BY <2>1
  <2>3. M[e] = ss[i][k] /\ i \in 1 .. Len(ls)
    BY <1>3, <1>5, <2>2 DEF Spread
  <2>4. k \in 1 .. Len(ls[i].deps) /\ ss[i][k].dep = ls[i].deps[k] /\ ss[i][k].name = ls[i].name
    BY <1>2, <2>2, <2>3
  <2> QED BY <2>3, <2>4
<1>7. ASSUME NEW i \in 1 .. Len(ls), NEW k \in 1 .. Len(ls[i].deps)
      PROVE  \E e \in 1 .. Len(M) : M[e].dep = ls[i].deps[k] /\ M[e].name = ls[i].name
  <2>1. k \in 1 .. Len(ss[i]) /\ i \in 1 .. Len(ss) /\ ss[i][k].dep = ls[i].deps[k] /\ ss[i][k].name = ls[i].name
    BY <1>2, <1>3
  <2>2. o[i] + k \in 1 .. Len(M) /\ M[o[i] + k] = ss[i][k]
    BY <1>5, <2>1 DEF Spread
  <2> QED BY <2>1, <2>2
<1>8. M = Mentions(ls)
  BY DEF M, ss, Mentions
<1> QED BY <1>4, <1>6, <1>7, <1>8 DEF MentionsOf, R

\* layerMap has a layer of the name.
LEMMA LayerMapIs ==
  ASSUME NEW ls, Fit(ls), NEW n \in Names(ls)
  PROVE  LayerMap(ls)[n] \in ToSet(ls) /\ LayerMap(ls)[n].name = n
<1> DEFINE N == Len(ls)
           S == {i \in 1 .. N : ls[i].name = n}
           Q(i) == ls[i].name = n /\ \A k \in DOMAIN ls : ls[k].name = n => k <= i
           c == CHOOSE i \in DOMAIN ls : Q(i)
<1>1. N \in Nat /\ DOMAIN ls = 1 .. N /\ \A i \in 1 .. N : ls[i] \in ToSet(ls)
  BY NamesAre
<1>2. S \in SUBSET (1 .. N) /\ S # {}
  BY NamesAre
<1>3. PICK m \in S : \A y \in S : m >= y
  <2> HIDE DEF S, N
  <2> QED BY <1>1, <1>2, LastPlace
<1>4. m \in DOMAIN ls /\ Q(m)
  <2>1. m \in 1 .. N /\ ls[m].name = n
    OBVIOUS
  <2>2. ASSUME NEW k \in DOMAIN ls, ls[k].name = n PROVE k <= m
    BY <1>1, <1>3, <2>1, <2>2
  <2> QED BY <1>1, <2>1, <2>2
<1>5. c \in DOMAIN ls /\ Q(c)
  <2> HIDE DEF Q
  <2> QED BY <1>4
<1>6. LayerMap(ls)[n] = ls[c]
  BY DEF LayerMap
<1> HIDE DEF c
<1> QED BY <1>1, <1>5, <1>6

-----------------------------------------------------------------------------
(* The loop                                                                *)

States(ls) == [queue : Seq(Names(ls)), deg : [Names(ls) -> Int], sorted : Seq(ToSet(ls))]

\* A dependency is met.
Meets(ls, s, n, t) ==
  /\ t \in States(ls) /\ t.sorted = s.sorted
  /\ t.deg = [s.deg EXCEPT ![n] = s.deg[n] - 1]
  /\ t.queue = IF s.deg[n] = 1 THEN Append(s.queue, n) ELSE s.queue

LEMMA MeetIs ==
  ASSUME NEW ls, NEW s \in States(ls), NEW n \in Names(ls)
  PROVE  Meets(ls, s, n, MeetDependency(s, n))
<1> DEFINE d == [s.deg EXCEPT ![n] = @ - 1]
           q == IF d[n] = 0 THEN Append(s.queue, n) ELSE s.queue
           t == [queue |-> q, deg |-> d, sorted |-> s.sorted]
<1>1. s.queue \in Seq(Names(ls)) /\ s.deg \in [Names(ls) -> Int] /\ s.sorted \in Seq(ToSet(ls))
      /\ s = [queue |-> s.queue, deg |-> s.deg, sorted |-> s.sorted]
  BY DEF States
<1>2. d = [s.deg EXCEPT ![n] = s.deg[n] - 1] /\ d \in [Names(ls) -> Int] /\ d[n] = s.deg[n] - 1
  BY <1>1
<1> HIDE DEF d
<1>3. q = (IF s.deg[n] = 1 THEN Append(s.queue, n) ELSE s.queue) /\ q \in Seq(Names(ls))
  BY <1>1, <1>2
<1>4. MeetDependency(s, n) = t
  BY DEF MeetDependency, d
<1> HIDE DEF q
<1>5. t \in States(ls) /\ t.sorted = s.sorted /\ t.deg = d /\ t.queue = q
  BY <1>1, <1>2, <1>3 DEF States
<1> HIDE DEF t
<1> QED BY <1>2, <1>3, <1>4, <1>5 DEF Meets

\* Of the mentions U, deg counts those of each layer.
Counts(M, Ns, deg, U) == \A m \in Ns : deg[m] = Cardinality({e \in U : M[e].name = m})

\* A layer has nothing to wait for when it is done or in the queue, and only then.
Ready(Ns, deg, waiting, D) ==
  \A m \in Ns : deg[m] = 0 <=> (m \in D \/ \E i \in 1 .. Len(waiting) : waiting[i] = m)

\* Nothing is in the queue twice or again.
Apart(waiting, D) ==
  /\ \A i \in 1 .. Len(waiting) : waiting[i] \notin D
  /\ \A i, j \in 1 .. Len(waiting) : waiting[i] = waiting[j] => i = j

Kahn(M, Ns, s, U, D) == Counts(M, Ns, s.deg, U) /\ Ready(Ns, s.deg, s.queue, D) /\ Apart(s.queue, D)

LEMMA CountStep ==
  ASSUME NEW M, NEW L \in Nat, NEW U \in SUBSET (1 .. L), NEW e \in U, NEW Ns, M[e].name \in Ns,
         NEW deg \in [Ns -> Int], Counts(M, Ns, deg, U)
  PROVE  /\ deg[M[e].name] >= 1
         /\ Counts(M, Ns, [deg EXCEPT ![M[e].name] = deg[M[e].name] - 1], U \ {e})
<1> DEFINE n == M[e].name
           d == [deg EXCEPT ![n] = deg[n] - 1]
           A(m) == {x \in U : M[x].name = m}
           B(m) == {x \in U \ {e} : M[x].name = m}
<1>1. ASSUME NEW m \in Ns PROVE IsFiniteSet(A(m)) /\ Cardinality(A(m)) \in Nat /\ deg[m] = Cardinality(A(m))
  <2>1. IsFiniteSet(1 .. L)
    BY FS_Interval
  <2>2. A(m) \in SUBSET (1 .. L)
    OBVIOUS
  <2> HIDE DEF A
  <2>3. IsFiniteSet(A(m))
    BY <2>1, <2>2, FS_Subset
  <2>4. Cardinality(A(m)) \in Nat
    BY <2>3, FS_CardinalityType
  <2> QED BY <2>3, <2>4 DEF Counts, A
<1>2. e \in A(n) /\ B(n) = A(n) \ {e}
  OBVIOUS
<1>3. \A m \in Ns : m # n => B(m) = A(m)
  OBVIOUS
<1> HIDE DEF A, B
<1>4. Cardinality(B(n)) = Cardinality(A(n)) - 1 /\ Cardinality(B(n)) \in Nat
  <2>1. IsFiniteSet(B(n)) /\ Cardinality(B(n)) = Cardinality(A(n)) - 1
    BY <1>1, <1>2, FS_RemoveElement
  <2> QED BY <2>1, FS_CardinalityType
<1>5. n \in Ns /\ d[n] = deg[n] - 1 /\ \A m \in Ns : m # n => d[m] = deg[m]
  OBVIOUS
<1> HIDE DEF d
<1>6. ASSUME NEW m \in Ns PROVE d[m] = Cardinality(B(m))
  BY <1>1, <1>3, <1>4, <1>5
<1>7. deg[n] >= 1
  BY <1>1, <1>4, <1>5
<1> QED BY <1>6, <1>7 DEF Counts, B, d

LEMMA QueueStep ==
  ASSUME NEW Ns, NEW deg \in [Ns -> Int], NEW waiting \in Seq(Ns), NEW D, Ready(Ns, deg, waiting, D), Apart(waiting, D),
         NEW n \in Ns, deg[n] >= 1
  PROVE  LET q == IF deg[n] = 1 THEN Append(waiting, n) ELSE waiting
             d == [deg EXCEPT ![n] = deg[n] - 1]
         IN  Ready(Ns, d, q, D) /\ Apart(q, D)
<1> DEFINE q == IF deg[n] = 1 THEN Append(waiting, n) ELSE waiting
           d == [deg EXCEPT ![n] = deg[n] - 1]
<1>1. d \in [Ns -> Int] /\ d[n] = deg[n] - 1 /\ (\A m \in Ns : m # n => d[m] = deg[m]) /\ deg[n] \in Int
  OBVIOUS
<1>2. n \notin D /\ \A i \in 1 .. Len(waiting) : waiting[i] # n
  BY <1>1 DEF Ready
<1> HIDE DEF d
<1>3. CASE deg[n] = 1
  <2>1. q = Append(waiting, n)
    BY <1>3
  <2> HIDE DEF q
  <2>2. Len(waiting) \in Nat /\ Len(q) = Len(waiting) + 1 /\ q[Len(waiting) + 1] = n
        /\ \A i \in 1 .. Len(waiting) : q[i] = waiting[i]
    BY <2>1
  <2>3. ASSUME NEW i \in 1 .. Len(q) PROVE i = Len(waiting) + 1 \/ i \in 1 .. Len(waiting)
    BY <2>2
  <2>4. Apart(q, D)
    <3>1. ASSUME NEW i \in 1 .. Len(q) PROVE q[i] \notin D
      BY <1>2, <2>2, <2>3 DEF Apart
    <3>2. ASSUME NEW i \in 1 .. Len(q), NEW j \in 1 .. Len(q), q[i] = q[j] PROVE i = j
      <4>1. CASE i = Len(waiting) + 1 /\ j \in 1 .. Len(waiting)
        BY <1>2, <2>2, <3>2, <4>1
      <4>2. CASE j = Len(waiting) + 1 /\ i \in 1 .. Len(waiting)
        BY <1>2, <2>2, <3>2, <4>2
      <4>3. CASE i \in 1 .. Len(waiting) /\ j \in 1 .. Len(waiting)
        BY <2>2, <3>2, <4>3 DEF Apart
      <4> QED BY <2>3, <4>1, <4>2, <4>3
    <3> QED BY <3>1, <3>2 DEF Apart
  <2>5. ASSUME NEW m \in Ns PROVE d[m] = 0 <=> (m \in D \/ \E i \in 1 .. Len(q) : q[i] = m)
    <3>1. CASE m = n
      <4>1. Len(waiting) + 1 \in 1 .. Len(q)
        BY <2>2
      <4> QED BY <1>1, <1>3, <2>2, <3>1, <4>1
    <3>2. CASE m # n
      <4>1. d[m] = deg[m]
        BY <1>1, <3>2
      <4>2. deg[m] = 0 <=> (m \in D \/ \E i \in 1 .. Len(waiting) : waiting[i] = m)
        BY DEF Ready
      <4>3. (\E i \in 1 .. Len(q) : q[i] = m) <=> \E i \in 1 .. Len(waiting) : waiting[i] = m
        <5>1. ASSUME NEW i \in 1 .. Len(q), q[i] = m PROVE \E j \in 1 .. Len(waiting) : waiting[j] = m
          <6>1. i \in 1 .. Len(waiting)
            BY <2>2, <2>3, <3>2, <5>1
          <6> QED BY <2>2, <5>1, <6>1
        <5>2. ASSUME NEW i \in 1 .. Len(waiting), waiting[i] = m PROVE \E j \in 1 .. Len(q) : q[j] = m
          <6>1. i \in 1 .. Len(q)
            BY <2>2
          <6> QED BY <2>2, <5>2, <6>1
        <5> QED BY <5>1, <5>2
      <4> QED BY <4>1, <4>2, <4>3
    <3> QED BY <3>1, <3>2
  <2>6. Ready(Ns, d, q, D)
    BY <2>5 DEF Ready
  <2> QED BY <2>4, <2>6 DEF q, d
<1>4. CASE deg[n] # 1
  <2>1. q = waiting /\ d[n] # 0
    BY <1>1, <1>4
  <2> HIDE DEF q
  <2>2. ASSUME NEW m \in Ns PROVE d[m] = 0 <=> (m \in D \/ \E i \in 1 .. Len(waiting) : waiting[i] = m)
    <3>1. CASE m = n
      BY <1>2, <2>1, <3>1
    <3>2. CASE m # n
      BY <1>1, <3>2 DEF Ready
    <3> QED BY <3>1, <3>2
  <2>3. Ready(Ns, d, q, D) /\ Apart(q, D)
    BY <2>1, <2>2 DEF Ready
  <2> QED BY <2>3 DEF q, d
<1> QED BY <1>3, <1>4

\* The mention e is met.
LEMMA MeetStep ==
  ASSUME NEW ls, NEW M \in Seq([dep : Names(ls), name : Names(ls)]), NEW s \in States(ls),
         NEW U \in SUBSET (1 .. Len(M)), NEW e \in U, NEW D, Kahn(M, Names(ls), s, U, D)
  PROVE  Kahn(M, Names(ls), MeetDependency(s, M[e].name), U \ {e}, D)
<1> DEFINE n == M[e].name
           t == MeetDependency(s, n)
           Ns == Names(ls)
<1>1. n \in Ns /\ Len(M) \in Nat
  <2>1. Len(M) \in Nat /\ M[e] \in [dep : Ns, name : Ns]
    <3> DEFINE R == [dep : Ns, name : Ns]
    <3>1. M \in Seq(R) /\ e \in 1 .. Len(M)
      OBVIOUS
    <3> HIDE DEF R
    <3>2. Len(M) \in Nat /\ M[e] \in R
      BY <3>1
    <3> QED BY <3>2 DEF R
  <2> HIDE DEF Ns
  <2> QED BY <2>1
<1>2. s.queue \in Seq(Ns) /\ s.deg \in [Ns -> Int]
  BY DEF States
<1>3. t.deg = [s.deg EXCEPT ![n] = s.deg[n] - 1] /\ t.queue = IF s.deg[n] = 1 THEN Append(s.queue, n) ELSE s.queue
  <2>1. Meets(ls, s, n, t)
    <3> HIDE DEF n
    <3> QED BY <1>1, MeetIs
  <2> HIDE DEF n, t
  <2> QED BY <2>1 DEF Meets
<1>4. s.deg[n] >= 1 /\ Counts(M, Ns, [s.deg EXCEPT ![n] = s.deg[n] - 1], U \ {e})
  <2>1. Counts(M, Ns, s.deg, U)
    BY DEF Kahn
  <2> HIDE DEF Ns
  <2> QED BY <1>1, <1>2, <2>1, CountStep
<1>5. Ready(Ns, t.deg, t.queue, D) /\ Apart(t.queue, D)
  <2>1. Ready(Ns, s.deg, s.queue, D) /\ Apart(s.queue, D)
    BY DEF Kahn
  <2> DEFINE q == IF s.deg[n] = 1 THEN Append(s.queue, n) ELSE s.queue
             d == [s.deg EXCEPT ![n] = s.deg[n] - 1]
  <2>2. Ready(Ns, d, q, D) /\ Apart(q, D)
    <3> HIDE DEF Ns, n
    <3> QED BY <1>1, <1>2, <1>4, <2>1, QueueStep
  <2>3. t.deg = d /\ t.queue = q
    BY <1>3
  <2> HIDE DEF Ns, t, d, q
  <2> QED BY <2>2, <2>3
<1> HIDE DEF t
<1> QED BY <1>3, <1>4, <1>5 DEF Kahn, t

\* f takes the steps of the loop over the dependents of n.
Meeting(f, ls, M, s, n) ==
  /\ f \in [0 .. Len(M) -> States(ls)] /\ f[0] = s
  /\ \A e \in 1 .. Len(M) : f[e] = IF M[e].dep = n THEN MeetDependency(f[e - 1], M[e].name) ELSE f[e - 1]

LEMMA MeetDependentsIs ==
  ASSUME NEW ls, Fit(ls), NEW s \in States(ls), NEW n
  PROVE  \E f : Meeting(f, ls, Mentions(ls), s, n) /\ MeetDependents(ls, s, n) = f[Len(Mentions(ls))]
<1> DEFINE M == Mentions(ls)
           N == Len(M)
           T == States(ls)
           Step(e, x) == IF M[e].dep = n THEN MeetDependency(x, M[e].name) ELSE x
           G == [e \in 1 .. N |-> [x \in T |-> Step(e, x)]]
           E(h) == [e \in 0 .. N |-> IF e = 0 THEN s ELSE Step(e, h[e - 1])]
           met == CHOOSE h : h = E(h)
<1>1. N \in Nat /\ \A e \in 1 .. N : M[e].name \in Names(ls)
  <2>1. M \in Seq([dep : Names(ls), name : Names(ls)])
    BY MentionsAre DEF MentionsOf
  <2> HIDE DEF M
  <2> DEFINE R == [dep : Names(ls), name : Names(ls)]
  <2>2. N \in Nat /\ \A e \in 1 .. N : M[e] \in R
    <3>1. M \in Seq(R)
      BY <2>1
    <3> HIDE DEF R
    <3> QED BY <3>1
  <2> QED BY <2>2
<1>2. ASSUME NEW e \in 1 .. N, NEW x \in T PROVE Step(e, x) \in T
  <2>1. Meets(ls, x, M[e].name, MeetDependency(x, M[e].name))
    <3> DEFINE m == M[e].name
    <3>1. m \in Names(ls)
      BY <1>1
    <3> HIDE DEF m
    <3>2. Meets(ls, x, m, MeetDependency(x, m))
      BY <3>1, MeetIs
    <3> QED BY <3>2 DEF m
  <2>2. MeetDependency(x, M[e].name) \in T
    BY <2>1 DEF Meets
  <2> QED BY <2>2
<1>0. MeetDependents(ls, s, n) = met[N]
  BY DEF MeetDependents
<1> HIDE DEF Step, M, N, T
<1>3. G \in [1 .. N -> [T -> T]] /\ \A e \in 1 .. N, x \in T : G[e][x] = Step(e, x)
  BY <1>2
<1>4. s \in T
  BY DEF T
<1> HIDE DEF G
<1>5. PICK g \in [0 .. N -> T] : Iterates(g, N, s, G)
  BY <1>1, <1>3, <1>4, IterationExists
<1>6. g = E(g)
  <2>1. ASSUME NEW e \in 0 .. N PROVE g[e] = IF e = 0 THEN s ELSE Step(e, g[e - 1])
    <3>1. CASE e = 0
      BY <1>5, <3>1 DEF Iterates
    <3>2. CASE e # 0
      <4>1. e \in 1 .. N /\ e - 1 \in 0 .. N
        BY <1>1, <3>2
      <4>2. g[e - 1] \in T /\ g[e] = G[e][g[e - 1]]
        BY <1>5, <4>1 DEF Iterates
      <4> QED BY <1>3, <3>2, <4>1, <4>2
    <3> QED BY <3>1, <3>2
  <2> QED BY <1>5, <2>1
<1>7. met = E(met)
  <2> HIDE DEF E
  <2> QED BY <1>6
<1> HIDE DEF met
<1>8. met[0] = s /\ \A e \in 1 .. N : met[e] = Step(e, met[e - 1])
  <2>1. \A e \in 0 .. N : met[e] = IF e = 0 THEN s ELSE Step(e, met[e - 1])
    BY <1>7
  <2>2. 0 \in 0 .. N /\ \A e \in 1 .. N : e \in 0 .. N /\ e # 0
    BY <1>1
  <2> QED BY <2>1, <2>2
<1> DEFINE C == {e \in 0 .. N : met[e] \in T}
<1>9. C = 0 .. N
  <2>1. C \in SUBSET (0 .. N) /\ 0 \in C
    BY <1>1, <1>4, <1>8
  <2>2. ASSUME NEW e \in 1 .. N, e - 1 \in C PROVE e \in C
    BY <1>1, <1>2, <1>8, <2>2
  <2> HIDE DEF C
  <2> QED BY <1>1, <2>1, <2>2, Climb
<1>10. met \in [0 .. N -> T]
  <2>1. \A e \in 0 .. N : met[e] \in T
    BY <1>9
  <2> QED BY <1>7, <2>1
<1>11. Meeting(met, ls, M, s, n)
  BY <1>8, <1>10 DEF Meeting, Step, N, T
<1> QED BY <1>0, <1>11 DEF M, N

\* The loop over the dependents of n meets all mentions of n.
LEMMA MeetAll ==
  ASSUME NEW ls, Fit(ls), NEW s \in States(ls), NEW n, NEW U \in SUBSET (1 .. Len(Mentions(ls))), NEW D,
         Kahn(Mentions(ls), Names(ls), s, U, D),
         \A e \in 1 .. Len(Mentions(ls)) : Mentions(ls)[e].dep = n => e \in U
  PROVE  Kahn(Mentions(ls), Names(ls), MeetDependents(ls, s, n), {e \in U : Mentions(ls)[e].dep # n}, D)
<1> DEFINE M == Mentions(ls)
           N == Len(M)
           Ns == Names(ls)
           H(e) == M[e].dep = n
           V(j) == {e \in U : ~(H(e) /\ e <= j)}
<1>1. M \in Seq([dep : Ns, name : Ns])
  BY MentionsAre DEF MentionsOf
<1>2. PICK f : Meeting(f, ls, M, s, n) /\ MeetDependents(ls, s, n) = f[N]
  BY MeetDependentsIs
<1> HIDE DEF M
<1>3. N \in Nat /\ U \in SUBSET (1 .. N) /\ (\A e \in 1 .. N : M[e].dep = n => e \in U) /\ Kahn(M, Ns, s, U, D)
  BY <1>1 DEF M
<1>4. f \in [0 .. N -> States(ls)] /\ f[0] = s
      /\ \A e \in 1 .. N : f[e] = IF M[e].dep = n THEN MeetDependency(f[e - 1], M[e].name) ELSE f[e - 1]
  BY <1>2 DEF Meeting
<1> DEFINE C == {j \in 0 .. N : Kahn(M, Ns, f[j], V(j), D)}
<1> HIDE DEF N, H
<1>0. \A e \in U : e \in Nat /\ e >= 1 /\ e <= N
  BY <1>3
<1>5. 0 \in C
  <2>1. V(0) = U
    <3>1. \A e \in U : ~(e <= 0)
      BY <1>0
    <3> QED BY <3>1, Zenon
  <2> HIDE DEF V
  <2>2. 0 \in 0 .. N
    BY <1>3
  <2> QED BY <1>3, <1>4, <2>1, <2>2
<1>6. ASSUME NEW j \in 1 .. N, j - 1 \in C PROVE j \in C
  <2>1. j - 1 \in 0 .. N /\ j \in 0 .. N /\ f[j - 1] \in States(ls) /\ Kahn(M, Ns, f[j - 1], V(j - 1), D)
    BY <1>3, <1>4, <1>6
  <2>2. CASE M[j].dep = n
    <3>0. H(j) /\ j \in U /\ j \in Nat
      BY <1>3, <2>1, <2>2 DEF H
    <3>1. V(j) = V(j - 1) \ {j} /\ j \in V(j - 1) /\ V(j - 1) \in SUBSET (1 .. N)
      <4>1. ASSUME NEW e \in U PROVE e <= j - 1 <=> e <= j /\ e # j
        BY <1>0, <3>0
      <4>2. ~(j <= j - 1)
        BY <3>0
      <4>3. V(j) = V(j - 1) \ {j}
        <5>1. j <= j
          BY <3>0
        <5>2. ASSUME NEW e PROVE e \in V(j) <=> e \in V(j - 1) \ {j}
          BY <3>0, <4>1, <5>1, Zenon
        <5> QED BY <5>2, Zenon
      <4>4. V(j - 1) \in SUBSET (1 .. N)
        BY <1>3
      <4> QED BY <3>0, <4>2, <4>3, <4>4
    <3>2. f[j] = MeetDependency(f[j - 1], M[j].name)
      BY <1>4, <2>2
    <3> DEFINE W == V(j - 1)
               x == f[j - 1]
    <3>3. W \in SUBSET (1 .. Len(M)) /\ j \in W /\ x \in States(ls) /\ Kahn(M, Ns, x, W, D)
      BY <2>1, <3>1 DEF N
    <3> HIDE DEF W, x
    <3>4. Kahn(M, Ns, MeetDependency(x, M[j].name), W \ {j}, D)
      BY <1>1, <3>3, MeetStep
    <3>5. Kahn(M, Ns, f[j], V(j), D)
      BY <3>1, <3>2, <3>4 DEF W, x
    <3> QED BY <2>1, <3>5
  <2>3. CASE M[j].dep # n
    <3>1. V(j) = V(j - 1)
      <4>0. ~H(j) /\ j \in Nat
        BY <2>3 DEF H
      <4>1. ASSUME NEW e \in U, e # j PROVE e <= j - 1 <=> e <= j
        BY <1>0, <4>0, <4>1
      <4> QED BY <4>0, <4>1
    <3>2. f[j] = f[j - 1]
      BY <1>4, <2>3
    <3> HIDE DEF V
    <3> QED BY <2>1, <3>1, <3>2
  <2> QED BY <2>2, <2>3
<1>7. C = 0 .. N
  <2>1. C \in SUBSET (0 .. N)
    OBVIOUS
  <2> HIDE DEF C
  <2> QED BY <1>3, <1>5, <1>6, <2>1, Climb
<1>8. Kahn(M, Ns, f[N], V(N), D)
  <2>1. N \in 0 .. N
    BY <1>3
  <2> QED BY <1>7, <2>1
<1>9. V(N) = {e \in U : M[e].dep # n}
  <2>1. V(N) = {e \in U : ~H(e)}
    BY <1>0
  <2> QED BY <2>1 DEF H
<1> HIDE DEF V
<1> QED BY <1>2, <1>8, <1>9 DEF M

\* It leaves the sorted layers alone.
LEMMA MeetType ==
  ASSUME NEW ls, Fit(ls), NEW s \in States(ls), NEW n
  PROVE  MeetDependents(ls, s, n) \in States(ls) /\ MeetDependents(ls, s, n).sorted = s.sorted
<1> DEFINE M == Mentions(ls)
           N == Len(M)
<1>1. M \in Seq([dep : Names(ls), name : Names(ls)])
  BY MentionsAre DEF MentionsOf
<1>2. PICK f : Meeting(f, ls, M, s, n) /\ MeetDependents(ls, s, n) = f[N]
  BY MeetDependentsIs
<1> HIDE DEF M
<1>3. N \in Nat /\ \A e \in 1 .. N : M[e].name \in Names(ls)
  <2> DEFINE R == [dep : Names(ls), name : Names(ls)]
  <2>2. N \in Nat /\ \A e \in 1 .. N : M[e] \in R
    <3>1. M \in Seq(R)
      BY <1>1
    <3> HIDE DEF R
    <3> QED BY <3>1
  <2> QED BY <2>2
<1>4. f \in [0 .. N -> States(ls)] /\ f[0] = s
      /\ \A e \in 1 .. N : f[e] = IF M[e].dep = n THEN MeetDependency(f[e - 1], M[e].name) ELSE f[e - 1]
  BY <1>2 DEF Meeting
<1> DEFINE C == {j \in 0 .. N : f[j].sorted = s.sorted}
<1> HIDE DEF N
<1>5. 0 \in C
  BY <1>3, <1>4
<1>6. ASSUME NEW j \in 1 .. N, j - 1 \in C PROVE j \in C
  <2> DEFINE m == M[j].name
             x == f[j - 1]
             y == MeetDependency(x, m)
  <2>1. j \in 0 .. N /\ x \in States(ls) /\ x.sorted = s.sorted /\ m \in Names(ls)
    BY <1>3, <1>4, <1>6
  <2>2. f[j] = y \/ f[j] = x
    BY <1>4
  <2>3. y.sorted = x.sorted
    <3> HIDE DEF m, x
    <3>1. Meets(ls, x, m, y)
      BY <2>1, MeetIs
    <3> HIDE DEF y
    <3> QED BY <3>1 DEF Meets
  <2> HIDE DEF y, x
  <2> QED BY <2>1, <2>2, <2>3
<1>7. C = 0 .. N
  <2>1. C \in SUBSET (0 .. N)
    OBVIOUS
  <2> HIDE DEF C
  <2> QED BY <1>3, <1>5, <1>6, <2>1, Climb
<1>8. N \in 0 .. N
  BY <1>3
<1>9. f[N] \in States(ls) /\ f[N].sorted = s.sorted
  BY <1>4, <1>7, <1>8
<1> QED BY <1>2, <1>9

\* The first name of the queue is done.
LEMMA QueuePop ==
  ASSUME NEW Ns, NEW deg, NEW waiting \in Seq(Ns), waiting # <<>>, NEW D, Ready(Ns, deg, waiting, D), Apart(waiting, D)
  PROVE  /\ Head(waiting) \in Ns /\ Head(waiting) \notin D /\ deg[Head(waiting)] = 0 /\ Tail(waiting) \in Seq(Ns)
         /\ Ready(Ns, deg, Tail(waiting), D \union {Head(waiting)})
         /\ Apart(Tail(waiting), D \union {Head(waiting)})
<1> DEFINE n == Head(waiting)
           q == Tail(waiting)
           N == Len(waiting)
<1>1. N \in Nat /\ N >= 1 /\ n = waiting[1] /\ n \in Ns /\ q \in Seq(Ns) /\ Len(q) = N - 1
      /\ \A i \in 1 .. N - 1 : q[i] = waiting[i + 1]
  OBVIOUS
<1> HIDE DEF n, q, N
<1>2. /\ \A i \in 1 .. N : waiting[i] \notin D
      /\ \A i, j \in 1 .. N : waiting[i] = waiting[j] => i = j
      /\ \A m \in Ns : deg[m] = 0 <=> (m \in D \/ \E i \in 1 .. N : waiting[i] = m)
  BY DEF Apart, Ready, N
<1>3. 1 \in 1 .. N /\ \A i \in 1 .. N - 1 : i + 1 \in 1 .. N /\ i + 1 # 1
  BY <1>1
<1>4. n \notin D /\ deg[n] = 0
  BY <1>1, <1>2, <1>3
<1>5. ASSUME NEW i \in 1 .. Len(q) PROVE q[i] \notin D \union {n}
  BY <1>1, <1>2, <1>3
<1>6. ASSUME NEW i \in 1 .. Len(q), NEW j \in 1 .. Len(q), q[i] = q[j] PROVE i = j
  <2>1. i + 1 \in 1 .. N /\ j + 1 \in 1 .. N /\ waiting[i + 1] = waiting[j + 1]
    BY <1>1, <1>3, <1>6
  <2>2. i + 1 = j + 1
    BY <1>2, <2>1
  <2> QED BY <2>2
<1>7. ASSUME NEW m \in Ns PROVE deg[m] = 0 <=> (m \in D \union {n} \/ \E i \in 1 .. Len(q) : q[i] = m)
  <2>1. ASSUME NEW i \in 1 .. N, waiting[i] = m, m # n PROVE \E j \in 1 .. Len(q) : q[j] = m
    <3>1. i # 1
      BY <1>1, <2>1
    <3>2. i - 1 \in 1 .. N - 1 /\ (i - 1) + 1 = i
      BY <1>1, <3>1
    <3> QED BY <1>1, <2>1, <3>2
  <2>2. ASSUME NEW i \in 1 .. Len(q), q[i] = m PROVE \E j \in 1 .. N : waiting[j] = m
    BY <1>1, <1>3, <2>2
  <2> QED BY <1>2, <1>4, <2>1, <2>2
<1>8. Ready(Ns, deg, q, D \union {n}) /\ Apart(q, D \union {n})
  BY <1>5, <1>6, <1>7 DEF Ready, Apart
<1> QED BY <1>1, <1>4, <1>8 DEF n, q

\* Where the loop is after some rounds.
SortedSoFar(ls, s) ==
  /\ s \in States(ls)
  /\ Kahn(Mentions(ls), Names(ls), s,
          {e \in 1 .. Len(Mentions(ls)) : Mentions(ls)[e].dep \notin Names(s.sorted)}, Names(s.sorted))
  /\ DependenciesFirst(s.sorted) /\ UniqueNames(s.sorted)

\* A layer behind the sorted ones.
LEMMA NamesAppend ==
  ASSUME NEW S, NEW so \in Seq(S), NEW l \in S
  PROVE  Names(Append(so, l)) = Names(so) \union {l.name}
<1> DEFINE a == Append(so, l)
           N == Len(so)
<1>1. N \in Nat /\ DOMAIN so = 1 .. N /\ DOMAIN a = 1 .. N + 1 /\ a[N + 1] = l /\ \A i \in 1 .. N : a[i] = so[i]
  OBVIOUS
<1> HIDE DEF a, N
<1>2. N + 1 \in 1 .. N + 1 /\ (\A i \in 1 .. N + 1 : i = N + 1 \/ i \in 1 .. N) /\ \A i \in 1 .. N : i \in 1 .. N + 1
  BY <1>1
<1>3. ASSUME NEW n PROVE n \in Names(a) <=> n \in Names(so) \union {l.name}
  BY <1>1, <1>2 DEF Names
<1> QED BY <1>3 DEF a

LEMMA PopType ==
  ASSUME NEW ls, Fit(ls), NEW s \in States(ls)
  PROVE  /\ PopLayer(ls, s) \in States(ls)
         /\ s.queue = <<>> => PopLayer(ls, s) = s
         /\ s.queue # <<>> => PopLayer(ls, s).sorted = Append(s.sorted, LayerMap(ls)[Head(s.queue)])
<1>1. CASE s.queue = <<>>
  BY <1>1 DEF PopLayer
<1>2. CASE s.queue # <<>>
  <2> DEFINE n == Head(s.queue)
             r == [queue |-> Tail(s.queue), deg |-> s.deg, sorted |-> Append(s.sorted, LayerMap(ls)[n])]
  <2>1. s.queue \in Seq(Names(ls)) /\ s.deg \in [Names(ls) -> Int] /\ s.sorted \in Seq(ToSet(ls))
    BY DEF States
  <2>2. n \in Names(ls) /\ Tail(s.queue) \in Seq(Names(ls))
    BY <1>2, <2>1
  <2>3. PopLayer(ls, s) = MeetDependents(ls, r, n)
    BY <1>2 DEF PopLayer
  <2> HIDE DEF n
  <2>4. LayerMap(ls)[n] \in ToSet(ls)
    BY <2>2, LayerMapIs
  <2>5. Append(s.sorted, LayerMap(ls)[n]) \in Seq(ToSet(ls))
    BY <2>1, <2>4
  <2>6. r \in States(ls) /\ r.sorted = Append(s.sorted, LayerMap(ls)[n])
    BY <2>1, <2>2, <2>5 DEF States
  <2> HIDE DEF r
  <2>7. MeetDependents(ls, r, n) \in States(ls) /\ MeetDependents(ls, r, n).sorted = r.sorted
    BY <2>6, MeetType
  <2> QED BY <1>2, <2>3, <2>6, <2>7 DEF n
<1> QED BY <1>1, <1>2

\* A layer that has nothing to wait for needs only layers that are done.
LEMMA NothingToWaitFor ==
  ASSUME NEW ls, Fit(ls), NEW deg, NEW P,
         Counts(Mentions(ls), Names(ls), deg, {e \in 1 .. Len(Mentions(ls)) : Mentions(ls)[e].dep \notin P}),
         NEW l \in ToSet(ls), deg[l.name] = 0, NEW k \in DOMAIN l.deps
  PROVE  l.deps[k] \in P
<1> DEFINE M == Mentions(ls)
           N == Len(M)
           W == {e \in 1 .. N : M[e].dep \notin P}
           X == {e \in W : M[e].name = l.name}
<1>1. MentionsOf(M, ls)
  BY MentionsAre
<1>2. N \in Nat
  BY <1>1 DEF MentionsOf
<1>3. PICK i \in 1 .. Len(ls) : l = ls[i]
  BY NamesAre DEF ToSet
<1>4. l.name \in Names(ls) /\ l.deps \in Seq(Names(ls)) /\ k \in 1 .. Len(ls[i].deps)
  BY <1>3, NamesAre DEF Fit
<1> HIDE DEF M
<1>5. PICK e \in 1 .. N : M[e].dep = ls[i].deps[k] /\ M[e].name = ls[i].name
  BY <1>1, <1>4 DEF MentionsOf
<1>6. Cardinality(X) = 0
  <2>1. deg[l.name] = Cardinality(X)
    BY <1>4 DEF Counts, M
  <2> QED BY <2>1
<1>7. X = {}
  <2>1. IsFiniteSet(1 .. N)
    BY <1>2, FS_Interval
  <2>2. X \in SUBSET (1 .. N)
    OBVIOUS
  <2> HIDE DEF X
  <2>3. IsFiniteSet(X)
    BY <2>1, <2>2, FS_Subset
  <2> QED BY <1>6, <2>3, FS_EmptySet
<1>8. e \notin X
  BY <1>7
<1> QED BY <1>3, <1>5, <1>8

\* A round keeps what is sorted in order.
LEMMA PopStep ==
  ASSUME NEW ls, Fit(ls), NEW s, SortedSoFar(ls, s), s.queue # <<>>
  PROVE  SortedSoFar(ls, PopLayer(ls, s))
<1> DEFINE M == Mentions(ls)
           N == Len(M)
           Ns == Names(ls)
           P == Names(s.sorted)
           U == {e \in 1 .. N : M[e].dep \notin P}
           n == Head(s.queue)
           l == LayerMap(ls)[n]
           so == Append(s.sorted, l)
           r == [queue |-> Tail(s.queue), deg |-> s.deg, sorted |-> so]
           t == MeetDependents(ls, r, n)
           K == Len(s.sorted)
<1>1. s \in States(ls) /\ Kahn(M, Ns, s, U, P) /\ DependenciesFirst(s.sorted) /\ UniqueNames(s.sorted)
  BY DEF SortedSoFar
<1>2. s.queue \in Seq(Ns) /\ s.deg \in [Ns -> Int] /\ s.sorted \in Seq(ToSet(ls))
  BY <1>1 DEF States
<1>3. PopLayer(ls, s) = t
  BY DEF PopLayer
<1>4. Counts(M, Ns, s.deg, U) /\ Ready(Ns, s.deg, s.queue, P) /\ Apart(s.queue, P)
  BY <1>1 DEF Kahn
<1>5. n \in Ns /\ n \notin P /\ s.deg[n] = 0 /\ Tail(s.queue) \in Seq(Ns)
      /\ Ready(Ns, s.deg, Tail(s.queue), P \union {n}) /\ Apart(Tail(s.queue), P \union {n})
  <2> HIDE DEF Ns, P
  <2> QED BY <1>2, <1>4, QueuePop
<1>6. l \in ToSet(ls) /\ l.name = n
  <2> HIDE DEF n
  <2> QED BY <1>5, LayerMapIs
<1> HIDE DEF l, n
<1>7. so \in Seq(ToSet(ls)) /\ Names(so) = P \union {n} /\ K \in Nat /\ Len(so) = K + 1 /\ so[K + 1] = l
      /\ (\A i \in 1 .. K : so[i] = s.sorted[i]) /\ DOMAIN so = 1 .. K + 1 /\ DOMAIN s.sorted = 1 .. K
  <2> DEFINE x == s.sorted
             S == ToSet(ls)
  <2>1. x \in Seq(S) /\ l \in S
    BY <1>2, <1>6
  <2> HIDE DEF x, S
  <2>2. Append(x, l) \in Seq(S) /\ Len(Append(x, l)) = Len(x) + 1 /\ Append(x, l)[Len(x) + 1] = l /\ Len(x) \in Nat
        /\ (\A i \in 1 .. Len(x) : Append(x, l)[i] = x[i]) /\ DOMAIN Append(x, l) = 1 .. Len(x) + 1 /\ DOMAIN x = 1 .. Len(x)
    BY <2>1
  <2>3. Names(Append(x, l)) = Names(x) \union {l.name}
    BY <2>1, NamesAppend
  <2> QED BY <1>6, <2>2, <2>3 DEF x, S
<1>8. r \in States(ls) /\ r.deg = s.deg /\ r.queue = Tail(s.queue) /\ r.sorted = so
  <2> HIDE DEF so
  <2> QED BY <1>2, <1>5, <1>7 DEF States
<1> HIDE DEF so, r
<1>9. Kahn(M, Ns, r, U, P \union {n})
  BY <1>4, <1>5, <1>8 DEF Kahn
<1>10. t \in States(ls) /\ t.sorted = so
  BY <1>8, MeetType
<1>11. Kahn(M, Ns, t, {e \in U : M[e].dep # n}, P \union {n})
  <2>1. \A e \in 1 .. N : M[e].dep = n => e \in U
    BY <1>5
  <2>2. U \in SUBSET (1 .. N)
    OBVIOUS
  <2> HIDE DEF U
  <2> QED BY <1>8, <1>9, <2>1, <2>2, MeetAll
<1> HIDE DEF t
<1>12. {e \in U : M[e].dep # n} = {e \in 1 .. N : M[e].dep \notin Names(so)}
  BY <1>7
<1>13. DependenciesFirst(so)
  <2>1. ASSUME NEW i \in 1 .. K + 1, NEW k \in DOMAIN so[i].deps PROVE \E j \in 1 .. i - 1 : so[j].name = so[i].deps[k]
    <3>1. CASE i = K + 1
      <4>1. k \in DOMAIN l.deps /\ so[i] = l
        BY <1>7, <2>1, <3>1
      <4>2. l.deps[k] \in P
        <5> HIDE DEF P
        <5> QED BY <1>4, <1>5, <1>6, <4>1, NothingToWaitFor
      <4>3. PICK j \in 1 .. K : s.sorted[j].name = l.deps[k]
        BY <1>7, <4>2 DEF Names
      <4>4. j \in 1 .. i - 1 /\ so[j] = s.sorted[j]
        BY <1>7, <3>1
      <4> QED BY <4>1, <4>3, <4>4
    <3>2. CASE i # K + 1
      <4>1. i \in 1 .. K /\ so[i] = s.sorted[i]
        BY <1>7, <3>2
      <4>2. PICK j \in 1 .. i - 1 : s.sorted[j].name = s.sorted[i].deps[k]
        BY <1>1, <1>7, <2>1, <4>1 DEF DependenciesFirst
      <4>3. so[j] = s.sorted[j]
        BY <1>7, <4>1
      <4> QED BY <4>1, <4>2, <4>3
    <3> QED BY <3>1, <3>2
  <2> QED BY <1>7, <2>1 DEF DependenciesFirst
<1>14. UniqueNames(so)
  <2>0. \A i \in 1 .. K : s.sorted[i].name # n
    BY <1>5, <1>7 DEF Names
  <2>1. ASSUME NEW i \in 1 .. K + 1, NEW j \in 1 .. K + 1, so[i].name = so[j].name PROVE i = j
    <3>1. CASE i = K + 1 /\ j \in 1 .. K
      BY <1>6, <1>7, <2>0, <2>1, <3>1
    <3>2. CASE j = K + 1 /\ i \in 1 .. K
      BY <1>6, <1>7, <2>0, <2>1, <3>2
    <3>3. CASE i \in 1 .. K /\ j \in 1 .. K
      BY <1>1, <1>7, <2>1, <3>3 DEF UniqueNames
    <3>4. (i = K + 1 \/ i \in 1 .. K) /\ (j = K + 1 \/ j \in 1 .. K)
      BY <1>7
    <3> QED BY <3>1, <3>2, <3>3, <3>4
  <2> QED BY <1>7, <2>1 DEF UniqueNames
<1>15. Kahn(M, Ns, t, {e \in 1 .. N : M[e].dep \notin Names(so)}, Names(so))
  BY <1>7, <1>11, <1>12
<1> QED BY <1>3, <1>10, <1>13, <1>14, <1>15 DEF SortedSoFar

\* At first deg counts all mentions.
LEMMA InDegreeIs ==
  ASSUME NEW ls, Fit(ls)
  PROVE  /\ InDegree(ls) \in [Names(ls) -> Int]
         /\ Counts(Mentions(ls), Names(ls), InDegree(ls), 1 .. Len(Mentions(ls)))
<1> DEFINE M == Mentions(ls)
           N == Len(M)
           A(m) == {e \in 1 .. N : M[e].name = m}
           d == [m \in Names(ls) |-> Cardinality(A(m))]
<1>1. M \in Seq([dep : Names(ls), name : Names(ls)])
  BY MentionsAre DEF MentionsOf
<1>2. N \in Nat /\ DOMAIN M = 1 .. N
  <2> HIDE DEF M
  <2> QED BY <1>1
<1>3. InDegree(ls) = d
  BY <1>2 DEF InDegree
<1>4. ASSUME NEW m PROVE Cardinality(A(m)) \in Nat
  <2>1. IsFiniteSet(1 .. N)
    BY <1>2, FS_Interval
  <2>2. A(m) \in SUBSET (1 .. N)
    OBVIOUS
  <2> HIDE DEF A
  <2>3. IsFiniteSet(A(m))
    BY <2>1, <2>2, FS_Subset
  <2> QED BY <2>3, FS_CardinalityType
<1>5. d \in [Names(ls) -> Int] /\ \A m \in Names(ls) : d[m] = Cardinality(A(m))
  <2> HIDE DEF A
  <2> QED BY <1>4
<1> HIDE DEF d
<1> QED BY <1>3, <1>5 DEF Counts

\* At first the layers without dependencies are queued: the queue and where its names come from.
LEMMA StartIs ==
  ASSUME NEW ls, Fit(ls)
  PROVE  /\ Start(ls) \in States(ls) /\ Start(ls).sorted = <<>> /\ Start(ls).deg = InDegree(ls)
         /\ Ready(Names(ls), InDegree(ls), Start(ls).queue, {})
         /\ UniqueNames(ls) => Apart(Start(ls).queue, {})
<1> DEFINE d == InDegree(ls)
           N == Len(ls)
           Ns == Names(ls)
           nm(i) == ls[i].name
           ss == [i \in DOMAIN ls |-> IF d[nm(i)] = 0 THEN <<nm(i)>> ELSE <<>>]
           q == FlattenSeq(ss)
<1>1. N \in Nat /\ DOMAIN ls = 1 .. N /\ (\A i \in 1 .. N : nm(i) \in Ns)
      /\ \A n \in Ns : \E i \in 1 .. N : nm(i) = n
  BY NamesAre
<1>2. Start(ls) = [queue |-> q, deg |-> d, sorted |-> <<>>]
  BY DEF Start
<1>3. d \in [Ns -> Int]
  BY InDegreeIs
<1>u. UniqueNames(ls) => \A i, j \in 1 .. N : nm(i) = nm(j) => i = j
  BY <1>1 DEF UniqueNames
<1> HIDE DEF d, nm, N, Ns
<1>4. ss \in Seq(Seq(Ns)) /\ Len(ss) = N
      /\ \A i \in 1 .. N : ss[i] = IF d[nm(i)] = 0 THEN <<nm(i)>> ELSE <<>>
  <2>1. ss = [i \in 1 .. N |-> IF d[nm(i)] = 0 THEN <<nm(i)>> ELSE <<>>]
    BY <1>1
  <2>2. ASSUME NEW i \in 1 .. N PROVE <<nm(i)>> \in Seq(Ns) /\ <<>> \in Seq(Ns)
    BY <1>1
  <2>3. ss \in [1 .. N -> Seq(Ns)]
    BY <2>1, <2>2
  <2>4. \A i \in 1 .. N : ss[i] = IF d[nm(i)] = 0 THEN <<nm(i)>> ELSE <<>>
    BY <2>1
  <2> HIDE DEF ss
  <2> QED BY <1>1, <2>3, <2>4
<1> HIDE DEF ss
<1>5. q \in Seq(Ns) /\ \E o \in [1 .. Len(ss) -> Nat] : Spread(o, ss, q)
  BY <1>4, FlattenSpreads
<1>6. PICK o \in [1 .. Len(ss) -> Nat] : Spread(o, ss, q)
  BY <1>5
<1> HIDE DEF q
<1>7. ASSUME NEW e \in 1 .. Len(q) PROVE \E i \in 1 .. N : d[nm(i)] = 0 /\ q[e] = nm(i) /\ e = o[i] + 1
  <2>1. PICK i \in 1 .. Len(ss) : \E k \in 1 .. Len(ss[i]) : e = o[i] + k
    BY <1>6 DEF Spread
  <2>2. PICK k \in 1 .. Len(ss[i]) : e = o[i] + k
    BY <2>1
  <2>3. q[e] = ss[i][k] /\ i \in 1 .. N
    BY <1>4, <1>6, <2>2 DEF Spread
  <2>4. d[nm(i)] = 0
    <3>1. CASE d[nm(i)] # 0
      <4>1. ss[i] = <<>>
        BY <1>4, <2>3, <3>1
      <4>2. 1 .. Len(ss[i]) = {}
        BY <4>1
      <4> QED BY <2>2, <4>2
    <3> QED BY <3>1
  <2>5. ss[i] = <<nm(i)>>
    BY <1>4, <2>3, <2>4
  <2>6. k = 1 /\ ss[i][1] = nm(i)
    BY <2>2, <2>5
  <2> QED BY <2>2, <2>3, <2>4, <2>6
<1>8. ASSUME NEW i \in 1 .. N, d[nm(i)] = 0 PROVE \E e \in 1 .. Len(q) : q[e] = nm(i)
  <2>1. ss[i] = <<nm(i)>> /\ i \in 1 .. Len(ss)
    BY <1>4, <1>8
  <2>2. 1 \in 1 .. Len(ss[i]) /\ ss[i][1] = nm(i)
    BY <2>1
  <2>3. o[i] + 1 \in 1 .. Len(q) /\ q[o[i] + 1] = ss[i][1]
    BY <1>6, <2>1, <2>2 DEF Spread
  <2> QED BY <2>2, <2>3
<1>9. Ready(Ns, d, q, {})
  <2>1. ASSUME NEW m \in Ns PROVE d[m] = 0 <=> \E e \in 1 .. Len(q) : q[e] = m
    <3>1. PICK i \in 1 .. N : nm(i) = m
      BY <1>1
    <3> QED BY <1>7, <1>8, <3>1
  <2> QED BY <2>1 DEF Ready
<1>10. ASSUME UniqueNames(ls) PROVE Apart(q, {})
  <2>1. ASSUME NEW e \in 1 .. Len(q), NEW f \in 1 .. Len(q), q[e] = q[f] PROVE e = f
    <3>1. PICK i \in 1 .. N : q[e] = nm(i) /\ e = o[i] + 1
      BY <1>7
    <3>2. PICK j \in 1 .. N : q[f] = nm(j) /\ f = o[j] + 1
      BY <1>7
    <3>3. i = j
      BY <1>u, <1>10, <2>1, <3>1, <3>2
    <3> QED BY <3>1, <3>2, <3>3
  <2> QED BY <2>1 DEF Apart
<1>11. Start(ls) \in States(ls) /\ Start(ls).sorted = <<>> /\ Start(ls).deg = d /\ Start(ls).queue = q
  <2>1. <<>> \in Seq(ToSet(ls))
    OBVIOUS
  <2> QED BY <1>2, <1>3, <1>5, <2>1 DEF States, Ns
<1> QED BY <1>9, <1>10, <1>11 DEF Ns, d

LEMMA StartSorted ==
  ASSUME NEW ls, Fit(ls), UniqueNames(ls)
  PROVE  SortedSoFar(ls, Start(ls))
<1> DEFINE s == Start(ls)
           M == Mentions(ls)
<1>1. s \in States(ls) /\ s.sorted = <<>> /\ s.deg = InDegree(ls) /\ Ready(Names(ls), s.deg, s.queue, {}) /\ Apart(s.queue, {})
  BY StartIs
<1>2. Counts(M, Names(ls), s.deg, 1 .. Len(M))
  BY <1>1, InDegreeIs
<1> HIDE DEF s, M
<1>3. Names(s.sorted) = {}
  BY <1>1 DEF Names
<1>4. {e \in 1 .. Len(M) : M[e].dep \notin Names(s.sorted)} = 1 .. Len(M)
  BY <1>3
<1>5. Kahn(M, Names(ls), s, 1 .. Len(M), {})
  BY <1>1, <1>2 DEF Kahn
<1>6. DependenciesFirst(s.sorted) /\ UniqueNames(s.sorted)
  BY <1>1 DEF DependenciesFirst, UniqueNames
<1>7. Kahn(M, Names(ls), s, {e \in 1 .. Len(M) : M[e].dep \notin Names(s.sorted)}, Names(s.sorted))
  BY <1>3, <1>4, <1>5
<1> QED BY <1>1, <1>6, <1>7 DEF SortedSoFar, s, M

\* f takes the rounds of the loop.
Rounds(f, ls) ==
  /\ f \in [0 .. Len(ls) -> States(ls)] /\ f[0] = Start(ls)
  /\ \A n \in 1 .. Len(ls) : f[n] = PopLayer(ls, f[n - 1])

LEMMA SortedIs ==
  ASSUME NEW ls, Fit(ls)
  PROVE  \E f : Rounds(f, ls) /\ Sorted(ls) = f[Len(ls)].sorted
<1> DEFINE N == Len(ls)
           T == States(ls)
           b == Start(ls)
           Step(x) == PopLayer(ls, x)
           G == [n \in 1 .. N |-> [x \in T |-> Step(x)]]
           E(h) == [n \in 0 .. N |-> IF n = 0 THEN b ELSE Step(h[n - 1])]
           rounds == CHOOSE h : h = E(h)
<1>1. N \in Nat
  BY NamesAre
<1>2. ASSUME NEW x \in T PROVE Step(x) \in T
  BY PopType
<1>0. Sorted(ls) = rounds[N].sorted
  BY DEF Sorted
<1>4. b \in T
  BY StartIs
<1> HIDE DEF Step, N, T, b
<1>3. G \in [1 .. N -> [T -> T]] /\ \A n \in 1 .. N, x \in T : G[n][x] = Step(x)
  BY <1>2
<1> HIDE DEF G
<1>5. PICK g \in [0 .. N -> T] : Iterates(g, N, b, G)
  BY <1>1, <1>3, <1>4, IterationExists
<1>6. g = E(g)
  <2>1. ASSUME NEW n \in 0 .. N PROVE g[n] = IF n = 0 THEN b ELSE Step(g[n - 1])
    <3>1. CASE n = 0
      BY <1>5, <3>1 DEF Iterates
    <3>2. CASE n # 0
      <4>1. n \in 1 .. N /\ n - 1 \in 0 .. N
        BY <1>1, <3>2
      <4>2. g[n - 1] \in T /\ g[n] = G[n][g[n - 1]]
        BY <1>5, <4>1 DEF Iterates
      <4> QED BY <1>3, <3>2, <4>1, <4>2
    <3> QED BY <3>1, <3>2
  <2> QED BY <1>5, <2>1
<1>7. rounds = E(rounds)
  <2> HIDE DEF E
  <2> QED BY <1>6
<1> HIDE DEF rounds
<1>8. rounds[0] = b /\ \A n \in 1 .. N : rounds[n] = Step(rounds[n - 1])
  <2>1. \A n \in 0 .. N : rounds[n] = IF n = 0 THEN b ELSE Step(rounds[n - 1])
    BY <1>7
  <2>2. 0 \in 0 .. N /\ \A n \in 1 .. N : n \in 0 .. N /\ n # 0
    BY <1>1
  <2> QED BY <2>1, <2>2
<1> DEFINE C == {n \in 0 .. N : rounds[n] \in T}
<1>9. C = 0 .. N
  <2>1. C \in SUBSET (0 .. N) /\ 0 \in C
    BY <1>1, <1>4, <1>8
  <2>2. ASSUME NEW n \in 1 .. N, n - 1 \in C PROVE n \in C
    BY <1>1, <1>2, <1>8, <2>2
  <2> HIDE DEF C
  <2> QED BY <1>1, <2>1, <2>2, Climb
<1>10. rounds \in [0 .. N -> T]
  <2>1. \A n \in 0 .. N : rounds[n] \in T
    BY <1>9
  <2> QED BY <1>7, <2>1
<1>11. Rounds(rounds, ls)
  BY <1>8, <1>10 DEF Rounds, Step, N, T, b
<1> QED BY <1>0, <1>11 DEF N

\* The sorted layers are layers of the manifest.
LEMMA SortedType ==
  ASSUME NEW ls, Fit(ls)
  PROVE  Sorted(ls) \in Seq(ToSet(ls))
<1>1. PICK f : Rounds(f, ls) /\ Sorted(ls) = f[Len(ls)].sorted
  BY SortedIs
<1>2. Len(ls) \in Nat
  BY NamesAre
<1>3. f[Len(ls)] \in States(ls)
  BY <1>1, <1>2 DEF Rounds
<1> QED BY <1>1, <1>3 DEF States

\* When the rounds are over, all layers are sorted or the queue is empty.
LEMMA SortedEnd ==
  ASSUME NEW ls, Fit(ls), UniqueNames(ls)
  PROVE  \E s : SortedSoFar(ls, s) /\ s.sorted = Sorted(ls) /\ (Len(s.sorted) = Len(ls) \/ s.queue = <<>>)
<1> DEFINE N == Len(ls)
<1>1. PICK f : Rounds(f, ls) /\ Sorted(ls) = f[N].sorted
  BY SortedIs
<1>2. N \in Nat
  BY NamesAre
<1>3. f \in [0 .. N -> States(ls)] /\ f[0] = Start(ls) /\ \A n \in 1 .. N : f[n] = PopLayer(ls, f[n - 1])
  BY <1>1 DEF Rounds
<1> HIDE DEF N
<1> DEFINE Q(n) == SortedSoFar(ls, f[n]) /\ (Len(f[n].sorted) = n \/ f[n].queue = <<>>)
           C == {n \in 0 .. N : Q(n)}
<1>4. 0 \in C
  <2>1. Len(<<>>) = 0 /\ 0 \in 0 .. N
    BY <1>2
  <2>2. f[0].sorted = <<>>
    BY <1>3, StartIs
  <2>3. SortedSoFar(ls, f[0])
    BY <1>3, StartSorted
  <2> QED BY <2>1, <2>2, <2>3
<1>5. ASSUME NEW n \in 1 .. N, n - 1 \in C PROVE n \in C
  <2> DEFINE x == f[n - 1]
             y == PopLayer(ls, x)
  <2>1. n \in 0 .. N /\ n - 1 \in 0 .. N /\ n \in Nat /\ x \in States(ls) /\ f[n] = y
    BY <1>2, <1>3
  <2>2. SortedSoFar(ls, x) /\ (Len(x.sorted) = n - 1 \/ x.queue = <<>>)
    BY <1>5
  <2> HIDE DEF x
  <2>3. CASE x.queue = <<>>
    <3>1. y = x
      BY <2>1, <2>3, PopType
    <3> HIDE DEF y
    <3> QED BY <2>1, <2>2, <2>3, <3>1
  <2>4. CASE x.queue # <<>>
    <3>1. SortedSoFar(ls, y)
      BY <2>2, <2>4, PopStep
    <3>2. y.sorted = Append(x.sorted, LayerMap(ls)[Head(x.queue)])
      BY <2>1, <2>4, PopType
    <3>3. x.sorted \in Seq(ToSet(ls)) /\ Len(x.sorted) = n - 1
      BY <2>1, <2>2, <2>4 DEF States
    <3>4. LayerMap(ls)[Head(x.queue)] \in ToSet(ls)
      <4> DEFINE h == Head(x.queue)
      <4>1. x.queue \in Seq(Names(ls))
        BY <2>1 DEF States
      <4>2. h \in Names(ls)
        BY <2>4, <4>1
      <4> HIDE DEF h
      <4>3. LayerMap(ls)[h] \in ToSet(ls)
        BY <4>2, LayerMapIs
      <4> QED BY <4>3 DEF h
    <3>5. Len(y.sorted) = n
      <4> DEFINE l == LayerMap(ls)[Head(x.queue)]
                 z == x.sorted
      <4>1. z \in Seq(ToSet(ls)) /\ Len(z) = n - 1 /\ y.sorted = Append(z, l)
        BY <3>2, <3>3
      <4> HIDE DEF l, z, y
      <4>2. Len(Append(z, l)) = n
        BY <2>1, <4>1
      <4> QED BY <4>1, <4>2
    <3> HIDE DEF y
    <3> QED BY <2>1, <3>1, <3>5
  <2> QED BY <2>3, <2>4
<1>6. C = 0 .. N
  <2>1. C \in SUBSET (0 .. N)
    OBVIOUS
  <2> HIDE DEF C
  <2> QED BY <1>2, <1>4, <1>5, <2>1, Climb
<1>7. N \in 0 .. N
  BY <1>2
<1>8. Q(N)
  <2> HIDE DEF Q
  <2> QED BY <1>6, <1>7
<1> QED BY <1>1, <1>8 DEF N

\* As many different entries as the set has members: every member is there.
LEMMA Onto ==
  ASSUME NEW N \in Nat, NEW S, IsFiniteSet(S), Cardinality(S) = N, NEW f \in [1 .. N -> S],
         \A i, j \in 1 .. N : f[i] = f[j] => i = j
  PROVE  \A x \in S : \E i \in 1 .. N : f[i] = x
<1>1. f \in Injection(1 .. N, S)
  BY DEF Injection, IsInjective
<1>2. Cardinality(1 .. N) = N
  BY FS_Interval
<1>3. f \in Surjection(1 .. N, S)
  BY <1>1, <1>2, FS_Injection
<1> QED BY <1>3 DEF Surjection

\* Layers of different names: there are as many as the list is long, and a name is that of one.
LEMMA LayersAreCounted ==
  ASSUME NEW ls, Fit(ls), UniqueNames(ls)
  PROVE  /\ IsFiniteSet(ToSet(ls)) /\ Cardinality(ToSet(ls)) = Len(ls)
         /\ \A l, m \in ToSet(ls) : l.name = m.name => l = m
<1> DEFINE N == Len(ls)
           S == ToSet(ls)
<1>1. N \in Nat /\ DOMAIN ls = 1 .. N /\ ls \in [1 .. N -> S]
  BY NamesAre DEF Fit
<1>2. \A i, j \in 1 .. N : ls[i].name = ls[j].name => i = j
  BY <1>1 DEF UniqueNames
<1>3. \A x \in S : \E i \in 1 .. N : ls[i] = x
  BY <1>1 DEF ToSet
<1> HIDE DEF N, S
<1>4. ls \in Bijection(1 .. N, S)
  <2>1. \A i, j \in 1 .. N : ls[i] = ls[j] => i = j
    BY <1>2
  <2> QED BY <1>1, <1>3, <2>1 DEF Bijection, Injection, Surjection, IsInjective
<1>5. IsFiniteSet(1 .. N) /\ Cardinality(1 .. N) = N
  BY <1>1, FS_Interval
<1>6. ExistsBijection(1 .. N, S)
  BY <1>4 DEF ExistsBijection
<1>7. IsFiniteSet(S) /\ Cardinality(S) = N
  BY <1>5, <1>6, FS_Bijection
<1>8. \A l, m \in S : l.name = m.name => l = m
  BY <1>2, <1>3
<1> QED BY <1>7, <1>8 DEF N, S

\* As many layers sorted as there are: all of them are, in an order that the manifest has.
LEMMA AllSorted ==
  ASSUME NEW ls, Fit(ls), UniqueNames(ls), Len(Sorted(ls)) = Len(ls)
  PROVE  DependenciesFirst(Sorted(ls)) /\ ToSet(Sorted(ls)) = ToSet(ls) /\ Orderable(ls)
<1> DEFINE N == Len(ls)
           S == ToSet(ls)
           so == Sorted(ls)
<1>1. PICK s : SortedSoFar(ls, s) /\ s.sorted = so
  BY SortedEnd
<1>2. DependenciesFirst(so) /\ UniqueNames(so)
  BY <1>1 DEF SortedSoFar
<1>3. so \in Seq(S) /\ Len(so) = N /\ N \in Nat
  BY SortedType, NamesAre
<1>4. IsFiniteSet(S) /\ Cardinality(S) = N
  BY LayersAreCounted
<1>5. S = {ls[i] : i \in DOMAIN ls}
  BY DEF ToSet
<1> HIDE DEF N, S, so
<1>6. so \in [1 .. N -> S] /\ DOMAIN so = 1 .. N
  BY <1>3
<1>7. \A i, j \in 1 .. N : so[i] = so[j] => i = j
  BY <1>2, <1>6 DEF UniqueNames
<1>8. \A x \in S : \E i \in 1 .. N : so[i] = x
  BY <1>3, <1>4, <1>6, <1>7, Onto
<1>9. ToSet(so) = S
  BY <1>6, <1>8 DEF ToSet
<1>10. so \in SetToSeqs(S)
  BY <1>4, <1>6, <1>7 DEF SetToSeqs
<1>11. Orderable(ls)
  BY <1>2, <1>5, <1>10 DEF Orderable
<1> QED BY <1>2, <1>9, <1>11 DEF so, S

\* With all that it needs done, a layer is done or in the queue.
LEMMA NoneLeftOut ==
  ASSUME NEW ls, Fit(ls), NEW s, SortedSoFar(ls, s), s.queue = <<>>, UniqueNames(ls), NEW l \in ToSet(ls),
         \A k \in DOMAIN l.deps : l.deps[k] \in Names(s.sorted)
  PROVE  l.name \in Names(s.sorted)
<1> DEFINE M == Mentions(ls)
           N == Len(M)
           Ns == Names(ls)
           P == Names(s.sorted)
           U == {e \in 1 .. N : M[e].dep \notin P}
           X == {e \in U : M[e].name = l.name}
<1>1. Counts(M, Ns, s.deg, U) /\ Ready(Ns, s.deg, s.queue, P)
  BY DEF SortedSoFar, Kahn
<1>2. MentionsOf(M, ls)
  BY MentionsAre
<1>3. l.name \in Ns
  <2>1. \E i \in 1 .. Len(ls) : ls[i] = l
    BY NamesAre DEF ToSet
  <2> QED BY <2>1, NamesAre
<1>4. ASSUME NEW e \in X PROVE FALSE
  <2>1. e \in 1 .. N /\ M[e].dep \notin P /\ M[e].name = l.name
    OBVIOUS
  <2>2. PICK i \in 1 .. Len(ls) : \E k \in 1 .. Len(ls[i].deps) : M[e].dep = ls[i].deps[k] /\ M[e].name = ls[i].name
    BY <1>2, <2>1 DEF MentionsOf
  <2>3. ls[i] \in ToSet(ls) /\ ls[i].name = l.name
    BY <2>1, <2>2, NamesAre
  <2>4. ls[i] = l
    BY <2>3, LayersAreCounted
  <2>5. ls[i].deps \in Seq(Ns)
    BY DEF Fit
  <2>6. DOMAIN l.deps = 1 .. Len(l.deps)
    <3> DEFINE d == ls[i].deps
    <3>1. d \in Seq(Ns)
      BY <2>5
    <3> HIDE DEF d, Ns
    <3>2. DOMAIN d = 1 .. Len(d)
      BY <3>1
    <3> QED BY <2>4, <3>2 DEF d
  <2> QED BY <2>1, <2>2, <2>4, <2>6
<1>5. X = {}
  BY <1>4
<1>6. s.deg[l.name] = 0
  <2>1. s.deg[l.name] = Cardinality(X)
    BY <1>1, <1>3 DEF Counts
  <2> HIDE DEF X
  <2> QED BY <1>5, <2>1, FS_EmptySet
<1>7. l.name \in P \/ \E i \in 1 .. Len(s.queue) : s.queue[i] = l.name
  <2> HIDE DEF P, Ns
  <2> QED BY <1>1, <1>3, <1>6 DEF Ready
<1>8. 1 .. Len(s.queue) = {}
  <2>1. Len(<<>>) = 0
    OBVIOUS
  <2> QED BY <2>1
<1> QED BY <1>7, <1>8

\* A manifest that has an order is sorted to the end.
LEMMA OrderIsFound ==
  ASSUME NEW ls, Fit(ls), UniqueNames(ls), Orderable(ls)
  PROVE  Len(Sorted(ls)) = Len(ls)
<1> DEFINE N == Len(ls)
           S == ToSet(ls)
<1>1. PICK s : SortedSoFar(ls, s) /\ s.sorted = Sorted(ls) /\ (Len(s.sorted) = N \/ s.queue = <<>>)
  BY SortedEnd
<1> DEFINE so == s.sorted
<1>2. SUFFICES ASSUME s.queue = <<>> PROVE Len(so) = N
  BY <1>1
<1>3. so \in Seq(S) /\ N \in Nat /\ UniqueNames(so)
  BY <1>1, NamesAre DEF SortedSoFar, States
<1>4. IsFiniteSet(S) /\ Cardinality(S) = N /\ (\A l, m \in S : l.name = m.name => l = m)
  BY LayersAreCounted
<1>5. S = {ls[i] : i \in DOMAIN ls}
  BY DEF ToSet
<1>6. PICK p \in SetToSeqs(S) : DependenciesFirst(p)
  BY <1>5 DEF Orderable
<1>7. p \in [1 .. N -> S] /\ \A i, j \in 1 .. N : p[i] = p[j] => i = j
  BY <1>4, <1>6 DEF SetToSeqs
<1>8. \A x \in S : \E i \in 1 .. N : p[i] = x
  <2> HIDE DEF N, S, so
  <2> QED BY <1>3, <1>4, <1>7, Onto
<1> DEFINE P == Names(so)
           R == {i \in 1 .. N : p[i].name \notin P}
<1>9. R = {}
  <2>1. SUFFICES ASSUME R # {} PROVE FALSE
    OBVIOUS
  <2>2. R \in SUBSET Nat
    BY <1>3
  <2>3. PICK i \in R : \A j \in R : i <= j
    <3> HIDE DEF R
    <3> QED BY <2>1, <2>2, LeastPlace
  <2>4. i \in 1 .. N /\ p[i] \in S /\ p[i].name \notin P
    BY <1>7
  <2>5. ASSUME NEW k \in DOMAIN p[i].deps PROVE p[i].deps[k] \in P
    <3>1. PICK j \in 1 .. i - 1 : p[j].name = p[i].deps[k]
      BY <1>6, <1>7, <2>4 DEF DependenciesFirst
    <3>2. j \in 1 .. N /\ ~(i <= j)
      BY <1>3, <2>4, <3>1
    <3>3. p[j].name \in P
      BY <2>3, <3>2
    <3> QED BY <3>1, <3>3
  <2>6. p[i].name \in P
    <3> DEFINE l == p[i]
    <3>1. l \in S /\ \A k \in DOMAIN l.deps : l.deps[k] \in P
      BY <2>4, <2>5
    <3> HIDE DEF l
    <3>2. l.name \in P
      BY <1>1, <1>2, <3>1, NoneLeftOut
    <3> QED BY <3>2 DEF l
  <2> QED BY <2>4, <2>6
<1> HIDE DEF so, S, N
<1>10. DOMAIN so = 1 .. Len(so) /\ Len(so) \in Nat /\ so \in [1 .. Len(so) -> S]
  BY <1>3
<1>11. ASSUME NEW x \in S PROVE \E j \in 1 .. Len(so) : so[j] = x
  <2>1. PICK i \in 1 .. N : p[i] = x
    BY <1>8
  <2>2. x.name \in P
    BY <1>9, <2>1
  <2>3. PICK j \in 1 .. Len(so) : so[j].name = x.name
    BY <1>10, <2>2 DEF Names
  <2>4. so[j] \in S
    BY <1>10
  <2> QED BY <1>4, <2>3, <2>4
<1>12. so \in Bijection(1 .. Len(so), S)
  <2>1. \A i, j \in 1 .. Len(so) : so[i] = so[j] => i = j
    BY <1>3, <1>10 DEF UniqueNames
  <2> QED BY <1>10, <1>11, <2>1 DEF Bijection, Injection, Surjection, IsInjective
<1>13. IsFiniteSet(1 .. Len(so)) /\ Cardinality(1 .. Len(so)) = Len(so)
  BY <1>10, FS_Interval
<1>14. Cardinality(S) = Len(so)
  <2>1. ExistsBijection(1 .. Len(so), S)
    BY <1>12 DEF ExistsBijection
  <2> QED BY <1>13, <2>1, FS_Bijection
<1> QED BY <1>4, <1>14

\* A list of layers, each with a list of dependencies.
Listed(ls) ==
  /\ ls \in Seq(ToSet(ls))
  /\ \A i \in 1 .. Len(ls) : ls[i].deps \in Seq(ToSet(ls[i].deps))

\* Without a wrong dependency, the dependencies are names of layers.
LEMMA NoneWrong ==
  ASSUME NEW ls, Listed(ls), ~WrongDependency(ls)
  PROVE  Fit(ls)
<1>1. DOMAIN ls = 1 .. Len(ls)
  BY DEF Listed
<1>2. ASSUME NEW i \in 1 .. Len(ls) PROVE ls[i].deps \in Seq(Names(ls))
  <2> DEFINE d == ls[i].deps
             T == ToSet(d)
             Ns == Names(ls)
  <2>1. d \in Seq(T)
    BY DEF Listed
  <2>2. \A k \in DOMAIN d : d[k] \in Ns
    BY <1>1 DEF WrongDependency
  <2> HIDE DEF d, T, Ns
  <2>3. Len(d) \in Nat /\ DOMAIN d = 1 .. Len(d) /\ d = [k \in 1 .. Len(d) |-> d[k]]
    BY <2>1
  <2>4. d \in Seq(Ns)
    BY <2>2, <2>3
  <2> QED BY <2>4 DEF d, Ns
<1> QED BY <1>2 DEF Fit, Listed

\* EvaluateConditions returns layers of the manifest.
LEMMA ActiveLayers ==
  ASSUME NEW ls, Listed(ls), NEW env
  PROVE  /\ EvaluateConditions(ls, env) \in Seq(ToSet(ls))
         /\ Listed(EvaluateConditions(ls, env))
<1> DEFINE S == ToSet(ls)
           N == Len(ls)
           I(i) == ShouldIncludeLayer(ls[i], env)
           ss == [i \in DOMAIN ls |-> IF I(i) THEN <<ls[i]>> ELSE <<>>]
           a == EvaluateConditions(ls, env)
<1>1. N \in Nat /\ DOMAIN ls = 1 .. N /\ \A i \in 1 .. N : ls[i] \in S
  BY DEF Listed
<1>2. a = FlattenSeq(ss)
  BY DEF EvaluateConditions
<1>3. \A l \in S : l.deps \in Seq(ToSet(l.deps))
  <2>1. \A l \in S : \E i \in 1 .. N : ls[i] = l
    BY <1>1 DEF ToSet
  <2>2. \A i \in 1 .. N : ls[i].deps \in Seq(ToSet(ls[i].deps))
    BY DEF Listed
  <2> HIDE DEF S, N
  <2> QED BY <2>1, <2>2
<1> HIDE DEF I, S, N
<1>4. ss \in Seq(Seq(S))
  <2>1. ASSUME NEW i \in 1 .. N PROVE (IF I(i) THEN <<ls[i]>> ELSE <<>>) \in Seq(S)
    BY <1>1
  <2>2. ss \in [1 .. N -> Seq(S)]
    BY <1>1, <2>1
  <2> HIDE DEF ss
  <2> QED BY <1>1, <2>2
<1> HIDE DEF ss
<1>5. a \in Seq(S)
  BY <1>2, <1>4, FlattenSpreads
<1> HIDE DEF a
<1>6. Len(a) \in Nat /\ DOMAIN a = 1 .. Len(a) /\ a = [i \in 1 .. Len(a) |-> a[i]] /\ \A i \in 1 .. Len(a) : a[i] \in S
  BY <1>5
<1>7. a \in Seq(ToSet(a))
  <2>1. \A i \in 1 .. Len(a) : a[i] \in ToSet(a)
    BY <1>6 DEF ToSet
  <2> QED BY <1>6, <2>1
<1>8. Listed(a)
  BY <1>3, <1>6, <1>7 DEF Listed
<1> QED BY <1>5, <1>8 DEF a, S

\* ResolveDependencies returns layers that it was given.
LEMMA ResolvedLayers ==
  ASSUME NEW ls, Listed(ls)
  PROVE  ResolveDependencies(ls).layers \in Seq(ToSet(ls))
<1> DEFINE so == Sorted(ls)
           bad == WrongDependency(ls) \/ Len(so) # Len(ls)
<1>1. CASE bad
  <2>1. ResolveDependencies(ls).layers = <<>>
    BY <1>1 DEF ResolveDependencies
  <2> QED BY <2>1
<1>2. CASE ~bad
  <2>1. ResolveDependencies(ls).layers = so
    BY <1>2 DEF ResolveDependencies
  <2>2. so \in Seq(ToSet(ls))
    BY <1>2, NoneWrong, SortedType
  <2> QED BY <2>1, <2>2
<1> QED BY <1>1, <1>2

\* What ResolveDependencies promises of layers with different names.
InOrder(ls) ==
  /\ ResolveDependencies(ls).ok =>
       DependenciesFirst(ResolveDependencies(ls).layers) /\ ToSet(ResolveDependencies(ls).layers) = ToSet(ls)
  /\ ResolveDependencies(ls).ok <=> ~WrongDependency(ls) /\ Orderable(ls)

LEMMA ResolvesInOrder ==
  ASSUME NEW ls, Listed(ls), UniqueNames(ls)
  PROVE  InOrder(ls)
<1> DEFINE so == Sorted(ls)
           bad == WrongDependency(ls) \/ Len(so) # Len(ls)
           r == ResolveDependencies(ls)
<1>1. CASE bad
  <2>1. r.ok = FALSE
    BY <1>1 DEF ResolveDependencies
  <2>2. ~(~WrongDependency(ls) /\ Orderable(ls))
    BY <1>1, NoneWrong, OrderIsFound
  <2> QED BY <2>1, <2>2 DEF InOrder
<1>2. CASE ~bad
  <2>1. r.ok = TRUE /\ r.layers = so
    BY <1>2 DEF ResolveDependencies
  <2>2. DependenciesFirst(so) /\ ToSet(so) = ToSet(ls) /\ Orderable(ls)
    BY <1>2, NoneWrong, AllSorted
  <2> QED BY <1>2, <2>1, <2>2 DEF InOrder
<1> QED BY <1>1, <1>2

-----------------------------------------------------------------------------
(* Image builds: the inductive invariant                                   *)

\* The specification without fairness: what is proved is safety.
LayerSpec == LayerInit /\ [][LayerNext]_layerVars

Files == Contents \union {Torn}
Layers == UNION {{m[i] : i \in DOMAIN m} : m \in Manifests}

\* A build at one of these has a layer before it; at the later ones the layer has a digest.
HasLayer == {"get", "fetch", "pack", "write", "sum", "open", "fill", "row", "extract", "copy"}
HasDigest == {"open", "fill", "row", "extract", "copy"}

LayerType ==
  /\ layers \in Manifests /\ output \in [Builds -> {1, 2}]
  /\ source \in [LayerNames -> Contents]
  /\ build \in [Builds -> HasLayer \union {"idle", "create", "finish", "umount", "clean", "over", "dead"}]
  /\ todo \in [Builds -> Seq(Layers)]
  /\ current \in [Builds -> [digest : Files \union {Absent}, at : {"nowhere", "cache", "own", "packed"}]]
  /\ own \in [Builds -> Files \union {Absent}] /\ packed \in [LayerNames -> Files \union {Absent}]
  /\ cacheRows \subseteq Files /\ cacheFile \in [Files -> Files \union {Absent}]
  /\ mounted \in [Builds -> BOOLEAN]
  /\ image \in [{1, 2} -> Seq(LayerNames \X (Files \union {Absent}))]
  /\ record \in [Builds -> Seq(LayerNames \X (Files \union {Absent}))]
  /\ result \in [Builds -> {"none", "ok", "failed"}] /\ buildFaults \in Nat

\* What a build reads next is what it has the digest of, unless that was repacked.
ReadInv(b) ==
  /\ build[b] \in HasLayer \union {"create"} => todo[b] # <<>>
  /\ build[b] \in {"write", "sum"} => packed[Layer(b).name] \in Files
  /\ build[b] \in HasDigest =>
       /\ current[b].digest \in Files /\ current[b].at # "nowhere"
       /\ build[b] \in {"open", "fill", "row"} => current[b].at # "cache"
       /\ build[b] # "copy" /\ current[b].at = "packed" /\ current[b].digest \notin torn =>
            packed[Layer(b).name] = current[b].digest
       /\ build[b] = "copy" \/ current[b].at = "own" => own[b] = current[b].digest \/ current[b].digest \in torn

Filled(d) == \E b \in Builds : build[b] = "fill" /\ current[b].digest = d

\* No file of the cache has the content of another digest; one that is about to get its
\* row is there.
FileInv ==
  /\ \A d \in Files \ torn : cacheFile[d] \in {d, Torn, Absent}
  /\ \A b \in Builds : build[b] = "row" /\ current[b].digest \notin torn =>
       cacheFile[current[b].digest] = current[b].digest \/ Filled(current[b].digest)

\* The build has made its output, and has not failed.
Claims(b) == build[b] \in HasLayer \union {"finish"} \/ result[b] = "ok"

\* Two builds with one output are known; a build that is over has unmounted.
OutputInv ==
  /\ \A b, c \in Builds : Claims(b) /\ Claims(c) /\ output[b] = output[c] /\ b # c => output[b] \in shared
  /\ \A b \in Builds : /\ build[b] = "clean" /\ buildFaults = 0 => ~mounted[b]
                       /\ build[b] \in {"idle", "create"} => record[b] = <<>> /\ result[b] = "none"
                       /\ build[b] \in HasLayer \union {"finish"} => result[b] = "none"

Undisturbed(b) ==
  /\ Claims(b) /\ output[b] \notin shared /\ buildFaults = 0
  /\ \A i \in DOMAIN record[b] : record[b][i][2] \notin torn

ImageInv == \A b \in Builds : Undisturbed(b) => image[output[b]] = record[b]

LayerInv == LayerType /\ (\A b \in Builds : ReadInv(b)) /\ FileInv /\ CachedIsWhole /\ OutputInv /\ ImageInv
\* What a step of build b leaves alone.
Moves(b) ==
  /\ output' = output /\ torn \subseteq torn' /\ shared \subseteq shared'
  /\ buildFaults' = 0 => buildFaults = 0
  /\ \A c \in Builds : c # b =>
       /\ build'[c] = build[c] /\ todo'[c] = todo[c] /\ current'[c] = current[c] /\ own'[c] = own[c]
       /\ mounted'[c] = mounted[c] /\ record'[c] = record[c] /\ result'[c] = result[c]

LEMMA OthersRead ==
  ASSUME LayerInv, NEW b \in Builds, Moves(b), packed' = packed, NEW c \in Builds, c # b
  PROVE  ReadInv(c)'
<1>1. ReadInv(c) /\ torn \subseteq torn' /\ build'[c] = build[c] /\ todo'[c] = todo[c] /\ current'[c] = current[c] /\ own'[c] = own[c]
  BY DEF LayerInv, Moves
<1> QED BY <1>1 DEF ReadInv, HasLayer, HasDigest, Files, Layer

\* The files of the cache stay: a build that leaves a file unfinished taints its digest.
LEMMA FilesKept ==
  ASSUME LayerInv, NEW b \in Builds, Moves(b), UNCHANGED <<cacheRows, cacheFile>>,
         build'[b] \notin {"fill", "row"}, build[b] = "fill" => current[b].digest \in torn'
  PROVE  FileInv' /\ CachedIsWhole'
<1>0. FileInv /\ CachedIsWhole
  BY DEF LayerInv
<1>1. torn \subseteq torn' /\ \A c \in Builds : c # b => build'[c] = build[c] /\ current'[c] = current[c]
  BY DEF Moves
<1>2. ASSUME NEW d, d \notin torn', Filled(d) PROVE Filled(d)'
  <2>1. PICK c \in Builds : build[c] = "fill" /\ current[c].digest = d
    BY <1>2 DEF Filled
  <2>2. c # b
    BY <1>2, <2>1
  <2> QED BY <1>1, <2>1, <2>2 DEF Filled
<1>3. CachedIsWhole'
  <2>1. ASSUME NEW d \in cacheRows \ torn' PROVE cacheFile[d] = d \/ Filled(d)'
    BY <1>0, <1>1, <1>2 DEF CachedIsWhole, Filled
  <2> QED BY <2>1 DEF CachedIsWhole, Filled
<1>4. FileInv'
  <2>1. \A d \in Files \ torn' : cacheFile'[d] \in {d, Torn, Absent}
    BY <1>0, <1>1 DEF FileInv
  <2>2. ASSUME NEW c \in Builds, NEW d, build'[c] = "row", d = current'[c].digest, d \notin torn'
        PROVE  cacheFile'[d] = d \/ \E e \in Builds : build'[e] = "fill" /\ current'[e].digest = d
    <3>1. c # b
      BY <2>2
    <3>2. build[c] = "row" /\ d = current[c].digest /\ d \notin torn
      BY <1>1, <2>2, <3>1
    <3>3. cacheFile[d] = d \/ Filled(d)
      BY <1>0, <3>2 DEF FileInv
    <3>4. cacheFile[d] = d \/ Filled(d)'
      BY <3>3, <1>2, <2>2
    <3> QED BY <3>4 DEF Filled
  <2>3. \A c \in Builds : build'[c] = "row" /\ current'[c].digest \notin torn' =>
          \/ cacheFile'[current'[c].digest] = current'[c].digest
          \/ \E e \in Builds : build'[e] = "fill" /\ current'[e].digest = current'[c].digest
    BY <2>2
  <2> QED BY <2>1, <2>3 DEF FileInv, Filled, Files
<1> QED BY <1>3, <1>4

LEMMA OutputsKept ==
  ASSUME LayerInv, NEW b \in Builds, Moves(b), Claims(b)' => Claims(b),
         build'[b] = "clean" /\ buildFaults' = 0 => ~mounted'[b],
         build'[b] \in {"idle", "create"} => record'[b] = <<>> /\ result'[b] = "none",
         build'[b] \in HasLayer \union {"finish"} => result'[b] = "none"
  PROVE  OutputInv'
<1>0. OutputInv
  BY DEF LayerInv
<1>1. /\ output' = output /\ shared \subseteq shared' /\ (buildFaults' = 0 => buildFaults = 0)
      /\ \A c \in Builds : c # b => /\ build'[c] = build[c] /\ mounted'[c] = mounted[c]
                                    /\ record'[c] = record[c] /\ result'[c] = result[c]
  BY DEF Moves
<1>2. \A c \in Builds : Claims(c)' => Claims(c)
  BY <1>1 DEF Claims
<1>3. \A c, d \in Builds : Claims(c)' /\ Claims(d)' /\ output'[c] = output'[d] /\ c # d => output'[c] \in shared'
  BY <1>0, <1>1, <1>2 DEF OutputInv
<1>4. ASSUME NEW c \in Builds
      PROVE  /\ build'[c] = "clean" /\ buildFaults' = 0 => ~mounted'[c]
             /\ build'[c] \in {"idle", "create"} => record'[c] = <<>> /\ result'[c] = "none"
             /\ build'[c] \in HasLayer \union {"finish"} => result'[c] = "none"
  <2>1. CASE c = b
    BY <2>1
  <2>2. CASE c # b
    BY <1>0, <1>1, <2>2 DEF OutputInv
  <2> QED BY <2>1, <2>2
<1> QED BY <1>3, <1>4 DEF OutputInv, HasLayer

LEMMA ImagesKept ==
  ASSUME LayerInv, NEW b \in Builds, Moves(b), image' = image, Claims(b)' => Claims(b), record'[b] = record[b]
  PROVE  ImageInv'
<1>1. /\ output' = output /\ shared \subseteq shared' /\ torn \subseteq torn' /\ (buildFaults' = 0 => buildFaults = 0)
      /\ \A c \in Builds : c # b => build'[c] = build[c] /\ record'[c] = record[c] /\ result'[c] = result[c]
  BY DEF Moves
<1>2. ASSUME NEW c \in Builds, Undisturbed(c)' PROVE image'[output'[c]] = record'[c]
  <2>1. record'[c] = record[c] /\ (Claims(c)' => Claims(c))
    BY <1>1 DEF Claims
  <2>2. Undisturbed(c)
    BY <1>1, <1>2, <2>1 DEF Undisturbed
  <2> QED BY <1>1, <2>1, <2>2 DEF LayerInv, ImageInv
<1> QED BY <1>2 DEF ImageInv

-----------------------------------------------------------------------------
(* Steps that change nothing but the progress of the build                 *)

\* The rest of the invariant for such a step.
LEMMA PrivateKeeps ==
  ASSUME LayerInv, NEW b \in Builds, Moves(b), UNCHANGED <<packed, cacheRows, cacheFile, image>>,
         LayerType', ReadInv(b)', build'[b] \notin {"fill", "row"}, build[b] = "fill" => current[b].digest \in torn',
         Claims(b)' => Claims(b), record'[b] = record[b],
         build'[b] = "clean" /\ buildFaults' = 0 => ~mounted'[b],
         build'[b] \in {"idle", "create"} => record'[b] = <<>> /\ result'[b] = "none",
         build'[b] \in HasLayer \union {"finish"} => result'[b] = "none"
  PROVE  LayerInv'
<1>1. \A c \in Builds : ReadInv(c)'
  BY OthersRead
<1>2. FileInv' /\ CachedIsWhole'
  BY FilesKept
<1>3. OutputInv'
  BY OutputsKept
<1>4. ImageInv'
  BY ImagesKept
<1> QED BY <1>1, <1>2, <1>3, <1>4 DEF LayerInv

LEMMA TypeOfB ==
  ASSUME LayerInv, NEW b \in Builds
  PROVE  /\ LayerType /\ ReadInv(b) /\ output[b] \in {1, 2}
         /\ build[b] \in HasLayer \union {"idle", "create", "finish", "umount", "clean", "over", "dead"}
         /\ todo[b] \in Seq(Layers) /\ (build[b] \in HasLayer => Layer(b) \in Layers /\ Layer(b).name \in LayerNames /\ Tail(todo[b]) \in Seq(Layers))
         /\ current[b].digest \in Files \union {Absent} /\ current[b].at \in {"nowhere", "cache", "own", "packed"}
         /\ own[b] \in Files \union {Absent}
         /\ build[b] = "clean" /\ buildFaults = 0 => ~mounted[b]
         /\ build[b] \in {"idle", "create"} => record[b] = <<>> /\ result[b] = "none"
         /\ build[b] \in HasLayer \union {"finish"} => result[b] = "none"
<1>1. LayerType /\ ReadInv(b) /\ OutputInv
  BY DEF LayerInv
<1>2. todo[b] \in Seq(Layers)
  BY <1>1 DEF LayerType
<1>3. ASSUME build[b] \in HasLayer PROVE Layer(b) \in Layers /\ Layer(b).name \in LayerNames /\ Tail(todo[b]) \in Seq(Layers)
  <2>1. todo[b] # <<>>
    BY <1>1, <1>3 DEF ReadInv
  <2>2. Layer(b) \in Layers /\ Tail(todo[b]) \in Seq(Layers)
    BY <1>2, <2>1 DEF Layer
  <2>3. \A l \in Layers : l.name \in LayerNames
    BY DEF Layers, LayerNames, Names
  <2> QED BY <2>2, <2>3
<1>4. /\ current[b].digest \in Files \union {Absent} /\ current[b].at \in {"nowhere", "cache", "own", "packed"}
      /\ own[b] \in Files \union {Absent} /\ output[b] \in {1, 2}
      /\ build[b] \in HasLayer \union {"idle", "create", "finish", "umount", "clean", "over", "dead"}
  BY <1>1 DEF LayerType
<1>5. /\ build[b] = "clean" /\ buildFaults = 0 => ~mounted[b]
      /\ build[b] \in {"idle", "create"} => record[b] = <<>> /\ result[b] = "none"
      /\ build[b] \in HasLayer \union {"finish"} => result[b] = "none"
  BY <1>1 DEF OutputInv
<1> QED BY <1>1, <1>2, <1>3, <1>4, <1>5

\* Where only the label and the result of b change, and b has no layer afterwards.
LEMMA LeavesKeeps ==
  ASSUME LayerInv, NEW b \in Builds, NEW to \in {"finish", "umount", "clean", "over", "dead"}, NEW res \in {"none", "ok", "failed"},
         build' = [build EXCEPT ![b] = to], result' = [result EXCEPT ![b] = res],
         UNCHANGED <<layers, output, source, todo, current, own, packed, cacheVars, mounted, image, record, buildFaults, shared>>,
         build[b] # "fill", to # "finish", to = "clean" => ~mounted[b], res = "ok" => Claims(b)
  PROVE  LayerInv'
<1>0. LayerType
  BY DEF LayerInv
<1>1. build'[b] = to /\ result'[b] = res /\ \A c \in Builds : c # b => build'[c] = build[c] /\ result'[c] = result[c]
  BY <1>0 DEF LayerType
<1>2. Moves(b) /\ UNCHANGED <<packed, cacheRows, cacheFile, image>>
  BY <1>1 DEF Moves, cacheVars
<1>3. LayerType'
  BY <1>0 DEF LayerType, cacheVars
<1>4. ReadInv(b)'
  BY <1>1 DEF ReadInv, HasLayer, HasDigest
<1>5. Claims(b)' => Claims(b)
  BY <1>1 DEF Claims, HasLayer
<1> QED BY <1>1, <1>2, <1>3, <1>4, <1>5, PrivateKeeps DEF HasLayer

LEMMA AbortKeeps ==
  ASSUME LayerInv, NEW b \in Builds, GoB(b, Abort(b)), result' = [result EXCEPT ![b] = "failed"], build[b] # "fill",
         UNCHANGED <<layers, output, source, todo, current, own, packed, cacheVars, mounted, image, record, buildFaults, shared>>
  PROVE  LayerInv'
<1>1. PICK to \in {"finish", "umount", "clean", "over", "dead"} : to = Abort(b)
  BY DEF Abort
<1>2. to # "finish" /\ (to = "clean" => ~mounted[b])
  BY <1>1 DEF Abort
<1>3. PICK res \in {"none", "ok", "failed"} : res = "failed"
  OBVIOUS
<1> QED BY <1>1, <1>2, <1>3, LeavesKeeps DEF GoB

\* A manifest is a list of layers, each with its dependencies, and so are its active ones.
LEMMA ManifestIsListed ==
  ASSUME NEW m \in Manifests
  PROVE  Listed(m) /\ Listed(EvaluateConditions(m, Environment))
<1>1. m \in Seq(ToSet(m)) /\ \A i \in DOMAIN m : m[i].deps \in Seq(ToSet(m[i].deps))
  BY ManifestAssumption DEF ToSet
<1>2. DOMAIN m = 1 .. Len(m)
  BY <1>1
<1>3. Listed(m)
  BY <1>1, <1>2 DEF Listed
<1> QED BY <1>3, ActiveLayers

\* The layers to apply are layers of the manifest.
LEMMA BuildOrder ==
  ASSUME NEW m \in Manifests
  PROVE  ResolveDependencies(EvaluateConditions(m, Environment)).layers \in Seq(ToSet(m))
<1> DEFINE a == EvaluateConditions(m, Environment)
           S == ToSet(m)
           A == ToSet(a)
           t == ResolveDependencies(a).layers
<1>1. Listed(a) /\ a \in Seq(S)
  BY ManifestIsListed, ActiveLayers
<1>2. A \subseteq S
  <2> HIDE DEF S, a
  <2> QED BY <1>1 DEF ToSet
<1>3. t \in Seq(A)
  <2> HIDE DEF a
  <2> QED BY <1>1, ResolvedLayers
<1> HIDE DEF t, A, S
<1>4. t \in Seq(S)
  BY <1>2, <1>3
<1> QED BY <1>4 DEF t, S

LEMMA RunKeeps ==
  ASSUME LayerInv, NEW b \in Builds, RunImageBuild(b)
  PROVE  LayerInv'
<1>0. LayerType /\ record[b] = <<>> /\ result[b] = "none" /\ build[b] = "idle"
  BY TypeOfB DEF RunImageBuild
<1> DEFINE order == ResolveDependencies(EvaluateConditions(layers, Environment))
<1>u. UNCHANGED <<layers, output, source, current, own, packed, cacheVars, mounted, image, record, buildFaults, shared>>
  BY DEF RunImageBuild
<1>1. CASE build' = [build EXCEPT ![b] = "over"] /\ result' = [result EXCEPT ![b] = "failed"] /\ UNCHANGED todo
  <2>1. PICK to \in {"finish", "umount", "clean", "over", "dead"} : to = "over"
    OBVIOUS
  <2>2. PICK res \in {"none", "ok", "failed"} : res = "failed"
    OBVIOUS
  <2> QED BY <1>0, <1>u, <1>1, <2>1, <2>2, LeavesKeeps
<1>2. CASE order.layers # <<>> /\ todo' = [todo EXCEPT ![b] = order.layers]
                                 /\ build' = [build EXCEPT ![b] = "create"] /\ result' = result
  <2>1. order.layers \in Seq(Layers)
    <3>1. layers \in Manifests
      BY <1>0 DEF LayerType
    <3>2. order.layers \in Seq(ToSet(layers))
      BY <3>1, BuildOrder
    <3>3. ToSet(layers) \subseteq Layers
      BY <3>1 DEF Layers, ToSet
    <3> QED BY <3>2, <3>3
  <2> HIDE DEF order
  <2>2. /\ build'[b] = "create" /\ result'[b] = "none" /\ record'[b] = <<>> /\ todo'[b] # <<>>
        /\ \A c \in Builds : c # b => build'[c] = build[c] /\ todo'[c] = todo[c]
    BY <1>0, <1>u, <1>2 DEF LayerType
  <2>3. Moves(b) /\ UNCHANGED <<packed, cacheRows, cacheFile, image>>
    BY <1>u, <1>2, <2>2 DEF Moves, cacheVars
  <2>4. LayerType'
    BY <1>0, <1>u, <1>2, <2>1 DEF LayerType, cacheVars
  <2>5. ReadInv(b)' /\ (Claims(b)' => Claims(b))
    BY <2>2 DEF ReadInv, HasLayer, HasDigest, Claims
  <2> QED BY <1>0, <1>u, <2>2, <2>3, <2>4, <2>5, PrivateKeeps DEF HasLayer
<1> QED BY <1>1, <1>2 DEF RunImageBuild, GoB

LEMMA CommandFailsKeeps ==
  ASSUME LayerInv, NEW b \in Builds, CommandFails(b)
  PROVE  LayerInv'
BY AbortKeeps DEF CommandFails

LEMMA CacheGetKeeps ==
  ASSUME LayerInv, NEW b \in Builds, CacheGet(b)
  PROVE  LayerInv'
<1>0. LayerType /\ ReadInv(b) /\ build[b] = "get" /\ result[b] = "none" /\ todo[b] # <<>>
  <2>1. build[b] = "get"
    BY DEF CacheGet
  <2> QED BY <2>1, TypeOfB DEF ReadInv, HasLayer
<1>u. UNCHANGED <<layers, output, source, todo, own, packed, cacheVars, mounted, image, record, buildFaults, shared>>
  BY DEF CacheGet
<1> DEFINE key == CacheKey(Layer(b))
<1>1. CASE key \in cacheRows
  <2>1. /\ current' = [current EXCEPT ![b] = [digest |-> key, at |-> "cache"]]
        /\ build' = [build EXCEPT ![b] = "extract"] /\ result' = result
    BY <1>1 DEF CacheGet, GoB
  <2>2. key \in Files
    BY <1>0, <1>1 DEF LayerType
  <2> HIDE DEF key
  <2>3. [digest |-> key, at |-> "cache"] \in [digest : Files \union {Absent}, at : {"nowhere", "cache", "own", "packed"}]
    BY <2>2
  <2>4. LayerType'
    BY <1>0, <1>u, <2>1, <2>3 DEF LayerType, HasLayer, cacheVars
  <2>5. /\ build'[b] = "extract" /\ current'[b] = [digest |-> key, at |-> "cache"] /\ result'[b] = "none"
        /\ \A c \in Builds : c # b => build'[c] = build[c] /\ current'[c] = current[c]
    BY <1>0, <2>1 DEF LayerType
  <2>6. Moves(b) /\ UNCHANGED <<packed, cacheRows, cacheFile, image>> /\ record'[b] = record[b]
    BY <1>u, <2>1, <2>5 DEF Moves, cacheVars
  <2>7. ReadInv(b)' /\ Claims(b)
    BY <1>0, <1>u, <2>2, <2>5 DEF ReadInv, HasLayer, HasDigest, Claims
  <2> QED BY <1>0, <2>4, <2>5, <2>6, <2>7, PrivateKeeps
<1>2. CASE key \notin cacheRows /\ Layer(b).source = "url"
  <2>1. GoB(b, Abort(b)) /\ result' = [result EXCEPT ![b] = "failed"] /\ UNCHANGED current
    BY <1>2 DEF CacheGet
  <2> QED BY <1>0, <1>u, <2>1, AbortKeeps
<1>3. CASE key \notin cacheRows /\ Layer(b).source # "url"
  <2>1. PICK to \in {"pack", "fetch"} : build' = [build EXCEPT ![b] = to] /\ result' = result /\ current' = current
    <3>1. PICK to : to = CASE Layer(b).source = "local" -> "pack"
                      [] Layer(b).source = "url" -> Abort(b)
                      [] OTHER -> "fetch"
      OBVIOUS
    <3>2. to \in {"pack", "fetch"}
      BY <1>3, <3>1
    <3>3. build' = [build EXCEPT ![b] = to] /\ result' = result /\ current' = current
      BY <1>3, <3>1 DEF CacheGet, GoB
    <3> QED BY <3>2, <3>3
  <2>2. LayerType'
    BY <1>0, <1>u, <2>1 DEF LayerType, HasLayer, cacheVars
  <2>3. build'[b] = to /\ result'[b] = "none" /\ \A c \in Builds : c # b => build'[c] = build[c]
    BY <1>0, <2>1 DEF LayerType
  <2>4. Moves(b) /\ UNCHANGED <<packed, cacheRows, cacheFile, image>> /\ record'[b] = record[b]
    BY <1>u, <2>1, <2>3 DEF Moves, cacheVars
  <2>5. ReadInv(b)' /\ Claims(b)
    BY <1>0, <1>u, <2>3 DEF ReadInv, HasLayer, HasDigest, Claims
  <2> QED BY <1>0, <2>2, <2>3, <2>4, <2>5, PrivateKeeps
<1> QED BY <1>1, <1>2, <1>3

LEMMA RateLimitKeeps ==
  ASSUME LayerInv, NEW b \in Builds, FetchRateLimited(b)
  PROVE  LayerInv'
<1>u. /\ UNCHANGED <<layers, output, source, todo, current, own, packed, cacheVars, mounted, image, record, buildFaults, shared>>
      /\ build[b] = "fetch"
  BY DEF FetchRateLimited
<1>1. CASE UNCHANGED <<build, result>>
  <2>1. LayerType /\ ReadInv(b) /\ result[b] = "none"
    BY <1>u, TypeOfB DEF HasLayer
  <2>2. LayerType' /\ ReadInv(b)' /\ Claims(b)
    BY <1>1, <1>u, <2>1 DEF LayerType, ReadInv, cacheVars, Claims, Layer, HasLayer
  <2>3. Moves(b) /\ UNCHANGED <<packed, cacheRows, cacheFile, image>> /\ record'[b] = record[b]
    BY <1>1, <1>u DEF Moves, cacheVars
  <2> QED BY <1>1, <1>u, <2>1, <2>2, <2>3, PrivateKeeps
<1>2. CASE GoB(b, Abort(b)) /\ result' = [result EXCEPT ![b] = "failed"]
  BY <1>u, <1>2, AbortKeeps
<1> QED BY <1>1, <1>2 DEF FetchRateLimited

LEMMA FetchKeeps ==
  ASSUME LayerInv, NEW b \in Builds, Fetch(b) \/ CalculateDigest(b)
  PROVE  LayerInv'
<1>0. LayerType /\ ReadInv(b) /\ build[b] \in {"fetch", "sum"} /\ result[b] = "none" /\ todo[b] # <<>> /\ Layer(b).name \in LayerNames
  <2>1. build[b] \in {"fetch", "sum"}
    BY DEF Fetch, CalculateDigest
  <2> QED BY <2>1, TypeOfB DEF ReadInv, HasLayer
<1>u. UNCHANGED <<layers, output, source, todo, packed, cacheVars, mounted, image, record, result, buildFaults, shared>>
  BY DEF Fetch, CalculateDigest
<1>1. PICK d \in Files, where \in {"own", "packed"} :
        /\ current' = [current EXCEPT ![b] = [digest |-> d, at |-> where]] /\ build' = [build EXCEPT ![b] = "open"]
        /\ where = "own" => own' = [own EXCEPT ![b] = d]
        /\ where = "packed" => own' = own /\ packed[Layer(b).name] = d
  <2>1. CASE Fetch(b)
    <3>1. source[Layer(b).name] \in Files
      BY <1>0 DEF LayerType, Files
    <3> QED BY <2>1, <3>1 DEF Fetch, GoB
  <2>2. CASE CalculateDigest(b)
    <3>1. packed[Layer(b).name] \in Files
      BY <1>0, <2>2 DEF ReadInv, CalculateDigest
    <3> QED BY <2>2, <3>1 DEF CalculateDigest, GoB
  <2> QED BY <2>1, <2>2
<1>2. [digest |-> d, at |-> where] \in [digest : Files \union {Absent}, at : {"nowhere", "cache", "own", "packed"}]
  OBVIOUS
<1>3. /\ build'[b] = "open" /\ current'[b] = [digest |-> d, at |-> where] /\ (where = "own" => own'[b] = d)
      /\ own' \in [Builds -> Files \union {Absent}]
      /\ \A c \in Builds : c # b => build'[c] = build[c] /\ current'[c] = current[c] /\ own'[c] = own[c]
  <2>1. /\ build'[b] = "open" /\ current'[b] = [digest |-> d, at |-> where]
        /\ \A c \in Builds : c # b => build'[c] = build[c] /\ current'[c] = current[c]
    BY <1>0, <1>1 DEF LayerType
  <2>2. /\ where = "own" => own'[b] = d
        /\ own' \in [Builds -> Files \union {Absent}]
        /\ \A c \in Builds : c # b => own'[c] = own[c]
    <3>1. own \in [Builds -> Files \union {Absent}] /\ where \in {"own", "packed"}
      BY <1>0 DEF LayerType
    <3> QED BY <1>1, <3>1
  <2> QED BY <2>1, <2>2
<1>4. LayerType'
  BY <1>0, <1>u, <1>1, <1>2, <1>3 DEF LayerType, HasLayer, cacheVars
<1>5. Moves(b) /\ UNCHANGED <<packed, cacheRows, cacheFile, image>> /\ record'[b] = record[b]
  BY <1>u, <1>3 DEF Moves, cacheVars
<1>6. ReadInv(b)' /\ Claims(b)
  BY <1>0, <1>u, <1>1, <1>3 DEF ReadInv, HasLayer, HasDigest, Claims, Layer
<1> QED BY <1>0, <1>u, <1>3, <1>4, <1>5, <1>6, PrivateKeeps

\* tar reads a whole tarball: it is the one of the digest, unless that is tainted.
LEMMA ExtractKeeps ==
  ASSUME LayerInv, NEW b \in Builds, ExtractLayer(b)
  PROVE  LayerInv'
<1>0. /\ LayerType /\ ReadInv(b) /\ build[b] = "extract" /\ result[b] = "none" /\ todo[b] # <<>>
      /\ current[b].digest \in Files /\ current[b].at \in {"cache", "own", "packed"}
  <2>1. build[b] = "extract"
    BY DEF ExtractLayer
  <2> QED BY <2>1, TypeOfB DEF ReadInv, HasLayer, HasDigest
<1>u. UNCHANGED <<layers, output, source, todo, current, packed, cacheVars, mounted, image, record, buildFaults, shared>>
  BY DEF ExtractLayer
<1>1. CASE LocalPath(b) \in Contents \ Plain
  <2>1. own' = [own EXCEPT ![b] = LocalPath(b)] /\ build' = [build EXCEPT ![b] = "copy"] /\ result' = result
    BY <1>1 DEF ExtractLayer, GoB
  <2>2. LocalPath(b) = current[b].digest \/ current[b].digest \in torn
    <3>1. CASE current[b].at = "cache"
      <4>1. LocalPath(b) = cacheFile[current[b].digest]
        BY <3>1 DEF LocalPath
      <4>2. current[b].digest \notin torn => cacheFile[current[b].digest] \in {current[b].digest, Torn, Absent}
        BY <1>0 DEF LayerInv, FileInv
      <4> QED BY <1>1, <4>1, <4>2, ContentsAssumption
    <3>2. CASE current[b].at = "own"
      BY <1>0, <3>2 DEF LocalPath, ReadInv, HasDigest
    <3>3. CASE current[b].at = "packed"
      BY <1>0, <3>3 DEF LocalPath, ReadInv, HasDigest
    <3> QED BY <1>0, <3>1, <3>2, <3>3
  <2>3. /\ build'[b] = "copy" /\ own'[b] = LocalPath(b) /\ result'[b] = "none"
        /\ \A c \in Builds : c # b => build'[c] = build[c] /\ own'[c] = own[c]
    BY <1>0, <2>1 DEF LayerType
  <2>4. LayerType'
    BY <1>0, <1>u, <1>1, <2>1 DEF LayerType, HasLayer, cacheVars, Files
  <2>5. Moves(b) /\ UNCHANGED <<packed, cacheRows, cacheFile, image>> /\ record'[b] = record[b]
    BY <1>u, <2>1, <2>3 DEF Moves, cacheVars
  <2>6. ReadInv(b)' /\ Claims(b)
    BY <1>0, <1>u, <2>2, <2>3 DEF ReadInv, HasLayer, HasDigest, Claims, cacheVars
  <2> QED BY <1>0, <2>3, <2>4, <2>5, <2>6, PrivateKeeps
<1>2. CASE LocalPath(b) \notin Contents \ Plain
  BY <1>0, <1>u, <1>2, AbortKeeps DEF ExtractLayer
<1> QED BY <1>1, <1>2

LEMMA FinishKeeps ==
  ASSUME LayerInv, NEW b \in Builds, FinishImage(b)
  PROVE  LayerInv'
<1>1. PICK to \in {"finish", "umount", "clean", "over", "dead"} : to = "umount"
  OBVIOUS
<1>2. PICK res \in {"none", "ok", "failed"} : res = "ok"
  OBVIOUS
<1>3. /\ UNCHANGED <<layers, output, source, todo, current, own, packed, cacheVars, mounted, image, record, buildFaults, shared>>
      /\ build[b] = "finish" /\ build' = [build EXCEPT ![b] = to] /\ result' = [result EXCEPT ![b] = res]
  BY <1>1, <1>2 DEF FinishImage, GoB
<1>4. Claims(b)
  BY <1>3 DEF Claims
<1> QED BY <1>1, <1>2, <1>3, <1>4, LeavesKeeps

\* The end of a build: the mount is gone, or something has failed.
LEMMA EndKeeps ==
  ASSUME LayerInv, NEW b \in Builds, Unmount(b) \/ RemoveWorkDir(b) \/ KillBuild(b)
  PROVE  LayerInv'
<1>0. LayerType /\ (build[b] = "clean" /\ buildFaults = 0 => ~mounted[b]) /\ current[b].digest \in Files \union {Absent}
  BY TypeOfB
<1>u. UNCHANGED <<layers, output, source, todo, current, packed, cacheRows, cacheFile, record, result, shared>>
  BY DEF Unmount, RemoveWorkDir, KillBuild, cacheVars
<1>1. PICK to \in {"clean", "over", "dead"} : build' = [build EXCEPT ![b] = to] /\ (to = "clean" => build[b] = "umount")
  BY DEF Unmount, RemoveWorkDir, KillBuild, GoB
<1>2. /\ buildFaults' \in Nat /\ (buildFaults' = 0 => buildFaults = 0) /\ torn \subseteq torn'
      /\ build[b] = "fill" => current[b].digest \in torn'
  BY <1>0 DEF Unmount, RemoveWorkDir, KillBuild, BuildFault, LayerType, cacheVars
<1>3. /\ own' \in [Builds -> Files \union {Absent}] /\ mounted' \in [Builds -> BOOLEAN]
      /\ image' \in [{1, 2} -> Seq(LayerNames \X (Files \union {Absent}))]
      /\ \A c \in Builds : c # b => own'[c] = own[c]
  <2>1. CASE Unmount(b)
    BY <1>0, <2>1 DEF LayerType, Unmount
  <2>2. CASE RemoveWorkDir(b)
    BY <1>0, <2>2 DEF LayerType, RemoveWorkDir
  <2>3. CASE KillBuild(b)
    BY <1>0, <2>3 DEF LayerType, KillBuild
  <2> QED BY <2>1, <2>2, <2>3
<1>4. ASSUME NEW c \in Builds, c # b PROVE mounted'[c] = mounted[c]
  BY <1>0, <1>4, Zenon DEF LayerType, Unmount, RemoveWorkDir, KillBuild
<1>5. buildFaults' = 0 => image' = image /\ (to = "clean" => ~mounted'[b])
  <2>1. CASE Unmount(b)
    <3>1. image' = image /\ (mounted' = [mounted EXCEPT ![b] = FALSE] \/ buildFaults' = buildFaults + 1)
      BY <2>1 DEF Unmount, BuildFault
    <3>2. mounted' = [mounted EXCEPT ![b] = FALSE] => ~mounted'[b]
      BY <1>0, Zenon DEF LayerType
    <3>3. buildFaults' = 0 => buildFaults' # buildFaults + 1
      BY <1>0 DEF LayerType
    <3> QED BY <3>1, <3>2, <3>3
  <2>2. CASE RemoveWorkDir(b)
    BY <1>0, <1>1, <1>2, <2>2 DEF RemoveWorkDir
  <2>3. CASE KillBuild(b)
    BY <1>0, <1>2, <2>3 DEF KillBuild, BuildFault, LayerType
  <2> QED BY <2>1, <2>2, <2>3
<1>6. build'[b] = to /\ \A c \in Builds : c # b => build'[c] = build[c]
  BY <1>0, <1>1 DEF LayerType
<1>7. Moves(b)
  BY <1>u, <1>2, <1>3, <1>4, <1>6 DEF Moves
<1>8. LayerType'
  BY <1>0, <1>u, <1>1, <1>2, <1>3 DEF LayerType
<1>9. ReadInv(b)' /\ (Claims(b)' => Claims(b))
  BY <1>u, <1>6 DEF ReadInv, HasLayer, HasDigest, Claims
<1>10. \A c \in Builds : ReadInv(c)'
  BY <1>u, <1>7, <1>9, OthersRead
<1>11. FileInv' /\ CachedIsWhole'
  BY <1>u, <1>2, <1>6, <1>7, FilesKept
<1>12. OutputInv'
  BY <1>5, <1>6, <1>7, <1>9, OutputsKept DEF HasLayer
<1>13. ImageInv'
  <2>1. CASE buildFaults' = 0
    BY <1>u, <1>5, <1>7, <1>9, <2>1, ImagesKept
  <2>2. CASE buildFaults' # 0
    BY <2>2 DEF ImageInv, Undisturbed
  <2> QED BY <2>1, <2>2
<1> QED BY <1>8, <1>10, <1>11, <1>12, <1>13 DEF LayerInv

-----------------------------------------------------------------------------
(* The tarballs of local layers                                            *)

\* Packing a tarball anew taints the digests that others have of the old one.
LEMMA PackKeeps ==
  ASSUME LayerInv, NEW b \in Builds, CreateTarball(b) \/ FillTarball(b)
  PROVE  LayerInv'
<1>0. /\ LayerType /\ ReadInv(b) /\ build[b] \in {"pack", "write"} /\ result[b] = "none" /\ todo[b] # <<>>
      /\ Layer(b).name \in LayerNames
  <2>1. build[b] \in {"pack", "write"}
    BY DEF CreateTarball, FillTarball
  <2> QED BY <2>1, TypeOfB DEF ReadInv, HasLayer
<1> DEFINE n == Layer(b).name
<1>u. UNCHANGED <<layers, output, source, todo, current, own, cacheRows, cacheFile, mounted, image, record, result, buildFaults, shared>>
  BY DEF CreateTarball, FillTarball
<1>1. PICK to \in {"write", "sum"}, f \in Files :
        build' = [build EXCEPT ![b] = to] /\ packed' = [packed EXCEPT ![n] = f] /\ torn' = Taint(b)
  <2>1. source[n] \in Files /\ Torn \in Files
    BY <1>0 DEF LayerType, Files
  <2> QED BY <2>1 DEF CreateTarball, FillTarball, GoB
<1>2. build'[b] = to /\ \A c \in Builds : c # b => build'[c] = build[c]
  BY <1>0, <1>1 DEF LayerType
<1>3. packed'[n] = f /\ \A m \in LayerNames : m # n => packed'[m] = packed[m]
  BY <1>0, <1>1 DEF LayerType
<1>4. Moves(b)
  BY <1>u, <1>1, <1>2 DEF Moves, Taint
<1>5. LayerType'
  BY <1>0, <1>u, <1>1 DEF LayerType, HasLayer
<1>6. ReadInv(b)' /\ Claims(b)
  BY <1>0, <1>u, <1>2, <1>3 DEF ReadInv, HasLayer, HasDigest, Claims, Layer
<1>7. ASSUME NEW c \in Builds, c # b PROVE ReadInv(c)'
  <2>0. ReadInv(c) /\ (build[c] \in HasLayer => Layer(c).name \in LayerNames)
    BY TypeOfB
  <2>1. /\ build'[c] = build[c] /\ todo'[c] = todo[c] /\ current'[c] = current[c] /\ own'[c] = own[c] /\ torn \subseteq torn'
        /\ Layer(c)' = Layer(c)
    BY <1>4, <1>7, <1>u DEF Moves, Layer
  <2>2. CASE build[c] \in HasLayer /\ Layer(c).name = n
    <3>1. packed'[Layer(c).name] \in Files
      BY <2>2, <1>3
    <3>2. build[c] \in HasDigest /\ build[c] # "copy" /\ current[c].at = "packed" => current[c].digest \in torn'
      BY <1>1, <1>7, <2>2 DEF HasDigest, Taint, Relied
    <3> QED BY <2>0, <2>1, <3>1, <3>2 DEF ReadInv
  <2>3. CASE build[c] \in HasLayer /\ Layer(c).name # n
    <3>1. packed'[Layer(c).name] = packed[Layer(c).name]
      BY <2>0, <2>3, <1>3
    <3> QED BY <2>0, <2>1, <3>1 DEF ReadInv, Files
  <2>4. CASE build[c] \notin HasLayer
    BY <2>0, <2>1, <2>4 DEF ReadInv, HasLayer, HasDigest
  <2> QED BY <2>2, <2>3, <2>4
<1>8. FileInv' /\ CachedIsWhole'
  BY <1>0, <1>u, <1>2, <1>4, FilesKept
<1>9. OutputInv'
  BY <1>0, <1>u, <1>2, <1>4, <1>6, OutputsKept
<1>10. ImageInv'
  BY <1>u, <1>4, <1>6, ImagesKept
<1> QED BY <1>5, <1>6, <1>7, <1>8, <1>9, <1>10 DEF LayerInv

-----------------------------------------------------------------------------
(* layerCache.Put                                                          *)

LEMMA PutFacts ==
  ASSUME LayerInv, NEW b \in Builds, build[b] \in {"open", "fill", "row"}
  PROVE  /\ LayerType /\ ReadInv(b) /\ result[b] = "none" /\ todo[b] # <<>> /\ current[b].digest \in Files /\ Claims(b)
         /\ LocalPath(b) \in Files \union {Absent} /\ (LocalPath(b) = current[b].digest \/ current[b].digest \in torn)
<1>1. /\ LayerType /\ ReadInv(b) /\ result[b] = "none" /\ todo[b] # <<>> /\ current[b].digest \in Files /\ Claims(b)
      /\ current[b].at \in {"own", "packed"} /\ own[b] \in Files \union {Absent} /\ Layer(b).name \in LayerNames
  BY TypeOfB DEF ReadInv, HasLayer, HasDigest, Claims
<1>2. CASE current[b].at = "own"
  BY <1>1, <1>2 DEF LocalPath, ReadInv, HasDigest
<1>3. CASE current[b].at = "packed"
  <2>1. LocalPath(b) = packed[Layer(b).name]
    BY <1>3 DEF LocalPath
  <2> QED BY <1>1, <1>3, <2>1 DEF ReadInv, HasDigest, LayerType
<1> QED BY <1>1, <1>2, <1>3

\* The step from one label of Put to the next.
LEMMA PutKeeps ==
  ASSUME LayerInv, NEW b \in Builds, PutOpens(b) \/ PutCopies(b) \/ PutStores(b)
  PROVE  LayerInv'
<1> DEFINE d == current[b].digest
<1>0. /\ LayerType /\ ReadInv(b) /\ result[b] = "none" /\ todo[b] # <<>> /\ d \in Files /\ Claims(b)
      /\ LocalPath(b) \in Files \union {Absent} /\ (LocalPath(b) = d \/ d \in torn)
      /\ build[b] \in {"open", "fill", "row"}
  BY PutFacts DEF PutOpens, PutCopies, PutStores
<1>u. UNCHANGED <<layers, output, source, todo, current, own, packed, torn, mounted, image, record, result, buildFaults, shared>>
  BY DEF PutOpens, PutCopies, PutStores
<1>1. PICK to \in {"fill", "row", "extract"} : build' = [build EXCEPT ![b] = to]
  BY DEF PutOpens, PutCopies, PutStores, GoB
<1>2. build'[b] = to /\ \A c \in Builds : c # b => build'[c] = build[c]
  BY <1>0, <1>1 DEF LayerType
<1>3. Moves(b)
  BY <1>u, <1>2 DEF Moves
<1>4. cacheRows' \subseteq Files /\ cacheFile' \in [Files -> Files \union {Absent}]
  <2>1. Torn \in Files
    BY DEF Files
  <2>2. cacheRows \subseteq Files /\ cacheFile \in [Files -> Files \union {Absent}]
    BY <1>0 DEF LayerType
  <2>3. CASE PutOpens(b)
    BY <2>1, <2>2, <2>3 DEF PutOpens
  <2>4. CASE PutCopies(b)
    BY <1>0, <2>2, <2>4 DEF PutCopies
  <2>5. CASE PutStores(b)
    BY <1>0, <2>2, <2>5 DEF PutStores
  <2> QED BY <2>3, <2>4, <2>5
<1>5. LayerType'
  BY <1>0, <1>u, <1>1, <1>4 DEF LayerType, HasLayer
<1>6. ReadInv(b)'
  BY <1>0, <1>u, <1>2 DEF ReadInv, HasLayer, HasDigest, Layer
<1>7. \A c \in Builds : ReadInv(c)'
  BY <1>u, <1>3, <1>6, OthersRead
<1>8. OutputInv'
  BY <1>0, <1>u, <1>2, <1>3, OutputsKept
<1>9. ImageInv'
  BY <1>0, <1>u, <1>3, ImagesKept
<1>f. FileInv /\ CachedIsWhole
  BY DEF LayerInv
<1>c. \A e \in cacheRows \ torn : e \in Files /\ (cacheFile[e] = e \/ Filled(e))
  BY <1>0, <1>f DEF CachedIsWhole, Filled, LayerType
<1>10. FileInv' /\ CachedIsWhole'
  <2>1. CASE PutOpens(b)
    <3>1. /\ cacheFile' = [cacheFile EXCEPT ![d] = Torn] /\ cacheRows' = cacheRows /\ to = "fill" /\ build[b] = "open"
          /\ build'[b] = "fill" /\ current' = current
      BY <2>1, <1>1, <1>2, <1>u, <1>0 DEF PutOpens, GoB, LayerType
    <3>2. \A e \in Files : cacheFile'[e] = IF e = d THEN Torn ELSE cacheFile[e]
      BY <1>0, <3>1 DEF LayerType
    <3>3. \A e : e = d \/ Filled(e) => Filled(e)'
      BY <1>2, <3>1 DEF Filled
    <3>4. CachedIsWhole'
      <4>1. \A e \in cacheRows \ torn : cacheFile'[e] = e \/ Filled(e)'
        <5> TAKE e \in cacheRows \ torn
        <5>1. CASE e = d
          BY <3>3, <5>1
        <5>2. CASE e # d
          BY <1>c, <3>2, <3>3, <5>2
        <5> QED BY <5>1, <5>2
      <4> QED BY <1>u, <3>1, <4>1 DEF CachedIsWhole, Filled
    <3>5. FileInv'
      <4>1. \A e \in Files \ torn : cacheFile'[e] \in {e, Torn, Absent}
        BY <1>f, <3>2 DEF FileInv
      <4>2. ASSUME NEW c \in Builds, NEW e, build'[c] = "row", e = current[c].digest, e \notin torn
            PROVE  cacheFile'[e] = e \/ Filled(e)'
        <5>1. c # b /\ build[c] = "row"
          BY <1>2, <3>1, <4>2
        <5>2. cacheFile[e] = e \/ Filled(e)
          BY <1>f, <4>2, <5>1 DEF FileInv
        <5>3. e \in Files
          BY <5>1, <4>2, PutFacts
        <5>4. CASE e = d
          BY <3>3, <5>4
        <5>5. CASE e # d
          BY <3>2, <3>3, <5>2, <5>3, <5>5
        <5> QED BY <5>4, <5>5
      <4> QED BY <1>u, <4>1, <4>2 DEF FileInv, Filled, Files
    <3> QED BY <3>4, <3>5
  <2>2. CASE PutCopies(b)
    <3>1. /\ cacheFile' = [cacheFile EXCEPT ![d] = LocalPath(b)] /\ cacheRows' = cacheRows /\ build[b] = "fill"
          /\ build'[b] = "row" /\ current' = current
      BY <2>2, <1>1, <1>2, <1>u, <1>0 DEF PutCopies, GoB, LayerType
    <3>2. \A e \in Files : cacheFile'[e] = IF e = d THEN LocalPath(b) ELSE cacheFile[e]
      BY <1>0, <3>1 DEF LayerType
    <3>3. \A e : e # d /\ Filled(e) => Filled(e)'
      BY <1>2, <3>1 DEF Filled
    <3>4. CachedIsWhole'
      <4>1. \A e \in cacheRows \ torn : cacheFile'[e] = e \/ Filled(e)'
        <5> TAKE e \in cacheRows \ torn
        <5>1. CASE e = d
          BY <1>0, <3>2, <5>1
        <5>2. CASE e # d
          BY <1>c, <3>2, <3>3, <5>2
        <5> QED BY <5>1, <5>2
      <4> QED BY <1>u, <3>1, <4>1 DEF CachedIsWhole, Filled
    <3>5. FileInv'
      <4>1. \A e \in Files \ torn : cacheFile'[e] \in {e, Torn, Absent}
        BY <1>0, <1>f, <3>2 DEF FileInv
      <4>2. ASSUME NEW c \in Builds, NEW e, build'[c] = "row", e = current[c].digest, e \notin torn
            PROVE  cacheFile'[e] = e \/ Filled(e)'
        <5>1. CASE e = d
          BY <1>0, <3>2, <4>2, <5>1
        <5>2. CASE e # d
          <6>1. build[c] = "row"
            BY <1>2, <4>2, <5>2
          <6>2. cacheFile[e] = e \/ Filled(e)
            BY <1>f, <4>2, <6>1 DEF FileInv
          <6>3. e \in Files
            BY <6>1, <4>2, PutFacts
          <6> QED BY <3>2, <3>3, <5>2, <6>2, <6>3
        <5> QED BY <5>1, <5>2
      <4> QED BY <1>u, <4>1, <4>2 DEF FileInv, Filled, Files
    <3> QED BY <3>4, <3>5
  <2>3. CASE PutStores(b)
    <3>1. /\ cacheFile' = cacheFile /\ cacheRows' = cacheRows \union {d} /\ build[b] = "row"
          /\ build'[b] = "extract" /\ current' = current
      BY <2>3, <1>1, <1>2, <1>u, <1>0 DEF PutStores, GoB, LayerType
    <3>2. \A e : Filled(e) => Filled(e)'
      BY <1>2, <3>1 DEF Filled
    <3>3. d \notin torn => cacheFile[d] = d \/ Filled(d)
      BY <1>f, <3>1 DEF FileInv
    <3>4. \A e \in cacheRows' \ torn : cacheFile[e] = e \/ Filled(e)'
      BY <1>f, <3>1, <3>2, <3>3 DEF CachedIsWhole, Filled
    <3>5. CachedIsWhole'
      BY <1>u, <3>1, <3>4 DEF CachedIsWhole, Filled
    <3>6. FileInv'
      <4>1. \A e \in Files \ torn : cacheFile[e] \in {e, Torn, Absent}
        BY <1>f DEF FileInv
      <4>2. ASSUME NEW c \in Builds, NEW e, build'[c] = "row", e = current[c].digest, e \notin torn
            PROVE  cacheFile[e] = e \/ Filled(e)'
        <5>1. build[c] = "row"
          BY <1>2, <3>1, <4>2
        <5> QED BY <1>f, <3>2, <4>2, <5>1 DEF FileInv
      <4> QED BY <1>u, <3>1, <4>1, <4>2 DEF FileInv, Filled, Files
    <3> QED BY <3>5, <3>6
  <2> QED BY <2>1, <2>2, <2>3
<1> QED BY <1>5, <1>7, <1>8, <1>9, <1>10 DEF LayerInv

\* A Put that fails: its digest is tainted, the file is gone or as it was.
LEMMA PutFailsKeeps ==
  ASSUME LayerInv, NEW b \in Builds, PutFails(b)
  PROVE  LayerInv'
<1> DEFINE d == current[b].digest
<1>0. LayerType /\ ReadInv(b) /\ d \in Files /\ build[b] \in {"open", "fill", "row"} /\ output[b] \in {1, 2}
  BY PutFacts, TypeOfB DEF PutFails
<1>u. UNCHANGED <<layers, output, source, todo, current, own, packed, cacheRows, mounted, image, record, shared>>
  BY DEF PutFails
<1>1. PICK to \in {"umount", "clean"} : build' = [build EXCEPT ![b] = to] /\ (to = "clean" => ~mounted[b])
  BY DEF PutFails, GoB, Abort
<1>2. /\ result' = [result EXCEPT ![b] = "failed"] /\ torn' = torn \union {d}
      /\ buildFaults' \in Nat /\ buildFaults' # 0
  BY <1>0 DEF PutFails, BuildFault, LayerType
<1>3. /\ build'[b] = to /\ result'[b] = "failed"
      /\ \A c \in Builds : c # b => build'[c] = build[c] /\ result'[c] = result[c]
  BY <1>0, <1>1, <1>2 DEF LayerType
<1>4. Moves(b)
  BY <1>u, <1>2, <1>3 DEF Moves
<1>5. cacheFile' \in [Files -> Files \union {Absent}] /\ \A e \in Files : e # d => cacheFile'[e] = cacheFile[e]
  BY <1>0 DEF PutFails, LayerType
<1>6. LayerType'
  BY <1>0, <1>u, <1>1, <1>2, <1>5 DEF LayerType, HasLayer
<1>7. ReadInv(b)' /\ ~Claims(b)'
  BY <1>3 DEF ReadInv, HasLayer, HasDigest, Claims
<1>8. \A c \in Builds : ReadInv(c)'
  BY <1>u, <1>4, <1>7, OthersRead
<1>9. OutputInv'
  BY <1>2, <1>3, <1>4, <1>7, OutputsKept DEF HasLayer
<1>10. ImageInv'
  BY <1>2 DEF ImageInv, Undisturbed
<1>f. FileInv /\ CachedIsWhole
  BY DEF LayerInv
<1>11. \A e : e # d /\ Filled(e) => Filled(e)'
  BY <1>u, <1>3 DEF Filled
<1>12. CachedIsWhole'
  <2>1. \A e \in cacheRows \ torn' : cacheFile'[e] = e \/ Filled(e)'
    <3> TAKE e \in cacheRows \ torn'
    <3>1. e # d /\ e \in Files /\ e \in cacheRows \ torn
      BY <1>0, <1>2 DEF LayerType
    <3>2. cacheFile[e] = e \/ Filled(e)
      BY <1>f, <3>1 DEF CachedIsWhole, Filled
    <3> QED BY <1>5, <1>11, <3>1, <3>2
  <2> QED BY <1>u, <2>1 DEF CachedIsWhole, Filled
<1>13. FileInv'
  <2>1. \A e \in Files \ torn' : cacheFile'[e] \in {e, Torn, Absent}
    BY <1>f, <1>2, <1>5 DEF FileInv
  <2>2. ASSUME NEW c \in Builds, NEW e, build'[c] = "row", e = current[c].digest, e \notin torn'
        PROVE  cacheFile'[e] = e \/ Filled(e)'
    <3>1. build[c] = "row" /\ e # d /\ e \notin torn
      BY <1>2, <1>3, <2>2
    <3>2. e \in Files
      BY <2>2, <3>1, PutFacts
    <3>3. cacheFile[e] = e \/ Filled(e)
      BY <1>f, <2>2, <3>1 DEF FileInv
    <3> QED BY <1>5, <1>11, <3>1, <3>2, <3>3
  <2> QED BY <1>u, <2>1, <2>2 DEF FileInv, Filled, Files
<1> QED BY <1>6, <1>8, <1>9, <1>10, <1>12, <1>13 DEF LayerInv

-----------------------------------------------------------------------------
(* The image                                                               *)

\* A build that starts on an output that another one uses, or has finished, is known.
LEMMA CreateKeeps ==
  ASSUME LayerInv, NEW b \in Builds, CreateAndMount(b)
  PROVE  LayerInv'
<1>0. /\ LayerType /\ OutputInv /\ ReadInv(b) /\ build[b] = "create" /\ record[b] = <<>> /\ result[b] = "none"
      /\ output[b] \in {1, 2}
  BY TypeOfB DEF CreateAndMount, LayerInv
<1>u. UNCHANGED <<layers, output, source, todo, current, own, packed, cacheRows, cacheFile, torn, record, result, buildFaults>>
  BY DEF CreateAndMount, cacheVars
<1>1. /\ build' = [build EXCEPT ![b] = "get"] /\ mounted' = [mounted EXCEPT ![b] = TRUE]
      /\ image' = [image EXCEPT ![output[b]] = <<>>] /\ shared \subseteq shared'
  BY DEF CreateAndMount, GoB
<1>2. build'[b] = "get" /\ \A c \in Builds : c # b => build'[c] = build[c]
  BY <1>0, <1>1 DEF LayerType
<1>3. \A c \in Builds : c # b => mounted'[c] = mounted[c]
  BY <1>0, <1>1, Zenon DEF LayerType
<1>4. Moves(b)
  BY <1>u, <1>1, <1>2, <1>3 DEF Moves
<1>5. LayerType'
  <2>1. mounted' \in [Builds -> BOOLEAN]
    BY <1>0, <1>1, Zenon DEF LayerType
  <2>2. image' \in [{1, 2} -> Seq(LayerNames \X (Files \union {Absent}))]
    BY <1>0, <1>1 DEF LayerType
  <2>3. build' \in [Builds -> HasLayer \union {"idle", "create", "finish", "umount", "clean", "over", "dead"}]
    BY <1>0, <1>1 DEF LayerType, HasLayer
  <2> QED BY <1>0, <1>u, <2>1, <2>2, <2>3 DEF LayerType
<1>6. ReadInv(b)'
  BY <1>0, <1>u, <1>2 DEF ReadInv, HasLayer, HasDigest
<1>7. \A c \in Builds : ReadInv(c)'
  BY <1>u, <1>4, <1>6, OthersRead
<1>8. FileInv' /\ CachedIsWhole'
  BY <1>0, <1>u, <1>2, <1>4, FilesKept
<1>9. ASSUME NEW c \in Builds, c # b, Claims(c), output[c] = output[b] PROVE output[b] \in shared'
  <2>1. CASE result[c] = "ok"
    BY <1>9, <2>1 DEF CreateAndMount
  <2>2. CASE build[c] \in HasLayer \union {"finish"}
    <3>1. Clash(b)
      BY <1>9, <2>2 DEF Clash, HasLayer
    <3> QED BY <3>1 DEF CreateAndMount
  <2> QED BY <1>9, <2>1, <2>2 DEF Claims
<1>10. \A c \in Builds : c # b /\ Claims(c)' => Claims(c)
  BY <1>u, <1>2 DEF Claims
<1>11. OutputInv'
  <2>1. ASSUME NEW c \in Builds, NEW e \in Builds, Claims(c)', Claims(e)', output[c] = output[e], c # e
        PROVE  output[c] \in shared'
    <3>1. CASE c = b
      BY <1>9, <1>10, <2>1, <3>1
    <3>2. CASE e = b
      BY <1>9, <1>10, <2>1, <3>2
    <3>3. CASE c # b /\ e # b
      BY <1>0, <1>1, <1>10, <2>1, <3>3 DEF OutputInv
    <3> QED BY <3>1, <3>2, <3>3
  <2>2. ASSUME NEW c \in Builds
        PROVE  /\ build'[c] = "clean" /\ buildFaults' = 0 => ~mounted'[c]
               /\ build'[c] \in {"idle", "create"} => record'[c] = <<>> /\ result'[c] = "none"
               /\ build'[c] \in HasLayer \union {"finish"} => result'[c] = "none"
    <3>1. CASE c = b
      BY <1>0, <1>u, <1>2, <3>1
    <3>2. CASE c # b
      BY <1>0, <1>u, <1>2, <1>3, <3>2 DEF OutputInv
    <3> QED BY <3>1, <3>2
  <2> QED BY <1>u, <2>1, <2>2 DEF OutputInv, HasLayer
<1>12. ImageInv'
  <2>1. ASSUME NEW c \in Builds, Undisturbed(c)' PROVE image'[output[c]] = record[c]
    <3>1. CASE c = b
      BY <1>0, <1>1, <3>1 DEF LayerType
    <3>2. CASE c # b /\ output[c] = output[b]
      <4>1. Claims(c) /\ output[c] \notin shared'
        BY <1>u, <1>10, <2>1, <3>2 DEF Undisturbed
      <4> QED BY <1>9, <3>2, <4>1
    <3>3. CASE c # b /\ output[c] # output[b]
      <4>1. Undisturbed(c)
        BY <1>u, <1>1, <1>10, <2>1, <3>3 DEF Undisturbed
      <4>2. image'[output[c]] = image[output[c]]
        BY <1>0, <1>1, <3>3 DEF LayerType
      <4> QED BY <4>1, <4>2 DEF LayerInv, ImageInv
    <3> QED BY <3>1, <3>2, <3>3
  <2> QED BY <1>u, <2>1 DEF ImageInv
<1> QED BY <1>5, <1>7, <1>8, <1>11, <1>12 DEF LayerInv

\* A layer joins the image and the manifest of its build.
LEMMA CopyKeeps ==
  ASSUME LayerInv, NEW b \in Builds, CopyLayer(b)
  PROVE  LayerInv'
<1> DEFINE n == Layer(b).name
           d == current[b].digest
           o == output[b]
<1>0. /\ LayerType /\ OutputInv /\ ImageInv /\ build[b] = "copy" /\ result[b] = "none" /\ Claims(b)
      /\ n \in LayerNames /\ d \in Files /\ own[b] \in Files \union {Absent} /\ (own[b] = d \/ d \in torn)
      /\ todo[b] \in Seq(Layers) /\ todo[b] # <<>> /\ Tail(todo[b]) \in Seq(Layers) /\ o \in {1, 2}
  <2>1. build[b] = "copy"
    BY DEF CopyLayer
  <2> QED BY <2>1, TypeOfB DEF LayerInv, ReadInv, HasLayer, HasDigest, Claims
<1>u. UNCHANGED <<layers, output, source, current, own, packed, cacheRows, cacheFile, torn, mounted, result, buildFaults, shared>>
  BY DEF CopyLayer, cacheVars
<1>1. PICK to \in {"finish", "get"} : build' = [build EXCEPT ![b] = to] /\ (to = "get" => Len(todo[b]) # 1)
  BY DEF CopyLayer, GoB
<1>2. /\ image' = [image EXCEPT ![o] = Append(@, <<n, own[b]>>)]
      /\ record' = [record EXCEPT ![b] = Append(@, <<n, d>>)] /\ todo' = [todo EXCEPT ![b] = Tail(@)]
  BY DEF CopyLayer
<1> HIDE DEF n, d
<1>3. /\ build'[b] = to /\ todo'[b] = Tail(todo[b]) /\ record'[b] = Append(record[b], <<n, d>>)
      /\ \A c \in Builds : c # b => build'[c] = build[c] /\ todo'[c] = todo[c] /\ record'[c] = record[c]
  BY <1>0, <1>1, <1>2 DEF LayerType
<1>4. /\ image'[o] = Append(image[o], <<n, own[b]>>) /\ \A p \in {1, 2} : p # o => image'[p] = image[p]
  BY <1>0, <1>2 DEF LayerType
<1>5. Moves(b)
  BY <1>u, <1>3 DEF Moves
<1>6. LayerType'
  <2> DEFINE S == Seq(LayerNames \X (Files \union {Absent}))
  <2>1. image[o] \in S /\ record[b] \in S /\ <<n, own[b]>> \in LayerNames \X (Files \union {Absent})
        /\ <<n, d>> \in LayerNames \X (Files \union {Absent})
    BY <1>0 DEF LayerType
  <2>2. Append(image[o], <<n, own[b]>>) \in S /\ Append(record[b], <<n, d>>) \in S
    BY <2>1
  <2>3. image \in [{1, 2} -> S] /\ record \in [Builds -> S]
    BY <1>0 DEF LayerType
  <2>4. image' \in [{1, 2} -> S] /\ record' \in [Builds -> S]
    <3> HIDE DEF S
    <3> QED BY <1>0, <1>2, <2>2, <2>3
  <2>5. todo' \in [Builds -> Seq(Layers)]
    BY <1>0, <1>2 DEF LayerType
  <2>6. build' \in [Builds -> HasLayer \union {"idle", "create", "finish", "umount", "clean", "over", "dead"}]
    BY <1>0, <1>1 DEF LayerType, HasLayer
  <2> QED BY <1>0, <1>u, <2>4, <2>5, <2>6 DEF LayerType
<1>7. ReadInv(b)'
  <2>1. Len(todo[b]) # 1 => Len(Tail(todo[b])) # 0
    BY <1>0
  <2>2. to = "get" => Tail(todo[b]) # <<>>
    BY <1>1, <2>1
  <2> QED BY <1>3, <2>2 DEF ReadInv, HasLayer, HasDigest
<1>8. \A c \in Builds : ReadInv(c)'
  BY <1>u, <1>5, <1>7, OthersRead
<1>9. FileInv' /\ CachedIsWhole'
  BY <1>0, <1>u, <1>3, <1>5, FilesKept
<1>10. OutputInv'
  <2>1. build'[b] \notin {"clean", "idle", "create"} /\ result'[b] = "none"
    BY <1>0, <1>u, <1>3
  <2> QED BY <1>0, <1>5, <2>1, OutputsKept
<1>11. ImageInv'
  <2>1. ASSUME NEW c \in Builds, Undisturbed(c)' PROVE image'[output[c]] = record'[c]
    <3>1. CASE c = b
      <4>1. record[b] \in Seq(LayerNames \X (Files \union {Absent}))
        BY <1>0 DEF LayerType
      <4>2. /\ Len(record'[b]) = Len(record[b]) + 1 /\ DOMAIN record'[b] = 1 .. Len(record[b]) + 1
            /\ record'[b][Len(record[b]) + 1] = <<n, d>>
            /\ \A i \in DOMAIN record[b] : i \in DOMAIN record'[b] /\ record'[b][i] = record[b][i]
        BY <1>3, <4>1
      <4>3. \A i \in DOMAIN record'[b] : record'[b][i][2] \notin torn
        BY <1>u, <2>1, <3>1 DEF Undisturbed
      <4>4. d \notin torn
        <5>1. Len(record[b]) + 1 \in DOMAIN record'[b]
          BY <4>1, <4>2
        <5>2. <<n, d>>[2] \notin torn
          BY <4>2, <4>3, <5>1
        <5> QED BY <5>2
      <4>5. \A i \in DOMAIN record[b] : record[b][i][2] \notin torn
        BY <4>2, <4>3
      <4>6. Undisturbed(b)
        BY <1>0, <1>u, <2>1, <3>1, <4>5 DEF Undisturbed
      <4>7. image[o] = record[b]
        BY <1>0, <4>6 DEF ImageInv
      <4> QED BY <1>0, <1>3, <1>4, <3>1, <4>4, <4>7
    <3>2. CASE c # b /\ output[c] = o
      <4>1. Claims(c) /\ output[c] \notin shared
        BY <1>u, <1>3, <2>1, <3>2 DEF Undisturbed, Claims
      <4> QED BY <1>0, <3>2, <4>1 DEF OutputInv
    <3>3. CASE c # b /\ output[c] # o
      <4>1. Undisturbed(c)
        BY <1>u, <1>3, <2>1, <3>3 DEF Undisturbed, Claims
      <4>2. image'[output[c]] = image[output[c]]
        BY <1>0, <1>4, <3>3 DEF LayerType
      <4> QED BY <1>0, <1>3, <3>3, <4>1, <4>2 DEF ImageInv
    <3> QED BY <3>1, <3>2, <3>3
  <2> QED BY <1>u, <2>1 DEF ImageInv
<1> QED BY <1>6, <1>8, <1>9, <1>10, <1>11 DEF LayerInv

-----------------------------------------------------------------------------
(* All steps                                                               *)

LEMMA EditKeeps ==
  ASSUME LayerInv, NEW n \in LayerNames, NEW c \in Contents, EditSource(n, c)
  PROVE  LayerInv'
<1>1. /\ UNCHANGED <<layers, output, build, todo, current, own, mounted, record, result, packed, cacheRows, cacheFile, torn, image, buildFaults, shared>>
      /\ source' = [source EXCEPT ![n] = c]
  BY DEF EditSource, procVars, cacheVars
<1>2. LayerType'
  BY <1>1 DEF LayerInv, LayerType
<1>3. (\A b \in Builds : ReadInv(b)') /\ FileInv' /\ CachedIsWhole' /\ OutputInv' /\ ImageInv'
  BY <1>1 DEF LayerInv, ReadInv, Layer, FileInv, Filled, CachedIsWhole, OutputInv, Claims, ImageInv, Undisturbed, Files, HasLayer, HasDigest
<1> QED BY <1>2, <1>3 DEF LayerInv

LEMMA InitLayers == LayerInit => LayerInv
<1> SUFFICES ASSUME LayerInit PROVE LayerInv
  OBVIOUS
<1>1. LayerType
  <2>1. source \in [LayerNames -> Contents]
    BY ContentsAssumption DEF LayerInit
  <2>2. current \in [Builds -> [digest : Files \union {Absent}, at : {"nowhere", "cache", "own", "packed"}]]
    BY DEF LayerInit, Nothing
  <2>3. mounted \in [Builds -> BOOLEAN]
    BY Zenon DEF LayerInit
  <2>4. <<>> \in Seq(Layers) /\ <<>> \in Seq(LayerNames \X (Files \union {Absent}))
    OBVIOUS
  <2>5. cacheRows \subseteq Files /\ cacheFile \in [Files -> Files \union {Absent}] /\ own \in [Builds -> Files \union {Absent}]
        /\ packed \in [LayerNames -> Files \union {Absent}] /\ buildFaults \in Nat
    BY DEF LayerInit, Files
  <2>6. todo \in [Builds -> Seq(Layers)] /\ image \in [{1, 2} -> Seq(LayerNames \X (Files \union {Absent}))]
        /\ record \in [Builds -> Seq(LayerNames \X (Files \union {Absent}))]
    BY <2>4 DEF LayerInit
  <2>7. result \in [Builds -> {"none", "ok", "failed"}] /\ layers \in Manifests /\ output \in [Builds -> {1, 2}]
        /\ build \in [Builds -> HasLayer \union {"idle", "create", "finish", "umount", "clean", "over", "dead"}]
    BY DEF LayerInit
  <2> QED BY <2>1, <2>2, <2>3, <2>5, <2>6, <2>7 DEF LayerType
<1>2. \A b \in Builds : build[b] = "idle" /\ record[b] = <<>> /\ result[b] = "none"
  BY DEF LayerInit
<1>3. \A b \in Builds : ReadInv(b) /\ ~Claims(b)
  BY <1>2 DEF ReadInv, HasLayer, HasDigest, Claims
<1>4. FileInv /\ CachedIsWhole
  BY <1>2 DEF LayerInit, FileInv, CachedIsWhole, Files
<1>5. OutputInv /\ ImageInv
  BY <1>2, <1>3 DEF OutputInv, ImageInv, Undisturbed, HasLayer
<1> QED BY <1>1, <1>3, <1>4, <1>5 DEF LayerInv

LEMMA NextLayers == LayerInv /\ [LayerNext]_layerVars => LayerInv'
<1> SUFFICES ASSUME LayerInv, [LayerNext]_layerVars PROVE LayerInv'
  OBVIOUS
<1>1. CASE UNCHANGED layerVars
  <2>1. UNCHANGED <<layers, output, source, build, todo, current, own, mounted, record, result, packed, cacheRows, cacheFile, torn, image, buildFaults, shared>>
    BY <1>1 DEF layerVars, procVars, cacheVars
  <2> QED BY <2>1 DEF LayerInv, LayerType, ReadInv, Layer, FileInv, Filled, CachedIsWhole, OutputInv, Claims, ImageInv, Undisturbed, Files, HasLayer, HasDigest
<1>2. ASSUME NEW n \in Names(layers), NEW c \in Contents, EditSource(n, c) PROVE LayerInv'
  <2>1. n \in LayerNames
    BY DEF LayerInv, LayerType, LayerNames
  <2> QED BY <1>2, <2>1, EditKeeps
<1>3. ASSUME NEW b \in Builds, RunImageBuild(b) \/ KillBuild(b) PROVE LayerInv'
  BY <1>3, RunKeeps, EndKeeps
<1>4. ASSUME NEW b \in Builds, BuildStep(b) PROVE LayerInv'
  <2>1. CASE CreateAndMount(b)
    BY <2>1, CreateKeeps
  <2>2. CASE CommandFails(b)
    BY <2>2, CommandFailsKeeps
  <2>3. CASE CacheGet(b)
    BY <2>3, CacheGetKeeps
  <2>4. CASE FetchRateLimited(b)
    BY <2>4, RateLimitKeeps
  <2>5. CASE Fetch(b) \/ CalculateDigest(b)
    BY <2>5, FetchKeeps
  <2>6. CASE CreateTarball(b) \/ FillTarball(b)
    BY <2>6, PackKeeps
  <2>7. CASE PutOpens(b) \/ PutCopies(b) \/ PutStores(b)
    BY <2>7, PutKeeps
  <2>8. CASE PutFails(b)
    BY <2>8, PutFailsKeeps
  <2>9. CASE ExtractLayer(b)
    BY <2>9, ExtractKeeps
  <2>10. CASE CopyLayer(b)
    BY <2>10, CopyKeeps
  <2>11. CASE FinishImage(b)
    BY <2>11, FinishKeeps
  <2>12. CASE Unmount(b) \/ RemoveWorkDir(b)
    BY <2>12, EndKeeps
  <2> QED BY <1>4, <2>1, <2>2, <2>3, <2>4, <2>5, <2>6, <2>7, <2>8, <2>9, <2>10, <2>11, <2>12 DEF BuildStep
<1> QED BY <1>1, <1>2, <1>3, <1>4 DEF LayerNext

LEMMA LayersInvariant == LayerSpec => []LayerInv
<1>1. LayerInit => LayerInv
  BY InitLayers
<1>2. LayerInv /\ [LayerNext]_layerVars => LayerInv'
  BY NextLayers
<1> QED BY <1>1, <1>2, PTL DEF LayerSpec

(***************************************************************************)
(* For any number of builds, manifests and layers: a digest that has a row *)
(* in the layer cache has its own whole tarball there, although Put        *)
(* truncates the file in place and the mutex is per process, unless a      *)
(* build is writing it, a Put was cut short, or a local tarball was        *)
(* repacked between its sum and its copy.                                  *)
(***************************************************************************)
THEOREM CachedLayersAreWhole == LayerSpec => []CachedIsWhole
<1>1. LayerInv => CachedIsWhole
  BY DEF LayerInv
<1> QED BY <1>1, LayersInvariant, PTL

(***************************************************************************)
(* For any number of builds that share the cache, the tarballs and the     *)
(* outputs: a build that succeeds without a disturbance has written        *)
(* exactly the layers that its build manifest names, with their digests    *)
(* and in their order.                                                     *)
(***************************************************************************)
THEOREM ManifestsAreTrue == LayerSpec => []ManifestIsTrue
<1>1. LayerInv => ManifestIsTrue
  BY DEF LayerInv, ImageInv, Undisturbed, Claims, ManifestIsTrue
<1> QED BY <1>1, LayersInvariant, PTL

(***************************************************************************)
(* For any manifest of any length whose active layers have different       *)
(* names: Kahn's algorithm returns exactly the active layers, each after   *)
(* all that it needs, and refuses exactly the manifests that have no such  *)
(* order, or a dependency that is missing or the layer itself.             *)
(***************************************************************************)
THEOREM LayersAreInOrder == LayerSpec => []ResolvedInOrder
<1>1. LayerInv => ResolvedInOrder
  <2> SUFFICES ASSUME LayerInv PROVE ResolvedInOrder
    OBVIOUS
  <2> DEFINE a == EvaluateConditions(layers, Environment)
  <2>1. Listed(a)
    BY ManifestIsListed DEF LayerInv, LayerType
  <2> HIDE DEF a
  <2>2. UniqueNames(a) => InOrder(a)
    BY <2>1, ResolvesInOrder
  <2> QED BY <2>2 DEF ResolvedInOrder, InOrder, a
<1> QED BY <1>1, LayersInvariant, PTL
=============================================================================
