----------------------------- MODULE LayerBuild -----------------------------
(***************************************************************************)
(* nanofuse image build: builds that run at the same time, each a process  *)
(* of its own (cmd/nanofuse/image_build.go, internal/layerbuild).  They    *)
(* share the layer cache under /tmp (rows in a database, one file per      *)
(* digest; its mutex is per process), the tarballs that the local fetcher  *)
(* packs next to the manifest, and the output directory.                   *)
(*                                                                         *)
(* A tarball is its content, and the digest of a content is the content.   *)
(* Evict and CheckAndEvict are never called, so the time of the last use   *)
(* (Touch) has no effect and is left out.                                  *)
(***************************************************************************)
EXTENDS Naturals, Sequences, LayerOrder

CONSTANTS
  Builds,         \* build processes
  Contents,       \* whole tarballs
  Plain,          \* those of them that are not compressed (docker export)
  Torn,           \* a tarball that is being written or was cut short
  Manifests,      \* the layers of a manifest, in the order of the file
  Sources,        \* what the sources of the layers may hold at first
  Environment,    \* the variables of the process environment
  MaxRetries,     \* RegistryFetcher.maxRetries
  MaxDisturbances \* bound: failing disk or database operations, failing umount, kills, edits

VARIABLES
  layers,       \* the manifest that the builds use
  output,       \* per build: the output file it writes, 1 or 2
  source,       \* per layer name: what its source holds now
  edited,       \* history: a source was changed
  build,        \* per build: where it is
  todo,         \* per build: layers still to apply, in order
  current,      \* per build: the CachedLayer in use: digest and where its file is
  tries,        \* per build: attempts at the registry
  own,          \* per build: the tarball in its work directory
  packed,       \* per layer name: the tarball the local fetcher wrote
  cacheRows,    \* the digests in the table of the cache
  cacheFile,    \* per digest: the file in the cache directory
  mounted,      \* per build: the image is mounted in its work directory
  image,       \* per output file: the layers copied to it, in order
  record,       \* per build: the build manifest
  result,       \* per build: "none", "ok" or "failed"
  buildFaults,
  torn,         \* history: digests whose Put was cut short or took a repacked file
  shared        \* history: outputs that a second build started to write

cacheVars == <<cacheRows, cacheFile, torn>>
procVars == <<build, todo, current, tries, own, mounted, record, result>>
layerVars == <<layers, output, source, edited, procVars, packed, cacheVars, image, buildFaults, shared>>

Nothing == [digest |-> Absent, at |-> "nowhere"]
LayerNames == UNION {Names(m) : m \in Manifests}

ASSUME ContentsAssumption ==
  /\ Torn \notin Contents /\ Absent \notin Contents \union {Torn}
  /\ Sources \subseteq [LayerNames -> Contents]

\* A manifest is a list of layers, and a layer has a list of dependencies.
ASSUME ManifestAssumption ==
  \A m \in Manifests :
    /\ m \in Seq({m[i] : i \in DOMAIN m})
    /\ \A i \in DOMAIN m : m[i].deps \in Seq({m[i].deps[k] : k \in DOMAIN m[i].deps})

GoB(b, s) == build' = [build EXCEPT ![b] = s]
MoreDisturbance == buildFaults + (IF edited THEN 1 ELSE 0) < MaxDisturbances
BuildFault == MoreDisturbance /\ buildFaults' = buildFaults + 1

LayerInit ==
  /\ layers \in Manifests /\ output \in [Builds -> {1, 2}]
  /\ output[CHOOSE b \in Builds : TRUE] = 1   \* the files are alike
  /\ source \in Sources /\ edited = FALSE
  /\ \A i \in DOMAIN layers : layers[i].source = "docker" <=> source[layers[i].name] \in Plain
  /\ build = [b \in Builds |-> "idle"] /\ todo = [b \in Builds |-> <<>>]
  /\ current = [b \in Builds |-> Nothing] /\ tries = [b \in Builds |-> 0]
  /\ own = [b \in Builds |-> Absent] /\ packed = [n \in LayerNames |-> Absent]
  /\ cacheRows = {} /\ cacheFile = [c \in Contents \union {Torn} |-> Absent]
  /\ mounted = [b \in Builds |-> FALSE] /\ image = [o \in {1, 2} |-> <<>>]
  /\ record = [b \in Builds |-> <<>>] /\ result = [b \in Builds |-> "none"]
  /\ buildFaults = 0 /\ torn = {} /\ shared = {}

-----------------------------------------------------------------------------
(* runImageBuild and Compose, up to the first layer                        *)

\* The manifest is read, validated and put in order; an error ends the build.
RunImageBuild(b) ==
  LET order == ResolveDependencies(EvaluateConditions(layers, Environment)) IN
  /\ build[b] = "idle"
  /\ IF ValidateManifest(layers) /\ order.ok /\ order.layers # <<>>
     THEN todo' = [todo EXCEPT ![b] = order.layers] /\ GoB(b, "create") /\ UNCHANGED result
     ELSE GoB(b, "over") /\ result' = [result EXCEPT ![b] = "failed"] /\ UNCHANGED todo
  /\ UNCHANGED <<layers, output, source, edited, current, tries, own, packed, cacheVars, mounted, image, record, buildFaults, shared>>

\* Another build is at work on the same image file.
Clash(b) ==
  \E c \in Builds \ {b} : output[c] = output[b] /\ build[c] \notin {"idle", "create", "over", "dead"}

\* createExt4Filesystem and mountFilesystem: dd and mkfs.ext4 empty the output, mount.
CreateAndMount(b) ==
  /\ build[b] = "create"
  /\ image' = [image EXCEPT ![output[b]] = <<>>]
  /\ shared' = IF Clash(b) \/ \E c \in Builds \ {b} : output[c] = output[b] /\ result[c] = "ok"
               THEN shared \union {output[b]} ELSE shared
  /\ mounted' = [mounted EXCEPT ![b] = TRUE] /\ GoB(b, "get")
  /\ UNCHANGED <<layers, output, source, edited, todo, current, tries, own, packed, cacheVars, record, result, buildFaults>>

\* Where an error leads: once mounted, the deferred cleanup runs.
Abort(b) == IF mounted[b] THEN "umount" ELSE "clean"

\* A command or a hook fails, times out, or the context was cancelled.
CommandFails(b) ==
  /\ build[b] \in {"create", "get", "fetch", "pack", "write", "sum", "extract", "copy", "finish"}
  /\ GoB(b, Abort(b)) /\ result' = [result EXCEPT ![b] = "failed"]
  /\ UNCHANGED <<layers, output, source, edited, todo, current, tries, own, packed, cacheVars, mounted, image, record, buildFaults, shared>>

-----------------------------------------------------------------------------
(* applyLayer: from the cache or from a fetcher                            *)

Layer(b) == Head(todo[b])

\* The key is the pinned digest; without one the name, which no row has.
CacheKey(l) == IF l.pin = Absent THEN l.name ELSE l.pin

CacheGet(b) ==
  /\ build[b] = "get"
  /\ tries' = [tries EXCEPT ![b] = 0]
  /\ IF CacheKey(Layer(b)) \in cacheRows
     THEN /\ current' = [current EXCEPT ![b] = [digest |-> CacheKey(Layer(b)), at |-> "cache"]]
          /\ GoB(b, "extract") /\ UNCHANGED result
     ELSE /\ GoB(b, CASE Layer(b).source = "local" -> "pack"
                      [] Layer(b).source = "url" -> Abort(b)
                      [] OTHER -> "fetch")
          /\ result' = IF Layer(b).source = "url" THEN [result EXCEPT ![b] = "failed"] ELSE result
          /\ UNCHANGED current
  /\ UNCHANGED <<layers, output, source, edited, todo, own, packed, cacheVars, mounted, image, record, buildFaults, shared>>

\* Mutant: attempts that hit the rate limit are not counted.
FetchRateLimitedForEver(b) ==
  /\ build[b] = "fetch" /\ Layer(b).source = "registry"
  /\ tries' = [tries EXCEPT ![b] = IF @ = MaxRetries THEN 0 ELSE @ + 1]
  /\ UNCHANGED <<layers, output, source, edited, build, todo, current, own, packed, cacheVars, mounted, image, record, result, buildFaults, shared>>

\* fetchWithRetry: the registry answers "too many requests"; after the last retry it is an error.
FetchRateLimited(b) ==
  /\ build[b] = "fetch" /\ Layer(b).source = "registry"
  /\ IF tries[b] < MaxRetries
     THEN tries' = [tries EXCEPT ![b] = @ + 1] /\ UNCHANGED <<build, result>>
     ELSE GoB(b, Abort(b)) /\ result' = [result EXCEPT ![b] = "failed"] /\ UNCHANGED tries
  /\ UNCHANGED <<layers, output, source, edited, todo, current, own, packed, cacheVars, mounted, image, record, buildFaults, shared>>

\* DockerFetcher and RegistryFetcher write a tarball of their own and sum it; nothing
\* compares the sum with the pinned digest.
Fetch(b) ==
  /\ build[b] = "fetch"
  /\ own' = [own EXCEPT ![b] = source[Layer(b).name]]
  /\ current' = [current EXCEPT ![b] = [digest |-> source[Layer(b).name], at |-> "own"]]
  /\ GoB(b, "open")
  /\ UNCHANGED <<layers, output, source, edited, todo, tries, packed, cacheVars, mounted, image, record, result, buildFaults, shared>>

\* Another build has read the sum of this tarball and still has to read the tarball.
Relied(b) == {c \in Builds \ {b} : /\ build[c] \in {"open", "fill", "row", "extract"}
                                   /\ current[c].at = "packed" /\ Layer(c).name = Layer(b).name}

Taint(b) == torn \union {current[c].digest : c \in Relied(b)}

\* LocalFetcher.createTarball truncates the file of the layer's name and version ...
CreateTarball(b) ==
  /\ build[b] = "pack"
  /\ packed' = [packed EXCEPT ![Layer(b).name] = Torn]
  /\ torn' = Taint(b) /\ GoB(b, "write")
  /\ UNCHANGED <<layers, output, source, edited, todo, current, tries, own, cacheRows, cacheFile, mounted, image, record, result, buildFaults, shared>>

\* ... fills it ...
FillTarball(b) ==
  /\ build[b] = "write"
  /\ packed' = [packed EXCEPT ![Layer(b).name] = source[Layer(b).name]]
  /\ torn' = Taint(b) /\ GoB(b, "sum")
  /\ UNCHANGED <<layers, output, source, edited, todo, current, tries, own, cacheRows, cacheFile, mounted, image, record, result, buildFaults, shared>>

\* ... and calculateDigest reads it again, as it is then.
CalculateDigest(b) ==
  /\ build[b] = "sum"
  /\ current' = [current EXCEPT ![b] = [digest |-> packed[Layer(b).name], at |-> "packed"]]
  /\ GoB(b, "open")
  /\ UNCHANGED <<layers, output, source, edited, todo, tries, own, packed, cacheVars, mounted, image, record, result, buildFaults, shared>>

\* The file that the CachedLayer names; Put does not point it at the cache.
LocalPath(b) ==
  CASE current[b].at = "cache" -> cacheFile[current[b].digest]
    [] current[b].at = "own" -> own[b]
    [] OTHER -> packed[Layer(b).name]

\* layerCache.Put: os.Create truncates the file of this digest, also if it has a row ...
PutOpens(b) ==
  /\ build[b] = "open"
  /\ cacheFile' = [cacheFile EXCEPT ![current[b].digest] = Torn]
  /\ GoB(b, "fill")
  /\ UNCHANGED <<layers, output, source, edited, todo, current, tries, own, packed, cacheRows, torn, mounted, image, record, result, buildFaults, shared>>

\* Mutant: the row is written before the file is filled.
PutCopiesLate(b) ==
  /\ build[b] = "fill"
  /\ cacheRows' = cacheRows \union {current[b].digest}
  /\ GoB(b, "row")
  /\ UNCHANGED <<layers, output, source, edited, todo, current, tries, own, packed, cacheFile, torn, mounted, image, record, result, buildFaults, shared>>

\* ... it is filled ...
PutCopies(b) ==
  /\ build[b] = "fill"
  /\ cacheFile' = [cacheFile EXCEPT ![current[b].digest] = LocalPath(b)]
  /\ GoB(b, "row")
  /\ UNCHANGED <<layers, output, source, edited, todo, current, tries, own, packed, cacheRows, torn, mounted, image, record, result, buildFaults, shared>>

\* ... and the row is inserted or replaced.
PutStores(b) ==
  /\ build[b] = "row"
  /\ cacheRows' = cacheRows \union {current[b].digest}
  /\ GoB(b, "extract")
  /\ UNCHANGED <<layers, output, source, edited, todo, current, tries, own, packed, cacheFile, torn, mounted, image, record, result, buildFaults, shared>>

\* The copy or the database fails: the file is removed, a row that was there stays.
PutFails(b) ==
  /\ build[b] \in {"open", "fill", "row"} /\ BuildFault
  /\ cacheFile' = IF build[b] = "open" THEN cacheFile ELSE [cacheFile EXCEPT ![current[b].digest] = Absent]
  /\ torn' = torn \union {current[b].digest}
  /\ GoB(b, Abort(b)) /\ result' = [result EXCEPT ![b] = "failed"]
  /\ UNCHANGED <<layers, output, source, edited, todo, current, tries, own, packed, cacheRows, mounted, image, record, shared>>

-----------------------------------------------------------------------------
(* applyLayer: into the image, and the end of Compose                      *)

\* tar -xzf reads a whole, compressed tarball only; the "pre-install" hook follows.
ExtractLayer(b) ==
  /\ build[b] = "extract"
  /\ IF LocalPath(b) \in Contents \ Plain
     THEN /\ own' = [own EXCEPT ![b] = LocalPath(b)] /\ GoB(b, "copy") /\ UNCHANGED result
     ELSE /\ GoB(b, Abort(b)) /\ result' = [result EXCEPT ![b] = "failed"] /\ UNCHANGED own
  /\ UNCHANGED <<layers, output, source, edited, todo, current, tries, packed, cacheVars, mounted, image, record, buildFaults, shared>>

\* Mutant: the layer is recorded without its files.
CopyLayerForgotten(b) ==
  /\ build[b] = "copy"
  /\ image' = IF current[b].at = "cache" THEN image ELSE [image EXCEPT ![output[b]] = Append(@, <<Layer(b).name, own[b]>>)]
  /\ record' = [record EXCEPT ![b] = Append(@, <<Layer(b).name, current[b].digest>>)]
  /\ todo' = [todo EXCEPT ![b] = Tail(@)]
  /\ GoB(b, IF Len(todo[b]) = 1 THEN "finish" ELSE "get")
  /\ UNCHANGED <<layers, output, source, edited, current, tries, own, packed, cacheVars, mounted, result, buildFaults, shared>>

\* cp -a, permissions, "post-install" hook, and the layer joins the build manifest.
CopyLayer(b) ==
  /\ build[b] = "copy"
  /\ image' = [image EXCEPT ![output[b]] = Append(@, <<Layer(b).name, own[b]>>)]
  /\ record' = [record EXCEPT ![b] = Append(@, <<Layer(b).name, current[b].digest>>)]
  /\ todo' = [todo EXCEPT ![b] = Tail(@)]
  /\ GoB(b, IF Len(todo[b]) = 1 THEN "finish" ELSE "get")
  /\ UNCHANGED <<layers, output, source, edited, current, tries, own, packed, cacheVars, mounted, result, buildFaults, shared>>

\* Both manifests are written and the kernel is copied.
FinishImage(b) ==
  /\ build[b] = "finish"
  /\ result' = [result EXCEPT ![b] = "ok"] /\ GoB(b, "umount")
  /\ UNCHANGED <<layers, output, source, edited, todo, current, tries, own, packed, cacheVars, mounted, image, record, buildFaults, shared>>

\* The deferred unmount; a failure is only a warning.
Unmount(b) ==
  /\ build[b] = "umount" /\ GoB(b, "clean")
  /\ \/ mounted' = [mounted EXCEPT ![b] = FALSE] /\ UNCHANGED buildFaults
     \/ BuildFault /\ UNCHANGED mounted
  /\ UNCHANGED <<layers, output, source, edited, todo, current, tries, own, packed, cacheVars, image, record, result, shared>>

\* The work directory is removed, and through its mount point whatever is mounted there.
RemoveWorkDir(b) ==
  /\ build[b] = "clean" /\ GoB(b, "over")
  /\ image' = IF mounted[b] THEN [image EXCEPT ![output[b]] = <<>>] ELSE image
  /\ own' = [own EXCEPT ![b] = Absent]
  /\ UNCHANGED <<layers, output, source, edited, todo, current, tries, packed, cacheVars, mounted, record, result, buildFaults, shared>>

\* The process is killed; what it had mounted stays mounted.
KillBuild(b) ==
  /\ build[b] \notin {"idle", "over", "dead"} /\ BuildFault
  /\ GoB(b, "dead")
  /\ torn' = IF build[b] \in {"fill", "row"} THEN torn \union {current[b].digest} ELSE torn
  /\ UNCHANGED <<layers, output, source, edited, todo, current, tries, own, packed, cacheRows, cacheFile, mounted, image, record, result, shared>>

\* Somebody changes the source of a layer.
EditSource(n, c) ==
  /\ MoreDisturbance /\ ~edited /\ edited' = TRUE
  /\ c # source[n] /\ (c \in Plain <=> source[n] \in Plain)
  /\ source' = [source EXCEPT ![n] = c]
  /\ UNCHANGED <<layers, output, procVars, packed, cacheVars, image, buildFaults, shared>>

BuildStep(b) ==
  \/ CreateAndMount(b) \/ CommandFails(b)
  \/ CacheGet(b) \/ FetchRateLimited(b) \/ Fetch(b) \/ CreateTarball(b) \/ FillTarball(b) \/ CalculateDigest(b)
  \/ PutOpens(b) \/ PutCopies(b) \/ PutStores(b) \/ PutFails(b)
  \/ ExtractLayer(b) \/ CopyLayer(b)
  \/ FinishImage(b) \/ Unmount(b) \/ RemoveWorkDir(b)

LayerNext ==
  \/ \E b \in Builds : RunImageBuild(b) \/ BuildStep(b) \/ KillBuild(b)
  \/ \E n \in Names(layers), c \in Contents : EditSource(n, c)

\* A build that runs goes on.
LayerFairness == \A b \in Builds : WF_layerVars(BuildStep(b))

-----------------------------------------------------------------------------
(***************************************************************************)
(* A digest with a row in the cache has its own tarball, whole, except     *)
(* while a build writes it again or after a Put was cut short or took a    *)
(* tarball that another build had repacked.                                *)
(***************************************************************************)
CachedIsWhole ==
  \A d \in cacheRows \ torn :
    cacheFile[d] = d \/ \E b \in Builds : build[b] = "fill" /\ current[b].digest = d

(***************************************************************************)
(* The image of a build that succeeds holds exactly the layers of its      *)
(* build manifest, with the recorded digests and in the recorded order,    *)
(* when no other build used the output, no tarball was repacked under it   *)
(* and nothing failed: the last unmount included.                          *)
(***************************************************************************)
ManifestIsTrue ==
  \A b \in Builds :
    result[b] = "ok" /\ output[b] \notin shared /\ buildFaults = 0
      /\ (\A i \in DOMAIN record[b] : record[b][i][2] \notin torn)
    => image[output[b]] = record[b]

(***************************************************************************)
(* ResolveDependencies, for a manifest whose active layers have different  *)
(* names: the layers that it returns are the active ones, each after all   *)
(* that it needs; and it refuses exactly the manifests that have no such   *)
(* order, or a dependency that is missing or the layer itself.             *)
(***************************************************************************)
ResolvedInOrder ==
  LET ls == EvaluateConditions(layers, Environment)
      r  == ResolveDependencies(ls)
  IN  UniqueNames(ls) =>
        /\ r.ok => DependenciesFirst(r.layers) /\ ToSet(r.layers) = ToSet(ls)
        /\ r.ok <=> ~WrongDependency(ls) /\ Orderable(ls)

(***************************************************************************)
(* What ResolveDependencies says of itself: "Returns layers in dependency  *)
(* order (dependencies come before dependents)".  A build that has passed  *)
(* it applies every layer after all that it needs.                         *)
(***************************************************************************)
DependenciesComeFirst ==
  \A b \in Builds : build[b] = "create" => DependenciesFirst(todo[b])

(***************************************************************************)
(* A build that starts ends, with its image unmounted and its work         *)
(* directory gone: the retries of a rate limited registry are bounded and  *)
(* every error after the mount passes the deferred cleanup.                *)
(***************************************************************************)
BuildEnds ==
  []<>((\A b \in Builds : build[b] = "idle" \/ (build[b] = "over" /\ ~mounted[b])) \/ buildFaults > 0)
=============================================================================
