------------------------------ MODULE MCStorage ------------------------------
(***************************************************************************)
(* What the daemon and the build tool store, side by side: images with     *)
(* their pull jobs, snapshots of VMs, and image builds with the cache of   *)
(* layers; and the order of the layers for every small manifest.  They     *)
(* share no state, so a behaviour runs one of them and leaves the others   *)
(* as they start; one that puts a manifest in order has no steps.          *)
(***************************************************************************)
EXTENDS Images, Snapshots, LayerBuild

VARIABLE
  part       \* the part that runs

vars == <<part, imageVars, snapshotVars, layerVars>>

-----------------------------------------------------------------------------
(* Values of the constants                                                 *)

L(n, d, s, p) ==
  [name |-> n, deps |-> d, source |-> s, pin |-> p,
   required |-> TRUE, var |-> Absent, default |-> FALSE]

\* A layer whose condition the environment switches off.
Optional(n) == [L(n, <<>>, "local", Absent) EXCEPT !.required = FALSE, !.var = "V", !.default = TRUE]

\* A layer that needs another one; a layer that is left out; a source without a fetcher;
\* a cycle; nothing to do.
MCManifests ==
  { << L("app", <<"base">>, "registry", "c1"), L("base", <<>>, "local", Absent) >>,
    << L("base", <<>>, "docker", Absent), Optional("app") >>,
    << L("base", <<>>, "url", "c1") >>,
    << L("base", <<"app">>, "local", Absent), L("app", <<"base">>, "local", Absent) >>,
    << Optional("app") >> }

MCEnvironment == [v \in {"V"} |-> FALSE]

\* Up to three layers, each with up to two mentions of a dependency; up to renaming.
MCNames == {<<"app">>, <<"app", "base">>, <<"app", "base", "db">>}

MCDeps == UNION {[1..n -> {"app", "base", "db"}] : n \in 0..2}

MCInputs ==
  UNION {{[i \in DOMAIN n |-> L(n[i], d[i], "local", Absent)] : d \in [DOMAIN n -> MCDeps]} : n \in MCNames}

MCAllManifests == MCManifests \union MCInputs \union {<<>>}

\* Two layers of one name are queued twice, and each meets one dependency of the third.
MCRepeated ==
  { << L("base", <<>>, "local", Absent), L("base", <<>>, "local", Absent),
       L("app", <<"base", "db">>, "local", Absent), L("db", <<"app">>, "local", Absent) >> }

MCSources ==
  {[n \in {"app", "base", "db"} |-> IF n = "app" THEN "c1" ELSE "c2"],
   [n \in {"app", "base", "db"} |-> IF n = "app" THEN "c1" ELSE "p1"]}

-----------------------------------------------------------------------------
(* The sum                                                                 *)

\* Of a part that does not run, one initial state is enough.
Init ==
  /\ part \in {"images", "snapshots", "builds", "order"}
  /\ layers \in CASE part = "builds" -> Manifests \ (MCInputs \union {<<>>})
                  [] part = "order" -> MCInputs
                  [] OTHER -> {<<>>}
  /\ ImagesInit /\ SnapshotsInit /\ LayerInit
  /\ part # "images" => ~provider /\ latest = CHOOSE d \in Digests : TRUE
  /\ part # "builds" => (\A b \in Builds : output[b] = 1) /\ source["base"] = "c2"

\* Requests are alike: they begin in the order of their numbers.
InOrder == \A r, q \in Requests : q < r /\ req'[r].at # "idle" => req'[q].at # "idle"

Next ==
  \/ part = "images" /\ ImagesNext /\ UNCHANGED <<part, snapshotVars, layerVars>>
  \/ part = "snapshots" /\ SnapshotsNext /\ InOrder /\ UNCHANGED <<part, imageVars, layerVars>>
  \/ part = "builds" /\ LayerNext /\ UNCHANGED <<part, imageVars, snapshotVars>>

Spec == Init /\ [][Next]_vars /\ ImagesFairness /\ SnapshotsFairness /\ LayerFairness

-----------------------------------------------------------------------------
(***************************************************************************)
(* Work in the background ends: pull jobs, uploads to the object tier and  *)
(* builds.                                                                 *)
(***************************************************************************)
BackgroundWorkEnds == PullJobEnds /\ TieringEnds /\ BuildEnds
=============================================================================
