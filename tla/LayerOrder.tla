----------------------------- MODULE LayerOrder -----------------------------
(***************************************************************************)
(* The image manifest of a layer build (internal/layerbuild/manifest.go):  *)
(* validation, conditions and the order in which layers are applied.       *)
(*                                                                         *)
(* A layer is a record: name, deps (names in the order of the file), the   *)
(* kind of its source, its pinned digest, required, and its condition: the *)
(* variable it names and the default.  A value of a variable is TRUE when  *)
(* isTruthy holds of it.  Absent stands for a field that is empty.         *)
(***************************************************************************)
EXTENDS Naturals, Sequences, FiniteSets, SequencesExt

CONSTANT Absent

Names(ls) == {ls[i].name : i \in DOMAIN ls}

\* validateLayer: a remote source needs a digest.
ValidLayer(l) ==
  /\ l.name # Absent
  /\ l.source \in {"docker", "registry", "local", "url"}
  /\ l.source \in {"registry", "url"} => l.pin # Absent

\* ValidateManifest: every layer is valid and there is one.
ValidateManifest(ls) == Len(ls) > 0 /\ \A i \in DOMAIN ls : ValidLayer(ls[i])

\* shouldIncludeLayer: required, or no condition, or a condition that is truthy.
ShouldIncludeLayer(l, env) ==
  \/ l.required
  \/ l.var = Absent
  \/ IF l.var \in DOMAIN env THEN env[l.var] ELSE l.default

EvaluateConditions(ls, env) ==
  FlattenSeq([i \in DOMAIN ls |-> IF ShouldIncludeLayer(ls[i], env) THEN <<ls[i]>> ELSE <<>>])

\* layerMap: of two layers with one name the later one counts.
LayerMap(ls) ==
  [n \in Names(ls) |-> ls[CHOOSE i \in DOMAIN ls :
     ls[i].name = n /\ \A k \in DOMAIN ls : ls[k].name = n => k <= i]]

\* Dependencies that are missing, or a layer that needs itself.
WrongDependency(ls) ==
  \E i \in DOMAIN ls : \E k \in DOMAIN ls[i].deps :
    ls[i].deps[k] = ls[i].name \/ ls[i].deps[k] \notin Names(ls)

\* Every mention of a dependency, in the order of the file: dep is in the entry of the layer name.
Mentions(ls) ==
  FlattenSeq([i \in DOMAIN ls |->
    [k \in DOMAIN ls[i].deps |-> [dep |-> ls[i].deps[k], name |-> ls[i].name]]])

InDegree(ls) ==
  LET mentions == Mentions(ls) IN
  [n \in Names(ls) |-> Cardinality({e \in DOMAIN mentions : mentions[e].name = n})]

\* Mutant: a layer is queued as soon as the first of its dependencies is met.
MeetFirstDependency(s, n) ==
  [queue |-> IF s.deg[n] > 0 THEN Append(s.queue, n) ELSE s.queue, deg |-> [s.deg EXCEPT ![n] = 0], sorted |-> s.sorted]

\* One mention of a dependency is met; at zero the layer is queued.
MeetDependency(s, n) ==
  LET deg == [s.deg EXCEPT ![n] = @ - 1] IN
  [queue |-> IF deg[n] = 0 THEN Append(s.queue, n) ELSE s.queue, deg |-> deg, sorted |-> s.sorted]

\* What is left to do: the queue, the mentions to be met per layer, and the layers sorted so far.
\* At first the layers without dependencies are queued.
Start(ls) ==
  LET deg == InDegree(ls) IN
  [queue |-> FlattenSeq([i \in DOMAIN ls |-> IF deg[ls[i].name] = 0 THEN <<ls[i].name>> ELSE <<>>]),
   deg |-> deg, sorted |-> <<>>]

\* The loop over dependents[n], one entry for every mention of n.
MeetDependents(ls, s, n) ==
  LET mentions == Mentions(ls)
      met[e \in 0..Len(mentions)] ==
        IF e = 0 THEN s
        ELSE IF mentions[e].dep = n THEN MeetDependency(met[e - 1], mentions[e].name) ELSE met[e - 1]
  IN  met[Len(mentions)]

\* One round of the loop: the first name leaves the queue and its layer is sorted in.
PopLayer(ls, s) ==
  IF s.queue = <<>> THEN s
  ELSE LET n == Head(s.queue) IN
       MeetDependents(ls, [queue |-> Tail(s.queue), deg |-> s.deg, sorted |-> Append(s.sorted, LayerMap(ls)[n])], n)

\* The loop: a round that finds the queue empty changes nothing.  No more names are ever queued
\* than there are layers: one for every layer without dependencies, and one for a name that had some.
Sorted(ls) ==
  LET rounds[n \in 0..Len(ls)] == IF n = 0 THEN Start(ls) ELSE PopLayer(ls, rounds[n - 1])
  IN  rounds[Len(ls)].sorted

\* ResolveDependencies: Kahn's algorithm; ok is false for any of its errors.
ResolveDependencies(ls) ==
  LET sorted == Sorted(ls) IN
  IF WrongDependency(ls) \/ Len(sorted) # Len(ls) THEN [ok |-> FALSE, layers |-> <<>>]
  ELSE [ok |-> TRUE, layers |-> sorted]

-----------------------------------------------------------------------------
(* Reference definitions                                                   *)

\* Every layer comes after all that it needs.
DependenciesFirst(ls) ==
  \A i \in DOMAIN ls : \A k \in DOMAIN ls[i].deps :
    \E j \in 1..i-1 : ls[j].name = ls[i].deps[k]

\* There is an order at all: some arrangement has every layer after what it needs.
Orderable(ls) == \E s \in SetToSeqs({ls[i] : i \in DOMAIN ls}) : DependenciesFirst(s)

UniqueNames(ls) == \A i, j \in DOMAIN ls : ls[i].name = ls[j].name => i = j
=============================================================================
