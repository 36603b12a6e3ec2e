---------------------------- MODULE MCVMResources ----------------------------
(***************************************************************************)
(* Instances of VMResources for TLC, and the claims of the repository about *)
(* the resources of VMs that the code does not keep, each with a run.       *)
(***************************************************************************)
EXTENDS VMResources, TLC

Symmetry == Permutations(VMs) \union Permutations(Names)

\* One misfortune in a behaviour, a failing write or a restart, is enough for every
\* property; two of them only multiply the states.
OneMisfortune == faults' + restarts' <= 1

BoundedSpec == Init /\ [][Next /\ OneMisfortune]_vars

-----------------------------------------------------------------------------
\* "Assign unique IP addresses to each VM ... Free IP on VM delete"
\* (NETWORKING-PLAN.md:97, :110): two VMs, neither being deleted, never have the
\* same address.  The exit handler frees the address of a VM that goes on.
UniqueAddresses ==
    \A v, w \in Present :
        v # w /\ {busy[v], busy[w]} \cap {"clean", "row"} = {} /\ Networked(v)
          => config[v].ip # config[w].ip

\* handleDeleteVM: "Cleanup SPIRE workload entry if registered"
\* (vm_handlers.go:993): a deleted VM has no entry any more.
EntryEndsWithVM ==
    \A vm \in VMs : job[vm] = "done" /\ vm \notin Present => vm \notin entry
==============================================================================
