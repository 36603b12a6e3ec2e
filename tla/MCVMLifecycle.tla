---------------------------- MODULE MCVMLifecycle ----------------------------
(***************************************************************************)
(* Instances of VMLifecycle for TLC, and the claims that the repository's  *)
(* documents and comments make about a VM's life and that the code does    *)
(* not keep; each claim has a run of its own that shows a counterexample.  *)
(***************************************************************************)
EXTENDS VMLifecycle, TLC

Symmetry == Permutations(Handlers)

\* Bound: a behaviour has all the processes, or failing writes and restarts with fewer.
AllProcessesOrFaults == FreshPids # {} \/ NoFaultYet

-----------------------------------------------------------------------------
\* resumeVMFromSnapshot: created, stopped and failed are "states that guarantee
\* no live runtime" (vm_handlers.go:1579), so a restore never starts a second
\* process next to a live one.
RestoreFindsNoRuntime ==
    \A r \in Handlers : pc[r] = "loading" =>
        \A p \in Pids : Live(p) => p = my[r].new

\* The lock "Prevents race conditions (e.g., start and delete simultaneously)"
\* (ARCHITECTURE_DECISIONS.md:218): no process outlives its deleted VM.
DeleteLeavesNoRuntime ==
    row.state = "absent" => \A p \in Pids : ~Live(p)

\* "When Firecracker process exits unexpectedly: ... Update VM state to failed"
\* (API_CONTRACT.md:840): once the exit handler of the recorded process is
\* through, the VM is not recorded as running.
CrashIsRecorded ==
    \A p \in Pids : waiter[p] = "done" /\ row.pid = p => row.state # "running"

==============================================================================
