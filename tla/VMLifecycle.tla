----------------------------- MODULE VMLifecycle -----------------------------
(***************************************************************************)
(* The life of one VM in the daemon: the HTTP handlers that start, stop,   *)
(* kill, pause, resume, restore and delete it (internal/api/vm_handlers.go),*)
(* the Firecracker manager they call (internal/firecracker/vm.go), the     *)
(* goroutine that waits for each Firecracker process, and the row of the   *)
(* vms table with its lock columns (internal/storage/db.go).               *)
(*                                                                         *)
(* Every request runs in a goroutine of its own.  A handler reads the row, *)
(* decides on that copy, takes the row lock, and then works on the copy it *)
(* read before: one action per database or runtime call, because anything  *)
(* may run in between.  A request that returns without changing anything   *)
(* (404, 409, the idempotent 200s) is not a step.  The host network and the *)
(* other resources of the VM, which no decision here reads, are the subject *)
(* of module VMResources.                                                  *)
(***************************************************************************)
EXTENDS Naturals, FiniteSets

CONSTANTS
  Handlers,     \* goroutines that serve requests for this VM
  None,         \* "no handler": locked_by IS NULL
  MaxPid,       \* bound: Firecracker processes ever started
  MaxFaults,    \* bound: database writes that fail
  MaxRestarts,  \* bound: crashes or restarts of the daemon
  SlowOps       \* may an operation outlast the lock timeout of 5 minutes?

ASSUME LifecycleAssumption == /\ None \notin Handlers
                              /\ MaxPid \in Nat
                              /\ MaxFaults \in Nat
                              /\ MaxRestarts \in Nat
                              /\ SlowOps \in BOOLEAN

Pids  == 1 .. MaxPid
NoPid == 0                     \* vm.Runtime is nil

Ops == {"start", "stop", "kill", "pause", "resume", "load", "delete"}

Transitional == {"starting", "stopping", "pausing", "resuming"}

Resting == {"created", "running", "paused", "stopped", "failed"}

VMStates == Transitional \union Resting

VARIABLES
  row,       \* the vms row: state and runtime PID; state "absent" = no row
  lock,      \* locked_by
  expired,   \* locked_at is more than 5 minutes ago
  proc,      \* Firecracker processes by PID
  sock,      \* the process whose API socket file lies in the VM's directory
  pc, op,    \* per handler: where it is, and in which operation
  my,        \* per handler: its in-memory copy of the VM
  waiter,    \* per process: its waitForProcessExit goroutine
  seen,      \* per process: the copy its exit handler read
  faults, restarts   \* how often the bounded faults have happened

vars == <<row, lock, expired, proc, sock, pc, op, my, waiter, seen,
          faults, restarts>>

dbVars     == <<row, lock, expired>>
rtVars     == <<proc, sock>>
waitVars   == <<waiter, seen>>
boundVars  == <<faults, restarts>>

Labels == {"idle", "lock", "resolve", "mark", "call", "forward", "await",
           "force", "loading", "persist", "undo", "restore", "markfailed",
           "signal", "killsave", "kill", "clean", "rowdel", "save", "unlock"}

\* A handler holds, or believes it holds, the row lock.
Critical == Labels \ {"idle", "lock", "signal", "killsave"}

InCS(r) == pc[r] \in Critical

Copy == [state : VMStates, pid : Pids \union {NoPid},
         prev : VMStates, new : Pids \union {NoPid}]

BlankCopy == [state |-> "created", pid |-> NoPid, prev |-> "created", new |-> NoPid]

Alive(p) == p # NoPid /\ proc[p] \in {"running", "paused", "doomed"}

\* Not even on its way out.
Live(p) == p # NoPid /\ proc[p] \in {"running", "paused"}

FreshPids == {p \in Pids : proc[p] = "none"}

Goto(r, label) == pc' = [pc EXCEPT ![r] = label]

\* The handler returns; its local state is gone.
Return(r) == /\ Goto(r, "idle")
             /\ op' = [op EXCEPT ![r] = "none"]
             /\ my' = [my EXCEPT ![r] = BlankCopy]

-----------------------------------------------------------------------------
(***************************************************************************)
(* The database (storage/db.go).  UpdateVM is an UPDATE ... WHERE id = ?:   *)
(* it writes state and runtime, leaves the lock columns alone, and touches *)
(* nothing once the row is gone.                                           *)
(***************************************************************************)

\* Mutation of Updated: an upsert, which brings a deleted row back.
UpdatedOrInserted(s, p) == [state |-> s, pid |-> p]

Updated(s, p) == IF row.state = "absent" THEN row ELSE [state |-> s, pid |-> p]

Fault == faults < MaxFaults /\ faults' = faults + 1

\* UpdateVM by handler r with state s and runtime p: continue at ok, or, when
\* the write fails, at bad.  The in-memory copy carries s and p either way.
Save(r, s, p, ok, bad) ==
    /\ my' = [my EXCEPT ![r].state = s, ![r].pid = p]
    /\ \/ row' = Updated(s, p) /\ Goto(r, ok) /\ UNCHANGED faults
       \/ Fault /\ Goto(r, bad) /\ UNCHANGED row
    /\ UNCHANGED <<lock, expired, proc, sock, op, waiter, seen, restarts>>

\* Mutation of LockFree: a lock held by somebody else is not respected.
LockIgnored == row.state # "absent"

\* The WHERE clause of AcquireLock.
LockFree == row.state # "absent" /\ (lock = None \/ expired)

(***************************************************************************)
(* The beginning of every handler: GetVM and the check of the state.        *)
(***************************************************************************)
AllowedFrom(o) ==
    CASE o = "start"  -> {"created", "stopped"}
      [] o = "stop"   -> {"running", "paused"}
      [] o = "pause"  -> {"running"}
      [] o = "resume" -> {"paused"}
      [] o = "load"   -> {"created", "stopped", "failed"}
      [] o \in {"kill", "delete"} -> VMStates

\* Mutation of GetVM: a handler goes on with a VM that was not found.
GetVMUnchecked(r, o) ==
    /\ pc[r] = "idle"
    /\ row.state \in AllowedFrom(o) \/ row.state = "absent"
    /\ op' = [op EXCEPT ![r] = o]
    /\ my' = [my EXCEPT ![r] = [BlankCopy EXCEPT !.state = row.state, !.pid = row.pid]]
    /\ Goto(r, IF o = "kill" THEN "signal" ELSE "lock")
    /\ UNCHANGED <<dbVars, rtVars, waitVars, boundVars>>

GetVM(r, o) ==
    /\ pc[r] = "idle"
    /\ row.state \in AllowedFrom(o)
    /\ op' = [op EXCEPT ![r] = o]
    /\ my' = [my EXCEPT ![r] = [BlankCopy EXCEPT !.state = row.state, !.pid = row.pid]]
    /\ Goto(r, IF o = "kill" THEN "signal" ELSE "lock")
    /\ UNCHANGED <<dbVars, rtVars, waitVars, boundVars>>

FirstStep(o) == CASE o = "delete" -> "kill"
                  [] o = "load"   -> "resolve"
                  [] OTHER        -> "mark"

AcquireLock(r) ==
    /\ pc[r] = "lock"
    /\ IF LockFree
         THEN /\ lock' = r /\ expired' = FALSE
              /\ Goto(r, FirstStep(op[r])) /\ UNCHANGED <<op, my>>
         ELSE UNCHANGED <<lock, expired>> /\ Return(r)            \* 409
    /\ UNCHANGED <<row, rtVars, waitVars, boundVars>>

\* The deferred ReleaseLock: clears the columns whoever holds the lock.
ReleaseLock(r) ==
    /\ pc[r] = "unlock"
    /\ \/ lock' = None /\ expired' = FALSE /\ UNCHANGED faults
       \/ Fault /\ UNCHANGED <<lock, expired>>
    /\ Return(r)
    /\ UNCHANGED <<row, rtVars, waitVars, restarts>>

TransitionalState(o) == CASE o = "start" -> "starting"
                          [] o = "stop"  -> "stopping"
                          [] o = "pause" -> "pausing"
                          [] OTHER       -> "resuming"

\* The first UpdateVM: only stop carries on when it fails.
MarkTransitional(r) ==
    /\ pc[r] = "mark"
    /\ Save(r, TransitionalState(op[r]), my[r].pid, "call",
            IF op[r] = "stop" THEN "call" ELSE "unlock")

\* Mutation of SaveResult: the final state of a pause is never written.
SaveResultExceptPause(r) ==
    /\ pc[r] = "save"
    /\ IF op[r] = "pause"
         THEN /\ Goto(r, "unlock")
              /\ UNCHANGED <<dbVars, rtVars, op, my, waitVars, boundVars>>
         ELSE Save(r, my[r].state, my[r].pid, "unlock", "unlock")

\* The last UpdateVM of start, stop, pause and in-place resume: a failed write
\* changes the response at most.
SaveResult(r) ==
    /\ pc[r] = "save"
    /\ Save(r, my[r].state, my[r].pid, "unlock", "unlock")

-----------------------------------------------------------------------------
(***************************************************************************)
(* Firecracker (external) as the manager drives it.  A process binds the   *)
(* API socket of its VM's directory when no socket file is in the way, and *)
(* answers API calls while it lives.  SIGKILL dooms a process; it is gone  *)
(* a little later.                                                         *)
(***************************************************************************)
Doomed(p) == IF Alive(p) THEN [proc EXCEPT ![p] = "doomed"] ELSE proc

\* The API answers: the handler's copy has a socket path, a process listens.
ApiUp(r) == my[r].pid # NoPid /\ sock # NoPid /\ Live(sock)

\* Record the outcome of a runtime call in the copy and go and save it.
Conclude(r, s, p) ==
    /\ my' = [my EXCEPT ![r].state = s, ![r].pid = p]
    /\ Goto(r, "save")

(***************************************************************************)
(* Start (performVMStart, startRuntimeAndSetupNetwork, Manager.Start).      *)
(***************************************************************************)
StartRuntime(r) ==
    /\ pc[r] = "call" /\ op[r] = "start"
    /\ \/ /\ Conclude(r, "failed", my[r].pid)      \* no image, or no process
          /\ UNCHANGED <<rtVars, waitVars>>
       \/ \E p \in FreshPids :
            /\ \A q \in FreshPids : p <= q
            /\ proc' = [proc EXCEPT ![p] = "running"]
            /\ sock' = IF sock = NoPid THEN p ELSE sock
            /\ waiter' = [waiter EXCEPT ![p] = "waiting"]
            /\ my' = [my EXCEPT ![r].pid = p]
            /\ Goto(r, "forward")
            /\ UNCHANGED seen
    /\ UNCHANGED <<dbVars, op, boundVars>>

SetupPortForwards(r) ==
    /\ pc[r] = "forward"
    /\ \/ /\ Conclude(r, "running", my[r].pid)
          /\ UNCHANGED proc
       \/ /\ proc' = Doomed(my[r].pid)             \* Kill, error ignored
          /\ Conclude(r, "failed", my[r].pid)
    /\ UNCHANGED <<dbVars, sock, op, waitVars, boundVars>>

(***************************************************************************)
(* Stop (performVMStop, stopVMAndCleanup, Manager.Stop): SIGTERM, poll,     *)
(* SIGKILL after the timeout, poll for 5 more seconds.                      *)
(***************************************************************************)
StopRuntime(r) ==
    /\ pc[r] = "call" /\ op[r] = "stop"
    /\ CASE my[r].pid = NoPid ->                    \* no runtime info
              Conclude(r, "failed", NoPid)
         [] my[r].pid # NoPid /\ ~Alive(my[r].pid) -> \* already finished
              Conclude(r, "stopped", NoPid)
         [] Alive(my[r].pid) ->
              Goto(r, "await") /\ UNCHANGED my
    /\ UNCHANGED <<dbVars, proc, sock, op, waitVars, boundVars>>

StopObservesExit(r) ==
    /\ pc[r] \in {"await", "force"}
    /\ ~Alive(my[r].pid)
    /\ Conclude(r, "stopped", NoPid)
    /\ UNCHANGED <<dbVars, proc, sock, op, waitVars, boundVars>>

StopTimesOut(r) ==
    /\ pc[r] = "await"
    /\ Alive(my[r].pid)
    /\ proc' = Doomed(my[r].pid)
    /\ Goto(r, "force")
    /\ UNCHANGED <<dbVars, sock, op, my, waitVars, boundVars>>

\* Mutation of StopGivesUp: no deadline after SIGKILL.
StopNeverGivesUp(r) == pc[r] = "force" /\ FALSE /\ UNCHANGED vars

StopGivesUp(r) ==
    /\ pc[r] = "force"
    /\ Alive(my[r].pid)
    /\ Conclude(r, "failed", my[r].pid)
    /\ UNCHANGED <<dbVars, rtVars, op, waitVars, boundVars>>

(***************************************************************************)
(* Pause and in-place resume: one PATCH on the API socket; when it fails   *)
(* the previous state is written back.                                     *)
(***************************************************************************)
PauseRuntime(r) ==
    /\ pc[r] = "call" /\ op[r] = "pause"
    /\ \/ /\ ApiUp(r)
          /\ proc' = [proc EXCEPT ![sock] = "paused"]
          /\ Conclude(r, "paused", my[r].pid)
       \/ Conclude(r, "running", my[r].pid) /\ UNCHANGED proc
    /\ UNCHANGED <<dbVars, sock, op, waitVars, boundVars>>

ResumeRuntime(r) ==
    /\ pc[r] = "call" /\ op[r] = "resume"
    /\ \/ /\ ApiUp(r)
          /\ proc' = [proc EXCEPT ![sock] = "running"]
          /\ Conclude(r, "running", my[r].pid)
       \/ Conclude(r, "paused", my[r].pid) /\ UNCHANGED proc
    /\ UNCHANGED <<dbVars, sock, op, waitVars, boundVars>>

(***************************************************************************)
(* Resume from a snapshot (resumeVMFromSnapshot, Manager.LoadSnapshot).     *)
(***************************************************************************)
ResolveSnapshot(r) ==
    /\ pc[r] = "resolve"
    /\ \/ Goto(r, "unlock") /\ UNCHANGED my     \* no snapshot, or no TAP device
       \/ Goto(r, "mark") /\ my' = [my EXCEPT ![r].prev = my[r].state]
    /\ UNCHANGED <<dbVars, rtVars, op, waitVars, boundVars>>

\* The stale socket is removed and a process without boot source started.
LoadSpawn(r) ==
    /\ pc[r] = "call" /\ op[r] = "load"
    /\ \/ Goto(r, "restore") /\ UNCHANGED <<proc, sock, my>>
       \/ \E p \in FreshPids :
            /\ \A q \in FreshPids : p <= q
            /\ proc' = [proc EXCEPT ![p] = "paused"]
            /\ sock' = p
            /\ my' = [my EXCEPT ![r].new = p]
            /\ Goto(r, "loading")
    /\ UNCHANGED <<dbVars, op, waitVars, boundVars>>

\* Mutation of LoadCompletes: nobody waits for the restored process.
LoadCompletesUnwatched(r) ==
    /\ pc[r] = "loading"
    /\ Live(my[r].new)
    /\ proc' = [proc EXCEPT ![my[r].new] = "running"]
    /\ my' = [my EXCEPT ![r].state = "running", ![r].pid = my[r].new]
    /\ Goto(r, "persist")
    /\ UNCHANGED <<dbVars, sock, op, waitVars, boundVars>>

\* Load, vsock proxy, resume; then the runtime is recorded and waited for.
LoadCompletes(r) ==
    /\ pc[r] = "loading"
    /\ Live(my[r].new)
    /\ proc' = [proc EXCEPT ![my[r].new] = "running"]
    /\ waiter' = [waiter EXCEPT ![my[r].new] = "waiting"]
    /\ my' = [my EXCEPT ![r].state = "running", ![r].pid = my[r].new]
    /\ Goto(r, "persist")
    /\ UNCHANGED <<dbVars, sock, op, seen, boundVars>>

\* killAndReap.
LoadFails(r) ==
    /\ pc[r] = "loading"
    /\ proc' = [proc EXCEPT ![my[r].new] = "dead"]
    /\ Goto(r, "restore")
    /\ UNCHANGED <<dbVars, sock, op, my, waitVars, boundVars>>

PersistRunning(r) ==
    /\ pc[r] = "persist"
    /\ Save(r, "running", my[r].pid, "unlock", "undo")

\* Mutation of UndoLoad: the runtime info is cleared without stopping it.
UndoLoadWithoutStop(r) ==
    /\ pc[r] = "undo"
    /\ my' = [my EXCEPT ![r].pid = NoPid]
    /\ Goto(r, "restore")
    /\ UNCHANGED <<dbVars, rtVars, op, waitVars, boundVars>>

\* Stop(vm, 5), whatever it returns, and vm.Runtime = nil.
UndoLoad(r) ==
    /\ pc[r] = "undo"
    /\ proc' = Doomed(my[r].pid)
    /\ my' = [my EXCEPT ![r].pid = NoPid]
    /\ Goto(r, "restore")
    /\ UNCHANGED <<dbVars, sock, op, waitVars, boundVars>>

RestorePrevious(r) ==
    /\ pc[r] = "restore"
    /\ Save(r, my[r].prev, my[r].pid, "unlock", "markfailed")

MarkFailed(r) ==
    /\ pc[r] = "markfailed"
    /\ Save(r, "failed", my[r].pid, "unlock", "unlock")

(***************************************************************************)
(* Kill (handleVMKillByPath): no lock, no check of the state.               *)
(***************************************************************************)
KillRuntime(r) ==
    /\ pc[r] = "signal"
    /\ proc' = Doomed(my[r].pid)
    /\ Goto(r, "killsave")
    /\ UNCHANGED <<dbVars, sock, op, my, waitVars, boundVars>>

KillSaves(r) ==
    /\ pc[r] = "killsave"
    /\ \/ row' = Updated("stopped", NoPid) /\ UNCHANGED faults
       \/ Fault /\ UNCHANGED row
    /\ Return(r)
    /\ UNCHANGED <<lock, expired, rtVars, waitVars, restarts>>

(***************************************************************************)
(* Delete (handleDeleteVM).  Kill returns an error for a process that is   *)
(* gone already, and then nothing is deleted.                              *)
(***************************************************************************)
DeleteKills(r) ==
    /\ pc[r] = "kill"
    /\ IF my[r].state \in {"running", "paused"} /\ my[r].pid # NoPid
         THEN /\ proc' = Doomed(my[r].pid)
              /\ Goto(r, IF Alive(my[r].pid) THEN "clean" ELSE "unlock")
         ELSE Goto(r, "clean") /\ UNCHANGED proc
    /\ UNCHANGED <<dbVars, sock, op, my, waitVars, boundVars>>

\* cleanupDeletedVMResources: the VM's directory goes, and the socket file with it.
DeleteResources(r) ==
    /\ pc[r] = "clean"
    /\ sock' = NoPid
    /\ Goto(r, "rowdel")
    /\ UNCHANGED <<dbVars, proc, op, my, waitVars, boundVars>>

\* The lock columns go with the row, so the deferred release finds nothing.
DeleteRow(r) ==
    /\ pc[r] = "rowdel"
    /\ \/ /\ row' = [state |-> "absent", pid |-> NoPid]
          /\ lock' = None /\ expired' = FALSE
          /\ Return(r)
          /\ UNCHANGED faults
       \/ Fault /\ Goto(r, "unlock") /\ UNCHANGED <<dbVars, op, my>>
    /\ UNCHANGED <<rtVars, waitVars, restarts>>

-----------------------------------------------------------------------------
(***************************************************************************)
(* The process exits (external), its waiter reaps it and runs              *)
(* handleVMProcessExit: it reads the row, and if the VM was running or     *)
(* starting it writes that copy back with the new state.                   *)
(***************************************************************************)
ProcessExits(p) ==
    /\ Alive(p)
    /\ proc' = [proc EXCEPT ![p] = "dead"]
    /\ UNCHANGED <<dbVars, sock, pc, op, my, waitVars, boundVars>>

ExitReads(p) ==
    /\ waiter[p] = "waiting" /\ proc[p] = "dead"
    /\ IF row.state \in {"running", "starting"}
         THEN \E s \in {"stopped", "failed"} :     \* exit code 0, or not
                /\ seen' = [seen EXCEPT ![p] = [state |-> s, pid |-> row.pid]]
                /\ waiter' = [waiter EXCEPT ![p] = "read"]
         ELSE /\ waiter' = [waiter EXCEPT ![p] = "done"]
              /\ UNCHANGED seen
    /\ UNCHANGED <<dbVars, rtVars, pc, op, my, boundVars>>

ExitWrites(p) ==
    /\ waiter[p] = "read"
    /\ \/ row' = Updated(seen[p].state, seen[p].pid) /\ UNCHANGED faults
       \/ Fault /\ UNCHANGED row
    /\ waiter' = [waiter EXCEPT ![p] = "done"]
    /\ seen' = [seen EXCEPT ![p] = [state |-> "failed", pid |-> NoPid]]
    /\ UNCHANGED <<lock, expired, proc, sock, pc, op, my, restarts>>

\* Five minutes pass.  Without SlowOps only an operation that is no longer
\* there (its daemon died, or its release failed) is overtaken by them.
LockTimesOut ==
    /\ lock # None /\ ~expired
    /\ SlowOps \/ ~InCS(lock)
    /\ expired' = TRUE
    /\ UNCHANGED <<row, lock, rtVars, pc, op, my, waitVars, boundVars>>

(***************************************************************************)
(* The daemon stops and starts again.  Handlers and waiters vanish where   *)
(* they are (startServer returns as soon as the listener is closed);       *)
(* processes, rows and locks stay.  Nothing at startup looks at states or  *)
(* processes.                                                              *)
(***************************************************************************)
DaemonRestarts ==
    /\ restarts < MaxRestarts
    /\ restarts' = restarts + 1
    /\ pc' = [r \in Handlers |-> "idle"]
    /\ op' = [r \in Handlers |-> "none"]
    /\ my' = [r \in Handlers |-> BlankCopy]
    /\ waiter' = [p \in Pids |-> IF proc[p] = "none" THEN "none" ELSE "lost"]
    /\ seen' = [p \in Pids |-> [state |-> "failed", pid |-> NoPid]]
    /\ UNCHANGED <<dbVars, proc, sock, faults>>

-----------------------------------------------------------------------------
\* handleCreateVM has just inserted the row.
Init == /\ row = [state |-> "created", pid |-> NoPid]
        /\ lock = None /\ expired = FALSE
        /\ proc = [p \in Pids |-> "none"]
        /\ sock = NoPid
        /\ pc = [r \in Handlers |-> "idle"]
        /\ op = [r \in Handlers |-> "none"]
        /\ my = [r \in Handlers |-> BlankCopy]
        /\ waiter = [p \in Pids |-> "none"]
        /\ seen = [p \in Pids |-> [state |-> "failed", pid |-> NoPid]]
        /\ faults = 0 /\ restarts = 0

\* What a handler does once its request has come in.
HandlerStep(r) ==
    \/ AcquireLock(r) \/ ReleaseLock(r)
    \/ MarkTransitional(r) \/ SaveResult(r)
    \/ StartRuntime(r) \/ SetupPortForwards(r)
    \/ StopRuntime(r) \/ StopObservesExit(r) \/ StopTimesOut(r) \/ StopGivesUp(r)
    \/ PauseRuntime(r) \/ ResumeRuntime(r)
    \/ ResolveSnapshot(r) \/ LoadSpawn(r) \/ LoadCompletes(r) \/ LoadFails(r)
    \/ PersistRunning(r) \/ UndoLoad(r) \/ RestorePrevious(r) \/ MarkFailed(r)
    \/ KillRuntime(r) \/ KillSaves(r)
    \/ DeleteKills(r) \/ DeleteResources(r) \/ DeleteRow(r)

ExitStep(p) == ExitReads(p) \/ ExitWrites(p)

Next == \/ \E r \in Handlers : \E o \in Ops : GetVM(r, o)
        \/ \E r \in Handlers : HandlerStep(r)
        \/ \E p \in Pids : ProcessExits(p) \/ ExitStep(p)
        \/ LockTimesOut
        \/ DaemonRestarts

Spec == Init /\ [][Next]_vars

\* Go runs every runnable goroutine, and the timers of Stop and of the lock go
\* off; requests, crashes and exits of healthy processes are nobody's duty.
Fairness == /\ \A r \in Handlers : WF_vars(HandlerStep(r))
            /\ \A p \in Pids : WF_vars(ExitStep(p))
            /\ WF_vars(LockTimesOut)

FairSpec == Spec /\ Fairness

-----------------------------------------------------------------------------
\* Type invariant.
TypeOK ==
    /\ row \in [state : VMStates \union {"absent"}, pid : Pids \union {NoPid}]
    /\ lock \in Handlers \union {None}
    /\ expired \in BOOLEAN
    /\ proc \in [Pids -> {"none", "running", "paused", "doomed", "dead"}]
    /\ sock \in Pids \union {NoPid}
    /\ pc \in [Handlers -> Labels]
    /\ op \in [Handlers -> Ops \union {"none"}]
    /\ my \in [Handlers -> Copy]
    /\ waiter \in [Pids -> {"none", "waiting", "read", "done", "lost"}]
    /\ seen \in [Pids -> [state : VMStates, pid : Pids \union {NoPid}]]
    /\ faults \in 0 .. MaxFaults
    /\ restarts \in 0 .. MaxRestarts

\* Two locked operations never work on the VM at the same time, although the
\* release is unconditional and a lock may be taken over after a crash
\* (db.go AcquireLock/ReleaseLock); needs ~SlowOps.
LockExclusion ==
    \A r, s \in Handlers : InCS(r) /\ InCS(s) => r = s

NoFaultYet == faults = 0 /\ restarts = 0

\* Until a write fails or the daemon is restarted, a transitional state belongs
\* to an operation of that kind that is under way with the lock: neither an
\* unlocked kill nor a late exit handler can leave one behind (performVMStart,
\* performVMStop, pause, resume).
TransitionalOwned ==
    NoFaultYet /\ row.state \in Transitional =>
        \E r \in Handlers : InCS(r) /\ row.state = TransitionalState(op[r])

\* A deleted VM stays deleted: no kill, exit handler or operation that read it
\* before writes it back (db.go UpdateVM).
NoResurrection == [][row.state = "absent" => row'.state = "absent"]_vars

\* Every process the daemon has started is being waited for, or is still being
\* loaded by a handler that reaps it itself, or has lost its daemon: none can
\* become a zombie (vm.go Start, LoadSnapshot, waitForProcessExit).
EveryProcessWatched ==
    \A p \in Pids : Alive(p) =>
        \/ waiter[p] \in {"waiting", "lost"}
        \/ \E r \in Handlers : pc[r] = "loading" /\ my[r].new = p

\* When a restore from a snapshot is over, the row says "resuming" only if
\* every write that was to correct it has failed, the last one, which marks the
\* VM failed, included; and the process it started is on record or on its way
\* out (resumeVMFromSnapshot and its two levels of fallback).
LoadAllOrNothing ==
    [][\A r \in Handlers :
         pc[r] \in {"persist", "restore", "markfailed"} /\ pc'[r] = "unlock"
           => /\ row'.state = "resuming" => pc[r] = "markfailed" /\ faults' # faults
              /\ my[r].new # NoPid =>
                    \/ row'.pid = my[r].new
                    \/ proc'[my[r].new] \in {"doomed", "dead"}]_vars

\* Whatever an operation runs into, it gives the lock back, or, when it died
\* with the daemon, the lock can be taken over (db.go, lock timeout).
LockRecovers == lock # None ~> (lock = None \/ expired)

\* No VM stays in a transitional state for ever while the database works, unless
\* the daemon dies: stop has deadlines, every call comes back.
TransitionalEnds ==
    row.state \in Transitional ~> row.state \notin Transitional \/ restarts > 0
=============================================================================
