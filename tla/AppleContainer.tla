--------------------------- MODULE AppleContainer ---------------------------
(***************************************************************************)
(* The runtime on macOS: a VM is a container of Apple's container tool     *)
(* (internal/applecontainer/manager.go), and a goroutine per VM looks      *)
(* every two seconds whether it still runs.  The handlers of the API hold  *)
(* the lock of the VM; what they do to the row is VMLifecycle's subject    *)
(* and one variable here.                                                  *)
(***************************************************************************)
EXTENDS Naturals

CONSTANT MaxAppleFaults   \* bound: failing commands of the container tool

VARIABLES
  container,   \* "absent", "stopped" or "running"
  appleRow,    \* state in the row: "created", "starting", "running", "stopped", "failed", "gone"
  appleOp,     \* "none", or what the handler does: "start", "stop", "kill", "delete"
  watched,     \* Manager.watching has an entry for the VM
  watcher,     \* the goroutine: "none", "tick", "report" or "end"
  falseAlarm,  \* history: the watcher reported a container that it could not inspect
  overlap,     \* history: a start overlapped the end of the watcher
  appleFaults

appleVars == <<container, appleRow, appleOp, watched, watcher, falseAlarm, overlap, appleFaults>>

AppleFault == appleFaults < MaxAppleFaults /\ appleFaults' = appleFaults + 1

AppleInit ==
  /\ container = "absent" /\ appleRow = "created" /\ appleOp = "none"
  /\ watched = FALSE /\ watcher = "none" /\ falseAlarm = FALSE /\ overlap = FALSE /\ appleFaults = 0

\* Start: the container is run, or started if it exists and does not run; the services may
\* not be there or the command may fail.
AppleStart ==
  /\ appleOp = "none" /\ appleRow \in {"created", "stopped", "failed"}
  /\ \/ container' = "running" /\ appleOp' = "start" /\ appleRow' = "starting" /\ UNCHANGED appleFaults
     \/ AppleFault /\ appleRow' = "failed" /\ UNCHANGED <<container, appleOp>>
  /\ UNCHANGED <<watched, watcher, falseAlarm, overlap>>

\* Mutant: only the first start of a VM gets a goroutine.
WatchContainerOnce ==
  /\ watched' = TRUE
  /\ watcher' = IF appleRow = "starting" /\ container = "running" /\ ~watched /\ appleFaults = 0 THEN "tick" ELSE watcher
  /\ overlap' = overlap

\* watchContainer: one goroutine per VM; an entry that is there stands for it.
WatchContainer ==
  IF watched THEN overlap' = (overlap \/ watcher # "tick") /\ UNCHANGED <<watched, watcher>>
  ELSE watched' = TRUE /\ watcher' = "tick" /\ UNCHANGED overlap

\* The container is inspected again; a VM that runs is watched from now on.
AppleStarted ==
  /\ appleOp = "start" /\ appleOp' = "none"
  /\ \/ /\ container = "running" /\ appleRow' = "running" /\ WatchContainer /\ UNCHANGED appleFaults
     \/ /\ container # "running" /\ appleRow' = "failed" /\ UNCHANGED <<watched, watcher, overlap, appleFaults>>
     \/ /\ AppleFault /\ appleRow' = "failed" /\ UNCHANGED <<watched, watcher, overlap>>
  /\ UNCHANGED <<container, falseAlarm>>

\* Stop or Kill: the command, then a wait until the container no longer runs.
AppleStop ==
  /\ appleOp = "none" /\ appleRow = "running"
  /\ \/ container' = (IF container = "running" THEN "stopped" ELSE container) /\ appleRow' = "stopped" /\ UNCHANGED appleFaults
     \/ AppleFault /\ appleRow' = "failed" /\ container' \in {container, IF container = "running" THEN "stopped" ELSE container}
  /\ UNCHANGED <<appleOp, watched, watcher, falseAlarm, overlap>>

\* Mutant: a container that runs is taken for one that cannot be deleted, and left.
AppleDeleteIdle ==
  /\ appleOp = "none" /\ appleRow \in {"created", "stopped", "failed"}
  /\ container' = (IF container = "running" THEN "running" ELSE "absent") /\ appleRow' = "gone"
  /\ UNCHANGED <<appleOp, watched, watcher, falseAlarm, overlap, appleFaults>>

\* Delete: a container that runs is killed first; without a container there is nothing to do.
AppleDelete ==
  /\ appleOp = "none" /\ appleRow \in {"created", "stopped", "failed"}
  /\ \/ container' = "absent" /\ appleRow' = "gone" /\ UNCHANGED appleFaults
     \/ /\ AppleFault /\ container' \in {container, IF container = "running" THEN "stopped" ELSE container}
        /\ UNCHANGED appleRow
  /\ UNCHANGED <<appleOp, watched, watcher, falseAlarm, overlap>>

\* The command in the container ends.
ContainerExits ==
  /\ container = "running" /\ container' = "stopped"
  /\ UNCHANGED <<appleRow, appleOp, watched, watcher, falseAlarm, overlap, appleFaults>>

\* A tick of the goroutine: an error counts as an exit.
WatchTick ==
  /\ watcher = "tick"
  /\ \/ container # "running" /\ UNCHANGED <<falseAlarm, appleFaults>>
     \/ AppleFault /\ falseAlarm' = TRUE
  /\ watcher' = "report"
  /\ UNCHANGED <<container, appleRow, appleOp, watched, overlap>>

\* onProcessExit: a row that says running or starting becomes failed.
WatchReports ==
  /\ watcher = "report" /\ watcher' = "end"
  /\ appleRow' = IF appleRow \in {"running", "starting"} THEN "failed" ELSE appleRow
  /\ overlap' = (overlap \/ appleOp = "start" \/ (appleRow = "running" /\ container = "running"))
  /\ UNCHANGED <<container, appleOp, watched, falseAlarm, appleFaults>>

\* The deferred function removes the entry.
WatcherReturns ==
  /\ watcher = "end" /\ watcher' = "none" /\ watched' = FALSE
  /\ UNCHANGED <<container, appleRow, appleOp, falseAlarm, overlap, appleFaults>>

AppleNext ==
  \/ AppleStart \/ AppleStarted \/ AppleStop \/ AppleDelete \/ ContainerExits
  \/ WatchTick \/ WatchReports \/ WatcherReturns

\* The ticker of the goroutine and a handler under way run on.
AppleFairness == WF_appleVars(AppleStarted) /\ WF_appleVars(WatchTick \/ WatchReports \/ WatcherReturns)

-----------------------------------------------------------------------------
(***************************************************************************)
(* A container that ends is noticed: a row does not say running for ever   *)
(* when nothing runs, whatever sequence of starts and stops came before,   *)
(* unless a start fell between the report of a watcher and its end.        *)
(***************************************************************************)
ExitIsNoticed == []<>(appleRow = "running" => container = "running" \/ overlap)

(***************************************************************************)
(* A VM that was deleted has no container, not even one that was taken to  *)
(* have exited because it could not be inspected.                          *)
(***************************************************************************)
DeletedHasNoContainer == appleRow = "gone" => container = "absent"
=============================================================================
