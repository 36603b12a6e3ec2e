----------------------------- MODULE VMResources -----------------------------
(***************************************************************************)
(* What the daemon holds on behalf of its VMs: root disks, addresses, TAP   *)
(* devices, egress rules, port forwards, SPIRE entries and rows of the     *)
(* database, and the handlers that acquire and give back these things one  *)
(* by one (internal/api/vm_handlers.go, server.go).                        *)
(*                                                                         *)
(* Every create request draws a fresh VM id, so a create is known by the   *)
(* VM it makes; each call of handleCreateVM that takes or returns something *)
(* shared is a step.  Start, delete and the unlocked exit handler are taken *)
(* apart where another request can come in between; stop, restore and kill *)
(* are one step each, because what they change in between (module          *)
(* VMLifecycle has it) is read by nobody here.  A paused VM counts as      *)
(* running.  Calls that return a resource succeed (a failure   *)
(* is logged and ignored by the code); calls that acquire one may fail.    *)
(***************************************************************************)
EXTENDS Naturals, FiniteSets, Sequences

CONSTANTS VMs, FirstHost, LastHost, NoIP, NoVM,   \* as in module IPAM
          Names,         \* names that clients ask for
          MaxVMs,        \* config.Limits.MaxVMs
          MaxFaults,     \* bound: database operations that fail
          MaxRestarts    \* bound: restarts of the daemon

ASSUME ResourcesAssumption == /\ FirstHost \in Nat /\ LastHost \in Nat
                              /\ NoIP \notin FirstHost .. LastHost
                              /\ NoVM \notin VMs
                              /\ MaxVMs \in Nat
                              /\ MaxFaults \in Nat
                              /\ MaxRestarts \in Nat

VARIABLES
  allocated, available, serving,   \* the address manager (module IPAM)
  rows,        \* state column of the vms table; "absent" = no row
  config,      \* the VM's config: name and address, written once
  disk,        \* VMs with a root disk in their storage directory
  tap,         \* VMs with a TAP device on the bridge
  chain,       \* VMs with egress rules
  forward,     \* DNAT rules: a VM's host port to an address
  entry,       \* VMs with a workload entry at the SPIRE server
  job,         \* per VM: where handleCreateVM is
  spiffe,      \* per VM: handleCreateVM has a SPIFFE id in hand
  busy,        \* per VM: where the operation is that holds its row lock
  watched,     \* VMs for which a waitForProcessExit goroutine is running
  exit,        \* per VM: where handleVMProcessExit is
  faults, restarts

poolVars == <<allocated, available>>
hostVars == <<disk, tap, chain, forward, entry>>
vars == <<poolVars, serving, rows, config, hostVars, job, spiffe, busy, watched,
          exit, faults, restarts>>

Pool == INSTANCE IPAM

NoName == ""      \* before the request

Present == {vm \in VMs : rows[vm] # "absent"}

Networked(vm) == config[vm].ip # NoIP

Goto(vm, label) == job' = [job EXCEPT ![vm] = label]

Fault == faults < MaxFaults /\ faults' = faults + 1

SetState(vm, s) == rows' = [rows EXCEPT ![vm] = s]

-----------------------------------------------------------------------------
(***************************************************************************)
(* handleCreateVM.                                                          *)
(***************************************************************************)
NameFree(n) == \A vm \in Present : config[vm].name # n

\* A name that exists is answered with the existing VM: no step.
CreateVM(vm, n) ==
    /\ serving /\ job[vm] = "unused"
    /\ NameFree(n)
    /\ config' = [config EXCEPT ![vm] = [name |-> n, ip |-> NoIP]]
    /\ Goto(vm, "limits")
    /\ UNCHANGED <<poolVars, serving, rows, hostVars, spiffe, busy, watched, exit, faults, restarts>>

CheckLimits(vm) ==
    /\ job[vm] = "limits"
    /\ Goto(vm, IF Cardinality(Present) >= MaxVMs THEN "over" ELSE "disk")
    /\ UNCHANGED <<poolVars, serving, rows, config, hostVars, spiffe, busy, watched, exit, faults, restarts>>

\* Mutation of MaterializeDisk: a failed copy of the root disk goes unnoticed.
MaterializeDiskUnchecked(vm) ==
    /\ job[vm] = "disk"
    /\ disk' \in {disk, disk \union {vm}}
    /\ Goto(vm, "address")
    /\ UNCHANGED <<poolVars, serving, rows, config, tap, chain, forward, entry,
                   spiffe, busy, watched, exit, faults, restarts>>

MaterializeDisk(vm) ==
    /\ job[vm] = "disk"
    /\ \/ disk' = disk \union {vm} /\ Goto(vm, "address")
       \/ Goto(vm, "over") /\ UNCHANGED disk
    /\ UNCHANGED <<poolVars, serving, rows, config, tap, chain, forward, entry,
                   spiffe, busy, watched, exit, faults, restarts>>

\* setupVMNetworking, first call.  Mode "none" needs no address; without a free
\* address, or with host networking switched off, the request fails.
AllocateAddress(vm) ==
    /\ job[vm] = "address"
    /\ \/ Goto(vm, "spire") /\ UNCHANGED <<poolVars, disk>>
       \/ /\ Pool!CanAllocate(vm)
          /\ Pool!AllocateIP(vm)
          /\ Goto(vm, "tap") /\ UNCHANGED disk
       \/ /\ disk' = disk \ {vm}
          /\ Goto(vm, "over") /\ UNCHANGED poolVars
    /\ UNCHANGED <<serving, rows, config, tap, chain, forward, entry, spiffe,
                   busy, watched, exit, faults, restarts>>

\* Create the device, attach it to the bridge, generate a MAC address.
SetupTap(vm) ==
    /\ job[vm] = "tap"
    /\ \/ /\ tap' = tap \union {vm}
          /\ config' = [config EXCEPT ![vm].ip = allocated[vm]]
          /\ Goto(vm, "egress") /\ UNCHANGED <<poolVars, disk>>
       \/ /\ Pool!ReleaseIP(vm)
          /\ disk' = disk \ {vm}
          /\ Goto(vm, "over") /\ UNCHANGED <<tap, config>>
    /\ UNCHANGED <<serving, rows, chain, forward, entry, spiffe, busy, watched, exit, faults, restarts>>

SetupEgress(vm) ==
    /\ job[vm] = "egress"
    /\ \/ /\ chain' \in {chain, chain \union {vm}}     \* without, with a policy
          /\ Goto(vm, "spire") /\ UNCHANGED <<poolVars, disk, tap>>
       \/ /\ tap' = tap \ {vm}
          /\ Pool!ReleaseIP(vm)
          /\ disk' = disk \ {vm}
          /\ Goto(vm, "over") /\ UNCHANGED chain
    /\ UNCHANGED <<serving, rows, config, forward, entry, spiffe, busy, watched, exit, faults, restarts>>

\* cleanupCreatedVMResources.
CleanupCreated(vm) ==
    /\ disk' = disk \ {vm}
    /\ chain' = chain \ {vm}
    /\ tap' = tap \ {vm}
    /\ IF Networked(vm) THEN Pool!ReleaseIP(vm) ELSE UNCHANGED poolVars

\* registerSPIREForCreate.  An error may hide an entry that was made all the
\* same; whether it ends the request depends on SPIRE being required.
RegisterSPIRE(vm) ==
    /\ job[vm] = "spire"
    /\ \/ /\ entry' = entry \union {vm}
          /\ spiffe' = [spiffe EXCEPT ![vm] = TRUE]
          /\ Goto(vm, "insert") /\ UNCHANGED <<poolVars, disk, tap, chain>>
       \/ /\ entry' \in {entry, entry \union {vm}}
          /\ \/ Goto(vm, "insert") /\ UNCHANGED <<poolVars, disk, tap, chain>>
             \/ Goto(vm, "over") /\ CleanupCreated(vm)
          /\ UNCHANGED spiffe
    /\ UNCHANGED <<serving, rows, config, forward, busy, watched, exit, faults, restarts>>

\* Mutation of InsertRow: the resources stay when the insert fails.
InsertRowKeeping(vm) ==
    /\ job[vm] = "insert"
    /\ \/ /\ NameFree(config[vm].name)
          /\ SetState(vm, "created") /\ Goto(vm, "done") /\ UNCHANGED faults
       \/ /\ \/ ~NameFree(config[vm].name) /\ UNCHANGED faults
             \/ Fault
          /\ Goto(vm, "over") /\ UNCHANGED rows
    /\ spiffe' = [spiffe EXCEPT ![vm] = FALSE]
    /\ UNCHANGED <<poolVars, hostVars, serving, config, busy, watched, exit, restarts>>

\* db.CreateVM: the name column is UNIQUE.  The SPIFFE id has no column and is
\* forgotten when the request is over.
InsertRow(vm) ==
    /\ job[vm] = "insert"
    /\ \/ /\ NameFree(config[vm].name)
          /\ SetState(vm, "created") /\ Goto(vm, "done")
          /\ UNCHANGED <<poolVars, disk, tap, chain, entry, faults>>
       \/ /\ \/ ~NameFree(config[vm].name) /\ UNCHANGED faults
             \/ Fault
          /\ CleanupCreated(vm)
          /\ entry' = IF spiffe[vm] THEN entry \ {vm} ELSE entry
          /\ Goto(vm, "over") /\ UNCHANGED rows
    /\ spiffe' = [spiffe EXCEPT ![vm] = FALSE]
    /\ UNCHANGED <<serving, config, forward, busy, watched, exit, restarts>>

-----------------------------------------------------------------------------
(***************************************************************************)
(* The VM's life, as far as its resources are concerned.                    *)
(***************************************************************************)
\* Mutation of Rule: a VM without a network gets a rule to no address.
RuleUnchecked(vm) == {<<vm, config[vm].ip>>}

Rule(vm) == IF Networked(vm) THEN {<<vm, config[vm].ip>>} ELSE {}

Idle(vm) == serving /\ busy[vm] = "no"      \* the row lock is free

\* UpdateVM: a row that is gone stays gone.
Update(vm, s) == IF vm \in Present THEN SetState(vm, s) ELSE UNCHANGED rows

\* handleVMStartByPath takes the lock and writes "starting" ...
Start(vm) ==
    /\ Idle(vm) /\ rows[vm] \in {"created", "stopped"}
    /\ SetState(vm, "starting")
    /\ busy' = [busy EXCEPT ![vm] = "start"]
    /\ UNCHANGED <<poolVars, serving, config, hostVars, job, spiffe, watched,
                   exit, faults, restarts>>

\* ... starts the process, if it can, and a goroutine that waits for it, and
\* sets up the port forwards, which takes its rules back when it fails ...
Launch(vm) ==
    /\ busy[vm] = "start"
    /\ \/ /\ watched' = watched \union {vm}
          /\ \/ /\ forward' = forward \union Rule(vm)
                /\ busy' = [busy EXCEPT ![vm] = "launched"]
             \/ /\ forward' = forward \ Rule(vm)
                /\ busy' = [busy EXCEPT ![vm] = "broken"]
       \/ /\ busy' = [busy EXCEPT ![vm] = "broken"]
          /\ UNCHANGED <<watched, forward>>
    /\ UNCHANGED <<poolVars, serving, rows, config, disk, tap, chain, entry, job,
                   spiffe, exit, faults, restarts>>

\* ... and writes the outcome, whatever the row says by now.
StartEnds(vm) ==
    /\ busy[vm] \in {"launched", "broken"}
    /\ Update(vm, IF busy[vm] = "launched" THEN "running" ELSE "failed")
    /\ busy' = [busy EXCEPT ![vm] = "no"]
    /\ UNCHANGED <<poolVars, serving, config, hostVars, job, spiffe, watched,
                   exit, faults, restarts>>

\* handleVMResumeByPath with a snapshot: ensureVMTapForResume, no forwards.
Restore(vm) ==
    /\ Idle(vm) /\ rows[vm] \in {"created", "stopped", "failed"}
    /\ tap' \in {tap, IF Networked(vm) THEN tap \union {vm} ELSE tap}
    /\ \/ /\ SetState(vm, "running") /\ (Networked(vm) => vm \in tap')
          /\ watched' = watched \union {vm}
       \/ UNCHANGED <<rows, watched>>                  \* the previous state
    /\ UNCHANGED <<poolVars, serving, config, disk, chain, forward, entry, job,
                   spiffe, busy, exit, faults, restarts>>

Stop(vm) ==
    /\ Idle(vm) /\ rows[vm] = "running"
    /\ \/ SetState(vm, "stopped") /\ forward' = forward \ Rule(vm)
       \/ SetState(vm, "failed") /\ UNCHANGED forward
    /\ UNCHANGED <<poolVars, serving, config, disk, tap, chain, entry, job,
                   spiffe, busy, watched, exit, faults, restarts>>

\* handleVMKillByPath: no lock; nothing of the network is given back.
Kill(vm) ==
    /\ serving /\ vm \in Present
    /\ SetState(vm, "stopped")
    /\ UNCHANGED <<poolVars, serving, config, hostVars, job, spiffe, busy,
                   watched, exit, faults, restarts>>

\* handleVMProcessExit reads a row that says running or starting ...
ExitReads(vm) ==
    /\ vm \in watched /\ exit[vm] = "no"
    /\ rows[vm] \in {"running", "starting"}
    /\ exit' = [exit EXCEPT ![vm] = "write"]
    /\ UNCHANGED <<poolVars, serving, rows, config, hostVars, job, spiffe,
                   busy, watched, faults, restarts>>

\* ... writes the new state (UpdateVM touches existing rows only) ...
ExitWrites(vm) ==
    /\ exit[vm] = "write"
    /\ \E s \in {"stopped", "failed"} : Update(vm, s)
    /\ exit' = [exit EXCEPT ![vm] = "release"]
    /\ UNCHANGED <<poolVars, serving, config, hostVars, job, spiffe, busy, watched, faults, restarts>>

\* ... and cleans up the network (cleanupVMNetwork): the device and the address
\* first, the rules afterwards; the config keeps the address.
ExitReleases(vm) ==
    /\ exit[vm] = "release"
    /\ IF Networked(vm)
         THEN tap' = tap \ {vm} /\ Pool!ReleaseIP(vm)
         ELSE UNCHANGED <<poolVars, tap>>
    /\ exit' = [exit EXCEPT ![vm] = "rules"]
    /\ UNCHANGED <<serving, rows, config, disk, chain, forward, entry, job,
                   spiffe, busy, watched, faults, restarts>>

ExitCleansRules(vm) ==
    /\ exit[vm] = "rules"
    /\ forward' = forward \ Rule(vm)
    /\ chain' = chain \ {vm}
    /\ exit' = [exit EXCEPT ![vm] = "no"]
    /\ UNCHANGED <<poolVars, serving, rows, config, disk, tap, entry, job,
                   spiffe, busy, watched, faults, restarts>>

(***************************************************************************)
(* handleDeleteVM.                                                          *)
(***************************************************************************)
Delete(vm) ==
    /\ Idle(vm) /\ vm \in Present
    /\ busy' = [busy EXCEPT ![vm] = "clean"]
    /\ UNCHANGED <<poolVars, serving, rows, config, hostVars, job, spiffe, watched, exit, faults, restarts>>

\* GetVM returns no SPIFFE id: the table has no column for it.
StoredSpiffe(vm) == FALSE

\* Mutation of DeleteCleans: the address stays allocated.
DeleteCleansKeepingIP(vm) ==
    /\ busy[vm] = "clean"
    /\ entry' = IF StoredSpiffe(vm) THEN entry \ {vm} ELSE entry
    /\ forward' = forward \ Rule(vm)
    /\ chain' = chain \ {vm}
    /\ tap' = tap \ {vm}
    /\ disk' = disk \ {vm}
    /\ busy' = [busy EXCEPT ![vm] = "row"]
    /\ UNCHANGED <<poolVars, serving, rows, config, job, spiffe, watched, exit, faults, restarts>>

\* The SPIRE entry, then cleanupDeletedVMResources.
DeleteCleans(vm) ==
    /\ busy[vm] = "clean"
    /\ entry' = IF StoredSpiffe(vm) THEN entry \ {vm} ELSE entry
    /\ forward' = forward \ Rule(vm)
    /\ chain' = chain \ {vm}
    /\ tap' = tap \ {vm}
    /\ IF Networked(vm) THEN Pool!ReleaseIP(vm) ELSE UNCHANGED poolVars
    /\ disk' = disk \ {vm}
    /\ busy' = [busy EXCEPT ![vm] = "row"]
    /\ UNCHANGED <<serving, rows, config, job, spiffe, watched, exit, faults, restarts>>

DeleteRow(vm) ==
    /\ busy[vm] = "row"
    /\ \/ SetState(vm, "absent") /\ UNCHANGED faults
       \/ Fault /\ UNCHANGED rows
    /\ busy' = [busy EXCEPT ![vm] = "no"]
    /\ UNCHANGED <<poolVars, serving, config, hostVars, job, spiffe, watched, exit, restarts>>

-----------------------------------------------------------------------------
(***************************************************************************)
(* startServer: the address manager is rebuilt from the rows, unless there *)
(* is nothing to load or the rows cannot be listed.                        *)
(***************************************************************************)
RecordedAddresses == [vm \in VMs |-> IF vm \in Present THEN config[vm].ip ELSE NoIP]

DaemonStarts ==
    /\ ~serving
    /\ serving' = TRUE
    /\ \/ /\ IF Pool!InUse(RecordedAddresses) = {}
               THEN UNCHANGED poolVars
               ELSE Pool!LoadAllocations(RecordedAddresses)
          /\ UNCHANGED faults
       \/ Fault /\ UNCHANGED poolVars
    /\ UNCHANGED <<rows, config, hostVars, job, spiffe, busy, watched, exit, restarts>>

\* The daemon ends; the host, the database and the SPIRE server stay (a row lock
\* too, but only for five minutes).
DaemonStops ==
    /\ serving /\ restarts < MaxRestarts
    /\ restarts' = restarts + 1
    /\ serving' = FALSE
    /\ allocated' = [vm \in VMs |-> NoIP]
    /\ available' \in Pool!Ascending(Pool!IPs)
    /\ job' = [vm \in VMs |-> IF job[vm] \in {"unused", "done", "over"} THEN job[vm] ELSE "cut"]
    /\ spiffe' = [vm \in VMs |-> FALSE]
    /\ busy' = [vm \in VMs |-> "no"]
    /\ watched' = {}
    /\ exit' = [vm \in VMs |-> "no"]
    /\ UNCHANGED <<rows, config, hostVars, faults>>

Init == /\ Pool!NewIPAM /\ serving = FALSE
        /\ rows = [vm \in VMs |-> "absent"]
        /\ config = [vm \in VMs |-> [name |-> NoName, ip |-> NoIP]]
        /\ disk = {} /\ tap = {} /\ chain = {} /\ forward = {} /\ entry = {}
        /\ job = [vm \in VMs |-> "unused"]
        /\ spiffe = [vm \in VMs |-> FALSE]
        /\ busy = [vm \in VMs |-> "no"]
        /\ watched = {}
        /\ exit = [vm \in VMs |-> "no"]
        /\ faults = 0 /\ restarts = 0

CreateStep(vm) ==
    \/ \E n \in Names : CreateVM(vm, n)
    \/ CheckLimits(vm) \/ MaterializeDisk(vm) \/ AllocateAddress(vm)
    \/ SetupTap(vm) \/ SetupEgress(vm) \/ RegisterSPIRE(vm) \/ InsertRow(vm)

LifeStep(vm) ==
    \/ Start(vm) \/ Launch(vm) \/ StartEnds(vm) \/ Restore(vm) \/ Stop(vm) \/ Kill(vm)
    \/ ExitReads(vm) \/ ExitWrites(vm) \/ ExitReleases(vm) \/ ExitCleansRules(vm)
    \/ Delete(vm) \/ DeleteCleans(vm) \/ DeleteRow(vm)

Next == \/ \E vm \in VMs : CreateStep(vm) \/ LifeStep(vm)
        \/ DaemonStarts \/ DaemonStops

Spec == Init /\ [][Next]_vars

-----------------------------------------------------------------------------
\* Type invariant.
TypeOK ==
    /\ Pool!TypeOK
    /\ rows \in [VMs -> {"absent", "created", "starting", "running", "stopped", "failed"}]
    /\ config \in [VMs -> [name : Names \union {NoName}, ip : Pool!IPs \union {NoIP}]]
    /\ disk \subseteq VMs /\ tap \subseteq VMs /\ chain \subseteq VMs /\ entry \subseteq VMs
    /\ forward \subseteq VMs \X Pool!IPs
    /\ job \in [VMs -> {"unused", "limits", "disk", "address", "tap", "egress",
                        "spire", "insert", "done", "over", "cut"}]
    /\ spiffe \in [VMs -> BOOLEAN]
    /\ busy \in [VMs -> {"no", "start", "launched", "broken", "clean", "row"}]
    /\ watched \subseteq VMs
    /\ exit \in [VMs -> {"no", "write", "release", "rules"}]
    /\ faults \in 0 .. MaxFaults
    /\ restarts \in 0 .. MaxRestarts

\* The VM id is out of use: its create was refused, or it has been deleted.
Finished(vm) == \/ job[vm] = "over"
                \/ job[vm] = "done" /\ vm \notin Present

\* A refused create and a completed delete leave nothing behind on the host,
\* at whatever call the create failed and whatever exit handler or start came
\* in between: no disk, device, egress rule, forward or address
\* (cleanupCreatedVMResources, cleanupDeletedVMResources, setupVMNetworking).
NothingLeftBehind ==
    \A vm \in VMs : Finished(vm) =>
        /\ vm \notin disk \union tap \union chain
        /\ allocated[vm] = NoIP
        /\ \A ip \in Pool!IPs : <<vm, ip>> \notin forward

\* A VM that was created and never started has its disk, and if it has a
\* network, its device and its own address, until a delete of it has begun (and
\* failed at its last step, or was cut off): no other VM's create, exit or
\* delete takes them away, and after a restart the address is reserved again,
\* if the rows could be listed.
CreatedIsReady ==
    \A vm \in VMs : rows[vm] = "created" /\ busy[vm] = "no" =>
        /\ faults = 0 /\ restarts = 0 => vm \in disk
        /\ Networked(vm) /\ vm \in disk => vm \in tap
        /\ Networked(vm) /\ vm \in disk /\ serving /\ (restarts = 0 \/ faults = 0) => allocated[vm] = config[vm].ip
==============================================================================
