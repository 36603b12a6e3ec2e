-------------------------- MODULE VMLifecycleProofs --------------------------
(***************************************************************************)
(* Proofs about module VMLifecycle, for any number of handlers, processes, *)
(* faults and restarts.                                                    *)
(***************************************************************************)
EXTENDS VMLifecycle, TLAPS

USE DEF Pids, NoPid, Ops, Transitional, Resting, VMStates, Labels,
        dbVars, rtVars, waitVars, boundVars

\* What the helpers assign stays within the types.
LEMMA BlankCopyType == BlankCopy \in Copy
BY DEF BlankCopy, Copy

LEMMA InitTypeOK == Init => TypeOK
<1> SUFFICES ASSUME Init PROVE TypeOK
  OBVIOUS
<1>1. my \in [Handlers -> Copy]
  BY BlankCopyType DEF Init
<1>2. /\ row \in [state : VMStates \union {"absent"}, pid : Pids \union {NoPid}]
      /\ seen \in [Pids -> [state : VMStates, pid : Pids \union {NoPid}]]
  BY DEF Init
<1>3. faults \in 0 .. MaxFaults /\ restarts \in 0 .. MaxRestarts
  BY LifecycleAssumption DEF Init
<1> QED
  BY <1>1, <1>2, <1>3 DEF Init, TypeOK

LEMMA ReturnType ==
  ASSUME TypeOK, NEW r \in Handlers, Return(r)
  PROVE  /\ pc' \in [Handlers -> Labels]
         /\ op' \in [Handlers -> Ops \union {"none"}]
         /\ my' \in [Handlers -> Copy]
BY BlankCopyType DEF Return, Goto, TypeOK

LEMMA GotoType ==
  ASSUME TypeOK, NEW r \in Handlers, NEW l \in Labels, Goto(r, l)
  PROVE  pc' \in [Handlers -> Labels]
BY DEF Goto, TypeOK

\* A new value of the copy's state and runtime fields.
LEMMA CopyType ==
  ASSUME TypeOK, NEW r \in Handlers, NEW s \in VMStates, NEW p \in Pids \union {NoPid},
         my' = [my EXCEPT ![r].state = s, ![r].pid = p]
  PROVE  /\ my' \in [Handlers -> Copy]
         /\ my'[r].state = s /\ my'[r].pid = p
         /\ my'[r].prev = my[r].prev /\ my'[r].new = my[r].new
         /\ \A q \in Handlers \ {r} : my'[q] = my[q]
<1>1. my[r] \in Copy /\ DOMAIN my = Handlers
  BY DEF TypeOK
<1>2. my' = [my EXCEPT ![r] = [my[r] EXCEPT !.state = s, !.pid = p]]
  BY <1>1
<1>3. [my[r] EXCEPT !.state = s, !.pid = p] \in Copy
  BY <1>1 DEF Copy
<1> QED
  BY <1>1, <1>2, <1>3 DEF TypeOK, Copy

LEMMA UpdatedType ==
  ASSUME TypeOK, NEW s \in VMStates, NEW p \in Pids \union {NoPid}
  PROVE  Updated(s, p) \in [state : VMStates \union {"absent"}, pid : Pids \union {NoPid}]
BY DEF TypeOK, Updated

LEMMA FaultType ==
  ASSUME TypeOK, Fault
  PROVE  faults' \in 0 .. MaxFaults
BY LifecycleAssumption DEF TypeOK, Fault

LEMMA SaveType ==
  ASSUME TypeOK, NEW r \in Handlers, NEW s \in VMStates, NEW p \in Pids \union {NoPid},
         NEW ok \in Labels, NEW bad \in Labels, Save(r, s, p, ok, bad)
  PROVE  TypeOK'
<1>1. my' \in [Handlers -> Copy]
  BY CopyType DEF Save
<1>2. pc' \in [Handlers -> Labels]
  BY GotoType DEF Save
<1>3. row' \in [state : VMStates \union {"absent"}, pid : Pids \union {NoPid}]
  BY UpdatedType DEF Save, TypeOK
<1>4. faults' \in 0 .. MaxFaults
  BY FaultType DEF Save, TypeOK
<1> QED
  BY <1>1, <1>2, <1>3, <1>4 DEF Save, TypeOK

LEMMA ConcludeType ==
  ASSUME TypeOK, NEW r \in Handlers, NEW s \in VMStates, NEW p \in Pids \union {NoPid},
         Conclude(r, s, p)
  PROVE  my' \in [Handlers -> Copy] /\ pc' \in [Handlers -> Labels]
BY CopyType, GotoType DEF Conclude

LEMMA CopyFieldType ==
  ASSUME TypeOK, NEW r \in Handlers
  PROVE  /\ my[r] \in Copy
         /\ my[r].pid \in Pids \union {NoPid} /\ my[r].new \in Pids \union {NoPid}
         /\ my[r].state \in VMStates /\ my[r].prev \in VMStates
         /\ \A p \in Pids \union {NoPid} :
              /\ [my EXCEPT ![r].pid = p] \in [Handlers -> Copy]
              /\ [my EXCEPT ![r].new = p] \in [Handlers -> Copy]
         /\ \A s \in VMStates : [my EXCEPT ![r].prev = s] \in [Handlers -> Copy]
<1>1. my[r] \in Copy
  BY DEF TypeOK
<1>2. \A p \in Pids \union {NoPid} :
        [my[r] EXCEPT !.pid = p] \in Copy /\ [my[r] EXCEPT !.new = p] \in Copy
  BY <1>1 DEF Copy
<1>3. \A s \in VMStates : [my[r] EXCEPT !.prev = s] \in Copy
  BY <1>1 DEF Copy
<1> QED
  BY <1>1, <1>2, <1>3 DEF TypeOK, Copy

ProcStates == {"none", "running", "paused", "doomed", "dead"}

LEMMA ProcType ==
  ASSUME TypeOK, NEW p, NEW v \in ProcStates
  PROVE  /\ [proc EXCEPT ![p] = v] \in [Pids -> ProcStates]
         /\ Doomed(p) \in [Pids -> ProcStates]
BY DEF TypeOK, Doomed, ProcStates

LEMMA NextTypeOK == TypeOK /\ [Next]_vars => TypeOK'
<1> SUFFICES ASSUME TypeOK, [Next]_vars PROVE TypeOK'
  OBVIOUS
<1> USE DEF ProcStates
<1>0. ASSUME NEW r \in Handlers, HandlerStep(r) PROVE TypeOK'
  <2>0. /\ my[r] \in Copy
        /\ my[r].pid \in Pids \union {NoPid} /\ my[r].new \in Pids \union {NoPid}
        /\ my[r].state \in VMStates /\ my[r].prev \in VMStates
    BY CopyFieldType
  <2>1. CASE AcquireLock(r)
    <3>1. FirstStep(op[r]) \in Labels
      BY DEF FirstStep
    <3> QED
      BY <2>1, <3>1, ReturnType, GotoType DEF AcquireLock, TypeOK
  <2>2. CASE ReleaseLock(r)
    BY <2>2, ReturnType, FaultType DEF ReleaseLock, TypeOK
  <2>3. CASE MarkTransitional(r)
    <3>1. TransitionalState(op[r]) \in VMStates
      BY DEF TransitionalState
    <3>2. (IF op[r] = "stop" THEN "call" ELSE "unlock") \in Labels
      OBVIOUS
    <3> QED
      BY <2>3, <2>0, <3>1, <3>2, SaveType DEF MarkTransitional
  <2>4. CASE SaveResult(r)
    BY <2>4, <2>0, SaveType DEF SaveResult
  <2>5. CASE StartRuntime(r)
    <3>1. CASE Conclude(r, "failed", my[r].pid) /\ UNCHANGED <<rtVars, waitVars>>
      BY <2>5, <3>1, <2>0, ConcludeType DEF StartRuntime, TypeOK
    <3>2. ASSUME NEW p \in FreshPids,
                 /\ proc' = [proc EXCEPT ![p] = "running"]
                 /\ sock' = IF sock = NoPid THEN p ELSE sock
                 /\ waiter' = [waiter EXCEPT ![p] = "waiting"]
                 /\ my' = [my EXCEPT ![r].pid = p]
                 /\ Goto(r, "forward")
                 /\ UNCHANGED seen
          PROVE  TypeOK'
      <4>1. p \in Pids
        BY DEF FreshPids
      <4>2. my' \in [Handlers -> Copy]
        BY <3>2, <4>1, CopyFieldType
      <4>3. pc' \in [Handlers -> Labels]
        BY <3>2, GotoType
      <4> QED
        BY <2>5, <3>2, <4>1, <4>2, <4>3 DEF StartRuntime, TypeOK
    <3> QED
      BY <2>5, <3>1, <3>2 DEF StartRuntime
  <2>6. CASE SetupPortForwards(r)
    <3>1. my' \in [Handlers -> Copy] /\ pc' \in [Handlers -> Labels]
      BY <2>6, <2>0, ConcludeType DEF SetupPortForwards
    <3> QED
      BY <2>6, <3>1, ProcType DEF SetupPortForwards, TypeOK
  <2>7. CASE StopRuntime(r)
    <3>1. my' \in [Handlers -> Copy] /\ pc' \in [Handlers -> Labels]
      <4>1. CASE my[r].pid = NoPid
        BY <2>7, <4>1, ConcludeType DEF StopRuntime, Alive
      <4>2. CASE my[r].pid # NoPid /\ ~Alive(my[r].pid)
        BY <2>7, <4>2, ConcludeType DEF StopRuntime, Alive
      <4>3. CASE Alive(my[r].pid)
        <5>1. Goto(r, "await") /\ UNCHANGED my
          BY <2>7, <4>3 DEF StopRuntime, Alive
        <5> QED
          BY <5>1, GotoType DEF TypeOK
      <4> QED
        BY <4>1, <4>2, <4>3
    <3> QED
      BY <2>7, <3>1 DEF StopRuntime, TypeOK
  <2>8. CASE StopObservesExit(r)
    <3>1. my' \in [Handlers -> Copy] /\ pc' \in [Handlers -> Labels]
      BY <2>8, ConcludeType DEF StopObservesExit
    <3> QED
      BY <2>8, <3>1 DEF StopObservesExit, TypeOK
  <2>9. CASE StopTimesOut(r)
    BY <2>9, GotoType, ProcType DEF StopTimesOut, TypeOK
  <2>10. CASE StopGivesUp(r)
    <3>1. my' \in [Handlers -> Copy] /\ pc' \in [Handlers -> Labels]
      BY <2>10, <2>0, ConcludeType DEF StopGivesUp
    <3> QED
      BY <2>10, <3>1 DEF StopGivesUp, TypeOK
  <2>11. CASE PauseRuntime(r)
    <3>1. my' \in [Handlers -> Copy] /\ pc' \in [Handlers -> Labels]
      BY <2>11, <2>0, ConcludeType DEF PauseRuntime
    <3> QED
      BY <2>11, <3>1 DEF PauseRuntime, TypeOK
  <2>12. CASE ResumeRuntime(r)
    <3>1. my' \in [Handlers -> Copy] /\ pc' \in [Handlers -> Labels]
      BY <2>12, <2>0, ConcludeType DEF ResumeRuntime
    <3> QED
      BY <2>12, <3>1 DEF ResumeRuntime, TypeOK
  <2>13. CASE ResolveSnapshot(r)
    <3>1. my' \in [Handlers -> Copy] /\ pc' \in [Handlers -> Labels]
      <4>1. CASE Goto(r, "unlock") /\ UNCHANGED my
        BY <4>1, GotoType DEF TypeOK
      <4>2. CASE Goto(r, "mark") /\ my' = [my EXCEPT ![r].prev = my[r].state]
        BY <4>2, <2>0, CopyFieldType, GotoType
      <4> QED
        BY <2>13, <4>1, <4>2 DEF ResolveSnapshot
    <3> QED
      BY <2>13, <3>1 DEF ResolveSnapshot, TypeOK
  <2>14. CASE LoadSpawn(r)
    <3>1. CASE Goto(r, "restore") /\ UNCHANGED <<proc, sock, my>>
      BY <2>14, <3>1, GotoType DEF LoadSpawn, TypeOK
    <3>2. ASSUME NEW p \in FreshPids,
                 /\ proc' = [proc EXCEPT ![p] = "paused"]
                 /\ sock' = p
                 /\ my' = [my EXCEPT ![r].new = p]
                 /\ Goto(r, "loading")
          PROVE  TypeOK'
      <4>1. p \in Pids
        BY DEF FreshPids
      <4>2. my' \in [Handlers -> Copy]
        BY <3>2, <4>1, CopyFieldType
      <4>3. pc' \in [Handlers -> Labels]
        BY <3>2, GotoType
      <4> QED
        BY <2>14, <3>2, <4>1, <4>2, <4>3 DEF LoadSpawn, TypeOK
    <3> QED
      BY <2>14, <3>1, <3>2 DEF LoadSpawn
  <2>15. CASE LoadCompletes(r)
    <3>1. my' \in [Handlers -> Copy]
      BY <2>15, <2>0, CopyType DEF LoadCompletes
    <3>2. pc' \in [Handlers -> Labels]
      BY <2>15, GotoType DEF LoadCompletes
    <3> QED
      BY <2>15, <3>1, <3>2 DEF LoadCompletes, TypeOK
  <2>16. CASE LoadFails(r)
    BY <2>16, GotoType DEF LoadFails, TypeOK
  <2>17. CASE PersistRunning(r)
    BY <2>17, <2>0, SaveType DEF PersistRunning
  <2>18. CASE UndoLoad(r)
    <3>1. my' \in [Handlers -> Copy]
      BY <2>18, CopyFieldType DEF UndoLoad
    <3>2. pc' \in [Handlers -> Labels]
      BY <2>18, GotoType DEF UndoLoad
    <3> QED
      BY <2>18, <3>1, <3>2, ProcType DEF UndoLoad, TypeOK
  <2>19. CASE RestorePrevious(r)
    BY <2>19, <2>0, SaveType DEF RestorePrevious
  <2>20. CASE MarkFailed(r)
    BY <2>20, <2>0, SaveType DEF MarkFailed
  <2>21. CASE KillRuntime(r)
    BY <2>21, GotoType, ProcType DEF KillRuntime, TypeOK
  <2>22. CASE KillSaves(r)
    <3>1. row' \in [state : VMStates \union {"absent"}, pid : Pids \union {NoPid}]
      BY <2>22, UpdatedType DEF KillSaves, TypeOK
    <3> QED
      BY <2>22, <3>1, ReturnType, FaultType DEF KillSaves, TypeOK
  <2>23. CASE DeleteKills(r)
    <3>1. pc' \in [Handlers -> Labels]
      BY <2>23, GotoType DEF DeleteKills
    <3> QED
      BY <2>23, <3>1, ProcType DEF DeleteKills, TypeOK
  <2>24. CASE DeleteResources(r)
    BY <2>24, GotoType DEF DeleteResources, TypeOK
  <2>25. CASE DeleteRow(r)
    <3>1. /\ pc' \in [Handlers -> Labels]
          /\ op' \in [Handlers -> Ops \union {"none"}]
          /\ my' \in [Handlers -> Copy]
      <4>1. CASE Return(r)
        BY <4>1, ReturnType
      <4>2. CASE Goto(r, "unlock") /\ UNCHANGED <<op, my>>
        BY <4>2, GotoType DEF TypeOK
      <4> QED
        BY <2>25, <4>1, <4>2 DEF DeleteRow
    <3>2. faults' \in 0 .. MaxFaults
      BY <2>25, FaultType DEF DeleteRow, TypeOK
    <3>3. row' \in [state : VMStates \union {"absent"}, pid : Pids \union {NoPid}]
      BY <2>25 DEF DeleteRow, TypeOK
    <3> QED
      BY <2>25, <3>1, <3>2, <3>3 DEF DeleteRow, TypeOK
  <2> QED
    BY <1>0, <2>1, <2>2, <2>3, <2>4, <2>5, <2>6, <2>7, <2>8, <2>9, <2>10, <2>11,
       <2>12, <2>13, <2>14, <2>15, <2>16, <2>17, <2>18, <2>19, <2>20, <2>21,
       <2>22, <2>23, <2>24, <2>25
    DEF HandlerStep
<1>1. ASSUME NEW r \in Handlers, NEW o \in Ops, GetVM(r, o) PROVE TypeOK'
  <2>1. AllowedFrom(o) \subseteq VMStates
    BY DEF AllowedFrom
  <2>2. [BlankCopy EXCEPT !.state = row.state, !.pid = row.pid] \in Copy
    BY <1>1, <2>1 DEF GetVM, BlankCopy, Copy, TypeOK
  <2>3. my' \in [Handlers -> Copy] /\ op' \in [Handlers -> Ops \union {"none"}]
    BY <1>1, <2>2 DEF GetVM, TypeOK
  <2>4. (IF o = "kill" THEN "signal" ELSE "lock") \in Labels
    OBVIOUS
  <2> QED
    BY <1>1, <2>3, <2>4, GotoType DEF GetVM, TypeOK
<1>2. ASSUME NEW p \in Pids, ProcessExits(p) PROVE TypeOK'
  BY <1>2 DEF ProcessExits, TypeOK
<1>3. ASSUME NEW p \in Pids, ExitReads(p) PROVE TypeOK'
  <2>1. seen' \in [Pids -> [state : VMStates, pid : Pids \union {NoPid}]]
    BY <1>3 DEF ExitReads, TypeOK
  <2>2. waiter' \in [Pids -> {"none", "waiting", "read", "done", "lost"}]
    BY <1>3 DEF ExitReads, TypeOK
  <2> QED
    BY <1>3, <2>1, <2>2 DEF ExitReads, TypeOK
<1>4. ASSUME NEW p \in Pids, ExitWrites(p) PROVE TypeOK'
  <2>0. seen[p].state \in VMStates /\ seen[p].pid \in Pids \union {NoPid}
    BY DEF TypeOK
  <2>1. row' \in [state : VMStates \union {"absent"}, pid : Pids \union {NoPid}]
    <3>1. row \in [state : VMStates \union {"absent"}, pid : Pids \union {NoPid}]
      BY DEF TypeOK
    <3>2. row' = Updated(seen[p].state, seen[p].pid) \/ row' = row
      BY <1>4 DEF ExitWrites
    <3> QED
      BY <2>0, <3>1, <3>2, UpdatedType
  <2>2. faults' \in 0 .. MaxFaults
    BY <1>4, FaultType DEF ExitWrites, TypeOK
  <2>3. seen' \in [Pids -> [state : VMStates, pid : Pids \union {NoPid}]]
    BY <1>4 DEF ExitWrites, TypeOK
  <2> QED
    BY <1>4, <2>1, <2>2, <2>3 DEF ExitWrites, TypeOK
<1>5. CASE LockTimesOut
  BY <1>5 DEF LockTimesOut, TypeOK
<1>6. CASE DaemonRestarts
  <2>1. my' \in [Handlers -> Copy]
    BY <1>6, BlankCopyType DEF DaemonRestarts
  <2>2. restarts' \in 0 .. MaxRestarts
    BY <1>6, LifecycleAssumption DEF DaemonRestarts, TypeOK
  <2>3. seen' \in [Pids -> [state : VMStates, pid : Pids \union {NoPid}]]
    BY <1>6 DEF DaemonRestarts
  <2> QED
    BY <1>6, <2>1, <2>2, <2>3 DEF DaemonRestarts, TypeOK
<1>7. CASE UNCHANGED vars
  BY <1>7 DEF vars, TypeOK
<1> QED
  BY <1>0, <1>1, <1>2, <1>3, <1>4, <1>5, <1>6, <1>7 DEF Next, ExitStep

\* Every value the daemon writes to the row, to its processes and to its
\* handlers' copies is one the code can mean.
THEOREM TypeCorrect == Spec => []TypeOK
BY InitTypeOK, NextTypeOK, PTL DEF Spec

-----------------------------------------------------------------------------
(***************************************************************************)
(* Mutual exclusion.  It is inductive once it says who holds the lock.      *)
(***************************************************************************)

\* Whoever is inside an operation is recorded as the owner, in time.
HolderInv == \A r \in Handlers : InCS(r) => lock = r /\ ~expired

\* A step inside an operation, or after it, that leaves the lock alone.
LEMMA InsideStep ==
  ASSUME TypeOK, HolderInv, NEW r \in Handlers, InCS(r), NEW l,
         Goto(r, l), UNCHANGED <<lock, expired>>
  PROVE  HolderInv'
BY DEF TypeOK, HolderInv, InCS, Goto

\* A step that ends outside the lock.
LEMMA OutsideStep ==
  ASSUME TypeOK, HolderInv, NEW r \in Handlers, NEW l, l \notin Critical,
         Goto(r, l), UNCHANGED <<lock, expired>>
  PROVE  HolderInv'
BY DEF TypeOK, HolderInv, InCS, Goto

\* The steps inside an operation: the label moves on, the lock is not touched.
InnerStep(r) ==
    \/ MarkTransitional(r) \/ SaveResult(r)
    \/ StartRuntime(r) \/ SetupPortForwards(r)
    \/ StopRuntime(r) \/ StopObservesExit(r) \/ StopTimesOut(r) \/ StopGivesUp(r)
    \/ PauseRuntime(r) \/ ResumeRuntime(r)
    \/ ResolveSnapshot(r) \/ LoadSpawn(r) \/ LoadCompletes(r) \/ LoadFails(r)
    \/ PersistRunning(r) \/ UndoLoad(r) \/ RestorePrevious(r) \/ MarkFailed(r)
    \/ DeleteKills(r) \/ DeleteResources(r)

LEMMA InnerStepShape ==
  ASSUME NEW r \in Handlers, InnerStep(r)
  PROVE  InCS(r) /\ UNCHANGED <<lock, expired>> /\ \E l : Goto(r, l)
<1> USE DEF InCS, Critical, Save, Conclude
<1>1. CASE MarkTransitional(r) \/ SaveResult(r) \/ PersistRunning(r)
           \/ RestorePrevious(r) \/ MarkFailed(r)
  BY <1>1 DEF MarkTransitional, SaveResult, PersistRunning, RestorePrevious, MarkFailed
<1>2. CASE StartRuntime(r) \/ SetupPortForwards(r)
  BY <1>2 DEF StartRuntime, SetupPortForwards
<1>3. CASE StopRuntime(r)
  BY <1>3 DEF StopRuntime, Alive
<1>4. CASE StopObservesExit(r) \/ StopTimesOut(r) \/ StopGivesUp(r)
  BY <1>4 DEF StopObservesExit, StopTimesOut, StopGivesUp
<1>5. CASE PauseRuntime(r) \/ ResumeRuntime(r)
  BY <1>5 DEF PauseRuntime, ResumeRuntime
<1>6. CASE ResolveSnapshot(r) \/ LoadSpawn(r) \/ LoadCompletes(r) \/ LoadFails(r)
           \/ UndoLoad(r)
  BY <1>6 DEF ResolveSnapshot, LoadSpawn, LoadCompletes, LoadFails, UndoLoad
<1>7. CASE DeleteKills(r) \/ DeleteResources(r)
  BY <1>7 DEF DeleteKills, DeleteResources
<1> QED
  BY <1>1, <1>2, <1>3, <1>4, <1>5, <1>6, <1>7 DEF InnerStep

LEMMA HolderStep ==
  ASSUME ~SlowOps, TypeOK, HolderInv, [Next]_vars
  PROVE  HolderInv'
<1>1. ASSUME NEW r \in Handlers, AcquireLock(r) PROVE HolderInv'
  <2>1. CASE LockFree
    <3>1. \A q \in Handlers : ~InCS(q)
      BY <2>1, LifecycleAssumption DEF LockFree, HolderInv
    <3>2. lock' = r /\ expired' = FALSE /\ Goto(r, FirstStep(op[r]))
      BY <1>1, <2>1 DEF AcquireLock
    <3> QED
      BY <3>1, <3>2 DEF HolderInv, InCS, Goto, TypeOK
  <2>2. CASE ~LockFree
    BY <1>1, <2>2, OutsideStep DEF AcquireLock, Return, Critical
  <2> QED
    BY <2>1, <2>2
<1>2. ASSUME NEW r \in Handlers, ReleaseLock(r) \/ DeleteRow(r) PROVE HolderInv'
  <2>1. \A q \in Handlers \ {r} : ~InCS(q)
    BY <1>2 DEF ReleaseLock, DeleteRow, HolderInv, InCS, Critical
  <2>2. CASE Goto(r, "idle")
    BY <2>1, <2>2 DEF HolderInv, InCS, Goto, TypeOK, Critical
  <2>3. CASE Goto(r, "unlock") /\ UNCHANGED <<lock, expired>>
    BY <1>2, <2>3, InsideStep DEF ReleaseLock, DeleteRow, InCS, Critical
  <2> QED
    BY <1>2, <2>2, <2>3 DEF ReleaseLock, DeleteRow, Return
<1>3. ASSUME NEW r \in Handlers, InnerStep(r) PROVE HolderInv'
  BY <1>3, InnerStepShape, InsideStep
<1>4. ASSUME NEW r \in Handlers, KillRuntime(r) \/ KillSaves(r) PROVE HolderInv'
  BY <1>4, OutsideStep DEF KillRuntime, KillSaves, Return, Critical
<1>5. ASSUME NEW r \in Handlers, NEW o \in Ops, GetVM(r, o) PROVE HolderInv'
  <2>1. (IF o = "kill" THEN "signal" ELSE "lock") \notin Critical
    BY DEF Critical
  <2> QED
    BY <1>5, <2>1, OutsideStep DEF GetVM
<1>6. ASSUME NEW p \in Pids, ProcessExits(p) \/ ExitStep(p) PROVE HolderInv'
  BY <1>6 DEF ProcessExits, ExitStep, ExitReads, ExitWrites, HolderInv, InCS
<1>7. CASE LockTimesOut
  BY <1>7 DEF LockTimesOut, HolderInv, InCS
<1>8. CASE DaemonRestarts
  BY <1>8 DEF DaemonRestarts, HolderInv, InCS, Critical
<1>9. CASE UNCHANGED vars
  BY <1>9 DEF vars, HolderInv, InCS
<1> QED
  BY <1>1, <1>2, <1>3, <1>4, <1>5, <1>6, <1>7, <1>8, <1>9
  DEF Next, HandlerStep, InnerStep

\* For any number of handlers, failed writes and restarts: as long as no
\* operation outlasts the lock timeout, two of them never overlap.
THEOREM LockExclusionHolds ==
  ASSUME ~SlowOps
  PROVE  Spec => []LockExclusion
<1>1. Init => HolderInv
  BY DEF Init, HolderInv, InCS, Critical
<1>2. TypeOK /\ HolderInv /\ [Next]_vars => HolderInv'
  BY HolderStep
<1>3. HolderInv => LockExclusion
  BY DEF HolderInv, LockExclusion
<1> QED
  BY <1>1, <1>2, <1>3, TypeCorrect, PTL DEF Spec

-----------------------------------------------------------------------------
\* Every step but DeleteRow leaves the row alone or writes it with UpdateVM.
LEMMA RowStep ==
  ASSUME [Next]_vars
  PROVE  \/ row' = row
         \/ row'.state = "absent"
         \/ \E s, p : row' = Updated(s, p)
<1>1. ASSUME NEW r \in Handlers,
             \/ MarkTransitional(r) \/ SaveResult(r) \/ PersistRunning(r)
             \/ RestorePrevious(r) \/ MarkFailed(r)
      PROVE  row' = row \/ \E s, p : row' = Updated(s, p)
  BY <1>1 DEF MarkTransitional, SaveResult, PersistRunning, RestorePrevious,
              MarkFailed, Save
<1>2. ASSUME NEW r \in Handlers,
             \/ StartRuntime(r) \/ SetupPortForwards(r)
             \/ StopRuntime(r) \/ StopObservesExit(r) \/ StopTimesOut(r)
             \/ StopGivesUp(r) \/ PauseRuntime(r) \/ ResumeRuntime(r)
             \/ ResolveSnapshot(r) \/ LoadSpawn(r) \/ LoadCompletes(r)
             \/ LoadFails(r) \/ UndoLoad(r)
             \/ DeleteKills(r) \/ DeleteResources(r)
      PROVE  row' = row
  BY <1>2 DEF StartRuntime, SetupPortForwards, StopRuntime, StopObservesExit,
              StopTimesOut, StopGivesUp, PauseRuntime, ResumeRuntime,
              ResolveSnapshot, LoadSpawn, LoadCompletes, LoadFails, UndoLoad,
              DeleteKills, DeleteResources
<1>3. ASSUME NEW r \in Handlers,
             AcquireLock(r) \/ ReleaseLock(r) \/ KillRuntime(r) \/ KillSaves(r)
             \/ DeleteRow(r)
      PROVE  row' = row \/ row'.state = "absent" \/ \E s, p : row' = Updated(s, p)
  BY <1>3 DEF AcquireLock, ReleaseLock, KillRuntime, KillSaves, DeleteRow
<1>4. ASSUME NEW r \in Handlers, NEW o \in Ops, GetVM(r, o) PROVE row' = row
  BY <1>4 DEF GetVM
<1>5. ASSUME NEW p \in Pids, ProcessExits(p) \/ ExitStep(p)
      PROVE  row' = row \/ \E s, q : row' = Updated(s, q)
  BY <1>5 DEF ProcessExits, ExitStep, ExitReads, ExitWrites
<1>6. CASE LockTimesOut \/ DaemonRestarts \/ UNCHANGED vars
  BY <1>6 DEF LockTimesOut, DaemonRestarts, vars
<1> QED
  BY <1>1, <1>2, <1>3, <1>4, <1>5, <1>6 DEF Next, HandlerStep

\* A deleted VM is never written back, whatever kill, exit handler or slow
\* operation still has a copy of it, and whatever happens to its lock.
THEOREM DeletedStaysDeleted == Spec => NoResurrection
<1>1. [Next]_vars => (row.state = "absent" => row'.state = "absent")
  BY RowStep DEF Updated
<1> QED
  BY <1>1, PTL DEF Spec, NoResurrection

-----------------------------------------------------------------------------
\* A step of handler r that leaves the waiters alone and brings no process to
\* life, while r is not loading one, keeps every process watched.
LEMMA WatchedFrame ==
  ASSUME TypeOK, EveryProcessWatched, NEW r \in Handlers, pc[r] # "loading",
         \A q \in Handlers \ {r} : pc'[q] = pc[q] /\ my'[q] = my[q],
         \A p \in Pids : Alive(p)' => Alive(p),
         waiter' = waiter
  PROVE  EveryProcessWatched'
BY DEF EveryProcessWatched

LEMMA DoomedAlive ==
  ASSUME TypeOK, NEW d \in Pids \union {NoPid}, proc' = Doomed(d)
  PROVE  \A p \in Pids : Alive(p)' => Alive(p)
BY DEF Doomed, Alive, TypeOK

LEMMA WatchedStep ==
  ASSUME TypeOK, EveryProcessWatched, [Next]_vars
  PROVE  EveryProcessWatched'
<1>1. ASSUME NEW r \in Handlers,
             \/ AcquireLock(r) \/ ReleaseLock(r) \/ MarkTransitional(r)
             \/ SaveResult(r) \/ StopRuntime(r) \/ StopObservesExit(r)
             \/ StopGivesUp(r) \/ ResolveSnapshot(r) \/ PersistRunning(r)
             \/ RestorePrevious(r) \/ MarkFailed(r) \/ KillSaves(r)
             \/ DeleteResources(r) \/ DeleteRow(r)
      PROVE  EveryProcessWatched'
  <2>1. proc' = proc /\ waiter' = waiter /\ pc[r] # "loading"
    BY <1>1 DEF AcquireLock, ReleaseLock, MarkTransitional, SaveResult,
                StopRuntime, StopObservesExit, StopGivesUp, ResolveSnapshot,
                PersistRunning, RestorePrevious, MarkFailed, KillSaves,
                DeleteResources, DeleteRow, Save
  <2>2. \A q \in Handlers \ {r} : pc'[q] = pc[q] /\ my'[q] = my[q]
    BY <1>1 DEF AcquireLock, ReleaseLock, MarkTransitional, SaveResult,
                StopRuntime, StopObservesExit, StopGivesUp, ResolveSnapshot,
                PersistRunning, RestorePrevious, MarkFailed, KillSaves,
                DeleteResources, DeleteRow, Save, Conclude, Return, Goto, TypeOK
  <2> QED
    BY <2>1, <2>2, WatchedFrame DEF Alive
<1>2. ASSUME NEW r \in Handlers,
             \/ SetupPortForwards(r) \/ StopTimesOut(r) \/ UndoLoad(r)
             \/ KillRuntime(r) \/ DeleteKills(r)
      PROVE  EveryProcessWatched'
  <2>1. waiter' = waiter /\ pc[r] # "loading"
    BY <1>2 DEF SetupPortForwards, StopTimesOut, UndoLoad, KillRuntime, DeleteKills
  <2>2. proc' = proc \/ proc' = Doomed(my[r].pid)
    BY <1>2 DEF SetupPortForwards, StopTimesOut, UndoLoad, KillRuntime, DeleteKills
  <2>3. \A p \in Pids : Alive(p)' => Alive(p)
    BY <2>2, DoomedAlive DEF TypeOK, Copy, Alive
  <2>4. \A q \in Handlers \ {r} : pc'[q] = pc[q] /\ my'[q] = my[q]
    BY <1>2 DEF SetupPortForwards, StopTimesOut, UndoLoad, KillRuntime,
                DeleteKills, Conclude, Goto, TypeOK
  <2> QED
    BY <2>1, <2>3, <2>4, WatchedFrame
<1>3. ASSUME NEW r \in Handlers, PauseRuntime(r) \/ ResumeRuntime(r)
      PROVE  EveryProcessWatched'
  <2>1. waiter' = waiter /\ pc[r] # "loading"
    BY <1>3 DEF PauseRuntime, ResumeRuntime
  <2>2. \A p \in Pids : Alive(p)' => Alive(p)
    BY <1>3 DEF PauseRuntime, ResumeRuntime, ApiUp, Live, Alive, TypeOK
  <2>3. \A q \in Handlers \ {r} : pc'[q] = pc[q] /\ my'[q] = my[q]
    BY <1>3 DEF PauseRuntime, ResumeRuntime, Conclude, Goto, TypeOK
  <2> QED
    BY <2>1, <2>2, <2>3, WatchedFrame
<1>4. ASSUME NEW r \in Handlers, StartRuntime(r) PROVE EveryProcessWatched'
  <2>1. \A q \in Handlers \ {r} : pc'[q] = pc[q] /\ my'[q] = my[q]
    BY <1>4 DEF StartRuntime, Conclude, Goto, TypeOK
  <2>2. CASE proc' = proc /\ waiter' = waiter
    BY <1>4, <2>1, <2>2, WatchedFrame DEF StartRuntime, Alive
  <2>3. ASSUME NEW p \in FreshPids,
               proc' = [proc EXCEPT ![p] = "running"],
               waiter' = [waiter EXCEPT ![p] = "waiting"]
        PROVE  EveryProcessWatched'
    <3>1. p \in Pids /\ waiter'[p] = "waiting"
      BY <2>3 DEF FreshPids, TypeOK
    <3>2. \A q \in Pids \ {p} : (Alive(q)' => Alive(q)) /\ waiter'[q] = waiter[q]
      BY <2>3 DEF Alive, TypeOK
    <3> QED
      BY <1>4, <2>1, <3>1, <3>2 DEF StartRuntime, EveryProcessWatched
  <2> QED
    BY <1>4, <2>2, <2>3 DEF StartRuntime
<1>5. ASSUME NEW r \in Handlers, LoadSpawn(r) PROVE EveryProcessWatched'
  <2>1. waiter' = waiter /\ pc[r] # "loading"
    BY <1>5 DEF LoadSpawn
  <2>2. \A q \in Handlers \ {r} : pc'[q] = pc[q] /\ my'[q] = my[q]
    BY <1>5 DEF LoadSpawn, Goto, TypeOK
  <2>3. CASE proc' = proc
    BY <2>1, <2>2, <2>3, WatchedFrame DEF Alive
  <2>4. ASSUME NEW p \in FreshPids,
               proc' = [proc EXCEPT ![p] = "paused"],
               my' = [my EXCEPT ![r].new = p], Goto(r, "loading")
        PROVE  EveryProcessWatched'
    <3>1. pc'[r] = "loading" /\ my'[r].new = p
      BY <2>4 DEF Goto, TypeOK, Copy
    <3>2. \A q \in Pids \ {p} : Alive(q)' => Alive(q)
      BY <2>4 DEF Alive, TypeOK
    <3> QED
      BY <2>1, <2>2, <3>1, <3>2 DEF EveryProcessWatched
  <2> QED
    BY <1>5, <2>3, <2>4 DEF LoadSpawn
<1>6. ASSUME NEW r \in Handlers, LoadCompletes(r) PROVE EveryProcessWatched'
  <2> DEFINE p == my[r].new
  <2>1. p \in Pids /\ waiter'[p] = "waiting"
    BY <1>6 DEF LoadCompletes, Live, TypeOK, Copy
  <2>2. \A q \in Pids \ {p} : (Alive(q)' => Alive(q)) /\ waiter'[q] = waiter[q]
    BY <1>6 DEF LoadCompletes, Alive, TypeOK
  <2>3. \A q \in Handlers \ {r} : pc'[q] = pc[q] /\ my'[q] = my[q]
    BY <1>6 DEF LoadCompletes, Goto, TypeOK
  <2> QED
    BY <2>1, <2>2, <2>3 DEF EveryProcessWatched
<1>7. ASSUME NEW r \in Handlers, LoadFails(r) PROVE EveryProcessWatched'
  <2> DEFINE d == my[r].new
  <2>1. /\ \A q \in Pids : Alive(q)' => q # d /\ Alive(q)
        /\ waiter' = waiter
    BY <1>7 DEF LoadFails, waitVars, Alive, TypeOK
  <2>2. \A q \in Handlers \ {r} : pc'[q] = pc[q] /\ my'[q] = my[q]
    BY <1>7 DEF LoadFails, Goto, TypeOK
  <2>3. SUFFICES ASSUME NEW q \in Pids, Alive(q)'
        PROVE  \/ waiter'[q] \in {"waiting", "lost"}
               \/ \E h \in Handlers : pc'[h] = "loading" /\ my'[h].new = q
    BY DEF EveryProcessWatched
  <2>4. q # d /\ Alive(q)
    BY <2>1, <2>3
  <2> HIDE DEF d
  <2>5. CASE waiter[q] \in {"waiting", "lost"}
    BY <2>5, <2>1
  <2>6. ASSUME NEW h \in Handlers, pc[h] = "loading", my[h].new = q
        PROVE  pc'[h] = "loading" /\ my'[h].new = q
    BY <2>6, <2>4, <2>2 DEF d
  <2> QED
    BY <2>4, <2>5, <2>6 DEF EveryProcessWatched
<1>8. ASSUME NEW r \in Handlers, NEW o \in Ops, GetVM(r, o) PROVE EveryProcessWatched'
  <2>1. \A q \in Handlers \ {r} : pc'[q] = pc[q] /\ my'[q] = my[q]
    BY <1>8 DEF GetVM, Goto, TypeOK
  <2> QED
    BY <1>8, <2>1, WatchedFrame DEF GetVM, Alive
<1>9. ASSUME NEW p \in Pids, ProcessExits(p) \/ ExitStep(p) PROVE EveryProcessWatched'
  <2>1. pc' = pc /\ my' = my
    BY <1>9 DEF ProcessExits, ExitStep, ExitReads, ExitWrites
  <2>2. ASSUME NEW q \in Pids, Alive(q)' PROVE Alive(q)
    BY <1>9, <2>2 DEF ProcessExits, ExitStep, ExitReads, ExitWrites, Alive, TypeOK
  <2>3. ASSUME NEW q \in Pids, q # p PROVE waiter'[q] = waiter[q]
    BY <1>9, <2>3 DEF ProcessExits, ExitStep, ExitReads, ExitWrites, TypeOK
  <2>4. CASE ProcessExits(p)
    BY <2>4, <2>1, <2>2 DEF ProcessExits, waitVars, EveryProcessWatched
  <2>5. CASE ExitReads(p)
    <3>1. ~Alive(p)'
      BY <2>5 DEF ExitReads, rtVars, Alive
    <3> QED
      BY <3>1, <2>1, <2>2, <2>3 DEF EveryProcessWatched
  <2>6. CASE ExitWrites(p)
    <3>1. proc' = proc /\ waiter[p] = "read"
      BY <2>6 DEF ExitWrites
    <3>2. Alive(p)' => \E r \in Handlers : pc[r] = "loading" /\ my[r].new = p
      BY <3>1, <2>2 DEF EveryProcessWatched
    <3> QED
      BY <3>2, <2>1, <2>2, <2>3 DEF EveryProcessWatched
  <2> QED
    BY <1>9, <2>4, <2>5, <2>6 DEF ExitStep
<1>10. CASE DaemonRestarts
  BY <1>10 DEF DaemonRestarts, EveryProcessWatched, Alive
<1>11. CASE LockTimesOut \/ UNCHANGED vars
  BY <1>11 DEF LockTimesOut, vars, EveryProcessWatched, Alive
<1> QED
  BY <1>1, <1>2, <1>3, <1>4, <1>5, <1>6, <1>7, <1>8, <1>9, <1>10, <1>11
  DEF Next, HandlerStep

\* Every process the daemon has started is reaped by somebody, whatever fails
\* and however often the daemon restarts.
THEOREM ProcessesAreWatched == Spec => []EveryProcessWatched
<1>1. Init => EveryProcessWatched
  BY DEF Init, EveryProcessWatched, Alive
<1>2. TypeOK /\ EveryProcessWatched /\ [Next]_vars => EveryProcessWatched'
  BY WatchedStep
<1> QED
  BY <1>1, <1>2, TypeCorrect, PTL DEF Spec

-----------------------------------------------------------------------------
(***************************************************************************)
(* Who is responsible for a transitional state.  TransitionalOwned is not  *)
(* inductive: the owner must be at a step from which the row is written    *)
(* again, and what is written then, by it or by anybody else who kept a    *)
(* copy, must be a resting state.                                          *)
(***************************************************************************)
Working == {"call", "forward", "await", "force", "loading", "persist", "undo",
            "restore", "markfailed", "save"}

CopyResting(r) ==
    /\ my[r].prev \in Resting
    /\ pc[r] = "resolve" => op[r] = "load"
    /\ pc[r] \in {"lock", "resolve"} /\ op[r] = "load" => my[r].state \in Resting
    /\ pc[r] = "save" => my[r].state \in Resting

CopiesResting == /\ \A p \in Pids : seen[p].state \in Resting
                 /\ \A r \in Handlers : CopyResting(r)

Owned == row.state \in Transitional =>
           \E r \in Handlers : pc[r] \in Working /\ row.state = TransitionalState(op[r])

OwnedInv == CopiesResting /\ (NoFaultYet => Owned)

\* A handler's step leaves the local state of the others alone.
LEMMA OthersUnchanged ==
  ASSUME TypeOK, NEW r \in Handlers, HandlerStep(r)
  PROVE  \A q \in Handlers \ {r} : pc'[q] = pc[q] /\ op'[q] = op[q] /\ my'[q] = my[q]
<1>1. CASE \/ AcquireLock(r) \/ ReleaseLock(r) \/ MarkTransitional(r) \/ SaveResult(r)
           \/ PersistRunning(r) \/ RestorePrevious(r) \/ MarkFailed(r)
           \/ KillSaves(r) \/ DeleteRow(r)
  BY <1>1 DEF AcquireLock, ReleaseLock, MarkTransitional, SaveResult, PersistRunning,
              RestorePrevious, MarkFailed, KillSaves, DeleteRow,
              Save, Return, Goto, TypeOK
<1>2. CASE \/ StartRuntime(r) \/ SetupPortForwards(r) \/ StopRuntime(r)
           \/ StopObservesExit(r) \/ StopTimesOut(r) \/ StopGivesUp(r)
           \/ PauseRuntime(r) \/ ResumeRuntime(r)
  BY <1>2 DEF StartRuntime, SetupPortForwards, StopRuntime, StopObservesExit,
              StopTimesOut, StopGivesUp, PauseRuntime, ResumeRuntime,
              Conclude, Goto, TypeOK
<1>3. CASE \/ ResolveSnapshot(r) \/ LoadSpawn(r) \/ LoadCompletes(r) \/ LoadFails(r)
           \/ UndoLoad(r) \/ KillRuntime(r) \/ DeleteKills(r) \/ DeleteResources(r)
  BY <1>3 DEF ResolveSnapshot, LoadSpawn, LoadCompletes, LoadFails, UndoLoad,
              KillRuntime, DeleteKills, DeleteResources, Goto, TypeOK
<1> QED
  BY <1>1, <1>2, <1>3 DEF HandlerStep

\* Concluding a runtime call with a resting state.
LEMMA ConcludeResting ==
  ASSUME TypeOK, NEW r \in Handlers, CopyResting(r),
         NEW s \in Resting, NEW p \in Pids \union {NoPid}, Conclude(r, s, p)
  PROVE  CopyResting(r)' /\ pc'[r] = "save"
<1>1. my'[r].state = s /\ my'[r].prev = my[r].prev
  BY CopyType DEF Conclude
<1>2. pc'[r] = "save"
  BY DEF Conclude, Goto, TypeOK
<1> QED
  BY <1>1, <1>2 DEF CopyResting

\* Saving a state: whatever the write does, the copy the handler keeps is
\* looked at again only if it is a resting one.
LEMMA SaveResting ==
  ASSUME TypeOK, NEW r \in Handlers, CopyResting(r),
         NEW s \in VMStates, NEW p \in Pids \union {NoPid},
         NEW ok \in Labels \ {"lock", "resolve", "save"},
         NEW bad \in Labels \ {"lock", "resolve", "save"}, Save(r, s, p, ok, bad)
  PROVE  CopyResting(r)' /\ pc'[r] \in {ok, bad}
<1>1. my'[r].prev = my[r].prev
  BY CopyType DEF Save
<1>2. pc'[r] \in {ok, bad}
  BY DEF Save, Goto, TypeOK
<1> QED
  BY <1>1, <1>2 DEF CopyResting

LEMMA ReturnResting ==
  ASSUME TypeOK, NEW r \in Handlers, Return(r)
  PROVE  CopyResting(r)' /\ pc'[r] = "idle"
BY DEF Return, Goto, TypeOK, CopyResting, BlankCopy

\* A step that moves r elsewhere without changing what its copy says.
LEMMA GotoResting ==
  ASSUME TypeOK, NEW r \in Handlers, CopyResting(r),
         NEW l \in Labels \ {"lock", "resolve", "save"}, Goto(r, l),
         my'[r].prev = my[r].prev
  PROVE  CopyResting(r)' /\ pc'[r] = l
BY DEF Goto, TypeOK, CopyResting

LEMMA HandlerResting ==
  ASSUME TypeOK, NEW r \in Handlers, CopyResting(r), HandlerStep(r)
  PROVE  CopyResting(r)'
<1>0. /\ my[r] \in Copy
      /\ my[r].pid \in Pids \union {NoPid} /\ my[r].state \in VMStates
      /\ my[r].prev \in Resting
  BY CopyFieldType DEF CopyResting
<1>1. CASE AcquireLock(r)
  <2>1. CASE Return(r)
    BY <2>1, ReturnResting
  <2>2. CASE my' = my /\ op' = op /\ Goto(r, FirstStep(op[r]))
    BY <1>1, <2>2 DEF AcquireLock, Goto, FirstStep, CopyResting, TypeOK
  <2> QED
    BY <1>1, <2>1, <2>2 DEF AcquireLock
<1>2. CASE ReleaseLock(r) \/ KillSaves(r)
  BY <1>2, ReturnResting DEF ReleaseLock, KillSaves
<1>3. CASE MarkTransitional(r)
  <2>1. TransitionalState(op[r]) \in VMStates
    BY DEF TransitionalState
  <2>2. (IF op[r] = "stop" THEN "call" ELSE "unlock") \in Labels \ {"lock", "resolve", "save"}
    OBVIOUS
  <2> QED
    BY <1>0, <1>3, <2>1, <2>2, SaveResting DEF MarkTransitional
<1>4. CASE SaveResult(r)
  BY <1>0, <1>4, SaveResting DEF SaveResult
<1>5. CASE PersistRunning(r)
  BY <1>0, <1>5, SaveResting DEF PersistRunning
<1>6. CASE RestorePrevious(r)
  BY <1>0, <1>6, SaveResting DEF RestorePrevious
<1>7. CASE MarkFailed(r)
  BY <1>0, <1>7, SaveResting DEF MarkFailed
<1>8. CASE StartRuntime(r)
  <2>1. CASE Conclude(r, "failed", my[r].pid)
    BY <1>0, <2>1, ConcludeResting
  <2>2. ASSUME NEW p, my' = [my EXCEPT ![r].pid = p], Goto(r, "forward")
        PROVE  CopyResting(r)'
    BY <1>0, <2>2, GotoResting DEF TypeOK, Copy
  <2> QED
    BY <1>8, <2>1, <2>2 DEF StartRuntime
<1>9. CASE SetupPortForwards(r)
  BY <1>0, <1>9, ConcludeResting DEF SetupPortForwards
<1>10. CASE StopRuntime(r)
  <2>1. CASE Goto(r, "await") /\ my' = my
    BY <2>1, GotoResting
  <2>2. CASE Conclude(r, "failed", NoPid) \/ Conclude(r, "stopped", NoPid)
    BY <2>2, ConcludeResting
  <2> QED
    BY <1>10, <1>0, <2>1, <2>2 DEF StopRuntime
<1>11. CASE StopObservesExit(r)
  BY <1>11, ConcludeResting DEF StopObservesExit
<1>12. CASE StopTimesOut(r)
  BY <1>12, GotoResting DEF StopTimesOut
<1>13. CASE StopGivesUp(r)
  BY <1>0, <1>13, ConcludeResting DEF StopGivesUp
<1>14. CASE PauseRuntime(r)
  BY <1>0, <1>14, ConcludeResting DEF PauseRuntime
<1>15. CASE ResumeRuntime(r)
  BY <1>0, <1>15, ConcludeResting DEF ResumeRuntime
<1>16. CASE ResolveSnapshot(r)
  <2>1. CASE Goto(r, "unlock") /\ my' = my
    BY <2>1, GotoResting
  <2>2. CASE Goto(r, "mark") /\ my' = [my EXCEPT ![r].prev = my[r].state]
    <3>1. my[r].state \in Resting
      BY <1>16 DEF ResolveSnapshot, CopyResting
    <3>2. my'[r].prev = my[r].state /\ pc'[r] = "mark"
      BY <1>0, <2>2 DEF Goto, TypeOK, Copy
    <3> QED
      BY <3>1, <3>2 DEF CopyResting
  <2> QED
    BY <1>16, <2>1, <2>2 DEF ResolveSnapshot
<1>17. CASE LoadSpawn(r)
  <2>1. CASE Goto(r, "restore") /\ my' = my
    BY <2>1, GotoResting
  <2>2. ASSUME NEW p, my' = [my EXCEPT ![r].new = p], Goto(r, "loading")
        PROVE  CopyResting(r)'
    BY <1>0, <2>2, GotoResting DEF TypeOK, Copy
  <2> QED
    BY <1>17, <2>1, <2>2 DEF LoadSpawn
<1>18. CASE LoadCompletes(r) \/ UndoLoad(r)
  <2>1. my'[r].prev = my[r].prev
    BY <1>0, <1>18 DEF LoadCompletes, UndoLoad, TypeOK, Copy
  <2> QED
    BY <1>18, <2>1, GotoResting DEF LoadCompletes, UndoLoad
<1>19. CASE LoadFails(r) \/ KillRuntime(r) \/ DeleteResources(r)
  BY <1>19, GotoResting DEF LoadFails, KillRuntime, DeleteResources
<1>20. CASE DeleteKills(r)
  <2>1. my' = my /\ (Goto(r, "clean") \/ Goto(r, "unlock"))
    BY <1>20 DEF DeleteKills
  <2> QED
    BY <2>1, GotoResting
<1>21. CASE DeleteRow(r)
  BY <1>21, ReturnResting, GotoResting DEF DeleteRow
<1> QED
  BY <1>1, <1>2, <1>3, <1>4, <1>5, <1>6, <1>7, <1>8, <1>9, <1>10, <1>11, <1>12,
     <1>13, <1>14, <1>15, <1>16, <1>17, <1>18, <1>19, <1>20, <1>21 DEF HandlerStep

LEMMA CopiesStep ==
  ASSUME TypeOK, CopiesResting, [Next]_vars
  PROVE  CopiesResting'
<1>1. ASSUME NEW r \in Handlers, HandlerStep(r) PROVE CopiesResting'
  <2>1. seen' = seen
    BY <1>1 DEF HandlerStep, AcquireLock, ReleaseLock, MarkTransitional,
       SaveResult, StartRuntime, SetupPortForwards, StopRuntime, StopObservesExit,
       StopTimesOut, StopGivesUp, PauseRuntime, ResumeRuntime, ResolveSnapshot,
       LoadSpawn, LoadCompletes, LoadFails, PersistRunning, UndoLoad, RestorePrevious,
       MarkFailed, KillRuntime, KillSaves, DeleteKills, DeleteResources, DeleteRow, Save
  <2>2. CopyResting(r)'
    BY <1>1, HandlerResting DEF CopiesResting
  <2>3. ASSUME NEW q \in Handlers \ {r} PROVE CopyResting(q)'
    BY <1>1, OthersUnchanged DEF CopiesResting, CopyResting
  <2> QED
    BY <2>1, <2>2, <2>3 DEF CopiesResting
<1>2. ASSUME NEW r \in Handlers, NEW o \in Ops, GetVM(r, o) PROVE CopiesResting'
  <2>1. /\ my'[r] = [BlankCopy EXCEPT !.state = row.state, !.pid = row.pid]
        /\ op'[r] = o /\ pc'[r] \in {"signal", "lock"} /\ seen' = seen
    BY <1>2 DEF GetVM, Goto, TypeOK
  <2>2. my'[r].prev = "created" /\ my'[r].state = row.state
    BY <2>1 DEF BlankCopy
  <2>3. o = "load" => row.state \in Resting
    BY <1>2 DEF GetVM, AllowedFrom
  <2>4. CopyResting(r)'
    BY <2>1, <2>2, <2>3 DEF CopyResting
  <2>5. ASSUME NEW q \in Handlers \ {r} PROVE CopyResting(q)'
    BY <1>2 DEF GetVM, Goto, TypeOK, CopiesResting, CopyResting
  <2> QED
    BY <2>1, <2>4, <2>5 DEF CopiesResting
<1>3. ASSUME NEW p \in Pids, ProcessExits(p) \/ ExitStep(p) PROVE CopiesResting'
  <2>1. pc' = pc /\ op' = op /\ my' = my
    BY <1>3 DEF ProcessExits, ExitStep, ExitReads, ExitWrites
  <2>2. \/ seen' = seen
        \/ \E v \in [state : Resting, pid : Pids \union {NoPid}] :
             seen' = [seen EXCEPT ![p] = v]
    <3>1. CASE ProcessExits(p)
      BY <3>1 DEF ProcessExits
    <3>2. CASE ExitReads(p)
      BY <3>2 DEF ExitReads, TypeOK
    <3>3. CASE ExitWrites(p)
      BY <3>3 DEF ExitWrites
    <3> QED
      BY <1>3, <3>1, <3>2, <3>3 DEF ExitStep
  <2>3. \A q \in Pids : seen'[q].state \in Resting
    BY <2>2 DEF CopiesResting, TypeOK
  <2> QED
    BY <2>1, <2>3 DEF CopiesResting, CopyResting
<1>4. CASE DaemonRestarts
  BY <1>4 DEF DaemonRestarts, BlankCopy, CopiesResting, CopyResting
<1>5. CASE LockTimesOut \/ UNCHANGED vars
  BY <1>5 DEF LockTimesOut, vars, CopiesResting, CopyResting
<1> QED
  BY <1>1, <1>2, <1>3, <1>4, <1>5 DEF Next

\* A step of r that writes no row, and before which r owns nothing or after
\* which it is still at work.
LEMMA OwnedFrame ==
  ASSUME TypeOK, Owned, NEW r \in Handlers, row' = row,
         pc[r] \notin Working \/ (pc'[r] \in Working /\ op'[r] = op[r]),
         \A q \in Handlers \ {r} : pc'[q] = pc[q] /\ op'[q] = op[q]
  PROVE  Owned'
<1>1. SUFFICES ASSUME row.state \in Transitional
      PROVE \E q \in Handlers : pc'[q] \in Working /\ row.state = TransitionalState(op'[q])
  BY DEF Owned, TransitionalState
<1>2. PICK q \in Handlers : pc[q] \in Working /\ row.state = TransitionalState(op[q])
  BY <1>1 DEF Owned
<1>3. pc'[q] \in Working /\ op'[q] = op[q]
  BY <1>2
<1> QED
  BY <1>2, <1>3

LEMMA OwnedHandler ==
  ASSUME TypeOK, CopiesResting, Owned, NoFaultYet, NoFaultYet',
         NEW r \in Handlers, HandlerStep(r)
  PROVE  Owned'
<1> USE DEF Working
<1>0. /\ CopyResting(r) /\ ~Fault
      /\ \A q \in Handlers \ {r} : pc'[q] = pc[q] /\ op'[q] = op[q]
  BY OthersUnchanged DEF CopiesResting, NoFaultYet, Fault
<1>1. CASE AcquireLock(r) \/ ReleaseLock(r) \/ ResolveSnapshot(r) \/ KillRuntime(r)
           \/ DeleteKills(r) \/ DeleteResources(r)
  <2>1. row' = row /\ pc[r] \notin Working
    BY <1>1 DEF AcquireLock, ReleaseLock, ResolveSnapshot, KillRuntime, DeleteKills,
                DeleteResources
  <2> QED
    BY <1>0, <2>1, OwnedFrame
<1>2. CASE \/ StartRuntime(r) \/ SetupPortForwards(r) \/ StopRuntime(r)
           \/ StopObservesExit(r) \/ StopTimesOut(r) \/ StopGivesUp(r)
           \/ PauseRuntime(r) \/ ResumeRuntime(r)
           \/ LoadSpawn(r) \/ LoadCompletes(r) \/ LoadFails(r) \/ UndoLoad(r)
  <2>1. row' = row /\ op' = op
    BY <1>2 DEF StartRuntime, SetupPortForwards, StopRuntime, StopObservesExit,
                StopTimesOut, StopGivesUp, PauseRuntime, ResumeRuntime, LoadSpawn,
                LoadCompletes, LoadFails, UndoLoad
  <2>2. \E l \in Working : Goto(r, l)
    BY <1>2 DEF StartRuntime, SetupPortForwards, StopRuntime, StopObservesExit,
                StopTimesOut, StopGivesUp, PauseRuntime, ResumeRuntime, LoadSpawn,
                LoadCompletes, LoadFails, UndoLoad, Conclude
  <2>3. pc'[r] \in Working
    BY <2>2 DEF Goto, TypeOK
  <2> QED
    BY <1>0, <2>1, <2>3, OwnedFrame
<1>3. CASE MarkTransitional(r)
  <2>1. /\ row' = Updated(TransitionalState(op[r]), my[r].pid)
        /\ pc'[r] = "call" /\ op' = op /\ pc[r] \notin Working
    BY <1>0, <1>3 DEF MarkTransitional, Save, Goto, TypeOK
  <2>2. CASE row' = row
    BY <1>0, <2>1, <2>2, OwnedFrame
  <2>3. CASE row'.state = TransitionalState(op'[r])
    BY <2>1, <2>3 DEF Owned, TransitionalState
  <2> QED
    BY <2>1, <2>2, <2>3 DEF Updated
<1>4. CASE SaveResult(r) \/ PersistRunning(r) \/ RestorePrevious(r) \/ MarkFailed(r)
           \/ KillSaves(r) \/ DeleteRow(r)
  <2>1. row'.state \in Resting \union {"absent"}
    <3>1. CASE SaveResult(r)
      BY <1>0, <3>1 DEF SaveResult, Save, Updated, CopyResting
    <3>2. CASE PersistRunning(r)
      BY <1>0, <3>2 DEF PersistRunning, Save, Updated
    <3>3. CASE RestorePrevious(r)
      BY <1>0, <3>3 DEF RestorePrevious, Save, Updated, CopyResting
    <3>4. CASE MarkFailed(r)
      BY <1>0, <3>4 DEF MarkFailed, Save, Updated
    <3>5. CASE KillSaves(r)
      BY <1>0, <3>5 DEF KillSaves, Updated
    <3>6. CASE DeleteRow(r)
      BY <1>0, <3>6 DEF DeleteRow
    <3> QED
      BY <1>4, <3>1, <3>2, <3>3, <3>4, <3>5, <3>6
  <2> QED
    BY <2>1 DEF Owned
<1> QED
  BY <1>1, <1>2, <1>3, <1>4 DEF HandlerStep

LEMMA OwnedStep ==
  ASSUME TypeOK, TypeOK', OwnedInv, [Next]_vars
  PROVE  OwnedInv'
<1>1. CopiesResting'
  BY CopiesStep DEF OwnedInv
<1>2. SUFFICES ASSUME NoFaultYet' PROVE Owned'
  BY <1>1 DEF OwnedInv
<1>3. faults' >= faults /\ restarts' >= restarts
  <2>1. faults' = faults \/ faults' = faults + 1
    BY DEF Next, HandlerStep, GetVM, AcquireLock, ReleaseLock, MarkTransitional,
       SaveResult, StartRuntime, SetupPortForwards, StopRuntime, StopObservesExit,
       StopTimesOut, StopGivesUp, PauseRuntime, ResumeRuntime, ResolveSnapshot,
       LoadSpawn, LoadCompletes, LoadFails, PersistRunning, UndoLoad, RestorePrevious,
       MarkFailed, KillRuntime, KillSaves, DeleteKills, DeleteResources, DeleteRow,
       Save, Fault, ProcessExits, ExitStep, ExitReads, ExitWrites, LockTimesOut,
       DaemonRestarts, vars
  <2>2. restarts' = restarts \/ restarts' = restarts + 1
    BY DEF Next, HandlerStep, GetVM, AcquireLock, ReleaseLock, MarkTransitional,
       SaveResult, StartRuntime, SetupPortForwards, StopRuntime, StopObservesExit,
       StopTimesOut, StopGivesUp, PauseRuntime, ResumeRuntime, ResolveSnapshot,
       LoadSpawn, LoadCompletes, LoadFails, PersistRunning, UndoLoad, RestorePrevious,
       MarkFailed, KillRuntime, KillSaves, DeleteKills, DeleteResources, DeleteRow,
       Save, ProcessExits, ExitStep, ExitReads, ExitWrites, LockTimesOut,
       DaemonRestarts, vars
  <2> QED
    BY <2>1, <2>2, LifecycleAssumption DEF TypeOK
<1>4. NoFaultYet /\ Owned /\ CopiesResting
  BY <1>2, <1>3, LifecycleAssumption DEF NoFaultYet, TypeOK, OwnedInv
<1>5. ASSUME NEW r \in Handlers, HandlerStep(r) PROVE Owned'
  BY <1>2, <1>4, <1>5, OwnedHandler
<1>6. ASSUME NEW r \in Handlers, NEW o \in Ops, GetVM(r, o) PROVE Owned'
  BY <1>4, <1>6, OwnedFrame DEF GetVM, Goto, Working, TypeOK
<1>7. ASSUME NEW p \in Pids, ProcessExits(p) \/ ExitStep(p) PROVE Owned'
  <2>1. pc' = pc /\ op' = op /\ (row' = row \/ row'.state \in Resting)
    <3>1. pc' = pc /\ op' = op
      BY <1>7 DEF ProcessExits, ExitStep, ExitReads, ExitWrites
    <3>2. row' = row \/ row' = Updated(seen[p].state, seen[p].pid)
      BY <1>7 DEF ProcessExits, ExitStep, ExitReads, ExitWrites
    <3> QED
      BY <1>4, <3>1, <3>2 DEF Updated, CopiesResting
  <2> QED
    BY <1>4, <2>1 DEF Owned, TransitionalState
<1>8. CASE LockTimesOut \/ UNCHANGED vars
  BY <1>4, <1>8 DEF LockTimesOut, vars, Owned, TransitionalState
<1>9. ~DaemonRestarts
  BY <1>2, <1>4 DEF DaemonRestarts, NoFaultYet
<1> QED
  BY <1>5, <1>6, <1>7, <1>8, <1>9 DEF Next

\* As long as no write to the database has failed and the daemon has not been
\* restarted, a transitional state belongs to an operation under way: however
\* many kills, exit handlers and lock takeovers interfere.
THEOREM TransitionalAlwaysOwned == Spec => []TransitionalOwned
<1>1. Init => OwnedInv
  BY DEF Init, OwnedInv, CopiesResting, CopyResting, Owned, BlankCopy
<1>2. TypeOK /\ TypeOK' /\ OwnedInv /\ [Next]_vars => OwnedInv'
  BY OwnedStep
<1>3. OwnedInv => TransitionalOwned
  BY DEF OwnedInv, Owned, Working, TransitionalOwned, InCS, Critical
<1> QED
  BY <1>1, <1>2, <1>3, TypeCorrect, PTL DEF Spec

-----------------------------------------------------------------------------
(***************************************************************************)
(* Restores.  At every label of resumeVMFromSnapshot: which process it has *)
(* started, and how far that process is gone once the restore gives up.    *)
(***************************************************************************)
LoadOf(r) ==
    /\ pc[r] \in {"lock", "resolve", "mark", "call"} => my[r].new = NoPid
    /\ pc[r] \in {"loading", "persist", "undo"} =>
         my[r].new # NoPid /\ proc[my[r].new] # "none"
    /\ pc[r] \in {"persist", "undo"} => my[r].pid = my[r].new
    /\ pc[r] \in {"restore", "markfailed"} =>
         my[r].new = NoPid \/ proc[my[r].new] \in {"doomed", "dead"}

\* Only the holder of the lock deletes the row.
PresentInv == \A r \in Handlers : InCS(r) => row.state # "absent"

LoadInv == /\ HolderInv /\ CopiesResting /\ PresentInv
           /\ \A r \in Handlers : LoadOf(r)

LoadLabels == {"lock", "resolve", "mark", "call", "loading", "persist", "undo",
               "restore", "markfailed"}

\* A process that was started has been started for good, and none comes back
\* from SIGKILL.
LEMMA ProcStep ==
  ASSUME TypeOK, [Next]_vars, NEW p \in Pids
  PROVE  /\ proc[p] # "none" => proc'[p] # "none"
         /\ proc[p] \in {"doomed", "dead"} => proc'[p] \in {"doomed", "dead"}
<1>1. ASSUME NEW r \in Handlers, StartRuntime(r) \/ LoadSpawn(r)
      PROVE  proc' = proc \/ \E q \in FreshPids : \E v : proc' = [proc EXCEPT ![q] = v]
  BY <1>1 DEF StartRuntime, LoadSpawn
<1>2. ASSUME NEW r \in Handlers,
             PauseRuntime(r) \/ ResumeRuntime(r) \/ LoadCompletes(r)
      PROVE  \/ proc' = proc
             \/ \E q : Live(q) /\ \E v \in {"running", "paused"} :
                  proc' = [proc EXCEPT ![q] = v]
  BY <1>2 DEF PauseRuntime, ResumeRuntime, LoadCompletes, ApiUp
<1>3. ASSUME NEW r \in Handlers,
             \/ SetupPortForwards(r) \/ StopTimesOut(r) \/ UndoLoad(r) \/ KillRuntime(r)
             \/ DeleteKills(r)
      PROVE  proc' = proc \/ \E q : proc' = Doomed(q)
  BY <1>3 DEF SetupPortForwards, StopTimesOut, UndoLoad, KillRuntime, DeleteKills
<1>4. ASSUME NEW r \in Handlers, LoadFails(r)
      PROVE  \E q : proc' = [proc EXCEPT ![q] = "dead"]
  BY <1>4 DEF LoadFails
<1>5. ASSUME NEW q \in Pids, ProcessExits(q)
      PROVE  proc' = [proc EXCEPT ![q] = "dead"]
  BY <1>5 DEF ProcessExits
<1>6. \/ proc' = proc
      \/ \E q \in FreshPids : \E v : proc' = [proc EXCEPT ![q] = v]
      \/ \E q : Live(q) /\ \E v \in {"running", "paused"} : proc' = [proc EXCEPT ![q] = v]
      \/ \E q : proc' = Doomed(q)
      \/ \E q : proc' = [proc EXCEPT ![q] = "dead"]
  BY <1>1, <1>2, <1>3, <1>4, <1>5
  DEF Next, HandlerStep, GetVM, AcquireLock, ReleaseLock, MarkTransitional,
      SaveResult, StopRuntime, StopObservesExit, StopGivesUp, ResolveSnapshot,
      PersistRunning, RestorePrevious, MarkFailed, KillSaves, DeleteResources,
      DeleteRow, Save, ExitStep, ExitReads, ExitWrites, LockTimesOut,
      DaemonRestarts, vars
<1> QED
  BY <1>6 DEF FreshPids, Live, Doomed, Alive, TypeOK

\* What other steps do to the processes does not disturb a restore.
LEMMA LoadFrame ==
  ASSUME TypeOK, [Next]_vars, NEW q \in Handlers, LoadOf(q),
         pc'[q] = pc[q], my'[q] = my[q]
  PROVE  LoadOf(q)'
<1>1. my[q].new \in Pids \union {NoPid}
  BY CopyFieldType
<1>2. my[q].new # NoPid =>
        /\ proc[my[q].new] # "none" => proc'[my[q].new] # "none"
        /\ proc[my[q].new] \in {"doomed", "dead"} => proc'[my[q].new] \in {"doomed", "dead"}
  BY <1>1, ProcStep
<1> QED
  BY <1>2 DEF LoadOf

\* A write, successful or not, leaves the process of a restore alone.
LEMMA SaveCopy ==
  ASSUME TypeOK, NEW r \in Handlers, NEW s \in VMStates, NEW p \in Pids \union {NoPid},
         NEW ok, NEW bad, Save(r, s, p, ok, bad)
  PROVE  my'[r].new = my[r].new /\ my'[r].pid = p /\ pc'[r] \in {ok, bad}
<1>1. my' = [my EXCEPT ![r].state = s, ![r].pid = p]
  BY DEF Save
<1>2. my'[r].new = my[r].new /\ my'[r].pid = p
  <2>1. my[r] \in Copy /\ DOMAIN my = Handlers
    BY DEF TypeOK
  <2>2. my' = [my EXCEPT ![r] = [my[r] EXCEPT !.state = s, !.pid = p]]
    BY <1>1, <2>1
  <2>3. my'[r] = [my[r] EXCEPT !.state = s, !.pid = p]
    BY <2>1, <2>2
  <2> QED
    BY <2>1, <2>3 DEF Copy
<1>3. pc'[r] \in {ok, bad}
  BY DEF Save, Goto, TypeOK
<1> QED
  BY <1>2, <1>3

LEMMA LoadHandler ==
  ASSUME TypeOK, [Next]_vars, NEW r \in Handlers, LoadOf(r), HandlerStep(r)
  PROVE  LoadOf(r)'
<1>0. /\ my[r] \in Copy
      /\ my[r].pid \in Pids \union {NoPid} /\ my[r].new \in Pids \union {NoPid}
      /\ my[r].state \in VMStates /\ my[r].prev \in VMStates
      /\ my[r].new # NoPid =>
           /\ proc[my[r].new] # "none" => proc'[my[r].new] # "none"
           /\ proc[my[r].new] \in {"doomed", "dead"} =>
                proc'[my[r].new] \in {"doomed", "dead"}
  BY CopyFieldType, ProcStep
<1>1. CASE pc'[r] \notin LoadLabels
  BY <1>1 DEF LoadOf, LoadLabels
<1>2. CASE AcquireLock(r)
  BY <1>1, <1>2 DEF AcquireLock, Return, Goto, FirstStep, LoadOf, LoadLabels, TypeOK
<1>3. CASE MarkTransitional(r)
  <2>1. my'[r].new = my[r].new /\ pc'[r] \in {"call", "unlock"}
    BY <1>0, <1>3, SaveCopy DEF MarkTransitional, TransitionalState
  <2> QED
    BY <1>3, <2>1 DEF MarkTransitional, LoadOf
<1>4. CASE PersistRunning(r)
  <2>1. my'[r].new = my[r].new /\ my'[r].pid = my[r].pid /\ pc'[r] \in {"unlock", "undo"}
    BY <1>0, <1>4, SaveCopy DEF PersistRunning
  <2> QED
    BY <1>0, <1>4, <2>1 DEF PersistRunning, LoadOf
<1>5. CASE RestorePrevious(r) \/ MarkFailed(r)
  <2>1. my'[r].new = my[r].new /\ pc'[r] \in {"unlock", "markfailed"}
    BY <1>0, <1>5, SaveCopy DEF RestorePrevious, MarkFailed
  <2> QED
    BY <1>0, <1>5, <2>1 DEF RestorePrevious, MarkFailed, LoadOf
<1>6. CASE ResolveSnapshot(r)
  <2>1. my'[r].new = my[r].new /\ pc'[r] \in {"unlock", "mark"}
    BY <1>0, <1>6 DEF ResolveSnapshot, Goto, TypeOK, Copy
  <2> QED
    BY <1>6, <2>1 DEF ResolveSnapshot, LoadOf
<1>7. CASE LoadSpawn(r)
  <2>1. CASE Goto(r, "restore") /\ my' = my
    <3>1. pc'[r] = "restore"
      BY <2>1 DEF Goto, TypeOK
    <3> QED
      BY <1>7, <2>1, <3>1 DEF LoadSpawn, LoadOf
  <2>2. ASSUME NEW p \in Pids, proc' = [proc EXCEPT ![p] = "paused"],
               my' = [my EXCEPT ![r].new = p], Goto(r, "loading")
        PROVE  LoadOf(r)'
    <3>1. pc'[r] = "loading" /\ my'[r].new = p
      BY <1>0, <2>2 DEF Goto, TypeOK, Copy
    <3>2. p # NoPid /\ proc'[p] = "paused"
      BY <2>2, LifecycleAssumption DEF TypeOK
    <3> QED
      BY <3>1, <3>2 DEF LoadOf
  <2> QED
    BY <1>7, <2>1, <2>2 DEF LoadSpawn, FreshPids
<1>8. CASE LoadCompletes(r)
  <2>1. /\ pc'[r] = "persist"
        /\ my'[r].new = my[r].new /\ my'[r].pid = my[r].new
    BY <1>0, <1>8 DEF LoadCompletes, Goto, TypeOK, Copy
  <2> QED
    BY <1>0, <1>8, <2>1 DEF LoadCompletes, LoadOf
<1>9. CASE LoadFails(r)
  <2>1. pc'[r] = "restore" /\ my' = my
    BY <1>9 DEF LoadFails, Goto, TypeOK
  <2>2. my[r].new \in Pids
    BY <1>0, <1>9 DEF LoadFails, LoadOf
  <2>3. proc'[my[r].new] = "dead"
    BY <1>9, <2>2 DEF LoadFails, TypeOK
  <2> QED
    BY <2>1, <2>3 DEF LoadOf
<1>10. CASE UndoLoad(r)
  <2>1. pc'[r] = "restore" /\ my'[r].new = my[r].new
    BY <1>0, <1>10 DEF UndoLoad, Goto, TypeOK, Copy
  <2>2. my[r].new \in Pids /\ my[r].pid = my[r].new /\ proc[my[r].new] # "none"
    BY <1>0, <1>10 DEF UndoLoad, LoadOf
  <2>3. proc'[my[r].new] \in {"doomed", "dead"}
    BY <1>10, <2>2 DEF UndoLoad, Doomed, Alive, TypeOK
  <2> QED
    BY <2>1, <2>3 DEF LoadOf
<1>11. CASE \/ ReleaseLock(r) \/ SaveResult(r) \/ KillSaves(r) \/ DeleteRow(r)
            \/ StartRuntime(r) \/ SetupPortForwards(r) \/ StopRuntime(r)
            \/ StopObservesExit(r) \/ StopTimesOut(r) \/ StopGivesUp(r)
            \/ PauseRuntime(r) \/ ResumeRuntime(r) \/ KillRuntime(r)
            \/ DeleteKills(r) \/ DeleteResources(r)
  <2>1. \E l \in Labels \ LoadLabels : Goto(r, l)
    BY <1>11 DEF ReleaseLock, SaveResult, KillSaves, DeleteRow, StartRuntime,
                 SetupPortForwards, StopRuntime, StopObservesExit, StopTimesOut,
                 StopGivesUp, PauseRuntime, ResumeRuntime, KillRuntime, DeleteKills,
                 DeleteResources, Save, Return, Conclude, LoadLabels
  <2> QED
    BY <1>1, <2>1 DEF Goto, TypeOK
<1> QED
  BY <1>2, <1>3, <1>4, <1>5, <1>6, <1>7, <1>8, <1>9, <1>10, <1>11 DEF HandlerStep

\* Nobody deletes the row under an operation, and none begins without it.
LEMMA PresentStep ==
  ASSUME TypeOK, TypeOK', HolderInv, HolderInv', PresentInv, [Next]_vars
  PROVE  PresentInv'
<1>1. ASSUME NEW r \in Handlers, DeleteRow(r) PROVE PresentInv'
  <2>1. \A q \in Handlers \ {r} : ~InCS(q)
    BY <1>1 DEF DeleteRow, HolderInv, InCS, Critical
  <2>2. CASE Return(r)
    BY <2>1, <2>2 DEF Return, Goto, PresentInv, InCS, Critical, TypeOK
  <2>3. CASE Goto(r, "unlock") /\ row' = row
    BY <1>1, <2>3, <2>1 DEF DeleteRow, Goto, PresentInv, InCS, Critical, TypeOK
  <2> QED
    BY <1>1, <2>2, <2>3 DEF DeleteRow
<1>2. ASSUME NEW r \in Handlers, AcquireLock(r) PROVE PresentInv'
  BY <1>2 DEF AcquireLock, LockFree, Return, Goto, PresentInv, InCS, Critical, TypeOK
<1>3. ASSUME NEW r \in Handlers,
             InnerStep(r) \/ ReleaseLock(r) \/ KillRuntime(r) \/ KillSaves(r)
      PROVE  PresentInv'
  <2>1. \A q \in Handlers : InCS(q)' => InCS(q)
    <3>1. CASE InnerStep(r)
      BY <3>1, InnerStepShape DEF InCS, Goto, TypeOK
    <3>2. CASE ReleaseLock(r) \/ KillRuntime(r) \/ KillSaves(r)
      BY <3>2 DEF ReleaseLock, KillRuntime, KillSaves, Return, Goto, InCS, Critical, TypeOK
    <3> QED
      BY <1>3, <3>1, <3>2
  <2>2. row' = row \/ \E s \in VMStates : \E p : row' = Updated(s, p)
    <3>1. my[r].state \in VMStates /\ my[r].prev \in VMStates
          /\ TransitionalState(op[r]) \in VMStates
      BY CopyFieldType DEF TransitionalState
    <3> QED
      BY <1>3, <3>1 DEF InnerStep, ReleaseLock, KillRuntime, KillSaves, MarkTransitional,
         SaveResult, StartRuntime, SetupPortForwards, StopRuntime, StopObservesExit,
         StopTimesOut, StopGivesUp, PauseRuntime, ResumeRuntime, ResolveSnapshot,
         LoadSpawn, LoadCompletes, LoadFails, PersistRunning, UndoLoad,
         RestorePrevious, MarkFailed, DeleteKills, DeleteResources, Save
  <2> QED
    BY <2>1, <2>2 DEF PresentInv, Updated
<1>4. ASSUME NEW r \in Handlers, NEW o \in Ops, GetVM(r, o) PROVE PresentInv'
  BY <1>4 DEF GetVM, Goto, PresentInv, InCS, Critical, TypeOK
<1>5. ASSUME NEW p \in Pids, ProcessExits(p) \/ ExitStep(p) PROVE PresentInv'
  <2>1. pc' = pc /\ (row' = row \/ row' = Updated(seen[p].state, seen[p].pid))
    BY <1>5 DEF ProcessExits, ExitStep, ExitReads, ExitWrites
  <2>2. seen[p].state \in VMStates
    BY DEF TypeOK
  <2> QED
    BY <2>1, <2>2 DEF PresentInv, InCS, Updated
<1>6. CASE LockTimesOut \/ UNCHANGED vars
  BY <1>6 DEF LockTimesOut, vars, PresentInv, InCS
<1>7. CASE DaemonRestarts
  BY <1>7 DEF DaemonRestarts, PresentInv, InCS, Critical
<1> QED
  BY <1>1, <1>2, <1>3, <1>4, <1>5, <1>6, <1>7 DEF Next, HandlerStep, InnerStep

LEMMA LoadStep ==
  ASSUME ~SlowOps, TypeOK, TypeOK', LoadInv, [Next]_vars
  PROVE  LoadInv'
<1>1. HolderInv' /\ CopiesResting' /\ PresentInv'
  BY HolderStep, CopiesStep, PresentStep DEF LoadInv
<1>2. ASSUME NEW q \in Handlers PROVE LoadOf(q)'
  <2>0. LoadOf(q)
    BY DEF LoadInv
  <2>1. ASSUME NEW r \in Handlers, HandlerStep(r) PROVE LoadOf(q)'
    BY <2>0, <2>1, LoadHandler, LoadFrame, OthersUnchanged
  <2>2. ASSUME NEW r \in Handlers, NEW o \in Ops, GetVM(r, o) PROVE LoadOf(q)'
    <3>1. CASE q = r
      <4>1. my'[r] = [BlankCopy EXCEPT !.state = row.state, !.pid = row.pid]
            /\ pc'[r] \in {"signal", "lock"}
        BY <2>2 DEF GetVM, Goto, TypeOK
      <4>2. my'[r].new = NoPid
        BY <4>1 DEF BlankCopy
      <4> QED
        BY <3>1, <4>1, <4>2 DEF LoadOf
    <3>2. CASE q # r
      BY <2>0, <2>2, <3>2, LoadFrame DEF GetVM, Goto, TypeOK
    <3> QED
      BY <3>1, <3>2
  <2>3. CASE LockTimesOut \/ UNCHANGED vars \/ \E p \in Pids : ProcessExits(p) \/ ExitStep(p)
    <3>1. pc' = pc /\ my' = my
      BY <2>3 DEF LockTimesOut, vars, ProcessExits, ExitStep, ExitReads, ExitWrites
    <3> QED
      BY <2>0, <3>1, LoadFrame
  <2>4. CASE DaemonRestarts
    BY <2>4 DEF DaemonRestarts, LoadOf
  <2> QED
    BY <2>1, <2>2, <2>3, <2>4 DEF Next
<1> QED
  BY <1>1, <1>2 DEF LoadInv

\* The last step of a restore.
LEMMA LoadEnds ==
  ASSUME TypeOK, LoadInv, [Next]_vars, NEW r \in Handlers,
         pc[r] \in {"persist", "restore", "markfailed"}, pc'[r] = "unlock"
  PROVE  /\ row'.state = "resuming" => pc[r] = "markfailed" /\ faults' # faults
         /\ my[r].new # NoPid => \/ row'.pid = my[r].new
                                 \/ proc'[my[r].new] \in {"doomed", "dead"}
<1>0. /\ LoadOf(r) /\ CopyResting(r) /\ row.state # "absent"
      /\ my[r].new \in Pids \union {NoPid}
  BY CopyFieldType DEF LoadInv, CopiesResting, PresentInv, InCS, Critical
<1>1. HandlerStep(r)
  <2>1. ASSUME NEW q \in Handlers, HandlerStep(q), q # r PROVE FALSE
    BY <2>1, OthersUnchanged
  <2>2. ASSUME NEW q \in Handlers, NEW o \in Ops, GetVM(q, o) PROVE FALSE
    BY <2>2 DEF GetVM, Goto, TypeOK
  <2>3. ~DaemonRestarts
    BY DEF DaemonRestarts
  <2>4. ~LockTimesOut /\ ~UNCHANGED vars /\ \A p \in Pids : ~(ProcessExits(p) \/ ExitStep(p))
    BY DEF LockTimesOut, vars, ProcessExits, ExitStep, ExitReads, ExitWrites
  <2> QED
    BY <2>1, <2>2, <2>3, <2>4 DEF Next
<1>2. PersistRunning(r) \/ RestorePrevious(r) \/ MarkFailed(r)
  BY <1>1 DEF HandlerStep, AcquireLock, ReleaseLock, MarkTransitional, SaveResult,
     StartRuntime, SetupPortForwards, StopRuntime, StopObservesExit, StopTimesOut,
     StopGivesUp, PauseRuntime, ResumeRuntime, ResolveSnapshot, LoadSpawn,
     LoadCompletes, LoadFails, UndoLoad, KillRuntime, KillSaves, DeleteKills,
     DeleteResources, DeleteRow
<1>3. CASE PersistRunning(r)
  <2>1. row' = [state |-> "running", pid |-> my[r].pid]
    BY <1>0, <1>3 DEF PersistRunning, Save, Goto, Updated, TypeOK
  <2> QED
    BY <1>0, <1>3, <2>1 DEF PersistRunning, LoadOf
<1>4. CASE RestorePrevious(r)
  <2>1. row' = [state |-> my[r].prev, pid |-> my[r].pid] /\ proc' = proc
    BY <1>0, <1>4 DEF RestorePrevious, Save, Goto, Updated, TypeOK
  <2> QED
    BY <1>0, <1>4, <2>1 DEF RestorePrevious, LoadOf, CopyResting
<1>5. CASE MarkFailed(r)
  <2>1. proc' = proc /\ (row'.state = "failed" \/ faults' = faults + 1)
    BY <1>0, <1>5 DEF MarkFailed, Save, Fault, Updated
  <2>2. faults + 1 # faults
    BY LifecycleAssumption DEF TypeOK
  <2> QED
    BY <1>0, <1>5, <2>1, <2>2 DEF MarkFailed, LoadOf
<1> QED
  BY <1>2, <1>3, <1>4, <1>5

\* However many handlers, processes, failing writes and restarts: a restore that
\* is over has left the VM "resuming" only if the last write failed too, and its
\* process is on record or on its way out.
THEOREM LoadIsAllOrNothing ==
  ASSUME ~SlowOps
  PROVE  Spec => LoadAllOrNothing
<1> DEFINE Ends ==
      \A r \in Handlers :
         pc[r] \in {"persist", "restore", "markfailed"} /\ pc'[r] = "unlock"
           => /\ row'.state = "resuming" => pc[r] = "markfailed" /\ faults' # faults
              /\ my[r].new # NoPid =>
                    \/ row'.pid = my[r].new
                    \/ proc'[my[r].new] \in {"doomed", "dead"}
<1>1. Init => LoadInv
  BY DEF Init, LoadInv, HolderInv, CopiesResting, CopyResting, PresentInv, LoadOf,
         InCS, Critical, BlankCopy
<1>2. TypeOK /\ TypeOK' /\ LoadInv /\ [Next]_vars => LoadInv'
  BY LoadStep
<1>3. TypeOK /\ LoadInv /\ [Next]_vars => [Ends]_vars
  BY LoadEnds
<1> QED
  BY <1>1, <1>2, <1>3, TypeCorrect, PTL DEF Spec, LoadAllOrNothing
=============================================================================
