-------------------------- MODULE VMResourcesProofs --------------------------
(***************************************************************************)
(* Proofs about module VMResources, for any number of VMs, names and       *)
(* addresses, and any number of failing writes and restarts.               *)
(***************************************************************************)
EXTENDS VMResources, TLAPS

Rows == {"absent", "created", "starting", "running", "stopped", "failed"}

Creating == {"limits", "disk", "address", "tap", "egress", "spire", "insert"}

JobLabels == Creating \union {"unused", "done", "over", "cut"}

\* Nothing on the host, in the address manager or in the rules is this VM's.
Clean(vm) ==
    /\ vm \notin disk /\ vm \notin tap /\ vm \notin chain
    /\ allocated[vm] = NoIP
    /\ \A ip \in Pool!IPs : <<vm, ip>> \notin forward

\* What handleCreateVM has acquired when it is at a label.
StageInv(vm) ==
    /\ job[vm] \in {"unused", "limits", "disk"} => Clean(vm) /\ ~Networked(vm)
    /\ job[vm] = "address" => /\ ~Networked(vm) /\ allocated[vm] = NoIP
                              /\ vm \in disk /\ vm \notin tap /\ vm \notin chain
    /\ job[vm] = "tap" => /\ ~Networked(vm)
                          /\ vm \in disk /\ vm \notin tap /\ vm \notin chain
    /\ job[vm] = "egress" => /\ allocated[vm] = config[vm].ip
                             /\ vm \in disk /\ vm \in tap /\ vm \notin chain
    /\ job[vm] \in {"spire", "insert"} => /\ allocated[vm] = config[vm].ip
                                          /\ vm \in disk /\ (Networked(vm) => vm \in tap)
    /\ job[vm] \in {"done", "over", "cut"} => allocated[vm] \in {NoIP, config[vm].ip}

\* A row, a lock, an exit handler and a forward belong to a VM whose create is
\* done; a forward goes to the address in its config.
OwnerInv(vm) ==
    /\ vm \in Present => job[vm] = "done"
    /\ busy[vm] # "no" => vm \in Present
    /\ vm \in watched \/ exit[vm] # "no" => job[vm] = "done"
    /\ \A ip \in Pool!IPs : <<vm, ip>> \in forward => ip = config[vm].ip /\ job[vm] = "done"

\* A daemon that is down has no request under way; the first one finds nothing.
DownInv(vm) ==
    ~serving => /\ job[vm] \notin Creating /\ busy[vm] = "no"
                /\ vm \notin watched /\ exit[vm] = "no"
                /\ restarts = 0 => job[vm] = "unused"

\* Between its two steps a delete has left nothing but the row.
DeletingInv(vm) == busy[vm] = "row" => Clean(vm)

\* CreatedIsReady, and what keeps it: no process of that VM was ever watched.
ReadyInv(vm) ==
    rows[vm] = "created" =>
        /\ vm \notin watched /\ exit[vm] = "no" /\ busy[vm] \in {"no", "clean", "row"}
        /\ busy[vm] # "row" =>
             /\ faults = 0 /\ restarts = 0 => vm \in disk
             /\ Networked(vm) /\ vm \in disk => vm \in tap
             /\ Networked(vm) /\ vm \in disk /\ serving /\ (restarts = 0 \/ faults = 0)
                  => allocated[vm] = config[vm].ip

VMInv(vm) == /\ StageInv(vm) /\ OwnerInv(vm) /\ DownInv(vm) /\ DeletingInv(vm) /\ ReadyInv(vm)
             /\ Finished(vm) => Clean(vm)

ResourcesInv == TypeOK /\ \A vm \in VMs : VMInv(vm)
-----------------------------------------------------------------------------
(***************************************************************************)
(* What the calls of the address manager do, as its callers need it.        *)
(***************************************************************************)
LEMMA PoolFacts == Pool!IPs \subseteq Nat /\ NoIP \notin Pool!IPs
BY ResourcesAssumption DEF Pool!IPs

LEMMA AscendingType ==
  ASSUME NEW S \in SUBSET Pool!IPs, NEW s \in Pool!Ascending(S)
  PROVE  s \in Seq(Pool!IPs)
<1>1. PICK n \in Nat : s \in [1 .. n -> S]
  BY ResourcesAssumption DEF Pool!Ascending
<1>2. s \in [1 .. n -> Pool!IPs]
  BY <1>1
<1> QED
  BY <1>2

LEMMA AllocateEffect ==
  ASSUME TypeOK, NEW vm \in VMs, Pool!CanAllocate(vm), Pool!AllocateIP(vm)
  PROVE  /\ allocated' \in [VMs -> Pool!IPs \union {NoIP}]
         /\ available' \in Seq(Pool!IPs)
         /\ allocated'[vm] \in Pool!IPs
         /\ \A w \in VMs \ {vm} : allocated'[w] = allocated[w]
<1>1. available \in Seq(Pool!IPs) /\ available # <<>>
  BY DEF TypeOK, Pool!TypeOK, Pool!CanAllocate
<1>2. Head(available) \in Pool!IPs /\ Tail(available) \in Seq(Pool!IPs)
  BY <1>1
<1> QED
  BY <1>2 DEF TypeOK, Pool!TypeOK, Pool!AllocateIP

LEMMA ReleaseEffect ==
  ASSUME TypeOK, NEW vm \in VMs, Pool!ReleaseIP(vm)
  PROVE  /\ allocated' \in [VMs -> Pool!IPs \union {NoIP}]
         /\ available' \in Seq(Pool!IPs)
         /\ allocated'[vm] = NoIP
         /\ \A w \in VMs \ {vm} : allocated'[w] = allocated[w]
<1>1. CASE allocated[vm] = NoIP
  BY <1>1 DEF TypeOK, Pool!TypeOK, Pool!ReleaseIP, Pool!books
<1>2. CASE allocated[vm] # NoIP
  <2>1. allocated[vm] \in Pool!IPs /\ available \in Seq(Pool!IPs)
    BY <1>2 DEF TypeOK, Pool!TypeOK
  <2>2. Append(available, allocated[vm]) \in Seq(Pool!IPs)
    BY <2>1
  <2> QED
    BY <1>2, <2>2 DEF TypeOK, Pool!TypeOK, Pool!ReleaseIP
<1> QED
  BY <1>1, <1>2

LEMMA LoadEffect ==
  ASSUME NEW alloc \in [VMs -> Pool!IPs \union {NoIP}], Pool!LoadAllocations(alloc)
  PROVE  allocated' = alloc /\ available' \in Seq(Pool!IPs)
BY AscendingType DEF Pool!LoadAllocations

-----------------------------------------------------------------------------
(***************************************************************************)
(* A step of one VM leaves the others alone.                                *)
(***************************************************************************)
Same(w) ==
    /\ allocated'[w] = allocated[w] /\ rows'[w] = rows[w] /\ config'[w] = config[w]
    /\ job'[w] = job[w] /\ busy'[w] = busy[w] /\ exit'[w] = exit[w]
    /\ (w \in disk' <=> w \in disk) /\ (w \in tap' <=> w \in tap)
    /\ (w \in chain' <=> w \in chain) /\ (w \in watched' <=> w \in watched)
    /\ \A ip \in Pool!IPs : <<w, ip>> \in forward' <=> <<w, ip>> \in forward

Local(vm) == /\ \A w \in VMs \ {vm} : Same(w)
             /\ serving' = serving /\ restarts' = restarts
             /\ faults' = 0 => faults = 0

LEMMA SamePreserves ==
  ASSUME NEW w \in VMs, VMInv(w), Same(w), serving' = serving, restarts' = restarts,
         faults' = 0 => faults = 0
  PROVE  VMInv(w)'
<1> USE DEF Same
<1>1. /\ Clean(w) <=> Clean(w)'
      /\ Networked(w) <=> Networked(w)'
      /\ w \in Present <=> w \in Present'
  BY DEF Clean, Networked, Present
<1>2. StageInv(w)'
  BY <1>1 DEF VMInv, StageInv
<1>3. OwnerInv(w)'
  BY <1>1 DEF VMInv, OwnerInv
<1>4. DownInv(w)' /\ DeletingInv(w)'
  BY <1>1 DEF VMInv, DownInv, DeletingInv
<1>5. ReadyInv(w)'
  BY <1>1 DEF VMInv, ReadyInv
<1>6. Finished(w)' => Clean(w)'
  BY <1>1 DEF VMInv, Finished
<1> QED
  BY <1>2, <1>3, <1>4, <1>5, <1>6 DEF VMInv

\* So for a step of one VM, what it does to that VM is left to show.
LEMMA LocalStep ==
  ASSUME ResourcesInv, NEW vm \in VMs, Local(vm), TypeOK', VMInv(vm)'
  PROVE  ResourcesInv'
BY SamePreserves DEF ResourcesInv, Local
-----------------------------------------------------------------------------
(***************************************************************************)
(* The steps of handleCreateVM.                                             *)
(***************************************************************************)
LEMMA CreatePreserves ==
  ASSUME ResourcesInv, NEW vm \in VMs, CreateStep(vm)
  PROVE  ResourcesInv'
<1> USE DEF poolVars, hostVars, Goto, SetState, JobLabels, Creating
<1>0. /\ TypeOK /\ VMInv(vm) /\ NoIP \notin Pool!IPs
      /\ Pool!TypeOK
  BY PoolFacts DEF ResourcesInv, TypeOK
<1>1. ASSUME NEW n \in Names, CreateVM(vm, n) PROVE ResourcesInv'
  <2>1. TypeOK'
    BY <1>0, <1>1 DEF CreateVM, TypeOK, Pool!TypeOK
  <2>2. Local(vm)
    BY <1>0, <1>1 DEF CreateVM, Local, Same, TypeOK
  <2>3. VMInv(vm)'
    BY <1>0, <1>1 DEF CreateVM, TypeOK, VMInv, StageInv, OwnerInv, DownInv, DeletingInv, ReadyInv, Finished, Clean, Networked, Present
  <2> QED
    BY <2>1, <2>2, <2>3, LocalStep
<1>2. CASE CheckLimits(vm)
  <2>1. TypeOK'
    BY <1>0, <1>2 DEF CheckLimits, TypeOK, Pool!TypeOK
  <2>2. Local(vm)
    BY <1>0, <1>2 DEF CheckLimits, Local, Same, TypeOK
  <2>3. VMInv(vm)'
    BY <1>0, <1>2 DEF CheckLimits, TypeOK, VMInv, StageInv, OwnerInv, DownInv, DeletingInv, ReadyInv, Finished, Clean, Networked, Present
  <2> QED
    BY <2>1, <2>2, <2>3, LocalStep
<1>3. CASE MaterializeDisk(vm)
  <2>1. TypeOK'
    BY <1>0, <1>3 DEF MaterializeDisk, TypeOK, Pool!TypeOK
  <2>2. Local(vm)
    BY <1>0, <1>3 DEF MaterializeDisk, Local, Same, TypeOK
  <2>3. VMInv(vm)'
    BY <1>0, <1>3 DEF MaterializeDisk, TypeOK, VMInv, StageInv, OwnerInv, DownInv, DeletingInv, ReadyInv, Finished, Clean, Networked, Present
  <2> QED
    BY <2>1, <2>2, <2>3, LocalStep
<1>4. CASE AllocateAddress(vm)
  <2>0. /\ allocated' \in [VMs -> Pool!IPs \union {NoIP}] /\ available' \in Seq(Pool!IPs)
        /\ \A w \in VMs \ {vm} : allocated'[w] = allocated[w]
        /\ job'[vm] # "tap" => allocated' = allocated
    BY <1>0, <1>4, AllocateEffect DEF AllocateAddress, TypeOK, Pool!TypeOK
  <2>1. TypeOK'
    BY <1>0, <1>4, <2>0 DEF AllocateAddress, TypeOK, Pool!TypeOK
  <2>2. Local(vm)
    BY <1>0, <1>4, <2>0 DEF AllocateAddress, Local, Same, TypeOK
  <2>3. VMInv(vm)'
    BY <1>0, <1>4, <2>0 DEF AllocateAddress, TypeOK, VMInv, StageInv, OwnerInv, DownInv, DeletingInv, ReadyInv, Finished, Clean, Networked, Present
  <2> QED
    BY <2>1, <2>2, <2>3, LocalStep
<1>5. CASE SetupTap(vm)
  <2>0. /\ allocated' \in [VMs -> Pool!IPs \union {NoIP}] /\ available' \in Seq(Pool!IPs)
        /\ \A w \in VMs \ {vm} : allocated'[w] = allocated[w]
        /\ job'[vm] = "egress" => allocated' = allocated
        /\ job'[vm] # "egress" => allocated'[vm] = NoIP
    BY <1>0, <1>5, ReleaseEffect DEF SetupTap, TypeOK, Pool!TypeOK
  <2>1. TypeOK'
    <3>1. config' \in [VMs -> [name : Names \union {NoName}, ip : Pool!IPs \union {NoIP}]]
      <4>1. /\ allocated[vm] \in Pool!IPs \union {NoIP}
            /\ config \in [VMs -> [name : Names \union {NoName}, ip : Pool!IPs \union {NoIP}]]
        BY <1>0 DEF TypeOK, Pool!TypeOK
      <4>2. config' = config \/ config' = [config EXCEPT ![vm].ip = allocated[vm]]
        BY <1>5 DEF SetupTap
      <4> QED
        BY <4>1, <4>2
    <3> QED
      BY <1>0, <1>5, <2>0, <3>1 DEF SetupTap, TypeOK, Pool!TypeOK
  <2>2. Local(vm)
    BY <1>0, <1>5, <2>0 DEF SetupTap, Local, Same, TypeOK
  <2>3. VMInv(vm)'
    BY <1>0, <1>5, <2>0 DEF SetupTap, TypeOK, VMInv, StageInv, OwnerInv, DownInv, DeletingInv, ReadyInv, Finished, Clean, Networked, Present
  <2> QED
    BY <2>1, <2>2, <2>3, LocalStep
<1>6. CASE SetupEgress(vm)
  <2>0. /\ allocated' \in [VMs -> Pool!IPs \union {NoIP}] /\ available' \in Seq(Pool!IPs)
        /\ \A w \in VMs \ {vm} : allocated'[w] = allocated[w]
        /\ job'[vm] = "spire" => allocated' = allocated
        /\ job'[vm] # "spire" => allocated'[vm] = NoIP
    BY <1>0, <1>6, ReleaseEffect DEF SetupEgress, TypeOK, Pool!TypeOK
  <2>1. TypeOK'
    BY <1>0, <1>6, <2>0 DEF SetupEgress, TypeOK, Pool!TypeOK
  <2>2. Local(vm)
    BY <1>0, <1>6, <2>0 DEF SetupEgress, Local, Same, TypeOK
  <2>3. VMInv(vm)'
    BY <1>0, <1>6, <2>0 DEF SetupEgress, TypeOK, VMInv, StageInv, OwnerInv, DownInv, DeletingInv, ReadyInv, Finished, Clean, Networked, Present
  <2> QED
    BY <2>1, <2>2, <2>3, LocalStep
<1>7. CASE RegisterSPIRE(vm)
  <2>0. /\ allocated' \in [VMs -> Pool!IPs \union {NoIP}] /\ available' \in Seq(Pool!IPs)
        /\ \A w \in VMs \ {vm} : allocated'[w] = allocated[w]
        /\ job'[vm] = "insert" => allocated' = allocated
        /\ job'[vm] # "insert" => allocated'[vm] = NoIP
    BY <1>0, <1>7, ReleaseEffect
    DEF RegisterSPIRE, CleanupCreated, TypeOK, Pool!TypeOK, VMInv, StageInv, Networked
  <2>1. TypeOK'
    BY <1>0, <1>7, <2>0 DEF RegisterSPIRE, CleanupCreated, TypeOK, Pool!TypeOK
  <2>2. Local(vm)
    BY <1>0, <1>7, <2>0 DEF RegisterSPIRE, CleanupCreated, Local, Same, TypeOK
  <2>3. VMInv(vm)'
    BY <1>0, <1>7, <2>0 DEF RegisterSPIRE, CleanupCreated, TypeOK, VMInv, StageInv, OwnerInv, DownInv, DeletingInv, ReadyInv, Finished, Clean, Networked, Present
  <2> QED
    BY <2>1, <2>2, <2>3, LocalStep
<1>8. CASE InsertRow(vm)
  <2>0. /\ allocated' \in [VMs -> Pool!IPs \union {NoIP}] /\ available' \in Seq(Pool!IPs)
        /\ \A w \in VMs \ {vm} : allocated'[w] = allocated[w]
        /\ job'[vm] = "done" => allocated' = allocated
        /\ job'[vm] # "done" => allocated'[vm] = NoIP
    BY <1>0, <1>8, ReleaseEffect
    DEF InsertRow, CleanupCreated, TypeOK, Pool!TypeOK, VMInv, StageInv, Networked
  <2>1. faults' \in 0 .. MaxFaults /\ (faults' = 0 => faults = 0)
    BY <1>0, <1>8, ResourcesAssumption DEF InsertRow, Fault, TypeOK
  <2>2. TypeOK'
    BY <1>0, <1>8, <2>0, <2>1 DEF InsertRow, CleanupCreated, TypeOK, Pool!TypeOK
  <2>3. Local(vm)
    BY <1>0, <1>8, <2>0, <2>1 DEF InsertRow, CleanupCreated, Local, Same, TypeOK
  <2>4. VMInv(vm)'
    BY <1>0, <1>8, <2>0, <2>1 DEF InsertRow, CleanupCreated, TypeOK, VMInv, StageInv, OwnerInv, DownInv, DeletingInv, ReadyInv, Finished, Clean, Networked, Present
  <2> QED
    BY <2>2, <2>3, <2>4, LocalStep
<1> QED
  BY <1>1, <1>2, <1>3, <1>4, <1>5, <1>6, <1>7, <1>8 DEF CreateStep
-----------------------------------------------------------------------------
(***************************************************************************)
(* The life of the VM.                                                      *)
(***************************************************************************)
\* The forwards of a VM and of the others, when a rule of it comes or goes.
LEMMA RuleFacts ==
  ASSUME ResourcesInv, NEW vm \in VMs
  PROVE  /\ Rule(vm) \subseteq VMs \X Pool!IPs
         /\ \A w \in VMs, ip \in Pool!IPs : <<w, ip>> \in Rule(vm) <=> w = vm /\ ip = config[vm].ip
BY PoolFacts DEF ResourcesInv, TypeOK, Rule, Networked

LEMMA LifePreserves ==
  ASSUME ResourcesInv, NEW vm \in VMs, LifeStep(vm)
  PROVE  ResourcesInv'
<1> USE DEF poolVars, hostVars, SetState, Update, Idle, JobLabels, Creating
<1>0. /\ TypeOK /\ VMInv(vm) /\ NoIP \notin Pool!IPs
      /\ Pool!TypeOK
      /\ Rule(vm) \subseteq VMs \X Pool!IPs
      /\ \A w \in VMs, ip \in Pool!IPs : <<w, ip>> \in Rule(vm) <=> w = vm /\ ip = config[vm].ip
  BY PoolFacts, RuleFacts DEF ResourcesInv, TypeOK
<1>1. CASE Start(vm)
  <2>1. TypeOK'
    BY <1>0, <1>1 DEF Start, TypeOK, Pool!TypeOK
  <2>2. Local(vm)
    BY <1>0, <1>1 DEF Start, Local, Same, TypeOK
  <2>3. VMInv(vm)'
    BY <1>0, <1>1 DEF Start, TypeOK, VMInv, StageInv, OwnerInv, DownInv, DeletingInv, ReadyInv, Finished, Clean, Networked, Present
  <2> QED
    BY <2>1, <2>2, <2>3, LocalStep
<1>2. CASE Launch(vm)
  <2>1. TypeOK'
    BY <1>0, <1>2 DEF Launch, TypeOK, Pool!TypeOK
  <2>2. Local(vm)
    BY <1>0, <1>2 DEF Launch, Local, Same, TypeOK
  <2>3. VMInv(vm)'
    BY <1>0, <1>2 DEF Launch, TypeOK, VMInv, StageInv, OwnerInv, DownInv, DeletingInv, ReadyInv, Finished, Clean, Networked, Present
  <2> QED
    BY <2>1, <2>2, <2>3, LocalStep
<1>3. CASE StartEnds(vm)
  <2>1. TypeOK'
    BY <1>0, <1>3 DEF StartEnds, Present, TypeOK, Pool!TypeOK
  <2>2. Local(vm)
    BY <1>0, <1>3 DEF StartEnds, Present, Local, Same, TypeOK
  <2>3. VMInv(vm)'
    BY <1>0, <1>3 DEF StartEnds, Present, TypeOK, VMInv, StageInv, OwnerInv, DownInv, DeletingInv, ReadyInv, Finished, Clean, Networked, Present
  <2> QED
    BY <2>1, <2>2, <2>3, LocalStep
<1>4. CASE Restore(vm)
  <2>1. TypeOK'
    BY <1>0, <1>4 DEF Restore, TypeOK, Pool!TypeOK
  <2>2. Local(vm)
    BY <1>0, <1>4 DEF Restore, Local, Same, TypeOK
  <2>3. VMInv(vm)'
    BY <1>0, <1>4 DEF Restore, TypeOK, VMInv, StageInv, OwnerInv, DownInv, DeletingInv, ReadyInv, Finished, Clean, Networked, Present
  <2> QED
    BY <2>1, <2>2, <2>3, LocalStep
<1>5. CASE Stop(vm)
  <2>1. TypeOK'
    BY <1>0, <1>5 DEF Stop, TypeOK, Pool!TypeOK
  <2>2. Local(vm)
    BY <1>0, <1>5 DEF Stop, Local, Same, TypeOK
  <2>3. VMInv(vm)'
    BY <1>0, <1>5 DEF Stop, TypeOK, VMInv, StageInv, OwnerInv, DownInv, DeletingInv, ReadyInv, Finished, Clean, Networked, Present
  <2> QED
    BY <2>1, <2>2, <2>3, LocalStep
<1>6. CASE Kill(vm)
  <2>1. TypeOK'
    BY <1>0, <1>6 DEF Kill, Present, TypeOK, Pool!TypeOK
  <2>2. Local(vm)
    BY <1>0, <1>6 DEF Kill, Present, Local, Same, TypeOK
  <2>3. VMInv(vm)'
    BY <1>0, <1>6 DEF Kill, Present, TypeOK, VMInv, StageInv, OwnerInv, DownInv, DeletingInv, ReadyInv, Finished, Clean, Networked, Present
  <2> QED
    BY <2>1, <2>2, <2>3, LocalStep
<1>7. CASE ExitReads(vm)
  <2>1. TypeOK'
    BY <1>0, <1>7 DEF ExitReads, TypeOK, Pool!TypeOK
  <2>2. Local(vm)
    BY <1>0, <1>7 DEF ExitReads, Local, Same, TypeOK
  <2>3. VMInv(vm)'
    BY <1>0, <1>7 DEF ExitReads, TypeOK, VMInv, StageInv, OwnerInv, DownInv, DeletingInv, ReadyInv, Finished, Clean, Networked, Present
  <2> QED
    BY <2>1, <2>2, <2>3, LocalStep
<1>8. CASE ExitWrites(vm)
  <2>1. TypeOK'
    BY <1>0, <1>8 DEF ExitWrites, Present, TypeOK, Pool!TypeOK
  <2>2. Local(vm)
    BY <1>0, <1>8 DEF ExitWrites, Present, Local, Same, TypeOK
  <2>3. VMInv(vm)'
    BY <1>0, <1>8 DEF ExitWrites, Present, TypeOK, VMInv, StageInv, OwnerInv, DownInv, DeletingInv, ReadyInv, Finished, Clean, Networked, Present
  <2> QED
    BY <2>1, <2>2, <2>3, LocalStep
<1>9. CASE ExitReleases(vm)
  <2>0. /\ allocated' \in [VMs -> Pool!IPs \union {NoIP}] /\ available' \in Seq(Pool!IPs)
        /\ \A w \in VMs \ {vm} : allocated'[w] = allocated[w]
        /\ allocated'[vm] \in {allocated[vm], NoIP}
    BY <1>0, <1>9, ReleaseEffect DEF ExitReleases, TypeOK, Pool!TypeOK
  <2>1. TypeOK'
    BY <1>0, <1>9, <2>0 DEF ExitReleases, TypeOK, Pool!TypeOK
  <2>2. Local(vm)
    BY <1>0, <1>9, <2>0 DEF ExitReleases, Local, Same, TypeOK
  <2>3. VMInv(vm)'
    BY <1>0, <1>9, <2>0 DEF ExitReleases, TypeOK, VMInv, StageInv, OwnerInv, DownInv, DeletingInv, ReadyInv, Finished, Clean, Networked, Present
  <2> QED
    BY <2>1, <2>2, <2>3, LocalStep
<1>10. CASE ExitCleansRules(vm)
  <2>1. TypeOK'
    BY <1>0, <1>10 DEF ExitCleansRules, TypeOK, Pool!TypeOK
  <2>2. Local(vm)
    BY <1>0, <1>10 DEF ExitCleansRules, Local, Same, TypeOK
  <2>3. VMInv(vm)'
    BY <1>0, <1>10 DEF ExitCleansRules, TypeOK, VMInv, StageInv, OwnerInv, DownInv, DeletingInv, ReadyInv, Finished, Clean, Networked, Present
  <2> QED
    BY <2>1, <2>2, <2>3, LocalStep
<1>11. CASE Delete(vm)
  <2>1. TypeOK'
    BY <1>0, <1>11 DEF Delete, TypeOK, Pool!TypeOK
  <2>2. Local(vm)
    BY <1>0, <1>11 DEF Delete, Local, Same, TypeOK
  <2>3. VMInv(vm)'
    BY <1>0, <1>11 DEF Delete, TypeOK, VMInv, StageInv, OwnerInv, DownInv, DeletingInv, ReadyInv, Finished, Clean, Networked, Present
  <2> QED
    BY <2>1, <2>2, <2>3, LocalStep
<1>12. CASE DeleteCleans(vm)
  <2>0. /\ allocated' \in [VMs -> Pool!IPs \union {NoIP}] /\ available' \in Seq(Pool!IPs)
        /\ \A w \in VMs \ {vm} : allocated'[w] = allocated[w]
        /\ allocated'[vm] = NoIP
    BY <1>0, <1>12, ReleaseEffect
    DEF DeleteCleans, TypeOK, Pool!TypeOK, Networked, VMInv, OwnerInv, StageInv
  <2>1. TypeOK'
    BY <1>0, <1>12, <2>0 DEF DeleteCleans, TypeOK, Pool!TypeOK
  <2>2. Local(vm)
    BY <1>0, <1>12, <2>0 DEF DeleteCleans, Local, Same, TypeOK
  <2>3. VMInv(vm)'
    BY <1>0, <1>12, <2>0 DEF DeleteCleans, TypeOK, VMInv, StageInv, OwnerInv, DownInv, DeletingInv, ReadyInv, Finished, Clean, Networked, Present
  <2> QED
    BY <2>1, <2>2, <2>3, LocalStep
<1>13. CASE DeleteRow(vm)
  <2>0. faults' \in 0 .. MaxFaults /\ (faults' = 0 => faults = 0 /\ rows'[vm] = "absent")
    BY <1>0, <1>13, ResourcesAssumption DEF DeleteRow, Fault, TypeOK
  <2>1. TypeOK'
    BY <1>0, <1>13, <2>0 DEF DeleteRow, TypeOK, Pool!TypeOK
  <2>2. Local(vm)
    BY <1>0, <1>13, <2>0 DEF DeleteRow, Local, Same, TypeOK
  <2>3. VMInv(vm)'
    BY <1>0, <1>13, <2>0 DEF DeleteRow, TypeOK, VMInv, StageInv, OwnerInv, DownInv, DeletingInv, ReadyInv, Finished, Clean, Networked, Present
  <2> QED
    BY <2>1, <2>2, <2>3, LocalStep
<1> QED
  BY <1>1, <1>2, <1>3, <1>4, <1>5, <1>6, <1>7, <1>8, <1>9, <1>10, <1>11, <1>12, <1>13
  DEF LifeStep
-----------------------------------------------------------------------------
(***************************************************************************)
(* Start and end of the daemon.                                             *)
(***************************************************************************)
LEMMA StartsPreserves == ResourcesInv /\ DaemonStarts => ResourcesInv'
<1> SUFFICES ASSUME ResourcesInv, DaemonStarts PROVE ResourcesInv'
  OBVIOUS
<1> USE DEF poolVars, hostVars
<1>0. TypeOK /\ Pool!TypeOK /\ NoIP \notin Pool!IPs
  BY PoolFacts DEF ResourcesInv, TypeOK
<1>1. /\ ~serving /\ serving' = TRUE
      /\ UNCHANGED <<rows, config, disk, tap, chain, forward, entry, job, spiffe,
                     busy, watched, exit, restarts>>
  BY DEF DaemonStarts
<1>2. RecordedAddresses \in [VMs -> Pool!IPs \union {NoIP}]
  BY <1>0 DEF RecordedAddresses, TypeOK
<1>3. /\ allocated' \in [VMs -> Pool!IPs \union {NoIP}] /\ available' \in Seq(Pool!IPs)
      /\ faults' \in 0 .. MaxFaults /\ (faults' = 0 => faults = 0)
      /\ \/ faults' = faults /\ allocated' = RecordedAddresses
         \/ faults' = faults /\ allocated' = allocated /\ Pool!InUse(RecordedAddresses) = {}
         \/ faults' # 0 /\ allocated' = allocated
  <2>1. CASE UNCHANGED poolVars /\ UNCHANGED faults /\ Pool!InUse(RecordedAddresses) = {}
    BY <1>0, <2>1 DEF TypeOK, Pool!TypeOK
  <2>2. CASE Pool!LoadAllocations(RecordedAddresses) /\ UNCHANGED faults
    BY <1>0, <1>2, <2>2, LoadEffect DEF TypeOK
  <2>3. CASE Fault /\ UNCHANGED poolVars
    BY <1>0, <2>3, ResourcesAssumption DEF Fault, TypeOK, Pool!TypeOK
  <2> QED
    BY <2>1, <2>2, <2>3 DEF DaemonStarts
<1>4. TypeOK'
  BY <1>0, <1>1, <1>3 DEF TypeOK, Pool!TypeOK
<1>5. ASSUME NEW vm \in VMs PROVE VMInv(vm)'
  <2>0. VMInv(vm) /\ job[vm] \notin Creating /\ busy[vm] = "no" /\ exit[vm] = "no" /\ vm \notin watched
    BY <1>1 DEF ResourcesInv, VMInv, DownInv
  <2>1. /\ vm \notin Present => RecordedAddresses[vm] = NoIP
        /\ vm \in Present => RecordedAddresses[vm] = config[vm].ip
    BY DEF RecordedAddresses
  <2>2. vm \in Present /\ Networked(vm) => Pool!InUse(RecordedAddresses) # {}
    BY <2>1 DEF Pool!InUse, Networked
  <2>3. allocated'[vm] \in {allocated[vm], RecordedAddresses[vm]}
    BY <1>3
  <2>4. vm \in Present <=> vm \in Present'
    BY <1>1 DEF Present
  <2>5. vm \notin Present => (Clean(vm) => Clean(vm)')
    BY <1>1, <2>1, <2>3 DEF Clean
  <2>6. StageInv(vm)'
    <3>1. job[vm] # "done" => vm \notin Present
      BY <2>0 DEF VMInv, OwnerInv
    <3>2. job[vm] \in {"unused", "done", "over", "cut"}
      BY <1>0, <2>0 DEF TypeOK, Creating
    <3> QED
      BY <1>1, <2>0, <2>1, <2>3, <2>5, <3>1, <3>2 DEF VMInv, StageInv, Networked
  <2>7. OwnerInv(vm)' /\ DownInv(vm)' /\ DeletingInv(vm)'
    BY <1>1, <2>0, <2>4 DEF VMInv, OwnerInv, DownInv, DeletingInv
  <2>8. Finished(vm)' => Clean(vm)'
    <3>1. Finished(vm)' => Finished(vm) /\ vm \notin Present
      BY <1>1, <2>0, <2>4 DEF VMInv, OwnerInv, Finished
    <3> QED
      BY <2>0, <2>5, <3>1 DEF VMInv
  <2>9. ReadyInv(vm)'
    <3> SUFFICES ASSUME rows[vm] = "created"
                 PROVE  /\ faults' = 0 /\ restarts = 0 => vm \in disk
                        /\ Networked(vm) /\ vm \in disk => vm \in tap
                        /\ Networked(vm) /\ (restarts = 0 \/ faults' = 0) => allocated'[vm] = config[vm].ip
      BY <1>1, <2>0 DEF ReadyInv, Networked
    <3>1. vm \in Present /\ restarts # 0
      BY <1>1, <2>0 DEF Present, VMInv, OwnerInv, DownInv
    <3>2. Networked(vm) /\ faults' = 0 => allocated'[vm] = config[vm].ip
      BY <1>3, <2>1, <2>2, <3>1
    <3> QED
      BY <2>0, <3>1, <3>2 DEF VMInv, ReadyInv
  <2> QED
    BY <2>6, <2>7, <2>8, <2>9 DEF VMInv
<1> QED
  BY <1>4, <1>5 DEF ResourcesInv

LEMMA StopsPreserves == ResourcesInv /\ DaemonStops => ResourcesInv'
<1> SUFFICES ASSUME ResourcesInv, DaemonStops PROVE ResourcesInv'
  OBVIOUS
<1> USE DEF poolVars, hostVars
<1>0. TypeOK /\ Pool!TypeOK /\ NoIP \notin Pool!IPs
  BY PoolFacts DEF ResourcesInv, TypeOK
<1>1. /\ allocated' \in [VMs -> Pool!IPs \union {NoIP}] /\ available' \in Seq(Pool!IPs)
      /\ restarts' \in 0 .. MaxRestarts /\ restarts' # 0 /\ serving' = FALSE
      /\ UNCHANGED <<rows, config, disk, tap, chain, forward, entry, faults>>
      /\ watched' = {}
  BY <1>0, AscendingType, ResourcesAssumption DEF DaemonStops, TypeOK
<1>2. \A vm \in VMs : /\ allocated'[vm] = NoIP /\ busy'[vm] = "no" /\ exit'[vm] = "no"
                      /\ job'[vm] \in {"unused", "done", "over", "cut"}
                      /\ job'[vm] # "cut" => job'[vm] = job[vm]
                      /\ job[vm] = "done" => job'[vm] = "done"
  BY DEF DaemonStops
<1>3. TypeOK'
  <2>1. /\ job' \in [VMs -> {"unused", "limits", "disk", "address", "tap", "egress",
                             "spire", "insert", "done", "over", "cut"}]
        /\ spiffe' \in [VMs -> BOOLEAN]
        /\ busy' \in [VMs -> {"no", "start", "launched", "broken", "clean", "row"}]
        /\ exit' \in [VMs -> {"no", "write", "release", "rules"}]
    BY <1>0 DEF DaemonStops, TypeOK
  <2> QED
    BY <1>0, <1>1, <2>1 DEF TypeOK, Pool!TypeOK
<1>4. ASSUME NEW vm \in VMs PROVE VMInv(vm)'
  <2>0. VMInv(vm)
    BY DEF ResourcesInv
  <2> QED
    BY <1>1, <1>2, <2>0 DEF Creating, VMInv, StageInv, OwnerInv, DownInv, DeletingInv, ReadyInv, Finished, Clean, Networked, Present
<1> QED
  BY <1>3, <1>4 DEF ResourcesInv

-----------------------------------------------------------------------------
LEMMA InitResources == Init => ResourcesInv
<1> SUFFICES ASSUME Init PROVE ResourcesInv
  OBVIOUS
<1>0. NoIP \notin Pool!IPs
  BY PoolFacts
<1>1. available \in Seq(Pool!IPs) /\ allocated = [vm \in VMs |-> NoIP]
  BY AscendingType DEF Init, Pool!NewIPAM
<1>2. TypeOK
  <2>1. config \in [VMs -> [name : Names \union {NoName}, ip : Pool!IPs \union {NoIP}]]
    BY DEF Init
  <2>2. Pool!TypeOK
    BY <1>1 DEF Init, Pool!TypeOK
  <2>3. faults \in 0 .. MaxFaults /\ restarts \in 0 .. MaxRestarts
    BY ResourcesAssumption DEF Init
  <2> QED
    BY <2>1, <2>2, <2>3 DEF Init, TypeOK
<1>3. ASSUME NEW vm \in VMs PROVE VMInv(vm)
  BY <1>1 DEF Init, Creating, VMInv, StageInv, OwnerInv, DownInv, DeletingInv, ReadyInv, Finished, Clean, Networked, Present
<1> QED
  BY <1>2, <1>3 DEF ResourcesInv

LEMMA NextResources == ResourcesInv /\ [Next]_vars => ResourcesInv'
<1> SUFFICES ASSUME ResourcesInv, [Next]_vars PROVE ResourcesInv'
  OBVIOUS
<1>1. CASE \E vm \in VMs : CreateStep(vm) \/ LifeStep(vm)
  BY <1>1, CreatePreserves, LifePreserves
<1>2. CASE DaemonStarts \/ DaemonStops
  BY <1>2, StartsPreserves, StopsPreserves
<1>3. CASE UNCHANGED vars
  <2>1. TypeOK'
    BY <1>3 DEF vars, poolVars, hostVars, ResourcesInv, TypeOK, Pool!TypeOK
  <2>2. ASSUME NEW vm \in VMs PROVE VMInv(vm)'
    BY <1>3, SamePreserves DEF vars, poolVars, hostVars, ResourcesInv, Same
  <2> QED
    BY <2>1, <2>2 DEF ResourcesInv
<1> QED
  BY <1>1, <1>2, <1>3 DEF Next

\* Every variable keeps its type, the address manager's included.
THEOREM ResourcesTypeCorrect == Spec => []TypeOK
<1>1. ResourcesInv => TypeOK
  BY DEF ResourcesInv
<1> QED
  BY <1>1, InitResources, NextResources, PTL DEF Spec

\* A refused create and a completed delete leave nothing behind, at whatever
\* call the create failed and whatever ran beside the delete
\* (cleanupCreatedVMResources, cleanupDeletedVMResources).
THEOREM FinishedLeavesNothing == Spec => []NothingLeftBehind
<1>1. ResourcesInv => NothingLeftBehind
  BY DEF ResourcesInv, VMInv, NothingLeftBehind, Clean
<1> QED
  BY <1>1, InitResources, NextResources, PTL DEF Spec

\* A VM that was created and never started keeps its disk, device and address,
\* through the steps of other VMs and through restarts (handleCreateVM,
\* loadExistingAllocations).
THEOREM CreatedStaysReady == Spec => []CreatedIsReady
<1>1. ResourcesInv => CreatedIsReady
  BY DEF ResourcesInv, VMInv, ReadyInv, CreatedIsReady
<1> QED
  BY <1>1, InitResources, NextResources, PTL DEF Spec
==============================================================================
