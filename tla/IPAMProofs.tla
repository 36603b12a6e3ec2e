----------------------------- MODULE IPAMProofs -----------------------------
(***************************************************************************)
(* Proofs about module IPAM, for every set of VMs and every pool.          *)
(***************************************************************************)
EXTENDS IPAM, TLAPS, SequenceTheorems

\* A member of Ascending(S) is a sequence over S without repetitions that
\* lists exactly S.
LEMMA AscendingProperties ==
  ASSUME NEW S \in SUBSET IPs, NEW s \in Ascending(S)
  PROVE  /\ s \in Seq(IPs)
         /\ Elements(s) = S
         /\ \A i, j \in DOMAIN s : s[i] = s[j] => i = j
<1>1. PICK n \in Nat : s \in [1 .. n -> S]
  BY HostAssumption DEF Ascending
<1>2. S \subseteq Nat
  BY HostAssumption DEF IPs
<1>3. s \in Seq(IPs)
  <2>1. s \in [1 .. n -> IPs]
    BY <1>1
  <2> QED
    BY <2>1
<1>4. \A i, j \in DOMAIN s : s[i] = s[j] => i = j
  <2> SUFFICES ASSUME NEW i \in DOMAIN s, NEW j \in DOMAIN s, s[i] = s[j]
               PROVE  i = j
    OBVIOUS
  <2>0. DOMAIN s = 1 .. n /\ s[i] \in S /\ s[j] \in S
    BY <1>1
  <2>1. i \in Nat /\ j \in Nat
    BY <2>0
  <2>2. s[i] \in Nat /\ s[j] \in Nat
    BY <1>2, <2>0
  <2>3. /\ i < j => s[i] < s[j]
        /\ j < i => s[j] < s[i]
    BY DEF Ascending
  <2> QED
    BY <2>1, <2>2, <2>3
<1> QED
  BY <1>3, <1>4 DEF Ascending

\* The invariant that is inductive as it stands.
IInv == TypeOK /\ PoolPartition

LEMMA InitIInv == Init => IInv
<1> SUFFICES ASSUME Init PROVE IInv
  OBVIOUS
<1>1. available \in Ascending(IPs) /\ serving \in BOOLEAN
  BY DEF Init, NewIPAM
<1>2. /\ available \in Seq(IPs)
      /\ Elements(available) = IPs
      /\ FreeListDistinct
  BY <1>1, AscendingProperties DEF FreeListDistinct
<1>3. allocated = [vm \in VMs |-> NoIP]
  BY DEF Init, NewIPAM
<1>4. \A i \in DOMAIN available : available[i] \in IPs
  BY <1>2
<1> QED
  BY <1>1, <1>2, <1>3, <1>4, HostAssumption
  DEF IInv, TypeOK, PoolPartition, NoSharedIP, FreeIsFree, NothingLost, InUse

LEMMA AllocatePreserves ==
  ASSUME IInv, NEW vm \in VMs, Allocate(vm)
  PROVE  IInv'
<1> USE DEF IInv, PoolPartition, Allocate, Release
<1>1. CASE ~CanAllocate(vm)
  BY <1>1 DEF AllocateIP, books, TypeOK, NoSharedIP, FreeListDistinct,
              FreeIsFree, NothingLost, InUse, Elements
<1>2. CASE CanAllocate(vm)
  <2> DEFINE ip == Head(available)
  <2>1. /\ allocated' = [allocated EXCEPT ![vm] = ip]
        /\ available' = Tail(available)
        /\ allocated[vm] = NoIP
    BY <1>2 DEF AllocateIP, CanAllocate
  <2>2. /\ Len(available) \in Nat \ {0}
        /\ available \in Seq(IPs)
        /\ DOMAIN available = 1 .. Len(available)
        /\ available' \in Seq(IPs)
        /\ DOMAIN available' = 1 .. Len(available) - 1
        /\ \A i \in DOMAIN available' : available'[i] = available[i + 1]
        /\ ip = available[1]
    BY <1>2, <2>1, HeadTailProperties DEF CanAllocate, TypeOK
  <2>3. ip \in IPs /\ ip # NoIP
    BY <2>2, HostAssumption
  <2>4. TypeOK'
    BY <2>1, <2>2, <2>3 DEF TypeOK
  <2>5. NoSharedIP'
    BY <2>1, <2>2, <2>3 DEF NoSharedIP, FreeIsFree, TypeOK
  <2>6. FreeListDistinct'
    BY <2>2 DEF FreeListDistinct
  <2>7. FreeIsFree'
    <3> SUFFICES ASSUME NEW i \in DOMAIN available', NEW v \in VMs
                 PROVE  allocated'[v] # available'[i]
      BY DEF FreeIsFree
    <3>1. i + 1 \in DOMAIN available /\ i + 1 # 1 /\ 1 \in DOMAIN available
      BY <2>2
    <3>2. available[i + 1] # ip
      BY <2>2, <3>1 DEF FreeListDistinct
    <3> QED
      BY <2>1, <2>2, <3>1, <3>2 DEF FreeIsFree, TypeOK
  <2>8. NothingLost'
    <3> SUFFICES ASSUME NEW x \in IPs
                 PROVE  x \in Elements(available)' \/ x \in InUse(allocated')
      BY DEF NothingLost, Elements
    <3>1. CASE x = ip
      BY <2>1, <2>3, <3>1 DEF InUse, TypeOK
    <3>2. CASE x # ip /\ x \in InUse(allocated)
      BY <2>1, <3>2 DEF InUse, TypeOK
    <3>3. CASE x # ip /\ x \in Elements(available)
      <4>1. PICK i \in DOMAIN available : x = available[i]
        BY <3>3 DEF Elements
      <4>2. i # 1
        BY <2>2, <3>3, <4>1
      <4>3. i - 1 \in DOMAIN available' /\ available'[i - 1] = x
        BY <2>2, <4>1, <4>2
      <4> QED
        BY <4>3 DEF Elements
    <3> QED
      BY <3>1, <3>2, <3>3 DEF NothingLost
  <2> QED
    BY <2>4, <2>5, <2>6, <2>7, <2>8
<1> QED
  BY <1>1, <1>2

LEMMA ReleasePreserves ==
  ASSUME IInv, NEW vm \in VMs, Release(vm)
  PROVE  IInv'
<1> USE DEF IInv, PoolPartition, Allocate, Release
<1>1. CASE allocated[vm] = NoIP
  BY <1>1 DEF ReleaseIP, books, TypeOK, NoSharedIP, FreeListDistinct,
              FreeIsFree, NothingLost, InUse, Elements
<1>2. CASE allocated[vm] # NoIP
  <2> DEFINE ip == allocated[vm]
             n  == Len(available)
  <2>1. /\ allocated' = [allocated EXCEPT ![vm] = NoIP]
        /\ available' = Append(available, ip)
        /\ ip \in IPs
    BY <1>2 DEF ReleaseIP, TypeOK
  <2>2. /\ n \in Nat
        /\ available \in Seq(IPs)
        /\ DOMAIN available = 1 .. n
        /\ available' \in Seq(IPs)
        /\ DOMAIN available' = 1 .. n + 1
        /\ \A i \in 1 .. n : available'[i] = available[i]
        /\ available'[n + 1] = ip
    BY <2>1, AppendProperties, LenProperties DEF TypeOK
  <2>3. TypeOK'
    BY <2>1, <2>2 DEF TypeOK
  <2>4. NoSharedIP'
    BY <2>1 DEF NoSharedIP, TypeOK
  <2>5. FreeListDistinct'
    BY <2>2 DEF FreeListDistinct, FreeIsFree
  <2>6. FreeIsFree'
    <3> SUFFICES ASSUME NEW i \in DOMAIN available', NEW v \in VMs
                 PROVE  allocated'[v] # available'[i]
      BY DEF FreeIsFree
    <3>1. available'[i] \in IPs
      BY <2>2
    <3>2. CASE v = vm
      BY <2>1, <3>1, <3>2, HostAssumption DEF TypeOK
    <3>3. CASE v # vm /\ i \in 1 .. n
      BY <2>1, <2>2, <3>3 DEF FreeIsFree, TypeOK
    <3>4. CASE v # vm /\ i = n + 1
      BY <1>2, <2>1, <2>2, <3>4 DEF NoSharedIP, TypeOK
    <3> QED
      BY <2>2, <3>2, <3>3, <3>4
  <2>7. NothingLost'
    <3> SUFFICES ASSUME NEW x \in IPs
                 PROVE  x \in Elements(available)' \/ x \in InUse(allocated')
      BY DEF NothingLost, Elements
    <3>1. CASE x = ip
      BY <2>2, <3>1 DEF Elements
    <3>2. CASE x # ip /\ x \in InUse(allocated)
      <4>1. PICK v \in VMs : allocated[v] = x /\ x # NoIP
        BY <3>2 DEF InUse
      <4>2. v # vm
        BY <3>2, <4>1
      <4> QED
        BY <2>1, <4>1, <4>2 DEF InUse, TypeOK
    <3>3. CASE x \in Elements(available)
      BY <2>2, <3>3 DEF Elements
    <3> QED
      BY <3>1, <3>2, <3>3 DEF NothingLost
  <2> QED
    BY <2>3, <2>4, <2>5, <2>6, <2>7
<1> QED
  BY <1>1, <1>2

LEMMA LoadPreserves ==
  ASSUME NEW alloc \in Restorable, LoadAllocations(alloc), serving' \in BOOLEAN
  PROVE  IInv'
<1> DEFINE S == IPs \ InUse(alloc)
<1>1. allocated' = alloc /\ available' \in Ascending(S)
  BY DEF LoadAllocations
<1>2. /\ available' \in Seq(IPs)
      /\ Elements(available') = S
      /\ \A i, j \in DOMAIN available' : available'[i] = available'[j] => i = j
  BY <1>1, AscendingProperties
<1>3. \A i \in DOMAIN available' : available'[i] \in S
  BY <1>2 DEF Elements
<1>4. TypeOK' /\ NoSharedIP' /\ FreeListDistinct'
  BY <1>1, <1>2 DEF TypeOK, NoSharedIP, FreeListDistinct, Restorable
<1>5. FreeIsFree'
  BY <1>1, <1>3, HostAssumption DEF FreeIsFree, InUse
<1>6. NothingLost'
  BY <1>1, <1>2 DEF NothingLost, Elements
<1> QED
  BY <1>4, <1>5, <1>6 DEF IInv, PoolPartition

\* A manager that forgets is in the state a load of nothing leaves.
LEMMA ForgetIsLoad ==
  ASSUME allocated' = [vm \in VMs |-> NoIP], available' \in Ascending(IPs)
  PROVE  \E alloc \in Restorable : LoadAllocations(alloc)
<1> DEFINE nothing == [vm \in VMs |-> NoIP]
<1>1. nothing \in Restorable
  BY DEF Restorable
<1>2. InUse(nothing) = {}
  BY DEF InUse
<1>3. IPs \ InUse(nothing) = IPs
  BY <1>2
<1>4. LoadAllocations(nothing)
  BY <1>3 DEF LoadAllocations
<1> QED
  BY <1>1, <1>4

\* Every reachable state of the manager is well typed and its books balance:
\* no pool address is assigned twice, free twice, both, or lost.
THEOREM PoolPartitionAlways == Spec => [](TypeOK /\ PoolPartition)
<1>1. Init => IInv
  BY InitIInv
<1>2. IInv /\ [Next]_ipamVars => IInv'
  <2> SUFFICES ASSUME IInv, [Next]_ipamVars PROVE IInv'
    OBVIOUS
  <2>1. CASE \E vm \in VMs : Allocate(vm)
    BY <2>1, AllocatePreserves
  <2>2. CASE \E vm \in VMs : Release(vm)
    BY <2>2, ReleasePreserves
  <2>3. CASE Startup
    BY <2>3, LoadPreserves DEF Startup
  <2>5. CASE Shutdown
    BY <2>5, ForgetIsLoad, LoadPreserves DEF Shutdown
  <2>4. CASE UNCHANGED ipamVars
    BY <2>4 DEF ipamVars, IInv, PoolPartition, TypeOK, NoSharedIP,
                FreeListDistinct, FreeIsFree, NothingLost, InUse, Elements
  <2> QED
    BY <2>1, <2>2, <2>3, <2>4, <2>5 DEF Next
<1> QED
  BY <1>1, <1>2, PTL DEF Spec, IInv

-----------------------------------------------------------------------------
\* What the refinement mapping computes in a state whose books balance.
OwnerCorrect ==
    \A ip \in IPs : /\ OwnerOf(ip) \in VMs \union {NoVM}
                    /\ \A vm \in VMs : OwnerOf(ip) = vm <=> allocated[vm] = ip

LEMMA OwnerOfProperties == IInv => OwnerCorrect
<1> SUFFICES ASSUME IInv, NEW ip \in IPs
             PROVE  /\ OwnerOf(ip) \in VMs \union {NoVM}
                    /\ \A vm \in VMs : OwnerOf(ip) = vm <=> allocated[vm] = ip
  BY DEF OwnerCorrect
<1>1. CASE \E vm \in VMs : allocated[vm] = ip
  <2>1. OwnerOf(ip) \in VMs /\ allocated[OwnerOf(ip)] = ip
    BY <1>1 DEF OwnerOf
  <2>2. ip # NoIP
    BY HostAssumption
  <2> QED
    BY <2>1, <2>2 DEF IInv, PoolPartition, NoSharedIP
<1>2. CASE ~ \E vm \in VMs : allocated[vm] = ip
  BY <1>2, NoVMAssumption DEF OwnerOf
<1> QED
  BY <1>1, <1>2

owners == [ip \in IPs |-> OwnerOf(ip)]

LEMMA AllocateRefines ==
  ASSUME IInv, IInv', OwnerCorrect, OwnerCorrect', NEW vm \in VMs, Allocate(vm)
  PROVE  Allocator!Grant(vm) \/ UNCHANGED <<owners, serving>>
<1> USE DEF Allocate
<1>1. CASE ~CanAllocate(vm)
  BY <1>1 DEF AllocateIP, books, owners, OwnerOf
<1>2. CASE CanAllocate(vm)
  <2> DEFINE ip == Head(available)
  <2>1. /\ allocated' = [allocated EXCEPT ![vm] = ip]
        /\ allocated[vm] = NoIP
        /\ ip = available[1]
        /\ 1 \in DOMAIN available
        /\ ip \in IPs
    BY <1>2, HeadTailProperties DEF AllocateIP, CanAllocate, IInv, TypeOK
  <2>2. ~Allocator!Owns(vm)
    BY <2>1, HostAssumption DEF Allocator!Owns, OwnerCorrect
  <2>3. owners[ip] = NoVM
    BY <2>1 DEF owners, OwnerCorrect, IInv, PoolPartition, FreeIsFree
  <2>4. \A x \in IPs : OwnerOf(x)' = IF x = ip THEN vm ELSE OwnerOf(x)
    <3> SUFFICES ASSUME NEW x \in IPs
                 PROVE  OwnerOf(x)' = IF x = ip THEN vm ELSE OwnerOf(x)
      OBVIOUS
    <3>1. \A v \in VMs : allocated'[v] = IF v = vm THEN ip ELSE allocated[v]
      BY <2>1 DEF IInv, TypeOK
    <3>2. CASE x = ip
      BY <3>1, <3>2 DEF OwnerCorrect
    <3>3. CASE x # ip
      <4>1. \A v \in VMs : allocated'[v] = x <=> allocated[v] = x
        BY <2>1, <3>1, <3>3, HostAssumption
      <4> QED
        BY <3>3, <4>1 DEF OwnerCorrect
    <3> QED
      BY <3>2, <3>3
  <2>5. owners' = [owners EXCEPT ![ip] = vm]
    BY <2>1, <2>4 DEF owners
  <2> QED
    BY <2>1, <2>2, <2>3, <2>5 DEF Allocator!Grant, owners
<1> QED
  BY <1>1, <1>2

LEMMA ReleaseRefines ==
  ASSUME IInv, IInv', OwnerCorrect, OwnerCorrect', NEW vm \in VMs, Release(vm)
  PROVE  Allocator!Revoke(vm) \/ UNCHANGED <<owners, serving>>
<1> USE DEF Release
<1>1. CASE allocated[vm] = NoIP
  BY <1>1 DEF ReleaseIP, books, owners, OwnerOf
<1>2. CASE allocated[vm] # NoIP
  <2> DEFINE ip == allocated[vm]
  <2>1. /\ allocated' = [allocated EXCEPT ![vm] = NoIP]
        /\ ip \in IPs
    BY <1>2 DEF ReleaseIP, IInv, TypeOK
  <2>2. owners[ip] = vm
    BY <2>1 DEF owners, OwnerCorrect
  <2>3. \A x \in IPs : OwnerOf(x)' = IF x = ip THEN NoVM ELSE OwnerOf(x)
    <3> SUFFICES ASSUME NEW x \in IPs
                 PROVE  OwnerOf(x)' = IF x = ip THEN NoVM ELSE OwnerOf(x)
      OBVIOUS
    <3>1. \A v \in VMs : allocated'[v] = IF v = vm THEN NoIP ELSE allocated[v]
      BY <2>1 DEF IInv, TypeOK
    <3>2. CASE x = ip
      <4>1. \A v \in VMs : allocated'[v] # x
        BY <1>2, <2>1, <3>1, <3>2, HostAssumption
        DEF IInv, PoolPartition, NoSharedIP
      <4> QED
        BY <3>2, <4>1 DEF OwnerCorrect
    <3>3. CASE x # ip
      <4>1. \A v \in VMs : allocated'[v] = x <=> allocated[v] = x
        BY <2>1, <3>1, <3>3, HostAssumption
      <4> QED
        BY <3>3, <4>1 DEF OwnerCorrect
    <3> QED
      BY <3>2, <3>3
  <2>4. owners' = [owners EXCEPT ![ip] = NoVM]
    BY <2>1, <2>3 DEF owners
  <2> QED
    BY <2>1, <2>2, <2>4 DEF Allocator!Revoke, owners
<1> QED
  BY <1>1, <1>2

LEMMA StartupRefines ==
  ASSUME IInv', OwnerCorrect', Startup
  PROVE  Allocator!Restore
<1>1. owners' \in [IPs -> VMs \union {NoVM}]
  BY DEF owners, OwnerCorrect
<1>2. \A i, j \in IPs : owners'[i] = owners'[j] /\ owners'[i] # NoVM => i = j
  <2> SUFFICES ASSUME NEW i \in IPs, NEW j \in IPs,
                      OwnerOf(i)' = OwnerOf(j)', OwnerOf(i)' # NoVM
               PROVE  i = j
    BY DEF owners
  <2>1. PICK v \in VMs : OwnerOf(i)' = v
    BY DEF OwnerCorrect
  <2>2. allocated'[v] = i /\ allocated'[v] = j
    BY <2>1 DEF OwnerCorrect
  <2> QED
    BY <2>2
<1> QED
  BY <1>1, <1>2 DEF Allocator!Restore, owners, Startup

LEMMA ShutdownRefines ==
  ASSUME Shutdown
  PROVE  Allocator!Close
<1>1. \A ip \in IPs : OwnerOf(ip)' = NoVM
  BY HostAssumption DEF Shutdown, OwnerOf
<1>2. owners' = Allocator!Nobody
  BY <1>1 DEF owners, Allocator!Nobody
<1> QED
  BY <1>2 DEF Allocator!Close, owners, Shutdown

\* The manager implements the abstract allocator: whatever the order of
\* allocations, releases and restarts, an address has one owner at a time and is
\* never taken from a VM by giving it to another.
THEOREM IPAMImplementsAllocator == Spec => AllocatorSpec
<1>1. Init => Allocator!Init
  <2> SUFFICES ASSUME Init PROVE Allocator!Init
    OBVIOUS
  <2>1. \A ip \in IPs : OwnerOf(ip) = NoVM
    BY HostAssumption DEF Init, NewIPAM, OwnerOf
  <2> QED
    BY <2>1 DEF Init, Allocator!Init, Allocator!Nobody
<1>2. IInv /\ IInv' /\ OwnerCorrect /\ OwnerCorrect' /\ [Next]_ipamVars
        => [Allocator!Next]_<<owners, serving>>
  <2> SUFFICES ASSUME IInv, IInv', OwnerCorrect, OwnerCorrect', [Next]_ipamVars
               PROVE  Allocator!Next \/ UNCHANGED <<owners, serving>>
    OBVIOUS
  <2>1. CASE \E vm \in VMs : Allocate(vm)
    BY <2>1, AllocateRefines DEF Allocator!Next
  <2>2. CASE \E vm \in VMs : Release(vm)
    BY <2>2, ReleaseRefines DEF Allocator!Next
  <2>3. CASE Startup
    BY <2>3, StartupRefines DEF Allocator!Next
  <2>4. CASE Shutdown
    BY <2>4, ShutdownRefines DEF Allocator!Next
  <2>5. CASE UNCHANGED ipamVars
    BY <2>5 DEF ipamVars, owners, OwnerOf
  <2> QED
    BY <2>1, <2>2, <2>3, <2>4, <2>5 DEF Next
<1>3. Spec => []IInv
  BY PoolPartitionAlways DEF IInv
<1> QED
  BY <1>1, <1>2, <1>3, OwnerOfProperties, PTL
  DEF Spec, AllocatorSpec, Allocator!Spec, Allocator!allocatorVars, owners
=============================================================================
