-------------------------------- MODULE IPAM --------------------------------
(***************************************************************************)
(* The IP address manager of the daemon (internal/network/ipam.go).  Every *)
(* operation runs under the manager's mutex, so each one is one action.    *)
(* An address is represented by its last octet: the pool is 172.16.0.10 to *)
(* 172.16.0.254, FirstHost to LastHost here.                               *)
(***************************************************************************)
EXTENDS Naturals, Sequences

CONSTANTS VMs,                  \* virtual machine identifiers
          FirstHost, LastHost,  \* the last octets that bound the pool
          NoIP                  \* "no entry in the map"

IPs == FirstHost .. LastHost

ASSUME HostAssumption == /\ FirstHost \in Nat
                         /\ LastHost \in Nat
                         /\ NoIP \notin IPs

VARIABLES allocated,   \* map[string]string: VM -> address
          available,   \* []string: the free addresses, next to be given first
          serving      \* the daemon has started up and takes requests

books    == <<allocated, available>>
ipamVars == <<allocated, available, serving>>

Elements(s) == {s[i] : i \in DOMAIN s}

\* The addresses some VM holds according to the map alloc.
InUse(alloc) == {alloc[vm] : vm \in VMs} \ {NoIP}

\* The free list the loops over 10..254 build: the addresses of S, ascending.
\* (One sequence; written as a set so that nothing has to be chosen.)
Ascending(S) ==
    {s \in UNION {[1 .. n -> S] : n \in 0 .. LastHost + 1} :
        /\ \A i, j \in DOMAIN s : i < j => s[i] < s[j]
        /\ Elements(s) = S}

NewIPAM == /\ allocated = [vm \in VMs |-> NoIP]
           /\ available \in Ascending(IPs)

(***************************************************************************)
(* AllocateIP returns the address a VM already has, fails when the pool is *)
(* exhausted (both leave the state alone), and otherwise hands out the     *)
(* head of the free list.                                                  *)
(***************************************************************************)
CanAllocate(vm) == allocated[vm] = NoIP /\ available # <<>>

\* Mutation of AllocateIP: the VM that already has an address is not recognised.
AllocateIPAlways(vm) ==
    IF available # <<>>
      THEN /\ allocated' = [allocated EXCEPT ![vm] = Head(available)]
           /\ available' = Tail(available)
      ELSE UNCHANGED books

\* Mutation of AllocateIP: the head is handed out and left on the free list.
AllocateIPKeepingHead(vm) ==
    IF CanAllocate(vm)
      THEN /\ allocated' = [allocated EXCEPT ![vm] = Head(available)]
           /\ UNCHANGED available
      ELSE UNCHANGED books

AllocateIP(vm) ==
    IF CanAllocate(vm)
      THEN /\ allocated' = [allocated EXCEPT ![vm] = Head(available)]
           /\ available' = Tail(available)
      ELSE UNCHANGED books

\* Mutation of ReleaseIP: the entry is not looked up first.
ReleaseIPUnchecked(vm) ==
    /\ allocated' = [allocated EXCEPT ![vm] = NoIP]
    /\ available' = Append(available, allocated[vm])

ReleaseIP(vm) ==
    IF allocated[vm] # NoIP
      THEN /\ allocated' = [allocated EXCEPT ![vm] = NoIP]
           /\ available' = Append(available, allocated[vm])
      ELSE UNCHANGED books

\* Replaces everything by the assignment read from the database: it is stored
\* as it comes, and the free list is rebuilt from the addresses it leaves out.
LoadAllocations(alloc) ==
    /\ allocated' = alloc
    /\ available' \in Ascending(IPs \ InUse(alloc))

\* The assignments a caller can hand over without breaking the manager: pool
\* addresses, none of them twice.  The manager itself does not check this;
\* module VMResources asks whether its caller guarantees it.
Restorable == {alloc \in [VMs -> IPs \union {NoIP}] :
                 \A v, w \in VMs : alloc[v] = alloc[w] /\ alloc[v] # NoIP => v = w}

Init == NewIPAM /\ serving = FALSE

\* startServer: loadExistingAllocations, once, before the first request.  An
\* empty assignment stands for the fresh pool of a daemon without VMs.
Startup == /\ ~serving
           /\ serving' = TRUE
           /\ \E alloc \in Restorable : LoadAllocations(alloc)

\* The handlers of the running daemon.
Allocate(vm) == serving /\ AllocateIP(vm) /\ UNCHANGED serving

Release(vm) == serving /\ ReleaseIP(vm) /\ UNCHANGED serving

\* The manager lives in memory only: the next daemon begins with NewIPAM.
Shutdown == /\ serving
            /\ serving' = FALSE
            /\ allocated' = [vm \in VMs |-> NoIP]
            /\ available' \in Ascending(IPs)

Next == \/ Startup
        \/ \E vm \in VMs : Allocate(vm) \/ Release(vm)
        \/ Shutdown

Spec == Init /\ [][Next]_ipamVars

-----------------------------------------------------------------------------
\* Type invariant: the map assigns pool addresses, the free list holds them.
TypeOK == /\ allocated \in [VMs -> IPs \union {NoIP}]
          /\ available \in Seq(IPs)
          /\ serving \in BOOLEAN

\* No address is assigned to two VMs.
NoSharedIP ==
    \A v, w \in VMs : allocated[v] = allocated[w] /\ allocated[v] # NoIP => v = w

\* No address is on the free list twice: ReleaseIP never frees one again.
FreeListDistinct ==
    \A i, j \in DOMAIN available : available[i] = available[j] => i = j

\* An address on the free list is not assigned.
FreeIsFree == \A i \in DOMAIN available : \A vm \in VMs : allocated[vm] # available[i]

\* No address is lost: it is assigned or on the free list.
NothingLost == IPs \subseteq Elements(available) \union InUse(allocated)

\* The books balance: after any sequence of allocations, releases and reloads
\* every pool address is in exactly one place, once (ipam.go allocate/release).
PoolPartition == /\ NoSharedIP
                 /\ FreeListDistinct
                 /\ FreeIsFree
                 /\ NothingLost

-----------------------------------------------------------------------------
CONSTANT NoVM    \* the owner of a free address, in the abstract allocator

ASSUME NoVMAssumption == NoVM \notin VMs

OwnerOf(ip) == IF \E vm \in VMs : allocated[vm] = ip
                 THEN CHOOSE vm \in VMs : allocated[vm] = ip
                 ELSE NoVM

Allocator == INSTANCE AddressAllocator
               WITH owner <- [ip \in IPs |-> OwnerOf(ip)], open <- serving

\* The free list and the map together implement exclusive ownership: while the
\* daemon runs, an address passes from one VM to another only through
\* ReleaseIP (ipam.go AllocateIP, ReleaseIP, LoadAllocations).
AllocatorSpec == Allocator!Spec
=============================================================================
