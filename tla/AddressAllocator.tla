-------------------------- MODULE AddressAllocator --------------------------
(***************************************************************************)
(* What an address manager promises to the VMs that use it: every address  *)
(* has at most one owner, a VM owns at most one address, and while the      *)
(* manager is open an address changes hands only by being given up first.  *)
(* How the manager picks an address and how it keeps its books is left to  *)
(* the implementation (module IPAM).                                       *)
(***************************************************************************)
CONSTANTS VMs,     \* virtual machine identifiers
          IPs,     \* the addresses of the pool
          NoVM     \* the owner of a free address

VARIABLES owner,   \* owner[ip] is the VM that ip belongs to, or NoVM
          open     \* the manager takes requests

allocatorVars == <<owner, open>>

Nobody == [ip \in IPs |-> NoVM]

Owns(vm) == \E ip \in IPs : owner[ip] = vm

Init == owner = Nobody /\ open = FALSE

\* A manager that starts adopts an assignment in which no VM appears twice.
Restore == /\ ~open
           /\ open' = TRUE
           /\ owner' \in [IPs -> VMs \union {NoVM}]
           /\ \A i, j \in IPs : owner'[i] = owner'[j] /\ owner'[i] # NoVM => i = j

Grant(vm) == /\ open
             /\ ~Owns(vm)
             /\ \E ip \in IPs : /\ owner[ip] = NoVM
                                /\ owner' = [owner EXCEPT ![ip] = vm]
             /\ UNCHANGED open

Revoke(vm) == /\ open
              /\ \E ip \in IPs : /\ owner[ip] = vm
                                 /\ owner' = [owner EXCEPT ![ip] = NoVM]
              /\ UNCHANGED open

\* The manager goes down and forgets.
Close == open /\ open' = FALSE /\ owner' = Nobody

Next == \/ Restore
        \/ \E vm \in VMs : Grant(vm) \/ Revoke(vm)
        \/ Close

Spec == Init /\ [][Next]_allocatorVars
=============================================================================
