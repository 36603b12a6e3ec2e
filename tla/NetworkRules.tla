---------------------------- MODULE NetworkRules ----------------------------
(***************************************************************************)
(* The host network of the VMs, command by command: bridge and NAT at the  *)
(* start of the daemon, a TAP device and an egress chain per VM, and the   *)
(* five rules of every port forward (internal/network).  Each ip and       *)
(* iptables command may fail, and the daemon may die between two of them.  *)
(*                                                                         *)
(* The VMs have the same address, one after the other; a rule is keyed by  *)
(* that address, a TAP device and an egress chain by the VM.               *)
(***************************************************************************)
EXTENDS Naturals, Sequences, SequencesExt

CONSTANTS
  NetVMs,        \* VMs that have the address one after the other
  Policies,      \* egress policies: dns, proxy, proxyOnly, rules, default
  Destinations,  \* where packets of a VM may go: "dns", "proxy" and others
  Forwards,      \* the port forwards of a VM: host port and VM port, in order
  MaxRuleFaults  \* bound: failing commands and deaths of the daemon

VARIABLES
  hostNet,    \* the daemon: "down", "bridge", "nat" or "up"
  bridge,     \* 0 none, 1 link, 2 with address, 3 up, 4 with route
  natRules,   \* of the three NAT rules, those that are there
  policy,     \* per VM: its egress policy
  phase,      \* per VM: "none", "tap", "egress", "ready", "forward", "running", "gone"
  at,         \* per VM: the next step of the egress policy, or of the forwards
  tap,        \* per VM: 0 none, 1 created, 2 up, 3 attached to the bridge
  chain,      \* per VM: the rules of its egress chain, or NoChain
  forward,    \* the FORWARD chain, as far as packets of the VMs go
  table,      \* rules of port forwards
  exited,     \* history, per VM: the exit handler has cleaned up
  left,       \* history: a deletion failed, or a VM's rules were given up in the middle
  halfBridge, \* history: a bridge was left behind half configured
  ruleFaults

hostVars == <<hostNet, bridge, natRules, halfBridge>>
ruleVars == <<hostVars, policy, phase, at, tap, chain, forward, table, exited, left, ruleFaults>>

ASSUME RulesAssumption ==
  /\ Policies \subseteq [dns : BOOLEAN, proxy : BOOLEAN, proxyOnly : BOOLEAN, rules : Seq(Destinations), default : STRING]
  /\ {"ACCEPT", "DROP"} \intersect Destinations = {}
  /\ Forwards \in Seq(ToSet(Forwards)) /\ Forwards # <<>>

NoChain == <<"no chain">>
Jump(v, kind) == <<kind, v>>       \* kind "bridge" matches the address, "tap" also the device
JumpKinds == <<"bridge", "tap">>

MoreFaults(n) == ruleFaults + n <= MaxRuleFaults /\ ruleFaults' = ruleFaults + n

RulesInit ==
  /\ hostNet = "down" /\ bridge = 0 /\ natRules = {}
  /\ policy \in [NetVMs -> Policies] /\ phase = [v \in NetVMs |-> "none"]
  /\ at = [v \in NetVMs |-> 0] /\ tap = [v \in NetVMs |-> 0]
  /\ chain = [v \in NetVMs |-> NoChain] /\ forward = <<>> /\ table = {}
  /\ exited = [v \in NetVMs |-> FALSE] /\ left = FALSE
  /\ halfBridge = FALSE /\ ruleFaults = 0

-----------------------------------------------------------------------------
(* setupNetworkInfrastructure                                              *)

vmVars == <<policy, phase, at, tap, chain, table, exited, left>>

\* SetupBridge: a bridge that exists is taken to be configured.
SetupBridge ==
  /\ hostNet = "down"
  /\ IF bridge > 0 THEN hostNet' = "nat" /\ UNCHANGED bridge
     ELSE hostNet' = "bridge" /\ bridge' = 1
  /\ UNCHANGED <<natRules, halfBridge, vmVars, forward, ruleFaults>>

\* Address, up, route.
ConfigureBridge ==
  /\ hostNet = "bridge"
  /\ bridge' = bridge + 1 /\ hostNet' = IF bridge = 3 THEN "nat" ELSE "bridge"
  /\ UNCHANGED <<natRules, halfBridge, vmVars, forward, ruleFaults>>

\* Mutant: a bridge that could not be configured is left there.
ConfigureBridgeKept ==
  /\ hostNet = "bridge" /\ MoreFaults(1) /\ hostNet' = "down"
  /\ UNCHANGED <<bridge, natRules, halfBridge, vmVars, forward>>

\* One of them fails: the link is deleted again, or not, and the daemon ends.
ConfigureBridgeFails ==
  /\ hostNet = "bridge" /\ hostNet' = "down"
  /\ \/ MoreFaults(1) /\ bridge' = 0 /\ UNCHANGED halfBridge
     \/ MoreFaults(2) /\ halfBridge' = TRUE /\ UNCHANGED bridge
  /\ UNCHANGED <<natRules, vmVars, forward>>

\* SetupNAT: the first rule that is not there is appended.
SetupNAT ==
  LET r == CHOOSE r \in 1..4 : r \notin natRules /\ \A q \in 1..r-1 : q \in natRules IN
  /\ hostNet = "nat"
  /\ IF r = 4 THEN hostNet' = "up" /\ UNCHANGED <<natRules, forward>>
     ELSE /\ natRules' = natRules \union {r} /\ UNCHANGED hostNet
          /\ forward' = IF r = 2 THEN Append(forward, <<"nat">>) ELSE forward
  /\ UNCHANGED <<bridge, halfBridge, vmVars, ruleFaults>>

SetupNATFails ==
  /\ hostNet = "nat" /\ MoreFaults(1) /\ hostNet' = "down"
  /\ UNCHANGED <<bridge, natRules, halfBridge, vmVars, forward>>

-----------------------------------------------------------------------------
(* setupVMNetworking: TAP device and egress policy                         *)

SetPhase(v, p) == phase' = [phase EXCEPT ![v] = p]

\* DeleteTAPDevice in an unwind, at the cost of n faults so far; a failure is only logged.
DeleteTAPDevice(v, n) ==
  \/ MoreFaults(n) /\ tap' = [tap EXCEPT ![v] = 0] /\ UNCHANGED left
  \/ MoreFaults(n + 1) /\ left' = TRUE /\ UNCHANGED tap

\* The address is free when no other VM has it.
CreateTAPDevice(v) ==
  /\ hostNet = "up" /\ phase[v] = "none" /\ \A w \in NetVMs \ {v} : phase[w] \in {"none", "gone"}
  /\ tap' = [tap EXCEPT ![v] = 1] /\ SetPhase(v, "tap")
  /\ UNCHANGED <<hostVars, policy, at, chain, forward, table, exited, left, ruleFaults>>

\* ip link set up, then AttachTAPToBridge.
AttachTAP(v) ==
  /\ phase[v] = "tap"
  /\ tap' = [tap EXCEPT ![v] = @ + 1] /\ SetPhase(v, IF tap[v] = 2 THEN "egress" ELSE "tap")
  /\ at' = [at EXCEPT ![v] = 1]
  /\ UNCHANGED <<hostVars, policy, chain, forward, table, exited, left, ruleFaults>>

AttachTAPFails(v) ==
  /\ phase[v] = "tap" /\ DeleteTAPDevice(v, 1) /\ SetPhase(v, "gone")
  /\ UNCHANGED <<hostVars, policy, at, chain, forward, table, exited>>

\* What setupEgressPolicy appends: the destinations that are allowed, then the default.
EgressRules(p) ==
  (IF p.dns THEN <<"dns", "dns">> ELSE <<>>) \o (IF p.proxy THEN <<"proxy">> ELSE <<>>)
    \o (IF p.proxyOnly THEN <<>> ELSE p.rules) \o <<IF p.default = "allow" THEN "ACCEPT" ELSE "DROP">>

\* validateEgressPolicy.
ValidateEgressPolicy(p) == p.default \in {"deny", "allow"} /\ (p.proxyOnly => p.proxy)

\* cleanupEgressPolicy: of both jumps the first occurrence is deleted, then the chain is
\* flushed and deleted, which fails while a jump leads to it.  Keep is what cannot be deleted.
ForwardWithout(v, keep) ==
  LET drop(s, k) == IF k \in keep THEN s ELSE RemoveFirst(s, Jump(v, k)) IN
  drop(drop(forward, "bridge"), "tap")

CleanupEgressPolicy(v, n) ==
  \E keep \in SUBSET {"bridge", "tap", "chain"} :
    /\ \/ keep = {} /\ MoreFaults(n) /\ UNCHANGED left
       \/ (\E k \in keep : keep = {k}) /\ MoreFaults(n + 1) /\ left' = TRUE
    /\ forward' = ForwardWithout(v, keep)
    /\ chain' = [chain EXCEPT ![v] =
                   IF @ = NoChain THEN NoChain
                   ELSE IF "chain" \in keep \/ \E k \in {"bridge", "tap"} :
                             Jump(v, k) \in ToSet(ForwardWithout(v, keep)) THEN <<>>
                   ELSE NoChain]

\* The policy is refused, or netfilter cannot be enabled; then the chain is made, unless
\* there is one (the error is ignored), and flushed.
EgressChain(v) ==
  /\ phase[v] = "egress" /\ at[v] = 1 /\ ValidateEgressPolicy(policy[v])
  /\ chain' = [chain EXCEPT ![v] = <<>>] /\ at' = [at EXCEPT ![v] = 2]
  /\ UNCHANGED <<hostVars, policy, phase, tap, forward, table, exited, left, ruleFaults>>

\* Until the chain is flushed an error leaves what there is, without cleanup.
EgressChainFails(v) ==
  /\ phase[v] = "egress" /\ at[v] = 1
  /\ \E n \in {0, 1} :
       /\ n = 0 => ~ValidateEgressPolicy(policy[v])
       /\ \/ DeleteTAPDevice(v, n) /\ UNCHANGED chain
          \/ /\ n = 1 /\ MoreFaults(n) /\ left' = TRUE /\ tap' = [tap EXCEPT ![v] = 0]
             /\ chain' = [chain EXCEPT ![v] = IF @ = NoChain THEN <<>> ELSE @]
  /\ SetPhase(v, "gone")
  /\ UNCHANGED <<hostVars, policy, at, forward, table, exited>>

\* Mutant: the jump is appended to FORWARD.
InstallEgressJumpLast(v) ==
  /\ phase[v] = "egress" /\ at[v] \in {2, 3}
  /\ forward' = Append(forward, Jump(v, JumpKinds[at[v] - 1]))
  /\ at' = [at EXCEPT ![v] = @ + 1]
  /\ UNCHANGED <<hostVars, policy, phase, tap, chain, table, exited, left, ruleFaults>>

\* installEgressJumpRules: an old jump is deleted, the new one goes to the head of FORWARD.
InstallEgressJump(v) ==
  /\ phase[v] = "egress" /\ at[v] \in {2, 3}
  /\ LET j == Jump(v, JumpKinds[at[v] - 1]) IN forward' = <<j>> \o RemoveFirst(forward, j)
  /\ at' = [at EXCEPT ![v] = @ + 1]
  /\ UNCHANGED <<hostVars, policy, phase, tap, chain, table, exited, left, ruleFaults>>

\* The rules are appended one by one; after the last one the VM is ready.
AppendEgressRule(v) ==
  LET rules == EgressRules(policy[v]) i == at[v] - 3 IN
  /\ phase[v] = "egress" /\ at[v] >= 4
  /\ chain' = [chain EXCEPT ![v] = Append(@, rules[i])]
  /\ at' = [at EXCEPT ![v] = @ + 1] /\ SetPhase(v, IF i = Len(rules) THEN "ready" ELSE "egress")
  /\ UNCHANGED <<hostVars, policy, tap, forward, table, exited, left, ruleFaults>>

\* Mutant: only the TAP device is cleaned up.
EgressFailsBare(v) ==
  /\ phase[v] = "egress" /\ at[v] >= 2
  /\ DeleteTAPDevice(v, 1) /\ SetPhase(v, "gone")
  /\ UNCHANGED <<hostVars, policy, at, chain, forward, table, exited>>

\* One of these fails: cleanup, the TAP device is deleted and the create fails.
EgressFails(v) ==
  /\ phase[v] = "egress" /\ at[v] >= 2
  /\ CleanupEgressPolicy(v, 1) /\ tap' = [tap EXCEPT ![v] = 0] /\ SetPhase(v, "gone")
  /\ UNCHANGED <<hostVars, policy, at, table, exited>>

-----------------------------------------------------------------------------
(* Port forwards                                                           *)

\* The rules of a forward in the order of addPortForwardRule; the last three are shared by
\* forwards to the same port of the VM.
Rules(f) == << <<"PREROUTING", f.host, f.port>>, <<"OUTPUT", f.host, f.port>>,
               <<"FORWARD", f.port>>, <<"MASQUERADE", f.port>>, <<"SNAT", f.port>> >>

AllRules == UNION {ToSet(Rules(Forwards[i])) : i \in DOMAIN Forwards}
ForwardAccepts == {<<"FORWARD", Forwards[i].port>> : i \in DOMAIN Forwards}

\* removePortForwardRule for every forward; FORWARD rules stay.
RemovedRules == AllRules \ ForwardAccepts

\* CleanupPortForwards with at most one rule that cannot be deleted, after n faults; more
\* is what the undo of a failed forward deletes as well.
CleanupPortForwards(n, more) ==
  \/ MoreFaults(n) /\ table' = table \ (RemovedRules \union more) /\ UNCHANGED left
  \/ /\ MoreFaults(n + 1) /\ left' = TRUE
     /\ \E r \in table : table' = table \ ((RemovedRules \union more) \ ({r} \ (RemovedRules \intersect more)))

\* The VM starts, also after its process has exited and its device has gone.
StartVM(v) ==
  /\ hostNet = "up" /\ phase[v] = "ready"
  /\ SetPhase(v, "forward") /\ at' = [at EXCEPT ![v] = 1]
  /\ UNCHANGED <<hostVars, policy, tap, chain, forward, table, exited, left, ruleFaults>>

\* Which rule of which forward comes next.
ForwardAt(v) == ((at[v] - 1) \div 5) + 1
RuleAt(v) == ((at[v] - 1) % 5) + 1

\* addPortForwardRule: a PREROUTING rule that is there stands for all five; any other rule
\* is added unless it is there.
AddPortForwardRule(v) ==
  LET r == Rules(Forwards[ForwardAt(v)])[RuleAt(v)]
      next == IF RuleAt(v) = 1 /\ r \in table THEN at[v] + 5 ELSE at[v] + 1 IN
  /\ phase[v] = "forward"
  /\ table' = table \union {r} /\ at' = [at EXCEPT ![v] = next]
  /\ SetPhase(v, IF next > 5 * Len(Forwards) THEN "running" ELSE "forward")
  /\ UNCHANGED <<hostVars, policy, tap, chain, forward, exited, left, ruleFaults>>

\* A rule cannot be added: the earlier ones of this forward are undone, then all forwards
\* are cleaned up and the process is killed.
AddPortForwardFails(v) ==
  LET f == ForwardAt(v)  k == RuleAt(v) IN
  /\ phase[v] = "forward" /\ Rules(Forwards[f])[k] \notin table
  /\ CleanupPortForwards(1, ToSet(SubSeq(Rules(Forwards[f]), 1, k - 1)))
  /\ SetPhase(v, "ready")
  /\ UNCHANGED <<hostVars, policy, at, tap, chain, forward, exited>>

\* Mutant: a stop leaves the rules for connections from outside.
StopVMNetworkPartly(v) ==
  /\ hostNet = "up" /\ phase[v] = "running" /\ SetPhase(v, "ready")
  /\ table' = table \ {r \in RemovedRules : r[1] # "PREROUTING"}
  /\ UNCHANGED <<hostVars, policy, at, tap, chain, forward, exited, left, ruleFaults>>

\* performVMStop removes the forwards, a kill leaves them.
StopVMNetwork(v) ==
  /\ hostNet = "up" /\ phase[v] = "running" /\ SetPhase(v, "ready")
  /\ \/ CleanupPortForwards(0, {})
     \/ UNCHANGED <<table, left, ruleFaults>>
  /\ UNCHANGED <<hostVars, policy, at, tap, chain, forward, exited>>

\* cleanupVMNetwork, when the process of a running VM exits.
ExitCleansNetwork(v) ==
  /\ hostNet = "up" /\ phase[v] = "running" /\ SetPhase(v, "ready")
  /\ exited' = [exited EXCEPT ![v] = TRUE] /\ tap' = [tap EXCEPT ![v] = 0]
  /\ table' = table \ RemovedRules
  /\ CleanupEgressPolicy(v, 0)
  /\ UNCHANGED <<hostVars, policy, at>>

\* ensureVMTapForResume: a restore makes the TAP device again, and nothing else.
EnsureTapForResume(v) ==
  /\ hostNet = "up" /\ phase[v] = "ready" /\ tap[v] = 0
  /\ tap' = [tap EXCEPT ![v] = 3]
  /\ UNCHANGED <<hostVars, policy, phase, at, chain, forward, table, exited, left, ruleFaults>>

\* cleanupDeletedVMResources.
DeleteVMNetwork(v) ==
  /\ hostNet = "up" /\ phase[v] \in {"ready", "running"} /\ SetPhase(v, "gone")
  /\ table' = table \ RemovedRules /\ tap' = [tap EXCEPT ![v] = 0]
  /\ CleanupEgressPolicy(v, 0)
  /\ UNCHANGED <<hostVars, policy, at, exited>>

\* The daemon dies; a create that was under way has no row and nobody continues it.
NetworkDaemonDies ==
  /\ hostNet # "down" /\ MoreFaults(1) /\ hostNet' = "down"
  /\ halfBridge' = (halfBridge \/ hostNet = "bridge")
  /\ phase' = [v \in NetVMs |-> CASE phase[v] \in {"tap", "egress"} -> "gone"
                                  [] phase[v] = "forward" -> "ready"
                                  [] OTHER -> phase[v]]
  /\ left' = (left \/ \E v \in NetVMs : phase[v] \in {"tap", "egress", "forward"})
  /\ UNCHANGED <<bridge, natRules, policy, at, tap, chain, forward, table, exited>>

RulesNext ==
  \/ SetupBridge \/ ConfigureBridge \/ ConfigureBridgeFails \/ SetupNAT \/ SetupNATFails
  \/ NetworkDaemonDies
  \/ \E v \in NetVMs :
       \/ CreateTAPDevice(v) \/ AttachTAP(v) \/ AttachTAPFails(v)
       \/ EgressChain(v) \/ EgressChainFails(v) \/ InstallEgressJump(v) \/ AppendEgressRule(v) \/ EgressFails(v)
       \/ StartVM(v) \/ AddPortForwardRule(v) \/ AddPortForwardFails(v)
       \/ StopVMNetwork(v) \/ ExitCleansNetwork(v) \/ EnsureTapForResume(v) \/ DeleteVMNetwork(v)

-----------------------------------------------------------------------------
(* What the kernel does with a packet                                      *)

\* The verdict of a chain of rules, or "next" if none matches.
ChainVerdict(c, d) ==
  LET hits == {i \in DOMAIN c : c[i] \in {d, "ACCEPT", "DROP"}} IN
  IF hits = {} THEN "next"
  ELSE LET i == CHOOSE i \in hits : \A j \in hits : i <= j IN
       IF c[i] = "DROP" THEN "DROP" ELSE "ACCEPT"

\* What the i-th rule of FORWARD says of a packet of v to d; a jump of another VM with the
\* same address matches if it does not name the device.
RuleVerdict(v, i, d) ==
  CASE forward[i] = <<"nat">> -> "ACCEPT"
    [] forward[i][1] = "tap" /\ forward[i][2] # v -> "next"
    [] OTHER -> ChainVerdict(chain[forward[i][2]], d)

Verdict(v, d) ==
  LET said == {i \in DOMAIN forward : RuleVerdict(v, i, d) # "next"} IN
  IF said = {} THEN "next" ELSE RuleVerdict(v, CHOOSE i \in said : \A j \in said : i <= j, d)

\* What the policy says: DNS, the proxy, the rules unless only the proxy, else the default.
Allowed(p, d) ==
  \/ p.dns /\ d = "dns"
  \/ p.proxy /\ d = "proxy"
  \/ ~p.proxyOnly /\ d \in ToSet(p.rules)
  \/ p.default = "allow"

(***************************************************************************)
(* Every packet of a VM meets the verdict of its own policy, from the time *)
(* it is ready, whatever earlier VMs with the same address, failing        *)
(* commands or a dead daemon left in the chains, until the exit handler    *)
(* has removed the policy.                                                 *)
(***************************************************************************)
EgressEnforced ==
  \A v \in NetVMs : phase[v] \in {"ready", "forward", "running"} /\ ~exited[v] =>
    \A d \in Destinations : Verdict(v, d) = (IF Allowed(policy[v], d) THEN "ACCEPT" ELSE "DROP")

(***************************************************************************)
(* A start that succeeded has all rules of all forwards, also after failed *)
(* starts, stops, kills and exits, although the PREROUTING rule stands for *)
(* all five: only a rule that could not be deleted or a daemon that died   *)
(* in the middle leaves less.                                              *)
(***************************************************************************)
ForwardsComplete ==
  \A v \in NetVMs : phase[v] = "running" /\ ~left => AllRules \subseteq table

(***************************************************************************)
(* With all VMs gone nothing of them is left but FORWARD rules, also when  *)
(* a create or a start failed at any command, as long as every deletion    *)
(* succeeded, no chain was left unflushed and no setup was cut off.        *)
(***************************************************************************)
NetworkLeftClean ==
  (\A v \in NetVMs : phase[v] \in {"none", "gone"}) /\ ~left =>
    /\ \A v \in NetVMs : tap[v] = 0 /\ chain[v] = NoChain
    /\ ToSet(forward) \subseteq {<<"nat">>} /\ table \subseteq ForwardAccepts

(***************************************************************************)
(* A daemon that came up has a bridge that is configured to the end and    *)
(* all NAT rules, unless a bridge was left behind half configured.         *)
(***************************************************************************)
HostNetworkReady == hostNet = "up" /\ ~halfBridge => bridge = 4 /\ natRules = {1, 2, 3}

(***************************************************************************)
(* Set-up on the host is all or nothing.  The code takes the bridge for a  *)
(* configured bridge and the first rule of a forward for all five, so that *)
(* what fails half-way must be taken back.                                 *)
(***************************************************************************)
SetUpAllOrNothing == ForwardsComplete /\ NetworkLeftClean /\ HostNetworkReady
=============================================================================
