----------------------------- MODULE VsockProxy -----------------------------
(***************************************************************************)
(* The proxies between the vsock device of a VM and the SPIRE agent        *)
(* (internal/firecracker/vsock_proxy.go), and the map of the Firecracker   *)
(* manager that tracks them (vm.go).                                       *)
(*                                                                         *)
(* One VM, started, stopped, killed and restored again and again under its *)
(* lock; its proxies use one socket path.  The guest opens connections;    *)
(* each is a handler goroutine with two copy goroutines.                   *)
(***************************************************************************)
EXTENDS Naturals

CONSTANTS
  MaxProxies,      \* bound: proxies made
  GuestConns       \* connections of the guest

ASSUME ProxyAssumption == MaxProxies \in Nat

VARIABLES
  proxyOf,       \* Manager.vsockProxies: the tracked proxy of the VM, or 0
  proxies,       \* number of proxies made so far
  running,       \* per proxy: VsockProxy.running
  closed,        \* per proxy: its context is cancelled, its listener closed
  accepting,     \* per proxy: its acceptLoop runs
  socket,        \* the proxy whose socket is at the path, or 0
  conn,          \* per connection: "none", "dial", "copy" or "over"
  connProxy,     \* per connection: the proxy that accepted it
  vmOp,          \* the operation under way: "none", "starting", "replacing", "stopping"
  stopping,      \* the proxy that the operation is stopping, or 0
  guest,         \* the process of the VM runs
  proxyFailed    \* history: the socket of the last start could not be made

proxyVars == <<proxyOf, proxies, running, closed, accepting, socket, conn, connProxy, vmOp, stopping, guest, proxyFailed>>

ProxyIds == 1..MaxProxies

ProxyInit ==
  /\ proxyOf = 0 /\ proxies = 0 /\ socket = 0 /\ vmOp = "none" /\ stopping = 0
  /\ running = [p \in ProxyIds |-> FALSE] /\ closed = [p \in ProxyIds |-> FALSE]
  /\ accepting = [p \in ProxyIds |-> FALSE]
  /\ conn = [c \in GuestConns |-> "none"] /\ connProxy = [c \in GuestConns |-> 0]
  /\ guest = FALSE /\ proxyFailed = FALSE

-----------------------------------------------------------------------------
(* Manager: Start and LoadSnapshot, Stop, Kill                             *)

\* stopVsockProxy takes the tracked proxy out of the map and stops it, also when its VM died.
Take(op) ==
  /\ stopping' = proxyOf /\ proxyOf' = 0 /\ vmOp' = op

\* Mutant: the map entry of a VM that died is overwritten without stopping its proxy.
StartRuntimeProxyOver ==
  /\ vmOp = "none" /\ ~guest /\ proxies < MaxProxies
  /\ guest' = TRUE /\ vmOp' = "starting" /\ stopping' = 0 /\ proxyOf' = 0
  /\ UNCHANGED <<proxies, running, closed, accepting, socket, conn, connProxy, proxyFailed>>

StartRuntimeProxy ==
  /\ vmOp = "none" /\ ~guest /\ proxies < MaxProxies
  /\ guest' = TRUE /\ Take(IF proxyOf = 0 THEN "starting" ELSE "replacing")
  /\ UNCHANGED <<proxies, running, closed, accepting, socket, conn, connProxy, proxyFailed>>

StopRuntimeProxy ==
  /\ vmOp = "none" /\ guest /\ Take("stopping")
  /\ UNCHANGED <<proxies, running, closed, accepting, socket, conn, connProxy, guest, proxyFailed>>

\* The process is killed or dies: the proxy stays in the map.
RuntimeDies ==
  /\ vmOp = "none" /\ guest /\ guest' = FALSE
  /\ UNCHANGED <<proxyOf, proxies, running, closed, accepting, socket, conn, connProxy, vmOp, stopping, proxyFailed>>

Handlers(p) == {c \in GuestConns : connProxy[c] = p /\ conn[c] \in {"dial", "copy"}}

\* VsockProxy.Stop: not running any more, context cancelled, listener closed.
StopProxy ==
  /\ vmOp \in {"replacing", "stopping"} /\ stopping # 0 /\ ~closed[stopping]
  /\ running' = [running EXCEPT ![stopping] = FALSE] /\ closed' = [closed EXCEPT ![stopping] = TRUE]
  /\ socket' = IF socket = stopping THEN 0 ELSE socket
  /\ UNCHANGED <<proxyOf, proxies, accepting, conn, connProxy, vmOp, stopping, guest, proxyFailed>>

\* The wait ends, after all goroutines or after five seconds, and the file is removed.
StopReturns ==
  /\ vmOp \in {"replacing", "stopping"} /\ (stopping # 0 => closed[stopping])
  /\ socket' = 0 /\ stopping' = 0
  /\ vmOp' = (IF vmOp = "replacing" THEN "starting" ELSE "none") /\ guest' = (vmOp = "replacing")
  /\ UNCHANGED <<proxyOf, proxies, running, closed, accepting, conn, connProxy, proxyFailed>>

\* Mutant: the manager does not track the proxy it has started.
StartProxyUntracked ==
  /\ vmOp = "starting" /\ vmOp' = "none" /\ proxies' = proxies + 1 /\ socket' = proxies + 1
  /\ running' = [running EXCEPT ![proxies + 1] = TRUE]
  /\ accepting' = [accepting EXCEPT ![proxies + 1] = TRUE] /\ proxyFailed' = FALSE
  /\ UNCHANGED <<proxyOf, closed, conn, connProxy, stopping, guest>>

\* VsockProxy.Start: any file at the path is removed, a new listener made, and the manager
\* tracks the proxy; a failure is only logged.
StartProxy ==
  /\ vmOp = "starting" /\ vmOp' = "none" /\ proxies' = proxies + 1
  /\ \/ /\ proxyOf' = proxies + 1 /\ socket' = proxies + 1
        /\ running' = [running EXCEPT ![proxies + 1] = TRUE]
        /\ accepting' = [accepting EXCEPT ![proxies + 1] = TRUE] /\ proxyFailed' = FALSE
     \/ /\ proxyFailed' = TRUE /\ socket' \in {0, socket}
        /\ UNCHANGED <<proxyOf, running, accepting>>
  /\ UNCHANGED <<closed, conn, connProxy, stopping, guest>>

-----------------------------------------------------------------------------
(* Goroutines of a proxy                                                   *)

\* acceptLoop takes a connection, which a closed listener no longer gives.
AcceptProxied(c) ==
  /\ conn[c] = "none" /\ guest /\ socket # 0 /\ accepting[socket] /\ ~closed[socket]
  /\ conn' = [conn EXCEPT ![c] = "dial"] /\ connProxy' = [connProxy EXCEPT ![c] = socket]
  /\ UNCHANGED <<proxyOf, proxies, running, closed, accepting, socket, vmOp, stopping, guest, proxyFailed>>

\* Mutant: the loop goes on after every error of Accept.
AcceptLoopGoesOn(p) ==
  /\ accepting[p] /\ closed[p] /\ UNCHANGED proxyVars

\* Accept fails once the listener is closed; the context is cancelled before that.
AcceptLoopEnds(p) ==
  /\ accepting[p] /\ closed[p] /\ accepting' = [accepting EXCEPT ![p] = FALSE]
  /\ UNCHANGED <<proxyOf, proxies, running, closed, socket, conn, connProxy, vmOp, stopping, guest, proxyFailed>>

\* The agent's socket is reached, or not.
DialTarget(c) ==
  /\ conn[c] = "dial" /\ \E s \in {"copy", "over"} : conn' = [conn EXCEPT ![c] = s]
  /\ UNCHANGED <<proxyOf, proxies, running, closed, accepting, socket, connProxy, vmOp, stopping, guest, proxyFailed>>

\* Either direction ends: the handler closes both.
CopyEnds(c) ==
  /\ conn[c] = "copy" /\ conn' = [conn EXCEPT ![c] = "over"]
  /\ UNCHANGED <<proxyOf, proxies, running, closed, accepting, socket, connProxy, vmOp, stopping, guest, proxyFailed>>

\* The select of the handler sees the cancelled context.
HandlerCancelled(c) == connProxy[c] # 0 /\ closed[connProxy[c]] /\ CopyEnds(c)

ProxyStep ==
  \/ StopProxy \/ StopReturns \/ StartProxy
  \/ \E p \in ProxyIds : AcceptLoopEnds(p)
  \/ \E c \in GuestConns : DialTarget(c) \/ HandlerCancelled(c)

ProxyNext ==
  \/ StartRuntimeProxy \/ StopRuntimeProxy \/ RuntimeDies \/ ProxyStep
  \/ \E c \in GuestConns : AcceptProxied(c) \/ CopyEnds(c)

\* Goroutines whose listener or context has ended run on.
ProxyFairness ==
  /\ \A p \in ProxyIds : WF_proxyVars(AcceptLoopEnds(p))
  /\ \A c \in GuestConns : WF_proxyVars(DialTarget(c) \/ HandlerCancelled(c))

-----------------------------------------------------------------------------
(***************************************************************************)
(* Between operations a running guest reaches the agent by the proxy that  *)
(* the manager tracks: the proxy of an earlier run, stopped late, never    *)
(* takes the socket file of the current one away.                          *)
(***************************************************************************)
ProxyReachable ==
  guest /\ vmOp = "none" /\ ~proxyFailed =>
    proxyOf # 0 /\ running[proxyOf] /\ accepting[proxyOf] /\ socket = proxyOf

(***************************************************************************)
(* No listener is forgotten: one that still accepts is tracked or is being *)
(* stopped, also when processes die without Stop and VMs start again.      *)
(***************************************************************************)
NoOrphanProxy == \A p \in ProxyIds : accepting[p] /\ ~closed[p] => p \in {proxyOf, stopping}

(***************************************************************************)
(* The goroutines of a proxy that was stopped come to an end, those of its *)
(* connections included, although Stop waits five seconds at most.         *)
(***************************************************************************)
StoppedProxyEnds == []<>(\A p \in ProxyIds : closed[p] => ~accepting[p] /\ Handlers(p) = {})

(***************************************************************************)
(* The manager has its proxies in hand: a running guest has exactly the    *)
(* one that is tracked, through stops, kills, exits and restores.          *)
(***************************************************************************)
ProxyTracked == ProxyReachable /\ NoOrphanProxy
=============================================================================
