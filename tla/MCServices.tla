----------------------------- MODULE MCServices -----------------------------
(***************************************************************************)
(* Parts of the system of which also liveness is checked, side by side:    *)
(* the recording of sessions, the vsock proxies, the containers on macOS,  *)
(* the command line and the tray application; with them the address pool.  *)
(* They share no state, so a behaviour runs one of them and leaves the     *)
(* others as they start.                                                   *)
(***************************************************************************)
EXTENDS IPAM, Recording, VsockProxy, AppleContainer, Cli, CliLogs, TrayApp

VARIABLE part

serviceVars == <<part, ipamVars, recordingVars, proxyVars, appleVars, cliVars, logVars, trayVars>>

\* Of a part that does not run, one initial state is enough.
ServicesInit ==
  /\ part \in {"addresses", "recording", "proxy", "apple", "cli", "logs", "tray"}
  /\ Init /\ RecordingInit /\ ProxyInit /\ AppleInit /\ CliInit /\ LogsInit /\ TrayInit
  /\ part # "tray" => world = CHOOSE w \in {[i \in Rows |-> [vm |-> s[i], state |-> "running"]] :
                                              s \in [Rows -> TrayVMs]} : w[1] # w[2]

ServicesNext ==
  \/ /\ part = "addresses" /\ Next
     /\ UNCHANGED <<part, recordingVars, proxyVars, appleVars, cliVars, logVars, trayVars>>
  \/ /\ part = "recording" /\ RecordingNext
     /\ UNCHANGED <<part, ipamVars, proxyVars, appleVars, cliVars, logVars, trayVars>>
  \/ /\ part = "proxy" /\ ProxyNext
     /\ UNCHANGED <<part, ipamVars, recordingVars, appleVars, cliVars, logVars, trayVars>>
  \/ /\ part = "apple" /\ AppleNext
     /\ UNCHANGED <<part, ipamVars, recordingVars, proxyVars, cliVars, logVars, trayVars>>
  \/ /\ part = "cli" /\ CliNext
     /\ UNCHANGED <<part, ipamVars, recordingVars, proxyVars, appleVars, logVars, trayVars>>
  \/ /\ part = "logs" /\ LogsNext
     /\ UNCHANGED <<part, ipamVars, recordingVars, proxyVars, appleVars, cliVars, trayVars>>
  \/ /\ part = "tray" /\ TrayNext
     /\ UNCHANGED <<part, ipamVars, recordingVars, proxyVars, appleVars, cliVars, logVars>>

ServicesSpec ==
  /\ ServicesInit /\ [][ServicesNext]_serviceVars
  /\ RecordingFairness /\ ProxyFairness /\ AppleFairness /\ CliFairness /\ LogsFairness /\ TrayFairness

(***************************************************************************)
(* Nothing hangs: a receiver and a proxy that were stopped, a command, a   *)
(* command that follows the log of a deleted VM, an item of the tray menu. *)
(***************************************************************************)
NothingHangs == StopEnds /\ StoppedProxyEnds /\ CommandEnds /\ FollowEnds /\ LaunchItemComesBack
=============================================================================
