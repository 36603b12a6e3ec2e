--------------------------- MODULE ServicesProofs ---------------------------
(***************************************************************************)
(* Proofs about the parts of the system that MCServices runs side by side: *)
(* the containers on macOS, the vsock proxies, the command line, the tray  *)
(* application and the recording of sessions.  They share no state; each   *)
(* has its own specification here.                                         *)
(***************************************************************************)
EXTENDS Recording, VsockProxy, AppleContainer, Cli, CliLogs, TrayApp, SequencesExt, FiniteSetTheorems, TLAPS

AppleSpec == AppleInit /\ [][AppleNext]_appleVars
ProxySpec == ProxyInit /\ [][ProxyNext]_proxyVars
LogsSpec == LogsInit /\ [][LogsNext]_logVars
CliSpec == CliInit /\ [][CliNext]_cliVars
TraySpec == TrayInit /\ [][TrayNext]_trayVars
RecordingSpec == RecordingInit /\ [][RecordingNext]_recordingVars

-----------------------------------------------------------------------------
(* Containers                                                              *)

\* Nothing is under way for a VM that was deleted.
AppleInv == appleRow = "gone" => container = "absent" /\ appleOp = "none"

(***************************************************************************)
(* A VM that was deleted has no container and never gets one again, in any *)
(* order of starts, stops, exits and false alarms of the watcher, however  *)
(* many commands of the container tool fail (applecontainer Manager).      *)
(***************************************************************************)
THEOREM ContainerStaysDeleted == AppleSpec => []DeletedHasNoContainer
<1>1. AppleInit => AppleInv
  BY DEF AppleInit, AppleInv
<1>2. AppleInv /\ [AppleNext]_appleVars => AppleInv'
  <2> SUFFICES ASSUME AppleInv, [AppleNext]_appleVars
               PROVE  AppleInv'
    OBVIOUS
  <2> USE DEF AppleInv
  <2>1. CASE AppleStart
    BY <2>1 DEF AppleStart
  <2>2. CASE AppleStarted
    BY <2>2 DEF AppleStarted
  <2>3. CASE AppleStop
    BY <2>3 DEF AppleStop
  <2>4. CASE AppleDelete
    BY <2>4 DEF AppleDelete
  <2>5. CASE ContainerExits
    BY <2>5 DEF ContainerExits
  <2>6. CASE WatchTick
    BY <2>6 DEF WatchTick
  <2>7. CASE WatchReports
    BY <2>7 DEF WatchReports
  <2>8. CASE WatcherReturns
    BY <2>8 DEF WatcherReturns
  <2>9. CASE UNCHANGED appleVars
    BY <2>9 DEF appleVars
  <2> QED BY <2>1, <2>2, <2>3, <2>4, <2>5, <2>6, <2>7, <2>8, <2>9 DEF AppleNext
<1>3. AppleInv => DeletedHasNoContainer
  BY DEF AppleInv, DeletedHasNoContainer
<1> QED BY <1>1, <1>2, <1>3, PTL DEF AppleSpec

-----------------------------------------------------------------------------
(* Vsock proxies                                                           *)

ProxyType ==
  /\ proxies \in 0..MaxProxies /\ proxyOf \in 0..proxies /\ stopping \in 0..proxies /\ socket \in 0..proxies
  /\ running \in [ProxyIds -> BOOLEAN] /\ closed \in [ProxyIds -> BOOLEAN] /\ accepting \in [ProxyIds -> BOOLEAN]

\* A proxy is tracked between operations only; it is then at the socket.
TrackedInv ==
  proxyOf # 0 =>
    vmOp = "none" /\ socket = proxyOf /\ running[proxyOf] /\ accepting[proxyOf] /\ ~closed[proxyOf]

\* What the operation under way has taken out of the map.
OperationInv ==
  /\ vmOp \in {"none", "starting"} => stopping = 0
  /\ vmOp \in {"starting", "replacing"} => proxies < MaxProxies

\* A proxy that is yet to be made has never run.
UnmadeInv == \A p \in ProxyIds : p > proxies => ~accepting[p] /\ ~closed[p]

ProxyInv ==
  /\ ProxyType /\ TrackedInv /\ OperationInv /\ UnmadeInv /\ NoOrphanProxy
  /\ guest /\ vmOp = "none" /\ ~proxyFailed => proxyOf # 0

LEMMA ProxyInvHolds == ProxySpec => []ProxyInv
<1> USE ProxyAssumption
<1>1. ProxyInit => ProxyInv
  BY DEF ProxyInit, ProxyInv, ProxyType, TrackedInv, OperationInv, UnmadeInv, NoOrphanProxy, ProxyIds
<1>2. ProxyInv /\ [ProxyNext]_proxyVars => ProxyInv'
  <2> SUFFICES ASSUME ProxyInv, [ProxyNext]_proxyVars
               PROVE  ProxyInv'
    OBVIOUS
  <2> USE DEF ProxyInv, ProxyType, TrackedInv, OperationInv, UnmadeInv, NoOrphanProxy, ProxyIds
  <2>1. CASE StartRuntimeProxy
    BY <2>1 DEF StartRuntimeProxy, Take
  <2>2. CASE StopRuntimeProxy
    BY <2>2 DEF StopRuntimeProxy, Take
  <2>3. CASE RuntimeDies
    BY <2>3 DEF RuntimeDies
  <2>4. CASE StopProxy
    BY <2>4 DEF StopProxy
  <2>5. CASE StopReturns
    BY <2>5 DEF StopReturns
  <2>6. CASE StartProxy
    <3>0. /\ vmOp = "starting" /\ vmOp' = "none" /\ proxies' = proxies + 1 /\ proxyOf = 0 /\ stopping = 0
          /\ proxies + 1 \in ProxyIds /\ UNCHANGED <<closed, stopping, guest>>
      BY <2>6 DEF StartProxy
    <3>1. CASE /\ proxyOf' = proxies + 1 /\ socket' = proxies + 1
               /\ running' = [running EXCEPT ![proxies + 1] = TRUE]
               /\ accepting' = [accepting EXCEPT ![proxies + 1] = TRUE]
      <4>1. ProxyType'
        BY <3>0, <3>1
      <4>2. TrackedInv' /\ OperationInv'
        BY <3>0, <3>1
      <4>3. UnmadeInv' /\ NoOrphanProxy'
        BY <3>0, <3>1
      <4> QED BY <3>0, <3>1, <4>1, <4>2, <4>3
    <3>2. CASE proxyFailed' = TRUE /\ socket' \in {0, socket} /\ UNCHANGED <<proxyOf, running, accepting>>
      <4>1. ProxyType' /\ TrackedInv' /\ OperationInv' /\ UnmadeInv' /\ NoOrphanProxy'
        BY <3>0, <3>2
      <4>2. proxyFailed'
        BY <3>2, Zenon
      <4> QED BY <4>1, <4>2
    <3> QED BY <2>6, <3>1, <3>2 DEF StartProxy
  <2>7. ASSUME NEW p \in ProxyIds, AcceptLoopEnds(p) PROVE ProxyInv'
    BY <2>7 DEF AcceptLoopEnds
  <2>8. ASSUME NEW c \in GuestConns, DialTarget(c) \/ HandlerCancelled(c) \/ CopyEnds(c) \/ AcceptProxied(c)
        PROVE  ProxyInv'
    <3>1. UNCHANGED <<proxyOf, proxies, running, closed, accepting, socket, vmOp, stopping, guest, proxyFailed>>
      BY <2>8 DEF DialTarget, HandlerCancelled, CopyEnds, AcceptProxied
    <3> QED BY <3>1
  <2>9. CASE UNCHANGED proxyVars
    BY <2>9 DEF proxyVars
  <2> QED BY <2>1, <2>2, <2>3, <2>4, <2>5, <2>6, <2>7, <2>8, <2>9 DEF ProxyNext, ProxyStep
<1> QED BY <1>1, <1>2, PTL DEF ProxySpec

(***************************************************************************)
(* For any number of starts, stops, deaths and restores: a guest that runs *)
(* reaches the agent by the proxy that the manager tracks, unless its      *)
(* socket could not be made, and no listener is forgotten (Manager.Start,  *)
(* LoadSnapshot, Stop, stopVsockProxy).                                    *)
(***************************************************************************)
THEOREM ProxiesStayTracked == ProxySpec => []ProxyTracked
<1>1. ProxyInv => ProxyTracked
  BY DEF ProxyInv, TrackedInv, ProxyTracked, ProxyReachable
<1> QED BY <1>1, ProxyInvHolds, PTL
-----------------------------------------------------------------------------
(* Following a log                                                         *)

LogsType ==
  /\ log \in Seq(Nat) /\ printed \in Seq(Nat) /\ written \in Nat /\ lastSize \in Nat /\ truncated \in Nat

\* The log holds the last lines that were written, one after the other.
LogInv ==
  /\ Len(log) <= written /\ (truncated = 0 => Len(log) = written)
  /\ \A j \in 1..Len(log) : log[j] = written - Len(log) + j - 1

\* What the command would print next is newer than what it has printed.
NewerInv ==
  /\ follow = "idle" => printed = <<>> /\ lastSize = 0
  /\ truncated = 0 => lastSize <= Len(log)
  /\ \A i \in 1..Len(printed) :
       /\ printed[i] < written
       /\ \A j \in 1..Len(log) : j > lastSize \/ Len(log) < lastSize => printed[i] < log[j]

LogsInv == LogsType /\ LogInv /\ NewerInv /\ FollowedOnceInOrder

\* Where the parts of a concatenation are.
LEMMA PartOfConcat ==
  ASSUME NEW S, NEW s \in Seq(S), NEW t \in Seq(S)
  PROVE  /\ s \o t \in Seq(S) /\ Len(s \o t) = Len(s) + Len(t)
         /\ \A i \in 1..Len(s) : (s \o t)[i] = s[i]
         /\ \A i \in 1..(Len(s) + Len(t)) : i > Len(s) => i - Len(s) \in 1..Len(t) /\ (s \o t)[i] = t[i - Len(s)]
OBVIOUS

\* Of two sequences of numbers that increase, the second beyond the first, the concatenation
\* increases.
LEMMA ConcatIncreases ==
  ASSUME NEW s \in Seq(Nat), NEW t \in Seq(Nat),
         \A i \in 1..(Len(s) - 1) : s[i] < s[i + 1],
         \A i \in 1..(Len(t) - 1) : t[i] < t[i + 1],
         \A i \in 1..Len(s) : \A j \in 1..Len(t) : s[i] < t[j]
  PROVE  \A i \in 1..(Len(s \o t) - 1) : (s \o t)[i] < (s \o t)[i + 1]
<1> SUFFICES ASSUME NEW i \in 1..(Len(s \o t) - 1)
             PROVE  (s \o t)[i] < (s \o t)[i + 1]
  OBVIOUS
<1>0. Len(s) \in Nat /\ Len(t) \in Nat /\ Len(s \o t) = Len(s) + Len(t)
  OBVIOUS
<1>1. CASE i < Len(s)
  BY <1>0, <1>1
<1>2. CASE i = Len(s)
  <2>1. (s \o t)[i] = s[i] /\ (s \o t)[i + 1] = t[1] /\ i \in 1..Len(s) /\ 1 \in 1..Len(t)
    BY <1>0, <1>2
  <2> QED BY <2>1
<1>3. CASE i > Len(s)
  <2> DEFINE k == i - Len(s)
  <2>1. (s \o t)[i] = t[k] /\ (s \o t)[i + 1] = t[k + 1] /\ k \in 1..(Len(t) - 1)
    BY <1>0, <1>3
  <2> QED BY <2>1
<1> QED BY <1>0, <1>1, <1>2, <1>3

\* The same for sequences without gaps.
LEMMA ConcatGoesOn ==
  ASSUME NEW s \in Seq(Nat), NEW t \in Seq(Nat),
         \A i \in 1..(Len(s) - 1) : s[i + 1] = s[i] + 1,
         \A i \in 1..(Len(t) - 1) : t[i + 1] = t[i] + 1,
         s # <<>> /\ t # <<>> => t[1] = s[Len(s)] + 1
  PROVE  \A i \in 1..(Len(s \o t) - 1) : (s \o t)[i + 1] = (s \o t)[i] + 1
<1> SUFFICES ASSUME NEW i \in 1..(Len(s \o t) - 1)
             PROVE  (s \o t)[i + 1] = (s \o t)[i] + 1
  OBVIOUS
<1>0. Len(s) \in Nat /\ Len(t) \in Nat /\ Len(s \o t) = Len(s) + Len(t)
  OBVIOUS
<1>1. CASE i < Len(s)
  BY <1>0, <1>1
<1>2. CASE i = Len(s)
  <2>1. (s \o t)[i] = s[Len(s)] /\ (s \o t)[i + 1] = t[1] /\ s # <<>> /\ t # <<>>
    BY <1>0, <1>2
  <2> QED BY <2>1
<1>3. CASE i > Len(s)
  <2> DEFINE k == i - Len(s)
  <2>1. (s \o t)[i] = t[k] /\ (s \o t)[i + 1] = t[k + 1] /\ k \in 1..(Len(t) - 1)
    BY <1>0, <1>3
  <2> QED BY <2>1
<1> QED BY <1>0, <1>1, <1>2, <1>3

\* The part of the log behind its first n lines.
LEMMA LogPart ==
  ASSUME LogsType, LogInv, NEW n \in 0..Len(log), NEW t, t = SubSeq(log, n + 1, Len(log))
  PROVE  /\ t \in Seq(Nat) /\ Len(t) = Len(log) - n
         /\ \A k \in 1..Len(t) : t[k] = log[n + k] /\ t[k] = written - Len(log) + n + k - 1
         /\ \A k \in 1..(Len(t) - 1) : t[k] < t[k + 1] /\ t[k + 1] = t[k] + 1
<1>0. Len(log) \in Nat /\ n \in Nat
  BY DEF LogsType
<1>1. t \in Seq(Nat) /\ Len(t) = Len(log) - n
  BY <1>0 DEF LogsType
<1>2. ASSUME NEW k \in 1..Len(t) PROVE t[k] = log[n + k] /\ t[k] = written - Len(log) + n + k - 1
  <2>1. t[k] = log[n + k] /\ n + k \in 1..Len(log)
    BY <1>0, <1>1 DEF LogsType
  <2> QED BY <1>0, <2>1 DEF LogInv, LogsType
<1>3. ASSUME NEW k \in 1..(Len(t) - 1) PROVE t[k] < t[k + 1] /\ t[k + 1] = t[k] + 1
  <2>1. k \in 1..Len(t) /\ k + 1 \in 1..Len(t)
    BY <1>0, <1>1
  <2>2. t[k] = written - Len(log) + n + k - 1 /\ t[k + 1] = written - Len(log) + n + (k + 1) - 1
    BY <1>2, <2>1
  <2>3. t[k] \in Nat /\ t[k + 1] \in Nat /\ k \in Nat
    BY <1>1, <2>1
  <2> QED BY <1>0, <2>2, <2>3 DEF LogsType
<1> QED BY <1>1, <1>2, <1>3

\* A poll: the lines of the log from the n-th on are printed.
LEMMA SeePart ==
  ASSUME LogsInv, NEW n \in 0..Len(log), n = lastSize \/ (n = 0 /\ Len(log) < lastSize),
         printed' = printed \o SubSeq(log, n + 1, Len(log)), lastSize' = Len(log),
         UNCHANGED <<log, written, truncated, follow>>, follow # "idle"
  PROVE  LogsInv'
<1> USE DEF LogsInv
<1> DEFINE t == SubSeq(log, n + 1, Len(log))
<1>d. t = SubSeq(log, n + 1, Len(log)) /\ printed' = printed \o t
  OBVIOUS
<1> HIDE DEF t
<1>0. Len(log) \in Nat /\ Len(printed) \in Nat
  BY DEF LogsType
<1>1. /\ t \in Seq(Nat) /\ Len(t) = Len(log) - n
      /\ \A k \in 1..Len(t) : t[k] = log[n + k] /\ t[k] = written - Len(log) + n + k - 1
      /\ \A k \in 1..(Len(t) - 1) : t[k] < t[k + 1] /\ t[k + 1] = t[k] + 1
  BY <1>d, LogPart
<1>2. \A i \in 1..Len(printed) : \A k \in 1..Len(t) : printed[i] < t[k]
  <2> SUFFICES ASSUME NEW i \in 1..Len(printed), NEW k \in 1..Len(t)
               PROVE  printed[i] < t[k]
    OBVIOUS
  <2>1. n + k \in 1..Len(log) /\ (n + k > lastSize \/ Len(log) < lastSize)
    BY <1>0, <1>1 DEF LogsType
  <2> QED BY <2>1, <1>1 DEF NewerInv
<1>t. t \in Seq(Nat) /\ printed \in Seq(Nat)
  BY <1>1 DEF LogsType
<1>3. printed' \in Seq(Nat) /\ printed' = printed \o t
  BY <1>d, <1>t
<1>p. /\ Len(printed') = Len(printed) + Len(t)
      /\ \A i \in 1..Len(printed) : printed'[i] = printed[i]
      /\ \A i \in 1..(Len(printed) + Len(t)) :
           i > Len(printed) => i - Len(printed) \in 1..Len(t) /\ printed'[i] = t[i - Len(printed)]
  <2>1. /\ Len(printed \o t) = Len(printed) + Len(t)
        /\ \A i \in 1..Len(printed) : (printed \o t)[i] = printed[i]
        /\ \A i \in 1..(Len(printed) + Len(t)) :
             i > Len(printed) => i - Len(printed) \in 1..Len(t) /\ (printed \o t)[i] = t[i - Len(printed)]
    BY <1>t, PartOfConcat
  <2> QED BY <2>1, <1>d, Zenon
<1>4. \A i \in 1..(Len(printed') - 1) : printed'[i] < printed'[i + 1]
  BY <1>1, <1>2, <1>3, ConcatIncreases DEF FollowedOnceInOrder, LogsType
<1>5. ASSUME truncated = 0, printed' # <<>>
      PROVE  /\ printed'[Len(printed')] = lastSize' - 1
             /\ \A i \in 1..(Len(printed') - 1) : printed'[i + 1] = printed'[i] + 1
  <2>1. n = lastSize /\ lastSize <= Len(log) /\ written = Len(log)
    BY <1>5, <1>0 DEF NewerInv, LogInv, LogsType
  <2>2. printed # <<>> => printed[Len(printed)] = lastSize - 1
                          /\ \A i \in 1..(Len(printed) - 1) : printed[i + 1] = printed[i] + 1
    BY <1>5 DEF FollowedOnceInOrder
  <2>3. t # <<>> => t[1] = lastSize /\ t[Len(t)] = Len(log) - 1
    <3> SUFFICES ASSUME t # <<>> PROVE t[1] = lastSize /\ t[Len(t)] = Len(log) - 1
      OBVIOUS
    <3>1. Len(t) \in Nat /\ Len(t) # 0
      BY <1>1
    <3>2. 1 \in 1..Len(t) /\ Len(t) \in 1..Len(t)
      BY <3>1
    <3>3. t[1] = written - Len(log) + n + 1 - 1 /\ t[Len(t)] = written - Len(log) + n + Len(t) - 1
      BY <1>1, <3>2
    <3>4. t[1] \in Nat /\ t[Len(t)] \in Nat
      BY <1>1, <3>2
    <3> QED BY <1>0, <1>1, <2>1, <3>1, <3>3, <3>4 DEF LogsType
  <2>4. \A i \in 1..(Len(printed) - 1) : printed[i + 1] = printed[i] + 1
    <3>1. CASE printed = <<>>
      BY <3>1
    <3> QED BY <3>1, <2>2
  <2>5. printed # <<>> /\ t # <<>> => t[1] = printed[Len(printed)] + 1
    <3> SUFFICES ASSUME printed # <<>>, t # <<>> PROVE t[1] = printed[Len(printed)] + 1
      OBVIOUS
    <3>1. t[1] = lastSize /\ printed[Len(printed)] = lastSize - 1
      BY <2>2, <2>3
    <3> QED BY <3>1 DEF LogsType
  <2>6. \A i \in 1..(Len(printed') - 1) : printed'[i + 1] = printed'[i] + 1
    <3>1. \A i \in 1..(Len(t) - 1) : t[i + 1] = t[i] + 1
      BY <1>1
    <3>2. \A i \in 1..(Len(printed \o t) - 1) : (printed \o t)[i + 1] = (printed \o t)[i] + 1
      BY <1>t, <2>4, <2>5, <3>1, ConcatGoesOn
    <3> QED BY <1>d, <3>2, Zenon
  <2>7. printed'[Len(printed')] = Len(log) - 1
    <3>1. CASE t = <<>>
      <4>1. printed' = printed /\ Len(log) = lastSize
        BY <3>1, <1>0, <1>1, <1>3, <2>1 DEF LogsType
      <4> QED BY <4>1, <2>2, <1>5
    <3>2. CASE t # <<>>
      <4>1. Len(t) \in Nat /\ Len(t) # 0
        BY <3>2, <1>1
      <4>2. Len(printed') = Len(printed) + Len(t) /\ printed'[Len(printed) + Len(t)] = t[Len(t)]
        <5>1. Len(printed) + Len(t) \in 1..(Len(printed) + Len(t)) /\ Len(printed) + Len(t) > Len(printed)
              /\ (Len(printed) + Len(t)) - Len(printed) = Len(t)
          BY <4>1, <1>0
        <5> QED BY <5>1, <1>p
      <4> QED BY <4>2, <2>3, <3>2
    <3> QED BY <3>1, <3>2
  <2> QED BY <2>6, <2>7
<1>6. FollowedOnceInOrder'
  BY <1>4, <1>5 DEF FollowedOnceInOrder
<1>7. LogsType' /\ LogInv'
  BY <1>0, <1>3 DEF LogsType, LogInv
<1>8. NewerInv'
  <2>0. Len(log') = lastSize' /\ written' = written /\ follow' # "idle"
    OBVIOUS
  <2> SUFFICES ASSUME NEW i \in 1..Len(printed') PROVE printed'[i] < written
    BY <1>0, <2>0 DEF NewerInv
  <2>1. CASE i \in 1..Len(printed)
    BY <2>1, <1>1, <1>3 DEF NewerInv, LogsType
  <2>2. CASE i \notin 1..Len(printed)
    <3>1. i \in 1..(Len(printed) + Len(t)) /\ i > Len(printed)
      BY <2>2, <1>0, <1>1, <1>p
    <3>2. PICK k \in 1..Len(t) : printed'[i] = t[k]
      BY <3>1, <1>p
    <3>3. t[k] = written - Len(log) + n + k - 1 /\ t[k] \in Nat
      BY <1>1
    <3>4. k \in Int /\ k <= Len(log) - n /\ n \in Int
      BY <1>0, <1>1
    <3>5. t[k] < written
      BY <3>3, <3>4, <1>0 DEF LogsType
    <3> QED BY <3>2, <3>5
  <2> QED BY <2>1, <2>2
<1> QED BY <1>6, <1>7, <1>8

LEMMA LogsStep ==
  ASSUME LogsInv, [LogsNext]_logVars
  PROVE  LogsInv'
<1> USE DEF LogsInv
<1>0. Len(log) \in Nat /\ Len(printed) \in Nat
  BY DEF LogsType
<1>1. CASE GuestWrites
  <2>1. /\ log' = Append(log, written) /\ written' = written + 1
        /\ UNCHANGED <<truncated, vmExists, follow, lastSize, printed>>
    BY <1>1 DEF GuestWrites
  <2>2. log' \in Seq(Nat) /\ Len(log') = Len(log) + 1 /\ log'[Len(log) + 1] = written
        /\ \A j \in 1..Len(log) : log'[j] = log[j]
    BY <2>1 DEF LogsType
  <2>3. LogsType' /\ FollowedOnceInOrder'
    BY <2>1, <2>2 DEF LogsType, FollowedOnceInOrder
  <2>4. LogInv'
    <3>1. ASSUME NEW j \in 1..Len(log') PROVE log'[j] = written' - Len(log') + j - 1
      <4>1. CASE j = Len(log) + 1
        BY <4>1, <1>0, <2>1, <2>2 DEF LogsType
      <4>2. CASE j # Len(log) + 1
        <5>1. j \in 1..Len(log)
          BY <4>2, <1>0, <2>2
        <5> QED BY <5>1, <1>0, <2>1, <2>2 DEF LogInv, LogsType
      <4> QED BY <4>1, <4>2
    <3> QED BY <3>1, <2>1, <2>2, <1>0 DEF LogInv, LogsType
  <2>5. NewerInv'
    <3>1. ASSUME NEW i \in 1..Len(printed'), NEW j \in 1..Len(log'), j > lastSize' \/ Len(log') < lastSize'
          PROVE  printed'[i] < log'[j]
      <4>1. CASE j = Len(log) + 1
        BY <4>1, <2>1, <2>2 DEF NewerInv
      <4>2. CASE j # Len(log) + 1
        <5>1. j \in 1..Len(log) /\ (j > lastSize \/ Len(log) < lastSize)
          BY <4>2, <3>1, <1>0, <2>1, <2>2 DEF LogsType
        <5> QED BY <5>1, <2>1, <2>2 DEF NewerInv
      <4> QED BY <4>1, <4>2
    <3>2. ASSUME NEW i \in 1..Len(printed') PROVE printed'[i] < written'
      BY <2>1 DEF NewerInv, LogsType
    <3> QED BY <3>1, <3>2, <2>1, <2>2, <1>0 DEF NewerInv, LogsType
  <2> QED BY <2>3, <2>4, <2>5
<1>2. CASE LogTruncated
  BY <1>2, <1>0 DEF LogTruncated, LogsType, LogInv, NewerInv, FollowedOnceInOrder
<1>3. CASE VMDeleted \/ PollFindsNoVM \/ Interrupted
  <2>1. UNCHANGED <<log, written, truncated, lastSize, printed>> /\ (follow' = "idle" => follow = "idle")
    BY <1>3 DEF VMDeleted, PollFindsNoVM, Interrupted
  <2> QED BY <2>1 DEF LogsType, LogInv, NewerInv, FollowedOnceInOrder
<1>4. ASSUME NEW m \in Tails, FollowStarts(m) PROVE LogsInv'
  <2>0. UNCHANGED <<log, written, truncated>> /\ follow' # "idle" /\ printed = <<>> /\ lastSize = 0
    BY <1>4 DEF FollowStarts, NewerInv
  <2>1. CASE UNCHANGED <<lastSize, printed>>
    BY <2>0, <2>1 DEF LogsType, LogInv, NewerInv, FollowedOnceInOrder
  <2>2. CASE lastSize' = Len(log) /\ printed' = LastLines(log, m)
    <3>1. m \in Nat
      BY LogsAssumption
    <3>2. PICK n \in 0..Len(log) : printed' = SubSeq(log, n + 1, Len(log))
      <4>1. CASE m > 0 /\ Len(log) > m
        <5>1. Len(log) - m \in 0..Len(log) /\ printed' = SubSeq(log, (Len(log) - m) + 1, Len(log))
          BY <4>1, <2>2, <3>1, <1>0 DEF LastLines
        <5> QED BY <5>1
      <4>2. CASE ~(m > 0 /\ Len(log) > m)
        <5>1. printed' = log /\ SubSeq(log, 0 + 1, Len(log)) = log
          BY <4>2, <2>2 DEF LastLines, LogsType
        <5> QED BY <5>1, <1>0
      <4> QED BY <4>1, <4>2
    <3>3. /\ printed' \in Seq(Nat) /\ Len(printed') = Len(log) - n
          /\ \A k \in 1..Len(printed') : printed'[k] = written - Len(log) + n + k - 1
          /\ \A k \in 1..(Len(printed') - 1) : printed'[k] < printed'[k + 1] /\ printed'[k + 1] = printed'[k] + 1
      BY <3>2, LogPart
    <3>4. LogsType' /\ LogInv'
      BY <2>0, <2>2, <3>3, <1>0 DEF LogsType, LogInv
    <3>5. NewerInv'
      <4>0. Len(log') = lastSize' /\ written' = written /\ follow' # "idle"
        BY <2>0, <2>2
      <4> SUFFICES ASSUME NEW i \in 1..Len(printed') PROVE printed'[i] < written
        BY <1>0, <4>0 DEF NewerInv
      <4>1. printed'[i] = written - Len(log) + n + i - 1 /\ printed'[i] \in Nat
        BY <3>3
      <4>2. i \in Int /\ i <= Len(log) - n /\ n \in Int
        BY <3>3, <1>0
      <4> QED BY <4>1, <4>2, <1>0 DEF LogsType
    <3>6. FollowedOnceInOrder'
      <4> SUFFICES ASSUME truncated = 0, printed' # <<>> PROVE printed'[Len(printed')] = Len(log) - 1
        BY <2>0, <2>2, <3>3 DEF FollowedOnceInOrder
      <4>1. Len(printed') \in Nat /\ Len(printed') # 0
        BY <3>3
      <4>2. printed'[Len(printed')] = written - Len(log) + n + (Len(log) - n) - 1 /\ written = Len(log)
        BY <4>1, <3>3 DEF LogInv
      <4> QED BY <4>2, <1>0
    <3> QED BY <3>4, <3>5, <3>6
  <2> QED BY <1>4, <2>1, <2>2 DEF FollowStarts
<1>5. CASE PollSucceeds
  <2>1. lastSize' = Len(log) /\ UNCHANGED <<log, written, truncated, follow>> /\ follow # "idle"
    BY <1>5 DEF PollSucceeds, SeeLog
  <2>2. CASE Len(log) < lastSize
    <3>1. printed' = printed \o SubSeq(log, 0 + 1, Len(log))
      BY <1>5, <2>2 DEF PollSucceeds, SeeLog, LogsType
    <3> QED BY <2>1, <2>2, <3>1, <1>0, SeePart
  <2>3. CASE ~(Len(log) < lastSize)
    <3>1. printed' = printed \o SubSeq(log, lastSize + 1, Len(log)) /\ lastSize \in 0..Len(log)
      BY <1>5, <2>3, <1>0 DEF PollSucceeds, SeeLog, LogsType
    <3> QED BY <2>1, <3>1, SeePart
  <2> QED BY <2>2, <2>3
<1>6. CASE UNCHANGED logVars
  BY <1>6 DEF logVars, LogsType, LogInv, NewerInv, FollowedOnceInOrder
<1> QED BY <1>1, <1>2, <1>3, <1>4, <1>5, <1>6 DEF LogsNext

(***************************************************************************)
(* "vm logs --follow" prints no line twice and none before an earlier one, *)
(* and without truncations it leaves none out: for every length of the log *)
(* and every --tail, however the log grows and is truncated between two    *)
(* polls (streamVMLogs).                                                   *)
(***************************************************************************)
THEOREM LogsAreFollowed == LogsSpec => []FollowedOnceInOrder
<1>1. LogsInit => LogsInv
  BY DEF LogsInit, LogsInv, LogsType, LogInv, NewerInv, FollowedOnceInOrder
<1>2. LogsInv /\ [LogsNext]_logVars => LogsInv'
  BY LogsStep
<1>3. LogsInv => FollowedOnceInOrder
  BY DEF LogsInv
<1> QED BY <1>1, <1>2, <1>3, PTL DEF LogsSpec
-----------------------------------------------------------------------------
(* The command line                                                        *)

CliType ==
  /\ command \in [Terminals -> Commands \union {"none"}] /\ step \in [Terminals -> Nat]
  /\ at \in [Terminals -> {"idle", "prompt", "call", "wait", "sleep", "over"}]
  /\ DOMAIN exit = Terminals /\ DOMAIN error = Terminals /\ DOMAIN answer = Terminals /\ DOMAIN job = Terminals

Count(t) == Len(Requests[command[t]])

\* A command is at one of its requests and has been through those before it.
StepInv(t) ==
  /\ command[t] = "none" <=> at[t] = "idle"
  /\ at[t] \in {"idle", "prompt"} => step[t] = 1
  /\ at[t] # "idle" => step[t] \in 1..Count(t)
  /\ at[t] = "sleep" => Request(t) = "poll"
  /\ \A s \in 1..(step[t] - 1) : <<t, s>> \in performed

\* The daemon holds nothing but the request the command is at, and has not performed it.
DaemonInv(t) ==
  \A s : <<t, s>> \in held =>
    s = step[t] /\ at[t] \in {"wait", "over"} /\ answer[t] = NoAnswer /\ <<t, s>> \notin performed

\* What was performed was sent, and is no poll.
PerformedInv(t) ==
  \A s : <<t, s>> \in performed =>
    /\ s \in 1..step[t] /\ (s = step[t] => at[t] \in {"wait", "over"})
    /\ at[t] # "idle" /\ Requests[command[t]][s] # "poll"

\* An answer on its way is true.
AnswerInv(t) ==
  answer[t] # NoAnswer =>
    /\ at[t] = "wait"
    /\ \/ answer[t] \in Refusals /\ <<t, step[t]>> \notin performed
       \/ answer[t] = InternalError
       \/ /\ answer[t].status = SuccessStatus(Request(t))
          /\ Request(t) # "poll" => <<t, step[t]>> \in performed
          /\ Request(t) = "poll" /\ answer[t].state = "completed" => job[t] = "completed"

\* The exit code is true; and after 0 the daemon has nothing more to do.
ExitInv(t) ==
  at[t] = "over" =>
    /\ exit[t] = 0 =>
         /\ \A s : <<t, s>> \notin held
         /\ \/ error[t].kind = "cancelled" /\ \A s : <<t, s>> \notin performed
            \/ /\ \A s \in 1..Count(t) : Requests[command[t]][s] # "poll" => <<t, s>> \in performed
               /\ command[t] = "pull" => job[t] = "completed"
    /\ exit[t] \in {3, 4, 5} => <<t, step[t]>> \notin performed \union held

TerminalInv(t) == StepInv(t) /\ DaemonInv(t) /\ PerformedInv(t) /\ AnswerInv(t) /\ ExitInv(t)

CliInv == CliType /\ \A t \in Terminals : TerminalInv(t)

-----------------------------------------------------------------------------
LEMMA RequestsFacts ==
  ASSUME NEW c \in Commands
  PROVE  /\ Len(Requests[c]) \in {1, 2} /\ DOMAIN Requests[c] = 1..Len(Requests[c])
         /\ \A s \in 1..Len(Requests[c]) : Requests[c][s] = "poll" => s = Len(Requests[c])
         /\ c = "pull" => Requests[c][Len(Requests[c])] = "poll"
         /\ c # "none"
<1>1. c \in {"get", "create", "run", "start", "stop", "kill", "restart", "pause", "resume", "delete", "exec",
             "snapshot", "snapshotDelete", "imageRemove", "pull"}
  BY CliAssumption DEF Requests
<1>2. CASE c \in {"run", "restart", "pull"}
  <2>1. Requests[c] \in {<<"create", "start">>, <<"stop", "start">>, <<"pull", "poll">>}
        /\ (c = "pull" => Requests[c] = <<"pull", "poll">>)
    BY <1>2 DEF Requests, CreateRequests, RunRequests, StartRequests, StopRequests, KillRequests, RestartRequests,
     PauseRequests, ResumeRequests, DeleteRequests, ExecRequests, SnapshotRequests, SnapshotDeleteRequests,
     ImageRemoveRequests, PullRequests
  <2>2. Len(Requests[c]) = 2 /\ DOMAIN Requests[c] = 1..2
    BY <2>1
  <2>3. Requests[c][1] # "poll" /\ (c = "pull" => Requests[c][2] = "poll")
    BY <2>1
  <2> QED BY <1>2, <2>2, <2>3
<1>3. CASE c \notin {"run", "restart", "pull"}
  <2>1. Requests[c] \in {<<"get">>, <<"create">>, <<"start">>, <<"stop">>, <<"kill">>, <<"pause">>, <<"resume">>,
                         <<"delete">>, <<"exec">>, <<"snapshot">>, <<"snapshotDelete">>, <<"imageRemove">>}
    BY <1>1, <1>3 DEF Requests, CreateRequests, RunRequests, StartRequests, StopRequests, KillRequests, RestartRequests,
     PauseRequests, ResumeRequests, DeleteRequests, ExecRequests, SnapshotRequests, SnapshotDeleteRequests,
     ImageRemoveRequests, PullRequests
  <2>2. Len(Requests[c]) = 1 /\ DOMAIN Requests[c] = 1..1
    BY <2>1
  <2> QED BY <1>1, <1>3, <2>2
<1> QED BY <1>2, <1>3

LEMMA AcceptedFacts ==
  ASSUME NEW r
  PROVE  Accepted(r) \subseteq {200, 201, 202, 204} /\ SuccessStatus(r) \in Accepted(r)
BY DEF Accepted, SuccessStatus, GetAccepts, PostAccepts, DeleteAccepts, Deletions

\* Exit codes of errors: never 0, and 3 to 5 only for a refusal or without a connection.
LEMMA ExitFacts ==
  ASSUME NEW t, NEW e
  PROVE  /\ e \in Refusals => ExitOf(t, e) \in 1..5 /\ e.status \notin {200, 201, 202, 204}
         /\ e = InternalError => ExitOf(t, e) \in {1, 2} /\ e.status \notin {200, 201, 202, 204}
         /\ e \in TransportErrors("dial") => ExitOf(t, e) \in {2, 3}
         /\ \A k \in {"timeout", "interrupt", "cut"} : e \in TransportErrors(k) => ExitOf(t, e) \in {1, 2}
<1> USE DEF ExitOf, FromError, FromClientError, ExitCode, NotFoundExit, UnreachableExit, ConflictExit, InvalidExit
<1>1. ASSUME e \in Refusals PROVE ExitOf(t, e) \in 1..5 /\ e.status \notin {200, 201, 202, 204}
  <2>1. e.kind = "api" /\ e.status \in {400, 401, 404, 409, 422, 503}
    BY <1>1 DEF Refusals
  <2> QED BY <2>1
<1>2. ASSUME e = InternalError PROVE ExitOf(t, e) \in {1, 2} /\ e.status \notin {200, 201, 202, 204}
  <2>1. e.kind = "api" /\ e.status = 500 /\ e.code = "INTERNAL_ERROR"
    BY <1>2 DEF InternalError
  <2>2. ExitCode(500) = 1
    OBVIOUS
  <2>3. FromClientError(500, "INTERNAL_ERROR") = ExitCode(500)
    OBVIOUS
  <2>4. FromError(e) = 1
    BY <2>1, <2>2, <2>3 DEF IsConnectionError
  <2>5. ExitOf(t, e) \in {1, 2}
    BY <2>4
  <2> QED BY <2>1, <2>5
<1>3. ASSUME e \in TransportErrors("dial") PROVE ExitOf(t, e) \in {2, 3}
  <2>1. e.kind = "dial"
    BY <1>3 DEF TransportErrors
  <2> QED BY <2>1 DEF IsConnectionError
<1>4. ASSUME NEW k \in {"timeout", "interrupt", "cut"}, e \in TransportErrors(k) PROVE ExitOf(t, e) \in {1, 2}
  <2>1. e.kind = k /\ e.digits \in BOOLEAN
    BY <1>4 DEF TransportErrors
  <2> QED BY <2>1 DEF IsConnectionError, IsAuthError
<1> QED BY <1>1, <1>2, <1>3, <1>4

\* What other terminals and the daemon do leaves a terminal alone; the daemon may lose requests.
LEMMA TerminalFrame ==
  ASSUME NEW t, TerminalInv(t),
         command'[t] = command[t], at'[t] = at[t], step'[t] = step[t], exit'[t] = exit[t], error'[t] = error[t],
         answer'[t] = answer[t], job'[t] = job[t] \/ job[t] = "running",
         \A s : <<t, s>> \in held' => <<t, s>> \in held,
         \A s : <<t, s>> \in performed' <=> <<t, s>> \in performed
  PROVE  TerminalInv(t)'
<1> USE DEF TerminalInv
<1>1. Count(t)' = Count(t) /\ Request(t)' = Request(t)
  BY DEF Count, Request
<1>2. StepInv(t)' /\ PerformedInv(t)'
  BY <1>1 DEF StepInv, PerformedInv
<1>3. DaemonInv(t)'
  BY DEF DaemonInv
<1>4. AnswerInv(t)'
  BY <1>1 DEF AnswerInv
<1>5. ExitInv(t)'
  BY <1>1 DEF ExitInv
<1> QED BY <1>2, <1>3, <1>4, <1>5
\* A step of one terminal: the others are left alone.
LEMMA OtherTerminals ==
  ASSUME CliInv, NEW t \in Terminals, NEW u \in Terminals \ {t},
         command'[u] = command[u], at'[u] = at[u], step'[u] = step[u], exit'[u] = exit[u], error'[u] = error[u],
         answer'[u] = answer[u], job'[u] = job[u],
         \A s : <<u, s>> \in held' => <<u, s>> \in held,
         \A s : <<u, s>> \in performed' <=> <<u, s>> \in performed
  PROVE  TerminalInv(u)'
BY TerminalFrame DEF CliInv

LEMMA BeginKeeps ==
  ASSUME CliInv, NEW t \in Terminals, NEW c \in Commands, Begin(t, c)
  PROVE  CliInv'
<1> USE DEF CliInv
<1>1. PICK p \in {"prompt", "call"} : at' = [at EXCEPT ![t] = p]
  BY DEF Begin
<1>2. /\ at[t] = "idle" /\ command' = [command EXCEPT ![t] = c]
      /\ UNCHANGED <<step, exit, error, held, answer, performed, job>>
  BY DEF Begin
<1>3. CliType'
  BY <1>1, <1>2 DEF CliType
<1>4. ASSUME NEW u \in Terminals \ {t} PROVE TerminalInv(u)'
  BY <1>1, <1>2, OtherTerminals DEF CliType
<1>5. TerminalInv(t)'
  <2>1. command'[t] = c /\ at'[t] = p /\ step'[t] = 1
    BY <1>1, <1>2 DEF CliType, TerminalInv, StepInv
  <2>2. (\A s : <<t, s>> \notin performed) /\ (\A s : <<t, s>> \notin held) /\ answer[t] = NoAnswer
    BY <1>2 DEF TerminalInv, PerformedInv, DaemonInv, AnswerInv
  <2>3. c # "none" /\ Len(Requests[c]) \in {1, 2}
    BY RequestsFacts
  <2> QED BY <1>2, <2>1, <2>2, <2>3 DEF TerminalInv, StepInv, DaemonInv, PerformedInv, AnswerInv, ExitInv, Count
<1> QED BY <1>3, <1>4, <1>5

\* A command ends: with 0 after it was declined, or with what the error says.
LEMMA EndKeeps ==
  ASSUME CliInv, NEW t \in Terminals, NEW code, NEW e, ExitsWith(t, code, e), at[t] # "idle",
         DOMAIN answer' = Terminals, \A u \in Terminals : answer'[u] = IF u = t THEN NoAnswer ELSE answer[u],
         UNCHANGED <<command, step, held, performed, job>>,
         code = 0 =>
           /\ \A s : <<t, s>> \notin held
           /\ \/ e.kind = "cancelled" /\ \A s : <<t, s>> \notin performed
              \/ /\ \A s \in 1..Count(t) : Requests[command[t]][s] # "poll" => <<t, s>> \in performed
                 /\ command[t] = "pull" => job[t] = "completed",
         code \in {3, 4, 5} => <<t, step[t]>> \notin performed \union held
  PROVE  CliInv'
<1> USE DEF CliInv, ExitsWith
<1>1. CliType'
  BY DEF CliType
<1>2. ASSUME NEW u \in Terminals \ {t} PROVE TerminalInv(u)'
  BY OtherTerminals DEF CliType
<1>3. TerminalInv(t)'
  <2>1. at'[t] = "over" /\ exit'[t] = code /\ error'[t] = e /\ answer'[t] = NoAnswer
    BY DEF CliType
  <2>2. StepInv(t)'
    BY <2>1 DEF TerminalInv, StepInv, Count
  <2>3. DaemonInv(t)' /\ PerformedInv(t)'
    BY <2>1 DEF TerminalInv, DaemonInv, PerformedInv
  <2>4. AnswerInv(t)' /\ ExitInv(t)'
    BY <2>1 DEF AnswerInv, ExitInv, Count
  <2> QED BY <2>2, <2>3, <2>4 DEF TerminalInv
<1> QED BY <1>1, <1>2, <1>3

LEMMA TerminalKeeps ==
  ASSUME CliInv, NEW t \in Terminals, TerminalStep(t)
  PROVE  CliInv'
<1>0. TerminalInv(t) /\ CliType
  BY DEF CliInv
<1>e. answer' = [answer EXCEPT ![t] = NoAnswer] \/ (answer[t] = NoAnswer /\ answer' = answer) =>
        DOMAIN answer' = Terminals /\ \A u \in Terminals : answer'[u] = IF u = t THEN NoAnswer ELSE answer[u]
  BY <1>0 DEF CliType
<1>c. at[t] # "idle" => command[t] \in Commands
  BY <1>0 DEF TerminalInv, StepInv, CliType
<1>1. CASE PromptAnswered(t)
  <2>p. at[t] = "prompt" /\ UNCHANGED <<command, step, held, answer, performed, job>>
    BY <1>1 DEF PromptAnswered
  <2>s. step[t] = 1
    BY <1>0, <2>p DEF TerminalInv, StepInv
  <2>n. \A s : <<t, s>> \notin performed
    BY <1>0, <2>p, <2>s DEF TerminalInv, PerformedInv
  <2>0. answer[t] = NoAnswer /\ \A s : <<t, s>> \notin held
    BY <1>0, <2>p DEF TerminalInv, AnswerInv, DaemonInv
  <2>1. CASE at' = [at EXCEPT ![t] = "call"] /\ UNCHANGED <<exit, error>>
    <3>1. CliType' /\ at'[t] = "call"
      BY <1>0, <2>p, <2>1 DEF CliType
    <3>2. ASSUME NEW u \in Terminals \ {t} PROVE TerminalInv(u)'
      BY <1>0, <2>p, <2>1, OtherTerminals DEF CliType
    <3>3. TerminalInv(t)'
      BY <1>0, <2>p, <2>s, <2>n, <2>0, <3>1 DEF TerminalInv, StepInv, DaemonInv, PerformedInv, AnswerInv, ExitInv, Count
    <3> QED BY <3>1, <3>2, <3>3 DEF CliInv
  <2>2. CASE ExitsWith(t, 0, [kind |-> "cancelled"])
    <3>1. DOMAIN answer' = Terminals /\ \A u \in Terminals : answer'[u] = IF u = t THEN NoAnswer ELSE answer[u]
      BY <1>e, <2>p, <2>0
    <3> QED BY <2>p, <2>n, <2>0, <2>2, <3>1, EndKeeps
  <2> QED BY <1>1, <2>1, <2>2 DEF PromptAnswered
<1>2. CASE SendRequest(t)
  <2>0. answer[t] = NoAnswer /\ (\A s : <<t, s>> \notin held) /\ <<t, step[t]>> \notin performed
        /\ at[t] = "call" /\ UNCHANGED <<command, step, answer, performed, job>>
    BY <1>0, <1>2 DEF SendRequest, TerminalInv, AnswerInv, DaemonInv, PerformedInv
  <2>1. CASE daemonUp
    <3>1. at' = [at EXCEPT ![t] = "wait"] /\ held' = held \union {<<t, step[t]>>} /\ UNCHANGED <<exit, error>>
      BY <1>2, <2>1 DEF SendRequest
    <3>2. CliType' /\ at'[t] = "wait"
      BY <1>0, <2>0, <3>1 DEF CliType
    <3>3. ASSUME NEW u \in Terminals \ {t} PROVE TerminalInv(u)'
      BY <1>0, <2>0, <3>1, OtherTerminals DEF CliType
    <3>4. TerminalInv(t)'
      <4>1. StepInv(t)' /\ PerformedInv(t)'
        BY <1>0, <2>0, <3>1, <3>2 DEF TerminalInv, StepInv, PerformedInv, Count
      <4>2. DaemonInv(t)' /\ AnswerInv(t)' /\ ExitInv(t)'
        BY <2>0, <3>1, <3>2 DEF DaemonInv, AnswerInv, ExitInv
      <4> QED BY <1>0, <4>1, <4>2 DEF TerminalInv
    <3> QED BY <3>2, <3>3, <3>4 DEF CliInv
  <2>2. CASE ~daemonUp
    <3>1. PICK e \in TransportErrors("dial") : Fails(t, e)
      BY <1>2, <2>2 DEF SendRequest
    <3>2. DOMAIN answer' = Terminals /\ \A u \in Terminals : answer'[u] = IF u = t THEN NoAnswer ELSE answer[u]
      BY <1>e, <2>0
    <3>3. UNCHANGED held
      BY <1>2, <2>2 DEF SendRequest
    <3>4. ExitOf(t, e) # 0
      BY ExitFacts
    <3>5. ExitsWith(t, ExitOf(t, e), e)
      BY <3>1 DEF Fails
    <3> QED BY <2>0, <3>2, <3>3, <3>4, <3>5, EndKeeps
  <2> QED BY <2>1, <2>2
<1>3. CASE RequestBreaks(t)
  <2>1. PICK k \in {"timeout", "interrupt", "cut"} : \E e \in TransportErrors(k) : Fails(t, e)
    BY <1>3 DEF RequestBreaks
  <2>2. PICK e \in TransportErrors(k) : Fails(t, e)
    BY <2>1
  <2>3. ExitOf(t, e) # 0 /\ ExitOf(t, e) \notin {3, 4, 5}
    BY ExitFacts
  <2>4. ExitsWith(t, ExitOf(t, e), e)
    BY <2>2 DEF Fails
  <2>5. at[t] = "wait" /\ answer' = [answer EXCEPT ![t] = NoAnswer] /\ UNCHANGED <<command, step, held, performed, job>>
    BY <1>3 DEF RequestBreaks
  <2>6. DOMAIN answer' = Terminals /\ \A u \in Terminals : answer'[u] = IF u = t THEN NoAnswer ELSE answer[u]
    BY <1>e, <2>5
  <2> QED BY <2>3, <2>4, <2>5, <2>6, EndKeeps
<1>4. CASE NextPoll(t)
  <2>0. /\ at[t] = "sleep" /\ at' = [at EXCEPT ![t] = "call"]
        /\ UNCHANGED <<command, step, exit, error, held, answer, performed, job>>
    BY <1>4 DEF NextPoll
  <2>1. CliType' /\ at'[t] = "call"
    BY <1>0, <2>0 DEF CliType
  <2>2. ASSUME NEW u \in Terminals \ {t} PROVE TerminalInv(u)'
    BY <1>0, <2>0, OtherTerminals DEF CliType
  <2>3. TerminalInv(t)'
    BY <1>0, <2>0, <2>1 DEF TerminalInv, StepInv, DaemonInv, PerformedInv, AnswerInv, ExitInv, Count
  <2> QED BY <2>1, <2>2, <2>3 DEF CliInv
<1>5. CASE ReceiveAnswer(t)
  <2> DEFINE a == answer[t]
  <2>0. /\ at[t] = "wait" /\ a # NoAnswer /\ answer' = [answer EXCEPT ![t] = NoAnswer]
        /\ UNCHANGED <<command, held, performed, job>>
    BY <1>5 DEF ReceiveAnswer
  <2>e. DOMAIN answer' = Terminals /\ \A u \in Terminals : answer'[u] = IF u = t THEN NoAnswer ELSE answer[u]
    BY <1>e, <2>0
  <2>c. command[t] \in Commands /\ step[t] \in 1..Count(t)
    BY <1>0, <2>0, <1>c DEF TerminalInv, StepInv
  <2>h. \A s : <<t, s>> \notin held
    BY <1>0, <2>0 DEF TerminalInv, DaemonInv
  <2>a. a.status \in Accepted(Request(t)) =>
          /\ Request(t) # "poll" => <<t, step[t]>> \in performed
          /\ Request(t) = "poll" /\ a.state = "completed" => job[t] = "completed"
    BY <1>0, <2>0, ExitFacts, AcceptedFacts DEF TerminalInv, AnswerInv
  <2>1. CASE a.status \notin Accepted(Request(t))
    <3>1. Fails(t, a) /\ UNCHANGED step
      BY <1>5, <2>1 DEF ReceiveAnswer
    <3>2. (a \in Refusals /\ <<t, step[t]>> \notin performed) \/ a = InternalError
      BY <1>0, <2>0, <2>1, AcceptedFacts DEF TerminalInv, AnswerInv
    <3>3. ExitOf(t, a) # 0 /\ (ExitOf(t, a) \in {3, 4, 5} => <<t, step[t]>> \notin performed)
      BY <3>2, ExitFacts
    <3>4. ExitsWith(t, ExitOf(t, a), a)
      BY <3>1 DEF Fails
    <3> QED BY <2>0, <2>e, <2>h, <3>1, <3>3, <3>4, EndKeeps
  <2>2. CASE a.status \in Accepted(Request(t)) /\ Request(t) = "poll" /\ ~PollEnds(t, a.state)
    <3>1. at' = [at EXCEPT ![t] = "sleep"] /\ UNCHANGED <<exit, error, step>>
      BY <1>5, <2>2 DEF ReceiveAnswer
    <3>2. CliType' /\ at'[t] = "sleep" /\ answer'[t] = NoAnswer
      BY <1>0, <2>0, <3>1 DEF CliType
    <3>3. ASSUME NEW u \in Terminals \ {t} PROVE TerminalInv(u)'
      BY <1>0, <2>0, <3>1, OtherTerminals DEF CliType
    <3>4. TerminalInv(t)'
      <4>1. StepInv(t)'
        BY <1>0, <2>0, <2>2, <2>c, <3>1, <3>2, RequestsFacts DEF TerminalInv, StepInv, Count, Request
      <4>2. PerformedInv(t)'
        BY <1>0, <2>0, <2>2, <3>1, <3>2 DEF TerminalInv, PerformedInv, Request
      <4>3. DaemonInv(t)' /\ AnswerInv(t)' /\ ExitInv(t)'
        BY <2>0, <2>h, <3>1, <3>2 DEF DaemonInv, AnswerInv, ExitInv
      <4> QED BY <1>0, <4>1, <4>2, <4>3 DEF TerminalInv
    <3> QED BY <3>2, <3>3, <3>4 DEF CliInv
  <2>3. CASE a.status \in Accepted(Request(t)) /\ Request(t) = "poll" /\ PollEnds(t, a.state) /\ a.state = "failed"
    <3>1. ExitsWith(t, 1, [kind |-> "failed"]) /\ UNCHANGED step
      BY <1>5, <2>3 DEF ReceiveAnswer
    <3>2. PICK c, e : ExitsWith(t, c, e) /\ c # 0 /\ c \notin {3, 4, 5}
      BY <3>1
    <3> QED BY <2>0, <2>e, <3>1, <3>2, EndKeeps
  <2>4. CASE /\ a.status \in Accepted(Request(t)) /\ ~(Request(t) = "poll" /\ ~PollEnds(t, a.state))
             /\ ~(Request(t) = "poll" /\ a.state = "failed") /\ step[t] = Count(t)
    <3>1. PICK code \in ResultExits(t) : ExitsWith(t, code, NoAnswer)
      BY <1>5, <2>4 DEF ReceiveAnswer, Count
    <3>2. UNCHANGED step /\ code \in {0, 1}
      BY <1>5, <2>4 DEF ReceiveAnswer, Count, ResultExits
    <3>3. \A s \in 1..Count(t) : Requests[command[t]][s] # "poll" => <<t, s>> \in performed
      <4> SUFFICES ASSUME NEW s \in 1..Count(t), Requests[command[t]][s] # "poll"
                   PROVE  <<t, s>> \in performed
        OBVIOUS
      <4>1. CASE s = step[t]
        BY <4>1, <2>4, <2>a DEF Request
      <4>2. CASE s # step[t]
        <5>1. Count(t) \in Nat
          BY <2>c, RequestsFacts DEF Count
        <5>2. s \in 1..(step[t] - 1)
          BY <4>2, <5>1, <2>4
        <5> QED BY <1>0, <5>2 DEF TerminalInv, StepInv
      <4> QED BY <4>1, <4>2
    <3>4. command[t] = "pull" => job[t] = "completed"
      <4> SUFFICES ASSUME command[t] = "pull" PROVE job[t] = "completed"
        OBVIOUS
      <4>1. Request(t) = "poll"
        BY <2>c, <2>4, RequestsFacts DEF Request, Count
      <4> QED BY <4>1, <2>4, <2>a DEF PollEnds
    <3>5. PICK e : ExitsWith(t, code, e)
      BY <3>1
    <3>6. code \notin {3, 4, 5}
      BY <3>2
    <3>7. UNCHANGED step
      BY <3>2
    <3> QED BY <2>0, <2>e, <2>h, <3>3, <3>4, <3>5, <3>6, <3>7, EndKeeps
  <2>5. CASE /\ a.status \in Accepted(Request(t)) /\ ~(Request(t) = "poll" /\ ~PollEnds(t, a.state))
             /\ ~(Request(t) = "poll" /\ a.state = "failed") /\ step[t] # Count(t)
    <3>1. step' = [step EXCEPT ![t] = @ + 1] /\ at' = [at EXCEPT ![t] = "call"] /\ UNCHANGED <<exit, error>>
      BY <1>5, <2>5 DEF ReceiveAnswer, Count
    <3>2. CliType' /\ at'[t] = "call" /\ answer'[t] = NoAnswer /\ step'[t] = step[t] + 1
      BY <1>0, <2>0, <3>1 DEF CliType
    <3>3. ASSUME NEW u \in Terminals \ {t} PROVE TerminalInv(u)'
      BY <1>0, <2>0, <3>1, OtherTerminals DEF CliType
    <3>4. Count(t) \in Nat /\ step[t] \in Nat /\ step[t] + 1 \in 1..Count(t) /\ Count(t)' = Count(t)
      BY <2>0, <2>c, <2>5, RequestsFacts DEF Count
    <3>5. Request(t) # "poll"
      BY <2>c, <2>5, RequestsFacts DEF Count, Request
    <3>6. TerminalInv(t)'
      <4>1. StepInv(t)'
        <5>1. ASSUME NEW s \in 1..(step'[t] - 1) PROVE <<t, s>> \in performed
          <6>1. s = step[t] \/ s \in 1..(step[t] - 1)
            BY <3>2, <3>4
          <6> QED BY <1>0, <6>1, <2>a, <2>5, <3>5 DEF TerminalInv, StepInv
        <5> QED BY <1>0, <5>1, <2>0, <3>2, <3>4 DEF TerminalInv, StepInv
      <4>2. PerformedInv(t)'
        BY <1>0, <2>0, <3>1, <3>2, <3>4 DEF TerminalInv, PerformedInv
      <4>3. DaemonInv(t)' /\ AnswerInv(t)' /\ ExitInv(t)'
        BY <2>0, <2>h, <3>2 DEF DaemonInv, AnswerInv, ExitInv
      <4> QED BY <1>0, <4>1, <4>2, <4>3 DEF TerminalInv
    <3> QED BY <3>2, <3>3, <3>6 DEF CliInv
  <2> QED BY <2>1, <2>2, <2>3, <2>4, <2>5
<1> QED BY <1>1, <1>2, <1>3, <1>4, <1>5 DEF TerminalStep
\* A handler of the daemon performs a request, or refuses it, and answers.
LEMMA HandleKeeps ==
  ASSUME CliInv, NEW t \in Terminals, command[t] # "none", NEW s \in DOMAIN Requests[command[t]], DaemonHandles(t, s)
  PROVE  CliInv'
<1> DEFINE r == Requests[command[t]][s]
<1>0. TerminalInv(t) /\ CliType
  BY DEF CliInv
<1>1. <<t, s>> \in held /\ held' = held \ {<<t, s>>} /\ UNCHANGED <<command, at, step, exit, error>>
  BY DEF DaemonHandles
<1>2. /\ s = step[t] /\ at[t] \in {"wait", "over"} /\ answer[t] = NoAnswer /\ <<t, s>> \notin performed /\ r = Request(t)
      /\ \A i : <<t, i>> \notin held'
  BY <1>0, <1>1 DEF TerminalInv, DaemonInv, Request
<1>3. at[t] = "over" => exit[t] # 0
  BY <1>0, <1>1 DEF TerminalInv, ExitInv
<1>4. at[t] = "over" => exit[t] \notin {3, 4, 5}
  BY <1>0, <1>1, <1>2 DEF TerminalInv, ExitInv
<1>5. PICK a : Answers(t, a) /\
        \/ /\ r # "poll" /\ performed' = performed \union {<<t, s>>}
           /\ job' = (IF r = "pull" THEN [job EXCEPT ![t] = "running"] ELSE job)
           /\ a = Success(t, r) \/ a = InternalError
        \/ r = "poll" /\ a = Success(t, r) /\ UNCHANGED <<performed, job>>
        \/ a \in Refusals \union {InternalError} /\ UNCHANGED <<performed, job>>
  BY DEF DaemonHandles
<1>6. CliType'
  BY <1>0, <1>1, <1>5 DEF CliType, Answers
<1>7. ASSUME NEW u \in Terminals \ {t} PROVE TerminalInv(u)'
  <2>1. answer'[u] = answer[u] /\ job'[u] = job[u]
    BY <1>0, <1>5 DEF CliType, Answers
  <2>2. \A i : <<u, i>> \in performed' <=> <<u, i>> \in performed
    BY <1>5
  <2>3. \A i : <<u, i>> \in held' => <<u, i>> \in held
    BY <1>1
  <2> QED BY <1>1, <2>1, <2>2, <2>3, OtherTerminals
<1>8. TerminalInv(t)'
  <2>0. Request(t)' = Request(t) /\ Count(t)' = Count(t)
    BY <1>1 DEF Request, Count
  <2>p. \A i : <<t, i>> \in performed' => <<t, i>> \in performed \/ (i = s /\ r # "poll")
    BY <1>5
  <2>q. \A i : <<t, i>> \in performed => <<t, i>> \in performed'
    BY <1>5
  <2>1. StepInv(t)'
    BY <1>0, <1>1, <2>0, <2>q DEF TerminalInv, StepInv
  <2>2. DaemonInv(t)'
    BY <1>2 DEF DaemonInv
  <2>3. PerformedInv(t)'
    <3> SUFFICES ASSUME NEW i, <<t, i>> \in performed'
                 PROVE  /\ i \in 1..step[t] /\ (i = step[t] => at[t] \in {"wait", "over"})
                        /\ at[t] # "idle" /\ Requests[command[t]][i] # "poll"
      BY <1>1 DEF PerformedInv
    <3>1. CASE <<t, i>> \in performed
      BY <1>0, <3>1 DEF TerminalInv, PerformedInv
    <3>2. CASE i = s /\ r # "poll"
      <4>1. step[t] \in 1..Count(t)
        BY <1>0, <1>2 DEF TerminalInv, StepInv
      <4>2. step[t] \in 1..step[t]
        BY <1>0, <4>1 DEF CliType
      <4> QED BY <1>2, <3>2, <4>2
    <3> QED BY <2>p, <3>1, <3>2
  <2>4. AnswerInv(t)'
    <3>1. CASE at[t] = "wait"
      <4>1. answer'[t] = a
        BY <1>0, <1>5, <3>1 DEF Answers, CliType
      <4>2. CASE a = Success(t, r)
        <5>1. a.status = SuccessStatus(r) /\ a.state = job[t]
          BY <4>2 DEF Success
        <5>2. \/ r # "poll" /\ <<t, s>> \in performed'
              \/ r = "poll" /\ job'[t] = job[t]
              \/ a = InternalError
              \/ a \in Refusals /\ <<t, s>> \notin performed'
          BY <1>2, <1>5
        <5> QED BY <1>1, <1>2, <2>0, <3>1, <4>1, <5>1, <5>2 DEF AnswerInv
      <4>3. CASE a = InternalError
        BY <1>1, <3>1, <4>1, <4>3 DEF AnswerInv
      <4>4. CASE a \in Refusals /\ UNCHANGED performed
        BY <1>1, <1>2, <3>1, <4>1, <4>4 DEF AnswerInv
      <4> QED BY <1>5, <4>2, <4>3, <4>4
    <3>2. CASE at[t] # "wait"
      <4>1. answer' = answer
        BY <1>5, <3>2 DEF Answers
      <4> QED BY <1>2, <4>1 DEF AnswerInv
    <3> QED BY <3>1, <3>2
  <2>5. ExitInv(t)'
    BY <1>1, <1>3, <1>4 DEF ExitInv
  <2> QED BY <2>1, <2>2, <2>3, <2>4, <2>5 DEF TerminalInv
<1> QED BY <1>6, <1>7, <1>8 DEF CliInv

LEMMA CliInvHolds == CliSpec => []CliInv
<1>1. CliInit => CliInv
  BY DEF CliInit, CliInv, CliType, TerminalInv, StepInv, DaemonInv, PerformedInv, AnswerInv, ExitInv
<1>2. CliInv /\ [CliNext]_cliVars => CliInv'
  <2> SUFFICES ASSUME CliInv, [CliNext]_cliVars
               PROVE  CliInv'
    OBVIOUS
  <2>0. CliType /\ \A t \in Terminals : TerminalInv(t)
    BY DEF CliInv
  <2>1. ASSUME NEW t \in Terminals, TerminalStep(t) PROVE CliInv'
    BY <2>1, TerminalKeeps
  <2>2. ASSUME NEW t \in Terminals, JobEnds(t) PROVE CliInv'
    <3>1. /\ UNCHANGED <<command, at, step, exit, error, held, answer, performed>>
          /\ DOMAIN job' = Terminals /\ \A u \in Terminals : job'[u] = job[u] \/ job[u] = "running"
      BY <2>0, <2>2 DEF JobEnds, CliType
    <3>2. \A u \in Terminals : TerminalInv(u)'
      BY <2>0, <3>1, TerminalFrame
    <3> QED BY <2>0, <3>1, <3>2 DEF CliInv, CliType
  <2>3. ASSUME NEW t \in Terminals, NEW c \in Commands, Begin(t, c) PROVE CliInv'
    BY <2>3, BeginKeeps
  <2>4. ASSUME NEW t \in Terminals, command[t] # "none", NEW s \in DOMAIN Requests[command[t]], DaemonHandles(t, s)
        PROVE  CliInv'
    BY <2>4, HandleKeeps
  <2>5. CASE DaemonStops \/ DaemonStarts \/ UNCHANGED cliVars
    <3>1. UNCHANGED <<command, at, step, exit, error, answer, performed, job>> /\ held' \in {{}, held}
      BY <2>5 DEF DaemonStops, DaemonStarts, cliVars
    <3>2. \A u \in Terminals : TerminalInv(u)'
      <4>1. ASSUME NEW u \in Terminals PROVE TerminalInv(u)'
        BY <2>0, <3>1, TerminalFrame
      <4> QED BY <4>1
    <3> QED BY <2>0, <3>1, <3>2 DEF CliInv, CliType
  <2> QED BY <2>1, <2>2, <2>3, <2>4, <2>5 DEF CliNext
<1> QED BY <1>1, <1>2, PTL DEF CliSpec

(***************************************************************************)
(* The exit code of every command is true of the daemon, for any number of *)
(* terminals at once, timeouts, interrupts and restarts of the daemon: 0   *)
(* says that all requests were performed, 3 to 5 that the last one was not *)
(* and never will be (clierrors, handleAPIErrorWithResource).              *)
(***************************************************************************)
THEOREM ExitCodesAreTrue == CliSpec => []ExitTellsTruth
<1>1. CliInv => ExitTellsTruth
  <2> SUFFICES ASSUME CliInv, NEW t \in Terminals, at[t] = "over"
               PROVE  LET rs == Requests[command[t]]
                          effective == {s \in DOMAIN rs : rs[s] # "poll" /\ <<t, s>> \in performed} IN
                      /\ exit[t] = 0 => \/ error[t].kind = "cancelled" /\ effective = {}
                                        \/ effective = {s \in DOMAIN rs : rs[s] # "poll"} /\ (command[t] = "pull" => job[t] = "completed")
                      /\ exit[t] \in {3, 4, 5} => /\ <<t, step[t]>> \notin performed \union held
                                                  /\ \A s \in 1..(step[t] - 1) : <<t, s>> \in performed
    BY DEF ExitTellsTruth
  <2>1. StepInv(t) /\ ExitInv(t) /\ command[t] \in Commands
    BY DEF CliInv, TerminalInv, StepInv, CliType
  <2>2. DOMAIN Requests[command[t]] = 1..Count(t)
    BY <2>1, RequestsFacts DEF Count
  <2> QED BY <2>1, <2>2 DEF StepInv, ExitInv
<1> QED BY <1>1, CliInvHolds, PTL
-----------------------------------------------------------------------------
(* The tray application                                                    *)

TrayRow == [vm : TrayVMs, state : {"running", "stopped"}]

\* A list of VMs has every VM once.
Listing == {w \in Seq(TrayRow) : \A i, j \in 1..Len(w) : w[i].vm = w[j].vm => i = j}

WorldInv == world \in Listing /\ age \in Nat /\ refreshID \in Nat /\ DOMAIN refresh = 1..MaxTrayEvents

\* A status is the list of some moment; the newest refresh has none older than what is shown.
StatusInv ==
  /\ shown.rows \in Listing /\ shown.age \in Nat /\ shown.age <= age
  /\ \A r \in 1..MaxTrayEvents : refresh[r].at = "answer" =>
       /\ refresh[r].status.rows \in Listing /\ refresh[r].status.age \in Nat /\ refresh[r].status.age <= age
       /\ r = refreshID => refresh[r].status.age >= shown.age

\* A click that waits in the row of the VM whose confirmation is pending was made on this VM,
\* and since the confirmation is pending.
ClickInv ==
  /\ DOMAIN click = Rows
  /\ \A i \in Rows :
       i \in 1..Len(shown.rows) /\ click[i] # NoClick /\ pending # NoPending /\ pending.vm = shown.rows[i].vm =>
         click[i].vm = pending.vm /\ (click[i].action = pending.action => click[i].confirm)

TrayInv == WorldInv /\ StatusInv /\ ClickInv /\ DestroyedWasConfirmed

-----------------------------------------------------------------------------
LEMMA RemovedListing ==
  ASSUME NEW w \in Listing, NEW i \in 1..Len(w)
  PROVE  RemoveAt(w, i) \in Listing
<1> DEFINE x == RemoveAt(w, i)
<1>0. w \in Seq(TrayRow) /\ Len(w) \in Nat /\ i \in Nat
  BY DEF Listing
<1> DEFINE a == SubSeq(w, 1, i - 1)
           b == SubSeq(w, i + 1, Len(w))
<1>a. a \in Seq(TrayRow) /\ Len(a) = i - 1 /\ \A j \in 1..(i - 1) : a[j] = w[j]
  BY <1>0
<1>b. b \in Seq(TrayRow) /\ Len(b) = Len(w) - i /\ \A j \in 1..(Len(w) - i) : b[j] = w[i + j]
  BY <1>0
<1>x. x = a \o b
  BY DEF RemoveAt
<1> HIDE DEF a, b, x
<1>c. /\ a \o b \in Seq(TrayRow) /\ Len(a \o b) = Len(a) + Len(b)
      /\ \A j \in 1..Len(a) : (a \o b)[j] = a[j]
      /\ \A j \in 1..(Len(a) + Len(b)) : j > Len(a) => j - Len(a) \in 1..Len(b) /\ (a \o b)[j] = b[j - Len(a)]
  BY <1>a, <1>b, PartOfConcat
<1>1. x \in Seq(TrayRow) /\ Len(x) = Len(w) - 1
  BY <1>0, <1>a, <1>b, <1>c, <1>x
<1>2. ASSUME NEW j \in 1..Len(x) PROVE x[j] = w[IF j < i THEN j ELSE j + 1]
  <2>1. j \in Nat /\ j \in 1..(Len(a) + Len(b))
    BY <1>0, <1>1, <1>a, <1>b
  <2>2. CASE j < i
    BY <1>0, <1>a, <1>c, <1>x, <2>1, <2>2
  <2>3. CASE ~(j < i)
    <3>1. x[j] = b[j - (i - 1)] /\ j - (i - 1) \in 1..(Len(w) - i) /\ i + (j - (i - 1)) = j + 1
      BY <1>0, <1>a, <1>b, <1>c, <1>x, <2>1, <2>3
    <3>2. b[j - (i - 1)] = w[i + (j - (i - 1))]
      BY <1>b, <3>1
    <3> QED BY <2>3, <3>1, <3>2
  <2> QED BY <2>2, <2>3
<1> HIDE DEF x
<1>3. ASSUME NEW j \in 1..Len(x), NEW k \in 1..Len(x), x[j].vm = x[k].vm PROVE j = k
  <2> DEFINE jw == IF j < i THEN j ELSE j + 1
             kw == IF k < i THEN k ELSE k + 1
  <2>1. jw \in 1..Len(w) /\ kw \in 1..Len(w) /\ (jw = kw => j = k)
    BY <1>0, <1>1
  <2>2. w[jw].vm = w[kw].vm
    BY <1>2, <1>3
  <2> HIDE DEF jw, kw
  <2> QED BY <2>1, <2>2 DEF Listing
<1>4. x \in Listing
  BY <1>1, <1>3 DEF Listing
<1> QED BY <1>4 DEF x

LEMMA ChangedListing ==
  ASSUME NEW w \in Listing, NEW i \in 1..Len(w), NEW s \in {"running", "stopped"}
  PROVE  [w EXCEPT ![i].state = s] \in Listing
<1> DEFINE row == [w[i] EXCEPT !.state = s]
           x == [w EXCEPT ![i] = row]
<1>0. w \in Seq(TrayRow) /\ Len(w) \in Nat /\ w[i] \in TrayRow
  BY DEF Listing
<1>1. row \in TrayRow /\ row.vm = w[i].vm
  BY <1>0 DEF TrayRow
<1> HIDE DEF row
<1>2. x \in Seq(TrayRow) /\ Len(x) = Len(w)
  BY <1>0, <1>1
<1>3. \A j \in 1..Len(w) : x[j].vm = w[j].vm
  BY <1>0, <1>1
<1> HIDE DEF x
<1>4. x \in Listing
  BY <1>2, <1>3 DEF Listing
<1> QED BY <1>4 DEF x, row

LEMMA LongerListing ==
  ASSUME NEW w \in Listing, NEW v \in TrayVMs, \A i \in 1..Len(w) : w[i].vm # v
  PROVE  <<[vm |-> v, state |-> "stopped"]>> \o w \in Listing
<1> DEFINE row == [vm |-> v, state |-> "stopped"]
           x == <<row>> \o w
<1>0. w \in Seq(TrayRow) /\ Len(w) \in Nat
  BY DEF Listing
<1>1. row \in TrayRow /\ row.vm = v
  BY DEF TrayRow
<1> HIDE DEF row
<1>2. x \in Seq(TrayRow) /\ Len(x) = Len(w) + 1 /\ x[1] = row /\ \A j \in 1..Len(w) : x[j + 1] = w[j]
  BY <1>0, <1>1
<1> HIDE DEF x
<1>3. ASSUME NEW j \in 1..Len(x), NEW k \in 1..Len(x), x[j].vm = x[k].vm PROVE j = k
  <2>1. \A l \in 1..Len(x) : l = 1 \/ (l - 1 \in 1..Len(w) /\ x[l] = w[l - 1])
    <3> SUFFICES ASSUME NEW l \in 1..Len(x), l # 1 PROVE l - 1 \in 1..Len(w) /\ x[l] = w[l - 1]
      OBVIOUS
    <3>1. l - 1 \in 1..Len(w) /\ (l - 1) + 1 = l
      BY <1>0, <1>2
    <3> QED BY <3>1, <1>2
  <2>2. \A l \in 1..Len(x) : l # 1 => x[l].vm # v
    BY <2>1
  <2>3. x[1].vm = v
    BY <1>1, <1>2
  <2>4. CASE j # 1 /\ k # 1
    <3>1. j - 1 \in 1..Len(w) /\ k - 1 \in 1..Len(w) /\ w[j - 1].vm = w[k - 1].vm
      BY <2>1, <2>4, <1>3
    <3>2. j - 1 = k - 1
      BY <3>1 DEF Listing
    <3> QED BY <3>2, <1>0, <1>2
  <2> QED BY <2>2, <2>3, <2>4, <1>3
<1>4. x \in Listing
  BY <1>2, <1>3 DEF Listing
<1> QED BY <1>4 DEF x, row

\* Steps that leave menu, confirmation and clicks alone.
LEMMA TrayFrame ==
  ASSUME TrayInv, UNCHANGED <<shown, pending, click, sent>>, world' \in Listing, age' \in Nat, age' >= age,
         UNCHANGED <<refreshID, refresh>> \/ Refresh
  PROVE  TrayInv' /\ shown'.age >= shown.age
<1> USE DEF TrayInv
<1>0. refreshID \in Nat /\ DOMAIN refresh = 1..MaxTrayEvents /\ age \in Nat
  BY DEF WorldInv
<1>1. WorldInv'
  BY <1>0 DEF WorldInv, Refresh
<1>2. ASSUME NEW r \in 1..MaxTrayEvents, refresh'[r].at = "answer"
      PROVE  refresh'[r] = refresh[r] /\ (r = refreshID' => r = refreshID)
  <2>1. CASE UNCHANGED <<refreshID, refresh>>
    BY <2>1
  <2>2. CASE Refresh
    <3>1. r # refreshID + 1
      BY <1>0, <1>2, <2>2 DEF Refresh
    <3> QED BY <1>0, <2>2, <3>1 DEF Refresh
  <2> QED BY <2>1, <2>2
<1>3. StatusInv'
  BY <1>0, <1>2 DEF StatusInv
<1>4. ClickInv' /\ DestroyedWasConfirmed'
  BY DEF ClickInv, DestroyedWasConfirmed
<1> QED BY <1>1, <1>3, <1>4 DEF StatusInv
\* Menu, confirmation or a click changes; the list and the refreshes do not.
LEMMA HandleClickKeeps ==
  ASSUME TrayInv, NEW i \in Rows, HandleClick(i)
  PROVE  TrayInv' /\ shown' = shown
<1> USE DEF TrayInv
<1> DEFINE c == click[i]
           row == shown.rows[i]
<1>1. c # NoClick /\ click' = [click EXCEPT ![i] = NoClick] /\ UNCHANGED <<world, age, refreshID, refresh, shown>>
  BY DEF HandleClick
<1>2. WorldInv' /\ StatusInv'
  BY <1>1 DEF WorldInv, StatusInv
<1>3. DOMAIN shown.rows = 1..Len(shown.rows)
  BY DEF StatusInv, Listing
<1>4. \/ pending' \in {NoPending, pending}
      \/ i \in 1..Len(shown.rows) /\ pending'.vm = row.vm
  <2>1. CASE i \notin DOMAIN shown.rows
    BY <2>1 DEF HandleClick
  <2>2. CASE i \in DOMAIN shown.rows
    BY <1>3, <2>2 DEF HandleClick
  <2> QED BY <2>1, <2>2
<1>5. ClickInv'
  <2>0. DOMAIN click' = Rows /\ click'[i] = NoClick /\ \A j \in Rows \ {i} : click'[j] = click[j]
    BY <1>1 DEF ClickInv
  <2> SUFFICES ASSUME NEW j \in Rows, j \in 1..Len(shown.rows), click'[j] # NoClick, pending' # NoPending,
                      pending'.vm = shown.rows[j].vm
               PROVE  click'[j].vm = pending'.vm /\ (click'[j].action = pending'.action => click'[j].confirm)
    BY <1>1, <2>0 DEF ClickInv
  <2>1. j # i /\ click'[j] = click[j]
    BY <2>0
  <2>2. CASE pending' = pending
    BY <2>1, <2>2 DEF ClickInv
  <2>3. CASE i \in 1..Len(shown.rows) /\ pending'.vm = row.vm
    <3>1. i = j
      BY <2>3 DEF StatusInv, Listing
    <3> QED BY <2>1, <3>1
  <2> QED BY <1>4, <2>2, <2>3
<1>6. DestroyedWasConfirmed'
  <2>1. CASE sent' = sent
    BY <2>1 DEF DestroyedWasConfirmed
  <2>2. CASE sent' # sent
    <3>1. /\ i \in 1..Len(shown.rows) /\ c.action \in {"kill", "delete"} /\ Confirmed(c.action, row.vm)
          /\ sent' = sent \union {[action |-> c.action, vm |-> row.vm, id |-> c.id, saw |-> c.vm, confirm |-> c.confirm]}
      <4>1. i \in DOMAIN shown.rows
        BY <2>2 DEF HandleClick
      <4>2. CASE c.action = "select"
        BY <2>2, <4>1, <4>2 DEF HandleClick
      <4>3. CASE c.action # "select" /\ ~(shown.ok /\ VMActionAllowed(row, c.action))
        BY <2>2, <4>1, <4>3 DEF HandleClick
      <4>4. CASE c.action \in {"kill", "delete"} /\ shown.ok /\ VMActionAllowed(row, c.action) /\ ~Confirmed(c.action, row.vm)
        BY <2>2, <4>1, <4>4 DEF HandleClick
      <4>5. CASE /\ c.action # "select" /\ shown.ok /\ VMActionAllowed(row, c.action)
                 /\ ~(c.action \in {"kill", "delete"} /\ ~Confirmed(c.action, row.vm))
        <5>1. sent' = IF c.action \in {"kill", "delete"}
                      THEN sent \union {[action |-> c.action, vm |-> row.vm, id |-> c.id, saw |-> c.vm, confirm |-> c.confirm]}
                      ELSE sent
          BY <4>1, <4>5 DEF HandleClick
        <5> QED BY <1>3, <2>2, <4>1, <4>5, <5>1
      <4> QED BY <4>2, <4>3, <4>4, <4>5
    <3>2. pending.action = c.action /\ pending.vm = row.vm /\ pending # NoPending
      BY <3>1 DEF Confirmed, NoPending
    <3>3. c.vm = row.vm /\ c.confirm
      BY <1>1, <3>1, <3>2 DEF ClickInv
    <3> QED BY <3>1, <3>3 DEF DestroyedWasConfirmed
  <2> QED BY <2>1, <2>2
<1> QED BY <1>1, <1>2, <1>5, <1>6

LEMMA ClickRowKeeps ==
  ASSUME TrayInv, NEW i \in Rows, NEW a \in TrayActions, ClickRow(i, a)
  PROVE  TrayInv' /\ shown' = shown
<1> USE DEF TrayInv
<1> DEFINE new == [action |-> a, vm |-> shown.rows[i].vm, confirm |-> ShowsConfirm(i, a), id |-> events]
<1>1. click' = [click EXCEPT ![i] = new] /\ UNCHANGED <<world, age, refreshID, refresh, shown, pending, sent>>
  BY DEF ClickRow
<1>2. new.action = a /\ new.vm = shown.rows[i].vm /\ new.confirm = ShowsConfirm(i, a)
  OBVIOUS
<1> HIDE DEF new
<1>3. WorldInv' /\ StatusInv' /\ DestroyedWasConfirmed'
  BY <1>1 DEF WorldInv, StatusInv, DestroyedWasConfirmed
<1>4. ClickInv'
  <2>0. DOMAIN click' = Rows /\ click'[i] = new /\ \A j \in Rows \ {i} : click'[j] = click[j]
    BY <1>1 DEF ClickInv
  <2> SUFFICES ASSUME NEW j \in Rows, j \in 1..Len(shown.rows), click'[j] # NoClick, pending # NoPending,
                      pending.vm = shown.rows[j].vm
               PROVE  click'[j].vm = pending.vm /\ (click'[j].action = pending.action => click'[j].confirm)
    BY <1>1, <2>0 DEF ClickInv
  <2>1. CASE j = i
    BY <1>2, <2>0, <2>1 DEF ShowsConfirm
  <2>2. CASE j # i
    BY <2>0, <2>2 DEF ClickInv
  <2> QED BY <2>1, <2>2
<1> QED BY <1>1, <1>3, <1>4

\* A confirmation that is dropped harms nothing.
LEMMA PendingDropped ==
  ASSUME TrayInv, pending' \in {NoPending, pending}, UNCHANGED <<world, age, refreshID, refresh, shown, click, sent>>
  PROVE  TrayInv' /\ shown' = shown
BY DEF TrayInv, WorldInv, StatusInv, ClickInv, DestroyedWasConfirmed

LEMMA RefreshKeeps ==
  ASSUME TrayInv, NEW r \in 1..MaxTrayEvents, CollectStatus(r) \/ ApplyRefresh(r)
  PROVE  TrayInv' /\ shown'.age >= shown.age
<1> USE DEF TrayInv
<1>0. refreshID \in Nat /\ DOMAIN refresh = 1..MaxTrayEvents /\ age \in Nat /\ shown.age \in Nat
  BY DEF WorldInv, StatusInv
<1>1. CASE CollectStatus(r)
  <2>1. PICK s : /\ s \in {[ok |-> TRUE, rows |-> world, age |-> age], [ok |-> FALSE, rows |-> world, age |-> age],
                          [ok |-> FALSE, rows |-> <<>>, age |-> age]}
                 /\ refresh' = [refresh EXCEPT ![r] = [at |-> "answer", status |-> s]]
    BY <1>1 DEF CollectStatus
  <2>2. UNCHANGED <<world, age, refreshID, shown, pending, click, sent>>
    BY <1>1 DEF CollectStatus
  <2>3. <<>> \in Listing
    BY DEF Listing
  <2>4. s.rows \in Listing /\ s.age = age
    BY <2>1, <2>3 DEF WorldInv
  <2>5. /\ DOMAIN refresh' = 1..MaxTrayEvents /\ refresh'[r].status = s
        /\ \A q \in 1..MaxTrayEvents \ {r} : refresh'[q] = refresh[q]
    BY <1>0, <2>1
  <2>6. WorldInv' /\ ClickInv' /\ DestroyedWasConfirmed'
    BY <2>2, <2>5 DEF WorldInv, ClickInv, DestroyedWasConfirmed
  <2>7. StatusInv'
    BY <1>0, <2>2, <2>4, <2>5 DEF StatusInv
  <2> QED BY <1>0, <2>2, <2>6, <2>7
<1>2. CASE ApplyRefresh(r)
  <2>1. /\ refresh[r].at = "answer" /\ refresh' = [refresh EXCEPT ![r] = [at |-> "over"]]
        /\ UNCHANGED <<world, age, refreshID, click, sent>>
    BY <1>2 DEF ApplyRefresh
  <2>2. /\ DOMAIN refresh' = 1..MaxTrayEvents /\ refresh'[r].at # "answer"
        /\ \A q \in 1..MaxTrayEvents \ {r} : refresh'[q] = refresh[q]
    BY <1>0, <2>1
  <2>3. WorldInv' /\ DestroyedWasConfirmed'
    BY <2>1, <2>2 DEF WorldInv, DestroyedWasConfirmed
  <2>4. CASE r = refreshID
    <3>1. shown' = refresh[r].status /\ pending' = NoPending
      BY <1>2, <2>4 DEF ApplyRefresh
    <3>2. shown'.rows \in Listing /\ shown'.age \in Nat /\ shown'.age <= age /\ shown'.age >= shown.age
      BY <2>1, <2>4, <3>1 DEF StatusInv
    <3>3. StatusInv'
      BY <2>1, <2>2, <2>4, <3>2 DEF StatusInv
    <3>4. ClickInv'
      BY <2>1, <3>1 DEF ClickInv
    <3> QED BY <2>3, <3>2, <3>3, <3>4
  <2>5. CASE r # refreshID
    <3>1. UNCHANGED <<shown, pending>>
      BY <1>2, <2>5 DEF ApplyRefresh
    <3>2. StatusInv' /\ ClickInv'
      BY <2>1, <2>2, <3>1 DEF StatusInv, ClickInv
    <3> QED BY <1>0, <2>3, <3>1, <3>2
  <2> QED BY <2>4, <2>5
<1> QED BY <1>1, <1>2

LEMMA LaunchKeeps ==
  ASSUME TrayInv, LaunchStep
  PROVE  TrayInv' /\ shown'.age >= shown.age
<1>0. world \in Listing /\ age \in Nat /\ DOMAIN world = 1..Len(world)
  BY DEF TrayInv, WorldInv, Listing
<1>1. PICK l \in launches : \/ PromptCancelled(l) \/ LaunchImageRef(l) \/ AddImage(l)
                            \/ LaunchCreates(l) \/ LaunchStarts(l) \/ LaunchFails(l)
  BY DEF LaunchStep
<1>2. CASE PromptCancelled(l) \/ LaunchImageRef(l) \/ AddImage(l) \/ LaunchFails(l)
  <2>1. /\ UNCHANGED <<world, age, shown, pending, click, sent>>
        /\ UNCHANGED <<refreshID, refresh>> \/ Refresh
    BY <1>2 DEF PromptCancelled, LaunchImageRef, AddImage, LaunchFails
  <2> QED BY <1>0, <2>1, TrayFrame
<1>3. CASE LaunchCreates(l)
  <2>1. PICK v \in TrayVMs : /\ \A i \in DOMAIN world : world[i].vm # v
                             /\ world' = <<[vm |-> v, state |-> "stopped"]>> \o world
    BY <1>3 DEF LaunchCreates
  <2>2. world' \in Listing
    BY <1>0, <2>1, LongerListing
  <2>3. age' = age + 1 /\ UNCHANGED <<refreshID, refresh, shown, pending, click, sent>>
    BY <1>3 DEF LaunchCreates
  <2> QED BY <1>0, <2>2, <2>3, TrayFrame
<1>4. CASE LaunchStarts(l)
  <2>1. PICK i \in DOMAIN world : world' = [world EXCEPT ![i].state = "running"]
    BY <1>4, Zenon DEF LaunchStarts
  <2>2. world' \in Listing
    <3>1. [world EXCEPT ![i].state = "running"] \in Listing
      BY <1>0, ChangedListing, Zenon
    <3> QED BY <2>1, <3>1, Zenon
  <2>3. age' = age + 1 /\ Refresh /\ UNCHANGED <<shown, pending, click, sent>>
    BY <1>4, Zenon DEF LaunchStarts
  <2> QED BY <1>0, <2>2, <2>3, TrayFrame
<1> QED BY <1>1, <1>2, <1>3, <1>4

LEMMA ExecuteKeeps ==
  ASSUME TrayInv, NEW q \in requests, ExecuteVMAction(q)
  PROVE  TrayInv' /\ shown'.age >= shown.age
<1>0. world \in Listing /\ age \in Nat /\ DOMAIN world = 1..Len(world)
  BY DEF TrayInv, WorldInv, Listing
<1>1. UNCHANGED <<shown, pending, click, sent>>
  BY Zenon DEF ExecuteVMAction
<1>2. CASE UNCHANGED <<world, age, refreshID, refresh>>
  BY <1>0, <1>1, <1>2, TrayFrame
<1>3. CASE ~UNCHANGED <<world, age, refreshID, refresh>>
  <2>1. Refresh /\ age' = age + 1
    BY <1>3, Zenon DEF ExecuteVMAction
  <2>2. PICK i \in DOMAIN world :
          world' = IF q.action = "delete" THEN RemoveAt(world, i)
                   ELSE [world EXCEPT ![i].state = IF q.action = "start" THEN "running" ELSE "stopped"]
    BY <1>3, Zenon DEF ExecuteVMAction
  <2>3. world' \in Listing
    <3>1. CASE q.action = "delete"
      BY <1>0, <2>2, <3>1, RemovedListing, Zenon
    <3>2. CASE q.action # "delete"
      <4>1. PICK s \in {"running", "stopped"} : s = IF q.action = "start" THEN "running" ELSE "stopped"
        OBVIOUS
      <4>2. [world EXCEPT ![i].state = s] \in Listing
        BY <1>0, ChangedListing, Zenon
      <4> QED BY <2>2, <3>2, <4>1, <4>2, Zenon
    <3> QED BY <3>1, <3>2
  <2> QED BY <1>0, <1>1, <2>1, <2>3, TrayFrame
<1> QED BY <1>2, <1>3

LEMMA WorldKeeps ==
  ASSUME TrayInv, WorldChanges
  PROVE  TrayInv' /\ shown'.age >= shown.age
<1>0. world \in Listing /\ age \in Nat /\ DOMAIN world = 1..Len(world)
  BY DEF TrayInv, WorldInv, Listing
<1>1. age' = age + 1 /\ UNCHANGED <<refreshID, refresh, shown, pending, click, sent>>
  BY Zenon DEF WorldChanges
<1>2. world' \in Listing
  <2>1. ASSUME NEW i \in DOMAIN world, world' = RemoveAt(world, i) PROVE world' \in Listing
    BY <1>0, <2>1, RemovedListing, Zenon
  <2>2. ASSUME NEW i \in DOMAIN world, NEW s \in {"running", "stopped"}, world' = [world EXCEPT ![i].state = s]
        PROVE  world' \in Listing
    BY <1>0, <2>2, ChangedListing, Zenon
  <2>3. ASSUME NEW v \in TrayVMs, \A i \in DOMAIN world : world[i].vm # v,
               world' = <<[vm |-> v, state |-> "stopped"]>> \o world
        PROVE  world' \in Listing
    BY <1>0, <2>3, LongerListing, Zenon
  <2> QED BY <2>1, <2>2, <2>3, Zenon DEF WorldChanges
<1> QED BY <1>0, <1>1, <1>2, TrayFrame

LEMMA TrayStepKeeps ==
  ASSUME TrayInv, [TrayNext]_trayVars
  PROVE  TrayInv' /\ shown'.age >= shown.age
<1>0. world \in Listing /\ age \in Nat /\ shown.age \in Nat
  BY DEF TrayInv, WorldInv, StatusInv
<1>1. CASE WorldChanges
  BY <1>1, WorldKeeps
<1>2. CASE RefreshStarts
  BY <1>0, <1>2, TrayFrame DEF RefreshStarts
<1>3. CASE TrayStep
  BY <1>3, RefreshKeeps, LaunchKeeps DEF TrayStep
<1>4. CASE SelectImage
  BY <1>0, <1>4, PendingDropped DEF SelectImage
<1>5. CASE LaunchSelectedImage
  BY <1>0, <1>5, TrayFrame DEF LaunchSelectedImage
<1>6. ASSUME NEW k \in {"launch", "add"}, PromptForImage(k) PROVE TrayInv' /\ shown'.age >= shown.age
  BY <1>0, <1>6, TrayFrame DEF PromptForImage
<1>7. ASSUME NEW i \in Rows, HandleClick(i) PROVE TrayInv' /\ shown'.age >= shown.age
  BY <1>0, <1>7, HandleClickKeeps
<1>8. ASSUME NEW i \in Rows, NEW a \in TrayActions, ClickRow(i, a) PROVE TrayInv' /\ shown'.age >= shown.age
  BY <1>0, <1>8, ClickRowKeeps
<1>9. ASSUME NEW t \in timers, WindowPasses(t) PROVE TrayInv' /\ shown'.age >= shown.age
  BY <1>0, <1>9, TrayFrame DEF WindowPasses
<1>10. ASSUME NEW t \in timers, ExpirePending(t) PROVE TrayInv' /\ shown'.age >= shown.age
  <2>1. pending' \in {NoPending, pending} /\ UNCHANGED <<world, age, refreshID, refresh, shown, click, sent>>
    BY <1>10 DEF ExpirePending
  <2> QED BY <1>0, <2>1, PendingDropped
<1>11. ASSUME NEW q \in requests, ExecuteVMAction(q) PROVE TrayInv' /\ shown'.age >= shown.age
  BY <1>11, ExecuteKeeps
<1>12. CASE UNCHANGED trayVars
  BY <1>0, <1>12, TrayFrame DEF trayVars
<1> QED BY <1>1, <1>2, <1>3, <1>4, <1>5, <1>6, <1>7, <1>8, <1>9, <1>10, <1>11, <1>12 DEF TrayNext

LEMMA TrayInvHolds == TraySpec => []TrayInv
<1>1. TrayInit => TrayInv
  <2> SUFFICES ASSUME TrayInit PROVE TrayInv
    OBVIOUS
  <2>n. Cardinality(TrayVMs) \in Nat
    BY TrayAssumption, FS_CardinalityType
  <2>1. PICK s \in SetToSeqs(TrayVMs) : world = [i \in Rows |-> [vm |-> s[i], state |-> "running"]]
    BY DEF TrayInit
  <2>2. s \in [Rows -> TrayVMs] /\ \A i, j \in Rows : i # j => s[i] # s[j]
    BY DEF SetToSeqs, Rows
  <2>3. world \in Seq(TrayRow) /\ Len(world) = Cardinality(TrayVMs) /\ \A i \in Rows : world[i].vm = s[i]
    <3>1. \A i \in Rows : [vm |-> s[i], state |-> "running"] \in TrayRow
      BY <2>2 DEF TrayRow
    <3>2. world \in [1..Cardinality(TrayVMs) -> TrayRow] /\ \A i \in Rows : world[i] = [vm |-> s[i], state |-> "running"]
      BY <2>1, <3>1 DEF Rows
    <3>3. world \in Seq(TrayRow) /\ Len(world) = Cardinality(TrayVMs)
      BY <2>n, <3>2
    <3>4. ASSUME NEW i \in Rows PROVE world[i].vm = s[i]
      <4>1. PICK row : row = world[i] /\ row = [vm |-> s[i], state |-> "running"]
        BY <3>2
      <4> QED BY <4>1
    <3> QED BY <3>3, <3>4
  <2>4. world \in Listing
    BY <2>2, <2>3 DEF Listing, Rows
  <2>5. <<>> \in Listing
    BY DEF Listing
  <2>6. WorldInv
    BY <2>4 DEF WorldInv, TrayInit
  <2>7. StatusInv
    BY <2>5 DEF StatusInv, TrayInit, Unknown
  <2>8. ClickInv /\ DestroyedWasConfirmed
    BY DEF ClickInv, DestroyedWasConfirmed, TrayInit
  <2> QED BY <2>6, <2>7, <2>8 DEF TrayInv
<1>2. TrayInv /\ [TrayNext]_trayVars => TrayInv'
  BY TrayStepKeeps
<1> QED BY <1>1, <1>2, PTL DEF TraySpec

(***************************************************************************)
(* Nothing is killed or deleted that the user did not confirm in its own   *)
(* row, for every number of VMs and every order of clicks, refreshes and   *)
(* changes by others (confirmActionLocked, runActionForIndex).             *)
(***************************************************************************)
THEOREM OnlyConfirmedIsDestroyed == TraySpec => []DestroyedWasConfirmed
<1>1. TrayInv => DestroyedWasConfirmed
  BY DEF TrayInv
<1> QED BY <1>1, TrayInvHolds, PTL

(***************************************************************************)
(* The status that is shown never gets older, however refreshes overlap:   *)
(* only the answer of the newest one is shown, and it was collected after  *)
(* what is shown was (refresh, refreshID).                                 *)
(***************************************************************************)
THEOREM MenuNeverGoesBack == TraySpec => ShownNeverGoesBack
<1>1. TrayInv /\ [TrayNext]_trayVars => [shown'.age >= shown.age]_trayVars
  BY TrayStepKeeps
<1> QED BY <1>1, TrayInvHolds, PTL DEF TraySpec, ShownNeverGoesBack
-----------------------------------------------------------------------------
(* The recording of a session: order                                       *)

QueueType ==
  /\ channel \in [Conns -> Seq(Nat)] /\ batch \in [Conns -> Seq(Nat)]
  /\ origin \in Seq(Conns) /\ sentEvents = Len(origin)
  /\ eventsBin \in Seq(Nat) /\ eventsZst \in Seq(Nat)

Increasing(s) == \A i, j \in 1..Len(s) : i < j => s[i] < s[j]

\* Events on their way are of their connection and in order, the batch before the channel.
QueueInv(c) ==
  /\ Increasing(batch[c]) /\ Increasing(channel[c])
  /\ \A e \in SeqSet(batch[c]) \union SeqSet(channel[c]) : e \in 1..sentEvents /\ origin[e] = c
  /\ \A e \in SeqSet(batch[c]), f \in SeqSet(channel[c]) : e < f

\* What is in events.bin comes before what is on its way there.
BinInv ==
  eventsBin # Gone => \A e \in SeqSet(eventsBin) :
    /\ e \in 1..sentEvents
    /\ \A f \in SeqSet(batch[origin[e]]) \union SeqSet(channel[origin[e]]) : e < f

ZstInv == eventsZst # Gone => \A e \in SeqSet(eventsZst) : e \in 1..sentEvents

OrderInv == QueueType /\ (\A c \in Conns : QueueInv(c)) /\ BinInv /\ ZstInv /\ RecordedInOrder

-----------------------------------------------------------------------------
LEMMA SetOfSeq ==
  ASSUME NEW s \in Seq(Nat)
  PROVE  /\ DOMAIN s = 1..Len(s) /\ Len(s) \in Nat
         /\ \A i \in 1..Len(s) : s[i] \in SeqSet(s) /\ s[i] \in Nat
         /\ \A e \in SeqSet(s) : e \in Nat /\ \E i \in 1..Len(s) : e = s[i]
<1>1. DOMAIN s = 1..Len(s) /\ Len(s) \in Nat
  OBVIOUS
<1>2. \A i \in 1..Len(s) : s[i] \in SeqSet(s) /\ s[i] \in Nat
  BY <1>1 DEF SeqSet
<1>3. \A e \in SeqSet(s) : \E i \in 1..Len(s) : e = s[i]
  BY <1>1, Zenon DEF SeqSet
<1> QED BY <1>1, <1>2, <1>3

LEMMA SetOfEmpty == SeqSet(<<>>) = {} /\ Increasing(<<>>)
BY DEF SeqSet, Increasing

LEMMA SetOfAppend ==
  ASSUME NEW s \in Seq(Nat), NEW x \in Nat
  PROVE  /\ SeqSet(Append(s, x)) = SeqSet(s) \union {x} /\ Append(s, x) \in Seq(Nat)
         /\ Increasing(s) /\ (\A e \in SeqSet(s) : e < x) => Increasing(Append(s, x))
<1> DEFINE t == Append(s, x)
<1>1. /\ t \in Seq(Nat) /\ Len(t) = Len(s) + 1 /\ t[Len(s) + 1] = x /\ Len(s) \in Nat
      /\ \A i \in 1..Len(s) : t[i] = s[i]
  OBVIOUS
<1> HIDE DEF t
<1>2. ASSUME NEW e \in SeqSet(t) PROVE e \in SeqSet(s) \union {x}
  <2>1. PICK i \in 1..Len(t) : e = t[i]
    BY <1>1, SetOfSeq
  <2>2. i \in 1..Len(s) \/ i = Len(s) + 1
    BY <1>1
  <2> QED BY <1>1, <2>1, <2>2, SetOfSeq
<1>3. ASSUME NEW e \in SeqSet(s) PROVE e \in SeqSet(t)
  <2>1. PICK i \in 1..Len(s) : e = s[i]
    BY SetOfSeq
  <2>2. i \in 1..Len(t) /\ t[i] = e
    BY <1>1, <2>1
  <2> QED BY <1>1, <2>2, SetOfSeq
<1>4. x \in SeqSet(t)
  <2>1. Len(s) + 1 \in 1..Len(t)
    BY <1>1
  <2> QED BY <1>1, <2>1, SetOfSeq
<1>5. SeqSet(t) = SeqSet(s) \union {x}
  BY <1>2, <1>3, <1>4
<1>6. ASSUME Increasing(s), \A e \in SeqSet(s) : e < x PROVE Increasing(t)
  <2>1. \A i \in 1..Len(s) : s[i] < x
    BY <1>6, SetOfSeq
  <2>2. ASSUME NEW i \in 1..Len(t), NEW j \in 1..Len(t), i < j PROVE t[i] < t[j]
    <3>1. i \in 1..Len(s) /\ t[i] = s[i]
      BY <1>1, <2>2
    <3>2. CASE j \in 1..Len(s)
      BY <1>1, <1>6, <2>2, <3>1, <3>2 DEF Increasing
    <3>3. CASE j = Len(s) + 1
      BY <1>1, <2>1, <3>1, <3>3
    <3> QED BY <1>1, <3>2, <3>3
  <2> QED BY <2>2 DEF Increasing
<1> QED BY <1>1, <1>5, <1>6 DEF t

LEMMA SetOfTail ==
  ASSUME NEW s \in Seq(Nat), s # <<>>
  PROVE  /\ SeqSet(s) = SeqSet(Tail(s)) \union {Head(s)} /\ Head(s) \in Nat /\ Tail(s) \in Seq(Nat)
         /\ Increasing(s) => Increasing(Tail(s)) /\ \A e \in SeqSet(Tail(s)) : Head(s) < e
<1> DEFINE t == Tail(s)
<1>0. Len(s) \in Nat \ {0} /\ t \in Seq(Nat) /\ Len(t) = Len(s) - 1 /\ Head(s) = s[1] /\ s[1] \in Nat
  OBVIOUS
<1>1. \A i \in 1..Len(t) : t[i] = s[i + 1] /\ i + 1 \in 1..Len(s)
  BY <1>0
<1> HIDE DEF t
<1>2. ASSUME NEW e \in SeqSet(s) PROVE e \in SeqSet(t) \union {Head(s)}
  <2>1. PICK i \in 1..Len(s) : e = s[i]
    BY SetOfSeq
  <2>2. CASE i = 1
    BY <1>0, <2>1, <2>2
  <2>3. CASE i # 1
    <3>1. i - 1 \in 1..Len(t) /\ (i - 1) + 1 = i
      BY <1>0, <2>3
    <3>2. t[i - 1] = e
      BY <1>1, <2>1, <3>1
    <3> QED BY <1>0, <3>1, <3>2, SetOfSeq
  <2> QED BY <2>2, <2>3
<1>3. ASSUME NEW e \in SeqSet(t) PROVE e \in SeqSet(s)
  <2>1. PICK i \in 1..Len(t) : e = t[i]
    BY <1>0, SetOfSeq
  <2> QED BY <1>1, <2>1, SetOfSeq
<1>4. Head(s) \in SeqSet(s)
  <2>1. 1 \in 1..Len(s)
    BY <1>0
  <2> QED BY <1>0, <2>1, SetOfSeq
<1>5. SeqSet(s) = SeqSet(t) \union {Head(s)}
  BY <1>2, <1>3, <1>4
<1>6. ASSUME Increasing(s) PROVE Increasing(t) /\ \A e \in SeqSet(t) : Head(s) < e
  <2>1. ASSUME NEW i \in 1..Len(t), NEW j \in 1..Len(t), i < j PROVE t[i] < t[j]
    <3>1. t[i] = s[i + 1] /\ t[j] = s[j + 1] /\ i + 1 \in 1..Len(s) /\ j + 1 \in 1..Len(s) /\ i + 1 < j + 1
      BY <1>0, <1>1, <2>1
    <3> QED BY <1>6, <3>1 DEF Increasing
  <2>2. ASSUME NEW e \in SeqSet(t) PROVE Head(s) < e
    <3>0. PICK i \in 1..Len(t) : e = t[i]
      BY <1>0, SetOfSeq
    <3>1. t[i] = s[i + 1] /\ i + 1 \in 1..Len(s) /\ 1 \in 1..Len(s) /\ 1 < i + 1
      BY <1>0, <1>1
    <3> QED BY <1>0, <1>6, <3>0, <3>1 DEF Increasing
  <2> QED BY <2>1, <2>2 DEF Increasing
<1> QED BY <1>0, <1>5, <1>6 DEF t

LEMMA SetOfConcat ==
  ASSUME NEW s \in Seq(Nat), NEW t \in Seq(Nat)
  PROVE  SeqSet(s \o t) = SeqSet(s) \union SeqSet(t)
<1> DEFINE x == s \o t
<1>0. Len(s) \in Nat /\ Len(t) \in Nat
  OBVIOUS
<1>1. /\ x \in Seq(Nat) /\ Len(x) = Len(s) + Len(t) /\ \A i \in 1..Len(s) : x[i] = s[i]
      /\ \A i \in 1..(Len(s) + Len(t)) : i > Len(s) => i - Len(s) \in 1..Len(t) /\ x[i] = t[i - Len(s)]
  BY PartOfConcat
<1> HIDE DEF x
<1>2. ASSUME NEW e \in SeqSet(x) PROVE e \in SeqSet(s) \union SeqSet(t)
  <2>0. PICK i \in 1..Len(x) : e = x[i]
    BY <1>1, SetOfSeq
  <2>1. CASE i \in 1..Len(s)
    BY <1>1, <2>0, <2>1, SetOfSeq
  <2>2. CASE i \notin 1..Len(s)
    <3>1. i - Len(s) \in 1..Len(t) /\ x[i] = t[i - Len(s)]
      BY <1>0, <1>1, <2>2
    <3> QED BY <2>0, <3>1, SetOfSeq
  <2> QED BY <2>1, <2>2
<1>3. ASSUME NEW e \in SeqSet(s) PROVE e \in SeqSet(x)
  <2>0. PICK i \in 1..Len(s) : e = s[i]
    BY SetOfSeq
  <2>1. i \in 1..Len(x) /\ x[i] = s[i]
    BY <1>0, <1>1
  <2> QED BY <1>1, <2>0, <2>1, SetOfSeq
<1>4. ASSUME NEW e \in SeqSet(t) PROVE e \in SeqSet(x)
  <2>0. PICK i \in 1..Len(t) : e = t[i]
    BY SetOfSeq
  <2>1. Len(s) + i \in 1..Len(x) /\ Len(s) + i > Len(s) /\ (Len(s) + i) - Len(s) = i
    BY <1>0, <1>1
  <2>2. x[Len(s) + i] = t[i]
    BY <1>1, <2>1
  <2> QED BY <1>1, <2>0, <2>1, <2>2, SetOfSeq
<1>6. SeqSet(x) = SeqSet(s) \union SeqSet(t)
  BY <1>2, <1>3, <1>4
<1> QED BY <1>6 DEF x

\* A batch of one connection goes behind a file in order.
LEMMA BatchInOrder ==
  ASSUME NEW s \in Seq(Nat), NEW t \in Seq(Nat), NEW c, InOrder(s), Increasing(t),
         \A e \in SeqSet(t) : origin[e] = c,
         \A e \in SeqSet(s), f \in SeqSet(t) : origin[e] = c => e < f
  PROVE  InOrder(s \o t)
<1> DEFINE x == s \o t
<1>0. Len(s) \in Nat /\ Len(t) \in Nat /\ DOMAIN s = 1..Len(s)
  OBVIOUS
<1>1. /\ x \in Seq(Nat) /\ Len(x) = Len(s) + Len(t) /\ \A i \in 1..Len(s) : x[i] = s[i]
      /\ \A i \in 1..(Len(s) + Len(t)) : i > Len(s) => i - Len(s) \in 1..Len(t) /\ x[i] = t[i - Len(s)]
  BY PartOfConcat
<1> HIDE DEF x
<1>2. ASSUME NEW i \in 1..Len(x), NEW j \in 1..Len(x), i < j
      PROVE  x[i] # x[j] /\ (origin[x[i]] = origin[x[j]] => x[i] < x[j])
  <2>1. CASE j <= Len(s)
    <3>0. i \in 1..Len(s) /\ j \in 1..Len(s)
      BY <1>0, <1>1, <1>2, <2>1
    <3>1. i \in DOMAIN s /\ j \in DOMAIN s /\ x[i] = s[i] /\ x[j] = s[j]
      BY <1>0, <1>1, <3>0
    <3> QED BY <1>2, <3>1 DEF InOrder
  <2>2. CASE i > Len(s)
    <3>1. /\ i - Len(s) \in 1..Len(t) /\ x[i] = t[i - Len(s)] /\ j - Len(s) \in 1..Len(t) /\ x[j] = t[j - Len(s)]
          /\ i - Len(s) < j - Len(s)
      BY <1>0, <1>1, <1>2, <2>2
    <3>2. x[i] < x[j] /\ x[i] \in Nat /\ x[j] \in Nat
      BY <3>1, SetOfSeq DEF Increasing
    <3> QED BY <3>2
  <2>3. CASE i <= Len(s) /\ j > Len(s)
    <3>1. i \in 1..Len(s) /\ x[i] = s[i] /\ j - Len(s) \in 1..Len(t) /\ x[j] = t[j - Len(s)]
      BY <1>0, <1>1, <1>2, <2>3
    <3>2. x[i] \in SeqSet(s) /\ x[j] \in SeqSet(t) /\ x[i] \in Nat /\ x[j] \in Nat
      BY <3>1, SetOfSeq
    <3>3. origin[x[j]] = c /\ (origin[x[i]] = c => x[i] < x[j])
      BY <3>2
    <3>4. x[i] # x[j]
      BY <3>2, <3>3
    <3> QED BY <3>3, <3>4
  <2> QED BY <1>0, <1>1, <2>1, <2>2, <2>3
<1>3. DOMAIN x = 1..Len(x)
  BY <1>1
<1>4. InOrder(x)
  BY <1>2, <1>3 DEF InOrder
<1> QED BY <1>4 DEF x
-----------------------------------------------------------------------------
(* The recording of a session: finalize                                    *)

CallType ==
  /\ objects \in Seq(BOOLEAN) /\ sessions \in 0..Len(objects)
  /\ request \in [Calls -> {"idle", "compress", "remove", "finish", "over", "deleted"}]

\* The recording was not deleted, and at most one finalize was asked for.
Quiet == ~Deleted /\ \A p, q \in Calls : request[p] # "idle" /\ request[q] # "idle" => p = q

\* From the compression to the last step of a finalize the session stays closed, so that
\* events.bin does not change; events.bin.zst is new.
CallInv ==
  Quiet =>
    /\ (\A q \in Calls : request[q] \in {"idle", "compress"}) => eventsZst = Gone
    /\ \A q \in Calls :
         /\ request[q] \in {"compress", "remove", "finish"} => sessions # 0 /\ ~objects[sessions]
         /\ request[q] = "remove" => eventsZst = eventsBin

Somewhere(e) ==
  \/ e \in Stored \/ e \in missed
  \/ \E c \in Conns : e \in SeqSet(channel[c]) \union SeqSet(batch[c])

AccountedInv == Quiet => \A e \in 1..sentEvents : Somewhere(e)

PlayInv ==
  ~Deleted /\ (status = "completed" \/ \E q \in Calls : request[q] \in {"remove", "finish"})
    => eventsZst # Gone

RecordingInv == OrderInv /\ CallType /\ CallInv /\ AccountedInv /\ PlayInv
-----------------------------------------------------------------------------
\* Queues that are emptied and files that are removed, made anew or copied stay in order.
LEMMA OrderShrinks ==
  ASSUME OrderInv, sentEvents' = sentEvents, origin' = origin,
         channel' \in [Conns -> Seq(Nat)], batch' \in [Conns -> Seq(Nat)],
         \A c \in Conns : channel'[c] \in {channel[c], <<>>} /\ batch'[c] \in {batch[c], <<>>},
         eventsBin' \in {eventsBin, Gone, <<>>}, eventsZst' \in {eventsZst, eventsBin, Gone}
  PROVE  OrderInv'
<1>0. QueueType /\ (\A c \in Conns : QueueInv(c)) /\ BinInv /\ ZstInv /\ RecordedInOrder
  BY DEF OrderInv
<1>e. SeqSet(<<>>) = {} /\ Increasing(<<>>) /\ InOrder(<<>>)
  BY SetOfEmpty DEF InOrder
<1>t. QueueType'
  <2>1. <<>> \in Seq(Nat) /\ Gone \in Seq(Nat)
    BY DEF Gone
  <2> QED BY <1>0, <2>1 DEF QueueType
<1>1. ASSUME NEW c \in Conns
      PROVE  /\ SeqSet(channel'[c]) \subseteq SeqSet(channel[c]) /\ SeqSet(batch'[c]) \subseteq SeqSet(batch[c])
             /\ Increasing(channel'[c]) /\ Increasing(batch'[c])
  BY <1>0, <1>e DEF QueueInv
<1>2. ASSUME NEW c \in Conns PROVE QueueInv(c)'
  BY <1>0, <1>1 DEF QueueInv
<1>3. BinInv'
  <2>1. CASE eventsBin' = Gone
    BY <2>1 DEF BinInv, Gone
  <2>2. CASE eventsBin' = <<>>
    BY <2>2, <1>e DEF BinInv
  <2>3. CASE eventsBin' = eventsBin /\ eventsBin # Gone
    <3>1. ASSUME NEW e \in SeqSet(eventsBin)
          PROVE  e \in 1..sentEvents /\ \A f \in SeqSet(batch'[origin[e]]) \union SeqSet(channel'[origin[e]]) : e < f
      <4>1. e \in 1..sentEvents /\ \A f \in SeqSet(batch[origin[e]]) \union SeqSet(channel[origin[e]]) : e < f
        BY <1>0, <2>3 DEF BinInv
      <4>2. origin[e] \in Conns
        BY <4>1, <1>0 DEF QueueType
      <4> QED BY <4>1, <4>2, <1>1
    <3> QED BY <2>3, <3>1 DEF BinInv
  <2> QED BY <2>1, <2>2, <2>3
<1>4. ZstInv' /\ RecordedInOrder'
  <2>g. Gone' = Gone
    BY DEF Gone
  <2>1. eventsZst # Gone => \A e \in SeqSet(eventsZst) : e \in 1..sentEvents
    BY <1>0 DEF ZstInv
  <2>2. eventsBin # Gone => \A e \in SeqSet(eventsBin) : e \in 1..sentEvents
    BY <1>0 DEF BinInv
  <2>3. ZstInv'
    BY <2>1, <2>2, <2>g DEF ZstInv
  <2>4. RecordedInOrder'
    BY <1>0, <1>e, <2>g DEF RecordedInOrder, InOrder
  <2> QED BY <2>3, <2>4
<1> QED BY <1>t, <1>2, <1>3, <1>4 DEF OrderInv

\* A new event is beyond all others.
LEMMA OrderRead ==
  ASSUME OrderInv, NEW c \in Conns, ReadEvents(c)
  PROVE  OrderInv'
<1> DEFINE e == sentEvents + 1
<1>0. QueueType /\ (\A d \in Conns : QueueInv(d)) /\ BinInv /\ ZstInv /\ RecordedInOrder
  BY DEF OrderInv
<1>1. /\ sentEvents' = e /\ origin' = Append(origin, c) /\ batch' = batch
      /\ eventsBin' = eventsBin /\ eventsZst' = eventsZst
      /\ channel' = channel \/ channel' = [channel EXCEPT ![c] = Append(@, e)]
  BY DEF ReadEvents, storeVars
<1>2. /\ sentEvents \in Nat /\ e \in Nat /\ sentEvents = Len(origin) /\ origin' \in Seq(Conns) /\ Len(origin') = e
      /\ origin'[e] = c /\ \A i \in 1..sentEvents : origin'[i] = origin[i] /\ origin[i] \in Conns /\ i \in 1..e /\ i < e
  BY <1>0, <1>1 DEF QueueType
<1> HIDE DEF e
<1>3. ASSUME NEW d \in Conns
      PROVE  /\ batch[d] \in Seq(Nat) /\ channel[d] \in Seq(Nat) /\ channel'[d] \in Seq(Nat)
             /\ channel'[d] = channel[d] \/ (d = c /\ channel'[d] = Append(channel[d], e))
  <2>1. batch[d] \in Seq(Nat) /\ channel[d] \in Seq(Nat) /\ channel[c] \in Seq(Nat)
    BY <1>0 DEF QueueType
  <2>2. Append(channel[c], e) \in Seq(Nat)
    BY <2>1, <1>2, SetOfAppend
  <2> QED BY <1>0, <1>1, <2>1, <2>2 DEF QueueType
<1>t. QueueType'
  <2>1. channel' \in [Conns -> Seq(Nat)]
    BY <1>0, <1>1, <1>3 DEF QueueType
  <2> QED BY <1>0, <1>1, <1>2, <2>1 DEF QueueType
<1>4. ASSUME NEW d \in Conns
      PROVE  /\ \A f \in SeqSet(channel[d]) \union SeqSet(batch[d]) : f \in 1..sentEvents /\ f < e
             /\ SeqSet(channel'[d]) \subseteq SeqSet(channel[d]) \union (IF d = c THEN {e} ELSE {})
             /\ Increasing(channel'[d])
  <2>1. \A f \in SeqSet(channel[d]) \union SeqSet(batch[d]) : f \in 1..sentEvents /\ f < e
    BY <1>0, <1>2 DEF QueueInv
  <2>2. Increasing(channel[d])
    BY <1>0 DEF QueueInv
  <2>3. CASE channel'[d] = channel[d]
    BY <2>1, <2>2, <2>3
  <2>4. CASE d = c /\ channel'[d] = Append(channel[d], e)
    <3>1. channel[d] \in Seq(Nat) /\ e \in Nat /\ \A f \in SeqSet(channel[d]) : f < e
      BY <1>2, <1>3, <2>1
    <3>2. SeqSet(Append(channel[d], e)) = SeqSet(channel[d]) \union {e} /\ Increasing(Append(channel[d], e))
      BY <2>2, <3>1, SetOfAppend
    <3> QED BY <2>1, <2>4, <3>2
  <2> QED BY <1>3, <2>3, <2>4
<1>5. ASSUME NEW d \in Conns PROVE QueueInv(d)'
  <2>0. /\ Increasing(batch[d]) /\ \A f \in SeqSet(batch[d]) \union SeqSet(channel[d]) : f \in 1..sentEvents /\ origin[f] = d
        /\ \A f \in SeqSet(batch[d]), g \in SeqSet(channel[d]) : f < g
    BY <1>0 DEF QueueInv
  <2>1. \A f \in SeqSet(batch[d]) \union SeqSet(channel'[d]) : f \in 1..e /\ origin'[f] = d
    <3> TAKE f \in SeqSet(batch[d]) \union SeqSet(channel'[d])
    <3>1. CASE f \in SeqSet(batch[d]) \union SeqSet(channel[d])
      BY <2>0, <1>2, <3>1
    <3>2. CASE f \notin SeqSet(batch[d]) \union SeqSet(channel[d])
      <4>1. f = e /\ d = c
        BY <1>4, <3>2
      <4>2. e \in 1..e
        BY <1>2 DEF e
      <4> QED BY <4>1, <4>2, <1>2
    <3> QED BY <3>1, <3>2
  <2>2. \A f \in SeqSet(batch[d]), g \in SeqSet(channel'[d]) : f < g
    BY <2>0, <1>4
  <2> QED BY <1>1, <1>4, <2>0, <2>1, <2>2 DEF QueueInv
<1>6. eventsBin # Gone => \A f \in SeqSet(eventsBin) : f \in 1..sentEvents
  BY <1>0 DEF BinInv
<1>7. eventsZst # Gone => \A f \in SeqSet(eventsZst) : f \in 1..sentEvents
  BY <1>0 DEF ZstInv
<1>8. BinInv'
  <2>1. ASSUME eventsBin # Gone, NEW f \in SeqSet(eventsBin)
        PROVE  f \in 1..e /\ \A g \in SeqSet(batch[origin'[f]]) \union SeqSet(channel'[origin'[f]]) : f < g
    <3>1. f \in 1..sentEvents /\ origin'[f] = origin[f] /\ origin[f] \in Conns /\ f < e /\ f \in 1..e
      BY <2>1, <1>2, <1>6
    <3>2. \A g \in SeqSet(batch[origin[f]]) \union SeqSet(channel[origin[f]]) : f < g
      BY <1>0, <2>1 DEF BinInv
    <3> QED BY <3>1, <3>2, <1>4
  <2>2. Gone' = Gone
    BY DEF Gone
  <2> QED BY <1>1, <2>1, <2>2 DEF BinInv
<1>9. ASSUME NEW s \in Seq(Nat), InOrder(s), \A f \in SeqSet(s) : f \in 1..sentEvents
      PROVE  \A i, j \in DOMAIN s : i < j => s[i] # s[j] /\ (origin'[s[i]] = origin'[s[j]] => s[i] < s[j])
  <2>1. \A i \in DOMAIN s : origin'[s[i]] = origin[s[i]]
    BY <1>2, <1>9 DEF SeqSet
  <2> QED BY <1>9, <2>1 DEF InOrder
<1>10. ZstInv' /\ RecordedInOrder'
  <2>1. Gone' = Gone
    BY DEF Gone
  <2>2. eventsBin \in Seq(Nat) /\ eventsZst \in Seq(Nat)
    BY <1>0 DEF QueueType
  <2>3. ZstInv'
    BY <1>1, <1>2, <1>7, <2>1 DEF ZstInv
  <2>4. eventsBin' = Gone \/ InOrder(eventsBin)'
    BY <1>0, <1>1, <1>6, <1>9, <2>2 DEF RecordedInOrder, InOrder
  <2>5. eventsZst' = Gone \/ InOrder(eventsZst)'
    BY <1>0, <1>1, <1>7, <1>9, <2>2 DEF RecordedInOrder, InOrder
  <2> QED BY <2>1, <2>3, <2>4, <2>5 DEF RecordedInOrder
<1> QED BY <1>t, <1>5, <1>8, <1>10 DEF OrderInv

\* The head of the channel goes behind the batch.
LEMMA OrderCollect ==
  ASSUME OrderInv, NEW c \in Conns, Collect(c)
  PROVE  OrderInv' /\ \A d \in Conns : SeqSet(channel'[d]) \union SeqSet(batch'[d]) = SeqSet(channel[d]) \union SeqSet(batch[d])
<1>0. QueueType /\ (\A d \in Conns : QueueInv(d)) /\ BinInv /\ ZstInv /\ RecordedInOrder
  BY DEF OrderInv
<1> DEFINE ch == channel[c]
           b == batch[c]
<1>1. /\ ch # <<>> /\ batch' = [batch EXCEPT ![c] = Append(b, Head(ch))] /\ channel' = [channel EXCEPT ![c] = Tail(ch)]
      /\ sentEvents' = sentEvents /\ origin' = origin /\ eventsBin' = eventsBin /\ eventsZst' = eventsZst
  BY DEF Collect, storeVars
<1>2. ch \in Seq(Nat) /\ b \in Seq(Nat)
  BY <1>0 DEF QueueType
<1>q. /\ Increasing(b) /\ Increasing(ch) /\ \A e \in SeqSet(b) \union SeqSet(ch) : e \in 1..sentEvents /\ origin[e] = c
      /\ \A e \in SeqSet(b), f \in SeqSet(ch) : e < f
  BY <1>0 DEF QueueInv
<1>d. /\ batch'[c] = Append(b, Head(ch)) /\ channel'[c] = Tail(ch)
      /\ \A d \in Conns : d # c => batch'[d] = batch[d] /\ channel'[d] = channel[d]
  BY <1>0, <1>1 DEF QueueType
<1> HIDE DEF ch, b
<1>3. /\ SeqSet(ch) = SeqSet(Tail(ch)) \union {Head(ch)} /\ Head(ch) \in Nat /\ Tail(ch) \in Seq(Nat)
      /\ Increasing(Tail(ch)) /\ \A e \in SeqSet(Tail(ch)) : Head(ch) < e
  BY <1>1, <1>2, <1>q, SetOfTail
<1>4. /\ SeqSet(Append(b, Head(ch))) = SeqSet(b) \union {Head(ch)} /\ Append(b, Head(ch)) \in Seq(Nat)
      /\ Increasing(Append(b, Head(ch)))
  <2>1. \A e \in SeqSet(b) : e < Head(ch)
    BY <1>q, <1>3
  <2> QED BY <1>2, <1>3, <1>q, <2>1, SetOfAppend
<1>t. QueueType'
  BY <1>0, <1>1, <1>3, <1>4 DEF QueueType
<1>5. ASSUME NEW d \in Conns
      PROVE  SeqSet(channel'[d]) \union SeqSet(batch'[d]) = SeqSet(channel[d]) \union SeqSet(batch[d])
  <2>1. CASE d = c
    BY <2>1, <1>3, <1>4, <1>d DEF ch, b
  <2> QED BY <2>1, <1>d
<1>6. ASSUME NEW d \in Conns PROVE QueueInv(d)'
  <2>1. CASE d = c
    <3>1. \A e \in SeqSet(Append(b, Head(ch))), f \in SeqSet(Tail(ch)) : e < f
      BY <1>q, <1>3, <1>4
    <3>2. \A e \in SeqSet(Append(b, Head(ch))) \union SeqSet(Tail(ch)) : e \in 1..sentEvents /\ origin[e] = c
      BY <1>q, <1>3, <1>4
    <3> QED BY <2>1, <1>1, <1>3, <1>4, <1>d, <3>1, <3>2 DEF QueueInv
  <2>2. CASE d # c
    BY <1>0, <1>1, <1>d, <2>2 DEF QueueInv
  <2> QED BY <2>1, <2>2
<1>7. BinInv'
  <2>1. ASSUME eventsBin # Gone, NEW e \in SeqSet(eventsBin)
        PROVE  e \in 1..sentEvents /\ \A f \in SeqSet(batch'[origin[e]]) \union SeqSet(channel'[origin[e]]) : e < f
    <3>1. e \in 1..sentEvents /\ \A f \in SeqSet(batch[origin[e]]) \union SeqSet(channel[origin[e]]) : e < f
      BY <1>0, <2>1 DEF BinInv
    <3>2. origin[e] \in Conns
      BY <3>1, <1>0 DEF QueueType
    <3> QED BY <3>1, <3>2, <1>5
  <2>2. Gone' = Gone
    BY DEF Gone
  <2> QED BY <1>1, <2>1, <2>2 DEF BinInv
<1>8. ZstInv' /\ RecordedInOrder'
  BY <1>0, <1>1 DEF ZstInv, RecordedInOrder, InOrder, Gone
<1> QED BY <1>t, <1>5, <1>6, <1>7, <1>8 DEF OrderInv

\* A batch that is written goes behind events.bin.
LEMMA OrderAppend ==
  ASSUME OrderInv, NEW c \in Conns, AppendEvents(c), eventsBin # Gone,
         sentEvents' = sentEvents, origin' = origin, channel' = channel, eventsZst' = eventsZst
  PROVE  OrderInv' /\ eventsBin' # Gone /\ SeqSet(eventsBin') = SeqSet(eventsBin) \union SeqSet(batch[c])
<1>0. QueueType /\ (\A d \in Conns : QueueInv(d)) /\ BinInv /\ ZstInv /\ RecordedInOrder
  BY DEF OrderInv
<1> DEFINE b == batch[c]
           new == eventsBin \o b
<1>1. eventsBin' = new /\ batch' = [batch EXCEPT ![c] = <<>>]
  BY DEF AppendEvents
<1>2. eventsBin \in Seq(Nat) /\ b \in Seq(Nat) /\ <<>> \in Seq(Nat)
  BY <1>0 DEF QueueType
<1>3. new \in Seq(Nat) /\ SeqSet(new) = SeqSet(eventsBin) \union SeqSet(b)
  BY <1>2, SetOfConcat
<1>q. /\ Increasing(b) /\ \A e \in SeqSet(b) \union SeqSet(channel[c]) : e \in 1..sentEvents /\ origin[e] = c
      /\ \A e \in SeqSet(b), f \in SeqSet(channel[c]) : e < f
  BY <1>0 DEF QueueInv
<1>i. InOrder(eventsBin)
  BY <1>0 DEF RecordedInOrder
<1>b. \A e \in SeqSet(eventsBin) : e \in 1..sentEvents /\ \A f \in SeqSet(batch[origin[e]]) \union SeqSet(channel[origin[e]]) : e < f
  BY <1>0 DEF BinInv
<1>d. batch'[c] = <<>> /\ \A d \in Conns : d # c => batch'[d] = batch[d]
  BY <1>0, <1>1 DEF QueueType
<1>4. InOrder(new)
  <2>1. \A e \in SeqSet(eventsBin), f \in SeqSet(b) : origin[e] = c => e < f
    BY <1>b
  <2>2. \A e \in SeqSet(b) : origin[e] = c
    BY <1>q
  <2> HIDE DEF b
  <2> QED BY <1>2, <1>q, <1>i, <2>1, <2>2, BatchInOrder
<1>5. \A e \in SeqSet(new) : e \in 1..sentEvents
  BY <1>3, <1>b, <1>q
<1>6. new # Gone
  <2>1. SUFFICES ASSUME new = Gone PROVE FALSE
    OBVIOUS
  <2>2. 0 \in SeqSet(Gone)
    <3>1. 1 \in DOMAIN Gone /\ Gone[1] = 0
      BY DEF Gone
    <3> QED BY <3>1 DEF SeqSet
  <2>3. 0 \in 1..sentEvents /\ sentEvents \in Nat
    BY <1>0, <1>5, <2>1, <2>2 DEF QueueType
  <2> QED BY <2>3
<1>e. SeqSet(<<>>) = {} /\ Increasing(<<>>)
  BY SetOfEmpty
<1>t. QueueType'
  BY <1>0, <1>1, <1>2, <1>3 DEF QueueType
<1>7. ASSUME NEW d \in Conns PROVE QueueInv(d)'
  <2>1. CASE d = c
    BY <2>1, <1>0, <1>e, <1>d DEF QueueInv
  <2>2. CASE d # c
    BY <1>0, <1>1, <1>d, <2>2 DEF QueueInv
  <2> QED BY <2>1, <2>2
<1>8. BinInv'
  <2>1. ASSUME NEW e \in SeqSet(new)
        PROVE  e \in 1..sentEvents /\ \A f \in SeqSet(batch'[origin[e]]) \union SeqSet(channel[origin[e]]) : e < f
    <3>1. e \in 1..sentEvents
      BY <1>5
    <3>2. origin[e] \in Conns
      BY <3>1, <1>0 DEF QueueType
    <3>3. CASE e \in SeqSet(eventsBin)
      BY <3>1, <3>2, <3>3, <1>b, <1>d, <1>e
    <3>4. CASE e \in SeqSet(b)
      BY <3>1, <3>4, <1>q, <1>d, <1>e
    <3> QED BY <1>3, <3>3, <3>4
  <2> HIDE DEF new
  <2> QED BY <1>1, <2>1 DEF BinInv
<1>9. ZstInv' /\ RecordedInOrder'
  <2>1. ZstInv'
    BY <1>0 DEF ZstInv, Gone
  <2>2. InOrder(eventsBin)'
    BY <1>1, <1>4 DEF InOrder
  <2>3. eventsZst' = Gone \/ InOrder(eventsZst)'
    BY <1>0 DEF RecordedInOrder, InOrder
  <2> QED BY <2>1, <2>2, <2>3 DEF RecordedInOrder, Gone
<1> QED BY <1>1, <1>3, <1>6, <1>t, <1>7, <1>8, <1>9 DEF OrderInv
-----------------------------------------------------------------------------
LEMMA StoreKept ==
  ASSUME CallType, CallInv, PlayInv, UNCHANGED <<storeVars, request>>
  PROVE  CallType' /\ CallInv' /\ PlayInv' /\ (Quiet' => Quiet) /\ Stored' = Stored
<1>1. /\ sessions' = sessions /\ objects' = objects /\ eventsBin' = eventsBin /\ eventsZst' = eventsZst
      /\ status' = status /\ request' = request
  BY DEF storeVars
<1>2. CallType'
  BY <1>1 DEF CallType
<1>3. Quiet' <=> Quiet
  BY <1>1 DEF Quiet, Deleted
<1>4. CallInv'
  BY <1>1, <1>3 DEF CallInv, Gone
<1>5. PlayInv'
  BY <1>1 DEF PlayInv, Deleted, Gone
<1>6. Stored' = Stored
  BY <1>1 DEF Stored, SeqSet, Gone
<1> QED BY <1>2, <1>3, <1>4, <1>5, <1>6

LEMMA AccountedKept ==
  ASSUME AccountedInv, Quiet' => Quiet, sentEvents' = sentEvents,
         Quiet' => \A e \in 1..sentEvents : Somewhere(e) => Somewhere(e)'
  PROVE  AccountedInv'
BY DEF AccountedInv

\* The receiver: an event goes one place further, or is missed.
LEMMA ReadKeeps ==
  ASSUME RecordingInv, NEW c \in Conns, ReadEvents(c)
  PROVE  RecordingInv'
<1>0. OrderInv /\ CallType /\ CallInv /\ AccountedInv /\ PlayInv
  BY DEF RecordingInv
<1> DEFINE e == sentEvents + 1
<1>1. /\ sentEvents' = e /\ batch' = batch /\ UNCHANGED <<storeVars, request>>
      /\ (channel' = [channel EXCEPT ![c] = Append(@, e)] /\ missed' = missed)
         \/ (missed' = missed \union {e} /\ channel' = channel)
  BY DEF ReadEvents
<1>2. OrderInv'
  BY <1>0, OrderRead
<1>3. CallType' /\ CallInv' /\ PlayInv' /\ (Quiet' => Quiet) /\ Stored' = Stored
  BY <1>0, <1>1, StoreKept
<1>4. sentEvents \in Nat /\ channel \in [Conns -> Seq(Nat)] /\ e \in Nat
  BY <1>0 DEF OrderInv, QueueType
<1>a. SeqSet(Append(channel[c], e)) = SeqSet(channel[c]) \union {e}
  BY <1>4, SetOfAppend
<1>5. /\ missed \subseteq missed' /\ \A d \in Conns : SeqSet(channel[d]) \subseteq SeqSet(channel'[d])
      /\ e \in missed' \/ e \in SeqSet(channel'[c])
  BY <1>1, <1>4, <1>a
<1>6. ASSUME Quiet', NEW f \in 1..e PROVE Somewhere(f)'
  <2>1. CASE f = e
    BY <1>5, <2>1 DEF Somewhere
  <2>2. CASE f # e
    <3>1. f \in 1..sentEvents
      BY <1>4, <2>2
    <3>2. Somewhere(f)
      BY <3>1, <1>0, <1>3, <1>6 DEF AccountedInv
    <3> QED BY <3>2, <1>1, <1>3, <1>5 DEF Somewhere
  <2> QED BY <2>1, <2>2
<1>7. AccountedInv'
  BY <1>1, <1>6 DEF AccountedInv
<1> QED BY <1>2, <1>3, <1>7 DEF RecordingInv

\* Whatever leaves queues and files alone keeps the invariant.
LEMMA NothingMoves ==
  ASSUME RecordingInv, UNCHANGED <<channel, batch, sentEvents, origin, missed, storeVars, request>>
  PROVE  RecordingInv'
<1>0. OrderInv /\ CallType /\ CallInv /\ AccountedInv /\ PlayInv
  BY DEF RecordingInv
<1>1. OrderInv'
  <2>1. channel' = channel /\ batch' = batch /\ sentEvents' = sentEvents /\ origin' = origin /\ eventsBin' = eventsBin /\ eventsZst' = eventsZst
    BY DEF storeVars
  <2>2. channel' \in [Conns -> Seq(Nat)] /\ batch' \in [Conns -> Seq(Nat)]
    BY <1>0, <2>1 DEF OrderInv, QueueType
  <2> QED BY <1>0, <2>1, <2>2, OrderShrinks
<1>2. CallType' /\ CallInv' /\ PlayInv' /\ (Quiet' => Quiet) /\ Stored' = Stored
  BY <1>0, StoreKept
<1>3. AccountedInv'
  <2>1. ASSUME NEW e PROVE Somewhere(e) => Somewhere(e)'
    BY <1>2 DEF Somewhere
  <2> QED BY <1>0, <1>2, <2>1, AccountedKept
<1> QED BY <1>1, <1>2, <1>3 DEF RecordingInv

LEMMA CollectKeeps ==
  ASSUME RecordingInv, NEW c \in Conns, Collect(c)
  PROVE  RecordingInv'
<1>0. OrderInv /\ CallType /\ CallInv /\ AccountedInv /\ PlayInv
  BY DEF RecordingInv
<1>1. UNCHANGED <<sentEvents, missed, storeVars, request>>
  BY DEF Collect
<1>2. OrderInv' /\ \A d \in Conns : SeqSet(channel'[d]) \union SeqSet(batch'[d]) = SeqSet(channel[d]) \union SeqSet(batch[d])
  BY <1>0, OrderCollect
<1>3. CallType' /\ CallInv' /\ PlayInv' /\ (Quiet' => Quiet) /\ Stored' = Stored
  BY <1>0, <1>1, StoreKept
<1>4. AccountedInv'
  <2>1. ASSUME NEW e PROVE Somewhere(e) => Somewhere(e)'
    BY <1>1, <1>2, <1>3 DEF Somewhere
  <2> QED BY <1>0, <1>1, <1>3, <2>1, AccountedKept
<1> QED BY <1>2, <1>3, <1>4 DEF RecordingInv

\* A queue is emptied and its events are counted as missed.
LEMMA MissedKeeps ==
  ASSUME RecordingInv, NEW c \in Conns, NEW s, UNCHANGED <<sentEvents, origin, storeVars, request>>,
         missed' = missed \union SeqSet(s),
         \/ s = channel[c] /\ channel' = [channel EXCEPT ![c] = <<>>] /\ batch' = batch
         \/ s = batch[c] /\ batch' = [batch EXCEPT ![c] = <<>>] /\ channel' = channel
  PROVE  RecordingInv'
<1>0. OrderInv /\ CallType /\ CallInv /\ AccountedInv /\ PlayInv
  BY DEF RecordingInv
<1>1. channel \in [Conns -> Seq(Nat)] /\ batch \in [Conns -> Seq(Nat)] /\ <<>> \in Seq(Nat)
  BY <1>0 DEF OrderInv, QueueType
<1>2. /\ channel' \in [Conns -> Seq(Nat)] /\ batch' \in [Conns -> Seq(Nat)]
      /\ \A d \in Conns : /\ channel'[d] \in {channel[d], <<>>} /\ batch'[d] \in {batch[d], <<>>}
                          /\ d # c => channel'[d] = channel[d] /\ batch'[d] = batch[d]
  BY <1>1
<1>3. OrderInv'
  <2>1. eventsBin' = eventsBin /\ eventsZst' = eventsZst
    BY DEF storeVars
  <2> QED BY <1>0, <1>2, <2>1, OrderShrinks
<1>4. CallType' /\ CallInv' /\ PlayInv' /\ (Quiet' => Quiet) /\ Stored' = Stored
  BY <1>0, StoreKept
<1>5. AccountedInv'
  <2>1. ASSUME NEW e, Somewhere(e) PROVE Somewhere(e)'
    <3>1. CASE e \in Stored \/ e \in missed
      BY <1>4, <3>1 DEF Somewhere
    <3>2. CASE \E d \in Conns : e \in SeqSet(channel[d]) \union SeqSet(batch[d])
      <4>1. PICK d \in Conns : e \in SeqSet(channel[d]) \union SeqSet(batch[d])
        BY <3>2
      <4>2. e \in missed' \/ e \in SeqSet(channel'[d]) \union SeqSet(batch'[d])
        BY <4>1, <1>1, <1>2
      <4> QED BY <4>2 DEF Somewhere
    <3> QED BY <2>1, <3>1, <3>2 DEF Somewhere
  <2> QED BY <1>0, <1>4, <2>1, AccountedKept
<1> QED BY <1>3, <1>4, <1>5 DEF RecordingInv

\* The session that is written to is open: no finalize is under way.
LEMMA AppendKeeps ==
  ASSUME RecordingInv, NEW c \in Conns, AppendEvents(c), sessions # 0, objects[sessions],
         UNCHANGED <<sentEvents, origin, channel, sessions, objects, eventsZst, status, request>>
  PROVE  RecordingInv'
<1>0. OrderInv /\ CallType /\ CallInv /\ AccountedInv /\ PlayInv
  BY DEF RecordingInv
<1>1. CASE eventsBin = Gone
  <2>1. UNCHANGED <<sentEvents, origin, storeVars, request>> /\ missed' = missed \union SeqSet(batch[c])
        /\ batch' = [batch EXCEPT ![c] = <<>>] /\ channel' = channel
    BY <1>1 DEF AppendEvents, storeVars
  <2>2. PICK s : s = batch[c]
    OBVIOUS
  <2> QED BY <2>1, <2>2, MissedKeeps
<1>2. CASE eventsBin # Gone
  <2>1. OrderInv' /\ eventsBin' # Gone /\ SeqSet(eventsBin') = SeqSet(eventsBin) \union SeqSet(batch[c])
    BY <1>0, <1>2, OrderAppend
  <2>2. missed' = missed /\ batch' = [batch EXCEPT ![c] = <<>>]
    BY <1>2 DEF AppendEvents
  <2>3. CallType'
    BY <1>0 DEF CallType
  <2>4. Quiet' <=> Quiet
    BY DEF Quiet, Deleted
  <2>5. ASSUME Quiet, NEW q \in Calls PROVE request[q] \notin {"compress", "remove", "finish"}
    BY <1>0, <2>5 DEF CallInv
  <2>6. CallInv'
    BY <1>0, <2>4, <2>5 DEF CallInv, Gone
  <2>7. PlayInv'
    BY <1>0 DEF PlayInv, Deleted, Gone
  <2>8. AccountedInv'
    <3>0. batch \in [Conns -> Seq(Nat)] /\ Gone' = Gone
      BY <1>0 DEF OrderInv, QueueType, Gone
    <3>1. ASSUME NEW e, Somewhere(e) PROVE Somewhere(e)'
      <4>1. CASE e \in Stored \/ e \in missed
        <5>1. CASE e \in missed
          BY <5>1, <2>2 DEF Somewhere
        <5>2. CASE e \in Stored
          <6>1. e \in Stored'
            BY <5>2, <1>2, <2>1, <3>0 DEF Stored
          <6> QED BY <6>1 DEF Somewhere
        <5> QED BY <4>1, <5>1, <5>2
      <4>2. CASE \E d \in Conns : e \in SeqSet(channel[d]) \union SeqSet(batch[d])
        <5>1. PICK d \in Conns : e \in SeqSet(channel[d]) \union SeqSet(batch[d])
          BY <4>2
        <5>2. CASE e \in SeqSet(batch[d]) /\ d = c
          <6>1. e \in Stored'
            BY <5>2, <2>1, <3>0 DEF Stored
          <6> QED BY <6>1 DEF Somewhere
        <5>3. CASE ~(e \in SeqSet(batch[d]) /\ d = c)
          <6>1. e \in SeqSet(channel'[d]) \union SeqSet(batch'[d])
            BY <5>1, <5>3, <2>2, <3>0
          <6> QED BY <6>1 DEF Somewhere
        <5> QED BY <5>2, <5>3
      <4> QED BY <3>1, <4>1, <4>2 DEF Somewhere
    <3> QED BY <1>0, <2>4, <3>1, AccountedKept
  <2> QED BY <2>1, <2>3, <2>6, <2>7, <2>8 DEF RecordingInv
<1> QED BY <1>1, <1>2

\* A processor creates the session that is not there: no finalize is under way.
LEMMA StartSessionKeeps ==
  ASSUME RecordingInv, NEW c \in Conns, StartSession(c)
  PROVE  RecordingInv'
<1>0. OrderInv /\ CallType /\ CallInv /\ AccountedInv /\ PlayInv
  BY DEF RecordingInv
<1>1. CASE sessions # 0
  <2>1. /\ UNCHANGED <<sentEvents, origin, storeVars, request>> /\ missed' = missed \union SeqSet(batch[c])
        /\ batch' = [batch EXCEPT ![c] = <<>>] /\ channel' = channel
    BY <1>1 DEF StartSession, WriteError, storeVars
  <2>2. PICK s : s = batch[c]
    OBVIOUS
  <2> QED BY <2>1, <2>2, MissedKeeps
<1>2. CASE sessions = 0
  <2>1. /\ objects' = Append(objects, TRUE) /\ sessions' = Len(objects) + 1 /\ status' = "active"
        /\ eventsBin' = IF eventsBin = Gone THEN <<>> ELSE eventsBin
        /\ UNCHANGED <<batch, missed, channel, sentEvents, origin, eventsZst, request>>
    BY <1>2 DEF StartSession, WriteError
  <2>2. OrderInv'
    <3>1. channel' \in [Conns -> Seq(Nat)] /\ batch' \in [Conns -> Seq(Nat)]
      BY <1>0, <2>1 DEF OrderInv, QueueType
    <3> QED BY <1>0, <2>1, <3>1, OrderShrinks
  <2>3. CallType'
    <3>1. objects' \in Seq(BOOLEAN) /\ Len(objects') = Len(objects) + 1 /\ Len(objects) \in Nat
      BY <1>0, <2>1 DEF CallType
    <3>2. sessions' \in 0..Len(objects')
      BY <2>1, <3>1
    <3> QED BY <1>0, <2>1, <3>1, <3>2 DEF CallType
  <2>4. Quiet' <=> Quiet
    BY <2>1 DEF Quiet, Deleted
  <2>5. ASSUME Quiet, NEW q \in Calls PROVE request[q] \notin {"compress", "remove", "finish"}
    BY <1>0, <1>2, <2>5 DEF CallInv
  <2>6. CallInv'
    BY <1>0, <2>1, <2>4, <2>5 DEF CallInv, Gone
  <2>7. PlayInv'
    BY <1>0, <2>1 DEF PlayInv, Deleted, Gone
  <2>8. AccountedInv'
    <3>1. Stored \subseteq Stored'
      BY <2>1 DEF Stored, Gone
    <3>2. ASSUME NEW e PROVE Somewhere(e) => Somewhere(e)'
      BY <2>1, <3>1 DEF Somewhere
    <3> QED BY <1>0, <2>1, <2>4, <3>2, AccountedKept
  <2> QED BY <2>2, <2>3, <2>6, <2>7, <2>8 DEF RecordingInv
<1> QED BY <1>1, <1>2

LEMMA WriteKeeps ==
  ASSUME RecordingInv, NEW c \in Conns, Write(c) \/ AppendToCreated(c)
  PROVE  RecordingInv'
<1>1. UNCHANGED <<sentEvents, origin, channel, sessions, objects, eventsZst, status, request>>
  BY DEF Write, AppendToCreated
<1>2. \/ sessions # 0 /\ objects[sessions] /\ AppendEvents(c)
      \/ WriteError(c) /\ UNCHANGED eventsBin
      \/ UNCHANGED <<batch, missed, eventsBin>>
  BY DEF Write, AppendToCreated
<1>3. CASE sessions # 0 /\ objects[sessions] /\ AppendEvents(c)
  BY <1>1, <1>3, AppendKeeps
<1>4. CASE WriteError(c) /\ UNCHANGED eventsBin
  <2>1. /\ UNCHANGED <<sentEvents, origin, storeVars, request>> /\ missed' = missed \union SeqSet(batch[c])
        /\ batch' = [batch EXCEPT ![c] = <<>>] /\ channel' = channel
    BY <1>1, <1>4 DEF WriteError, storeVars
  <2>2. PICK s : s = batch[c]
    OBVIOUS
  <2> QED BY <2>1, <2>2, MissedKeeps
<1>5. CASE UNCHANGED <<batch, missed, eventsBin>>
  BY <1>1, <1>5, NothingMoves DEF storeVars
<1> QED BY <1>2, <1>3, <1>4, <1>5

LEMMA ConnectionKeeps ==
  ASSUME RecordingInv, NEW c \in Conns,
         Accept(c) \/ ReadEvents(c) \/ ReaderEnds(c) \/ ConnectionStep(c)
  PROVE  RecordingInv'
<1>1. CASE Accept(c) \/ ReaderEnds(c) \/ ConnectionCloses(c)
  BY <1>1, NothingMoves DEF Accept, ReaderEnds, ConnectionCloses
<1>2. CASE ReadEvents(c)
  BY <1>2, ReadKeeps
<1>3. CASE Collect(c)
  BY <1>3, CollectKeeps
<1>4. CASE ProcessorEnds(c)
  <2>1. /\ UNCHANGED <<sentEvents, origin, storeVars, request>> /\ missed' = missed \union SeqSet(channel[c])
        /\ channel' = [channel EXCEPT ![c] = <<>>] /\ batch' = batch
    BY <1>4 DEF ProcessorEnds
  <2>2. PICK s : s = channel[c]
    OBVIOUS
  <2> QED BY <2>1, <2>2, MissedKeeps
<1>5. CASE Write(c) \/ AppendToCreated(c)
  BY <1>5, WriteKeeps
<1>6. CASE StartSession(c)
  BY <1>6, StartSessionKeeps
<1> QED BY <1>1, <1>2, <1>3, <1>4, <1>5, <1>6 DEF ConnectionStep

-----------------------------------------------------------------------------
\* A request leaves the queues alone, and no request becomes idle again.
LEMMA RequestMoves ==
  ASSUME RecordingInv, NEW q \in Calls, NEW next \in {"compress", "remove", "finish", "over", "deleted"},
         request' = [request EXCEPT ![q] = next], request[q] # "deleted",
         UNCHANGED connVars, eventsBin' \in {eventsBin, Gone}, eventsZst' \in {eventsZst, eventsBin, Gone}
  PROVE  /\ OrderInv' /\ (Quiet' => Quiet) /\ (Deleted => Deleted')
         /\ request'[q] = next /\ (next = "deleted" => Deleted')
         /\ request' \in [Calls -> {"idle", "compress", "remove", "finish", "over", "deleted"}]
         /\ \A p \in Calls : p # q => request'[p] = request[p] /\ (Quiet' => request'[p] = "idle")
<1>0. OrderInv /\ CallType
  BY DEF RecordingInv
<1>1. channel' = channel /\ batch' = batch /\ sentEvents' = sentEvents /\ origin' = origin
  BY DEF connVars
<1>2. OrderInv'
  <2>1. channel' \in [Conns -> Seq(Nat)] /\ batch' \in [Conns -> Seq(Nat)]
    BY <1>0, <1>1 DEF OrderInv, QueueType
  <2> QED BY <1>0, <1>1, <2>1, OrderShrinks
<1>3. /\ request'[q] = next /\ request' \in [Calls -> {"idle", "compress", "remove", "finish", "over", "deleted"}]
      /\ \A p \in Calls : p # q => request'[p] = request[p]
  BY <1>0 DEF CallType
<1>4. (next = "deleted" => Deleted') /\ (Deleted => Deleted')
  BY <1>3 DEF Deleted
<1>5. Quiet' => Quiet /\ \A p \in Calls : p # q => request'[p] = "idle"
  BY <1>3, <1>4 DEF Quiet
<1> QED BY <1>2, <1>3, <1>4, <1>5

LEMMA FinalizeKeeps ==
  ASSUME RecordingInv, NEW q \in Calls, Finalize(q)
  PROVE  RecordingInv'
<1>0. OrderInv /\ CallType /\ CallInv /\ AccountedInv /\ PlayInv
  BY DEF RecordingInv
<1>1. /\ request[q] = "idle" /\ sessions # 0 /\ objects' = [objects EXCEPT ![sessions] = FALSE]
      /\ request' = [request EXCEPT ![q] = "compress"] /\ status = "active"
      /\ UNCHANGED <<connVars, sessions, eventsBin, eventsZst, status>>
  BY DEF Finalize
<1>2. /\ OrderInv' /\ (Quiet' => Quiet) /\ (Deleted => Deleted') /\ request'[q] = "compress"
      /\ request' \in [Calls -> {"idle", "compress", "remove", "finish", "over", "deleted"}]
      /\ \A p \in Calls : p # q => request'[p] = request[p] /\ (Quiet' => request'[p] = "idle")
  <2>1. PICK next \in {"compress", "remove", "finish", "over", "deleted"} : next = "compress"
    OBVIOUS
  <2> QED BY <1>1, <2>1, RequestMoves
<1>3. CallType' /\ ~objects'[sessions]
  <2>0. objects \in Seq(BOOLEAN) /\ sessions \in 0..Len(objects) /\ Len(objects) \in Nat
    BY <1>0 DEF CallType
  <2>1. sessions \in 1..Len(objects)
    BY <1>1, <2>0
  <2>2. [objects EXCEPT ![sessions] = FALSE] \in Seq(BOOLEAN) /\ Len([objects EXCEPT ![sessions] = FALSE]) = Len(objects)
    BY <2>0, <2>1
  <2>3. ~objects'[sessions]
    BY <1>1, <2>0, <2>1
  <2> QED BY <1>1, <1>2, <2>0, <2>2, <2>3 DEF CallType
<1>4. CallInv'
  <2>1. SUFFICES ASSUME Quiet' PROVE CallInv'
    BY DEF CallInv
  <2>2. Quiet /\ \A p \in Calls : request[p] = "idle"
    BY <1>1, <1>2, <2>1
  <2>3. eventsZst = Gone
    BY <1>0, <2>2 DEF CallInv
  <2>4. \A p \in Calls : request'[p] # "remove"
    BY <1>2, <2>2
  <2> QED BY <1>1, <1>3, <2>3, <2>4 DEF CallInv, Gone
<1>5. PlayInv'
  <2>1. SUFFICES ASSUME ~Deleted', \E p \in Calls : request'[p] \in {"remove", "finish"} PROVE eventsZst' # Gone
    BY <1>1 DEF PlayInv, Gone
  <2>2. ~Deleted /\ \E p \in Calls : request[p] \in {"remove", "finish"}
    BY <1>2, <2>1
  <2> QED BY <1>0, <1>1, <2>2 DEF PlayInv
<1>6. AccountedInv'
  <2>1. ASSUME NEW e PROVE Somewhere(e) => Somewhere(e)'
    BY <1>1 DEF Somewhere, connVars, Stored, Gone
  <2> QED BY <1>0, <1>1, <1>2, <2>1, AccountedKept DEF connVars
<1> QED BY <1>2, <1>3, <1>4, <1>5, <1>6 DEF RecordingInv

LEMMA CompressKeeps ==
  ASSUME RecordingInv, NEW q \in Calls, CompressFile(q)
  PROVE  RecordingInv'
<1>0. OrderInv /\ CallType /\ CallInv /\ AccountedInv /\ PlayInv
  BY DEF RecordingInv
<1>1. request[q] = "compress" /\ UNCHANGED <<connVars, objects, eventsBin>>
  BY DEF CompressFile
<1>o. objects \in Seq(BOOLEAN) /\ Len(objects) \in Nat /\ sessions \in 0..Len(objects)
  BY <1>0 DEF CallType
<1>2. CASE eventsBin = Gone
  <2>1. request' = [request EXCEPT ![q] = "over"] /\ status' # "completed" /\ sessions' = 0 /\ eventsZst' = eventsZst
    BY <1>2 DEF CompressFile
  <2>2. /\ OrderInv' /\ (Quiet' => Quiet) /\ (Deleted => Deleted') /\ request'[q] = "over"
        /\ request' \in [Calls -> {"idle", "compress", "remove", "finish", "over", "deleted"}]
        /\ \A p \in Calls : p # q => request'[p] = request[p] /\ (Quiet' => request'[p] = "idle")
    <3>1. PICK next \in {"compress", "remove", "finish", "over", "deleted"} : next = "over"
      OBVIOUS
    <3> QED BY <1>1, <2>1, <3>1, RequestMoves
  <2>3. CallType'
    BY <1>1, <1>o, <2>1, <2>2 DEF CallType
  <2>4. CallInv'
    BY <2>2 DEF CallInv
  <2>5. PlayInv'
    <3>1. SUFFICES ASSUME ~Deleted', \E p \in Calls : request'[p] \in {"remove", "finish"} PROVE eventsZst' # Gone
      BY <2>1 DEF PlayInv, Gone
    <3>2. ~Deleted /\ \E p \in Calls : request[p] \in {"remove", "finish"}
      BY <2>2, <3>1
    <3> QED BY <1>0, <2>1, <3>2 DEF PlayInv
  <2>6. AccountedInv'
    <3>1. ASSUME NEW e PROVE Somewhere(e) => Somewhere(e)'
      BY <1>1, <2>1 DEF Somewhere, connVars, Stored, Gone
    <3> QED BY <1>0, <1>1, <2>2, <3>1, AccountedKept DEF connVars
  <2> QED BY <2>2, <2>3, <2>4, <2>5, <2>6 DEF RecordingInv
<1>3. CASE eventsBin # Gone
  <2>1. request' = [request EXCEPT ![q] = "remove"] /\ eventsZst' = eventsBin /\ UNCHANGED <<sessions, status>>
    BY <1>3 DEF CompressFile
  <2>2. /\ OrderInv' /\ (Quiet' => Quiet) /\ (Deleted => Deleted') /\ request'[q] = "remove"
        /\ request' \in [Calls -> {"idle", "compress", "remove", "finish", "over", "deleted"}]
        /\ \A p \in Calls : p # q => request'[p] = request[p] /\ (Quiet' => request'[p] = "idle")
    <3>1. PICK next \in {"compress", "remove", "finish", "over", "deleted"} : next = "remove"
      OBVIOUS
    <3> QED BY <1>1, <2>1, <3>1, RequestMoves
  <2>3. CallType'
    BY <1>1, <1>o, <2>1, <2>2 DEF CallType
  <2>4. CallInv'
    <3>1. Quiet => sessions # 0 /\ ~objects[sessions]
      BY <1>0, <1>1 DEF CallInv
    <3> QED BY <1>1, <2>1, <2>2, <3>1 DEF CallInv
  <2>5. PlayInv'
    BY <1>3, <2>1 DEF PlayInv, Gone
  <2>6. AccountedInv'
    <3>1. ASSUME Quiet', NEW e PROVE Somewhere(e) => Somewhere(e)'
      <4>1. Quiet /\ \A p \in Calls : request[p] \in {"idle", "compress"}
        BY <1>1, <2>2, <3>1
      <4>2. eventsZst = Gone
        BY <1>0, <4>1 DEF CallInv
      <4>3. Stored \subseteq Stored'
        BY <1>1, <1>3, <2>1, <4>2 DEF Stored, Gone
      <4> QED BY <1>1, <4>3 DEF Somewhere, connVars
    <3> QED BY <1>0, <1>1, <2>2, <3>1, AccountedKept DEF connVars
  <2> QED BY <2>2, <2>3, <2>4, <2>5, <2>6 DEF RecordingInv
<1> QED BY <1>2, <1>3

\* What is removed is what was compressed.
LEMMA RemoveKeeps ==
  ASSUME RecordingInv, NEW q \in Calls, RemoveUncompressed(q)
  PROVE  RecordingInv'
<1>0. OrderInv /\ CallType /\ CallInv /\ AccountedInv /\ PlayInv
  BY DEF RecordingInv
<1>1. /\ request[q] = "remove" /\ eventsBin' = Gone /\ request' = [request EXCEPT ![q] = "finish"]
      /\ UNCHANGED <<connVars, sessions, objects, eventsZst, status>>
  BY DEF RemoveUncompressed
<1>2. /\ OrderInv' /\ (Quiet' => Quiet) /\ (Deleted => Deleted') /\ request'[q] = "finish"
      /\ request' \in [Calls -> {"idle", "compress", "remove", "finish", "over", "deleted"}]
      /\ \A p \in Calls : p # q => request'[p] = request[p] /\ (Quiet' => request'[p] = "idle")
  <2>1. PICK next \in {"compress", "remove", "finish", "over", "deleted"} : next = "finish"
    OBVIOUS
  <2> QED BY <1>1, <2>1, RequestMoves
<1>3. CallType'
  BY <1>0, <1>1, <1>2 DEF CallType
<1>4. CallInv'
  <2>1. Quiet => sessions # 0 /\ ~objects[sessions]
    BY <1>0, <1>1 DEF CallInv
  <2> QED BY <1>1, <1>2, <2>1 DEF CallInv
<1>5. PlayInv'
  <2>1. ~Deleted => eventsZst # Gone
    BY <1>0, <1>1 DEF PlayInv
  <2> QED BY <1>1, <1>2, <2>1 DEF PlayInv, Gone
<1>6. AccountedInv'
  <2>1. ASSUME Quiet', NEW e PROVE Somewhere(e) => Somewhere(e)'
    <3>1. Quiet /\ eventsZst = eventsBin
      BY <1>0, <1>1, <1>2, <2>1 DEF CallInv
    <3>2. Stored \subseteq Stored'
      BY <1>1, <3>1 DEF Stored, Gone
    <3> QED BY <1>1, <3>2 DEF Somewhere, connVars
  <2> QED BY <1>0, <1>1, <1>2, <2>1, AccountedKept DEF connVars
<1> QED BY <1>2, <1>3, <1>4, <1>5, <1>6 DEF RecordingInv

LEMMA FinishKeeps ==
  ASSUME RecordingInv, NEW q \in Calls, FinishFinalize(q)
  PROVE  RecordingInv'
<1>0. OrderInv /\ CallType /\ CallInv /\ AccountedInv /\ PlayInv
  BY DEF RecordingInv
<1>1. /\ request[q] = "finish" /\ request' = [request EXCEPT ![q] = "over"] /\ sessions' \in {sessions, 0}
      /\ UNCHANGED <<connVars, objects, eventsBin, eventsZst>>
  BY DEF FinishFinalize
<1>2. /\ OrderInv' /\ (Quiet' => Quiet) /\ (Deleted => Deleted') /\ request'[q] = "over"
      /\ request' \in [Calls -> {"idle", "compress", "remove", "finish", "over", "deleted"}]
      /\ \A p \in Calls : p # q => request'[p] = request[p] /\ (Quiet' => request'[p] = "idle")
  <2>1. PICK next \in {"compress", "remove", "finish", "over", "deleted"} : next = "over"
    OBVIOUS
  <2> QED BY <1>1, <2>1, RequestMoves
<1>3. CallType'
  BY <1>0, <1>1, <1>2 DEF CallType
<1>4. CallInv'
  BY <1>2 DEF CallInv
<1>5. PlayInv'
  <2>1. ~Deleted => eventsZst # Gone
    BY <1>0, <1>1 DEF PlayInv
  <2> QED BY <1>1, <1>2, <2>1 DEF PlayInv, Gone
<1>6. AccountedInv'
  <2>1. ASSUME NEW e PROVE Somewhere(e) => Somewhere(e)'
    BY <1>1 DEF Somewhere, connVars, Stored, Gone
  <2> QED BY <1>0, <1>1, <1>2, <2>1, AccountedKept DEF connVars
<1> QED BY <1>2, <1>3, <1>4, <1>5, <1>6 DEF RecordingInv

LEMMA DeleteKeeps ==
  ASSUME RecordingInv, NEW q \in Calls, DeleteSession(q)
  PROVE  RecordingInv'
<1>0. CallType
  BY DEF RecordingInv
<1>1. /\ request[q] = "idle" /\ sessions' = 0 /\ eventsBin' = Gone /\ eventsZst' = Gone
      /\ objects' = (IF sessions = 0 THEN objects ELSE [objects EXCEPT ![sessions] = FALSE])
      /\ request' = [request EXCEPT ![q] = "deleted"] /\ UNCHANGED connVars
  BY DEF DeleteSession
<1>2. /\ OrderInv' /\ Deleted'
      /\ request' \in [Calls -> {"idle", "compress", "remove", "finish", "over", "deleted"}]
  <2>1. PICK next \in {"compress", "remove", "finish", "over", "deleted"} : next = "deleted"
    OBVIOUS
  <2> QED BY <1>1, <2>1, RequestMoves
<1>3. CallType'
  <2>0. objects \in Seq(BOOLEAN) /\ sessions \in 0..Len(objects) /\ Len(objects) \in Nat
    BY <1>0 DEF CallType
  <2>1. CASE sessions = 0
    BY <1>1, <1>2, <2>0, <2>1 DEF CallType
  <2>2. CASE sessions # 0
    <3>1. sessions \in 1..Len(objects)
      BY <2>0, <2>2
    <3>2. [objects EXCEPT ![sessions] = FALSE] \in Seq(BOOLEAN) /\ Len([objects EXCEPT ![sessions] = FALSE]) = Len(objects)
      BY <2>0, <3>1
    <3> QED BY <1>1, <1>2, <2>0, <2>2, <3>2 DEF CallType
  <2> QED BY <2>1, <2>2
<1> QED BY <1>2, <1>3 DEF RecordingInv, CallInv, AccountedInv, PlayInv, Quiet

LEMMA RecordingInvHolds == RecordingSpec => []RecordingInv
<1>1. RecordingInit => RecordingInv
  <2> SUFFICES ASSUME RecordingInit PROVE RecordingInv
    OBVIOUS
  <2>0. <<>> \in Seq(Nat) /\ <<>> \in Seq(Conns) /\ <<>> \in Seq(BOOLEAN) /\ Gone \in Seq(Nat) /\ Len(<<>>) = 0
    BY DEF Gone
  <2>1. QueueType
    BY <2>0 DEF QueueType, RecordingInit
  <2>2. \A c \in Conns : QueueInv(c)
    BY SetOfEmpty DEF QueueInv, RecordingInit
  <2>3. BinInv /\ ZstInv /\ RecordedInOrder
    BY DEF BinInv, ZstInv, RecordedInOrder, RecordingInit
  <2>4. CallType
    BY <2>0 DEF CallType, RecordingInit
  <2>5. CallInv /\ PlayInv
    BY DEF CallInv, PlayInv, RecordingInit
  <2>6. AccountedInv
    BY DEF AccountedInv, RecordingInit
  <2> QED BY <2>1, <2>2, <2>3, <2>4, <2>5, <2>6 DEF RecordingInv, OrderInv
<1>2. RecordingInv /\ [RecordingNext]_recordingVars => RecordingInv'
  <2> SUFFICES ASSUME RecordingInv, [RecordingNext]_recordingVars PROVE RecordingInv'
    OBVIOUS
  <2>1. ASSUME NEW c \in Conns, Accept(c) \/ ReadEvents(c) \/ ReaderEnds(c) \/ ConnectionStep(c) PROVE RecordingInv'
    BY <2>1, ConnectionKeeps
  <2>2. ASSUME NEW q \in Calls, Finalize(q) \/ CompressFile(q) \/ RemoveUncompressed(q) \/ FinishFinalize(q) \/ DeleteSession(q)
        PROVE  RecordingInv'
    BY <2>2, FinalizeKeeps, CompressKeeps, RemoveKeeps, FinishKeeps, DeleteKeeps
  <2>3. CASE Stop
    BY <2>3, NothingMoves DEF Stop
  <2>4. CASE UNCHANGED recordingVars
    BY <2>4, NothingMoves DEF recordingVars, connVars
  <2> QED BY <2>1, <2>2, <2>3, <2>4 DEF RecordingNext
<1> QED BY <1>1, <1>2, PTL DEF RecordingSpec

(***************************************************************************)
(* A recording is faithful, for every number of connections, events and    *)
(* requests and every size of channels and batches: no event is in it      *)
(* twice or out of the order of its connection; while at most one finalize *)
(* and no delete was asked for, every event that was read is stored, on    *)
(* its way or counted as missed; and a completed recording that was not    *)
(* deleted has its compressed file (Receiver, LocalStorage.Write and       *)
(* Finalize).                                                              *)
(***************************************************************************)
THEOREM RecordingStaysFaithful == RecordingSpec => []RecordingIsFaithful
<1>1. RecordingInv => RecordingIsFaithful
  <2> SUFFICES ASSUME RecordingInv PROVE RecordingIsFaithful
    OBVIOUS
  <2>1. RecordedInOrder /\ CompletedCanBePlayed
    BY DEF RecordingInv, OrderInv, PlayInv, CompletedCanBePlayed
  <2>2. EventsAccounted
    <3> DEFINE S == {q \in Calls : request[q] # "idle"}
    <3>0. SUFFICES ASSUME ~Deleted, Cardinality({q \in Calls : request[q] # "idle"}) <= 1
                   PROVE  \A e \in 1..sentEvents : Somewhere(e)
      <4>1. ~Deleted /\ Cardinality({q \in Calls : request[q] # "idle"}) <= 1 => \A e \in 1..sentEvents : Somewhere(e)
        BY <3>0
      <4> QED BY <4>1 DEF EventsAccounted, Somewhere
    <3>1. ~Deleted /\ Cardinality(S) <= 1
      BY <3>0
    <3>2. ASSUME NEW p \in Calls, NEW q \in Calls, request[p] # "idle", request[q] # "idle", p # q PROVE FALSE
      <4>0. S \in SUBSET Calls
        OBVIOUS
      <4>1. IsFiniteSet(S)
        BY <4>0, RecordingAssumption, FS_Subset
      <4>2. {p, q} \subseteq S
        BY <3>2
      <4>3. IsFiniteSet({p}) /\ Cardinality({p}) = 1
        BY FS_Singleton
      <4>4. q \notin {p} /\ {p} \union {q} = {p, q}
        BY <3>2
      <4>5. Cardinality({p, q}) = 2
        BY <4>3, <4>4, FS_AddElement
      <4>6. Cardinality({p, q}) <= Cardinality(S) /\ Cardinality(S) \in Nat
        BY <4>1, <4>2, FS_Subset, FS_CardinalityType
      <4> QED BY <3>1, <4>5, <4>6
    <3>3. Quiet
      BY <3>1, <3>2 DEF Quiet
    <3> QED BY <3>3 DEF RecordingInv, AccountedInv
  <2> QED BY <2>1, <2>2 DEF RecordingIsFaithful
<1> QED BY <1>1, RecordingInvHolds, PTL
=============================================================================
