----------------------------- MODULE HostProofs -----------------------------
(***************************************************************************)
(* Proofs about the identity of a VM (Svid): the file holds the SVID of    *)
(* the manager and only while it is valid, and one failure costs no        *)
(* identity, for every lifetime, refresh time and retry interval; and      *)
(* about the host network (NetworkRules): policies are enforced and set-up *)
(* is all or nothing, for any number of VMs, rules, forwards and faults.   *)
(***************************************************************************)
EXTENDS Svid, NetworkRules, WellFoundedInduction, TLAPS

SvidSpec == SvidInit /\ [][SvidNext]_svidVars

-----------------------------------------------------------------------------
(* The inductive invariant                                                 *)

SvidType ==
  /\ clock \in Nat \ {0} /\ document \in Nat /\ held \in Nat /\ answer \in Nat /\ wake \in Nat
  /\ trouble \in Nat /\ svidFaults \in Nat
  /\ manager \in {"idle", "fetch", "write", "sleep", "stopped", "refused"}
  /\ starting \in BOOLEAN /\ cancelled \in BOOLEAN /\ undeletable \in BOOLEAN

\* The loop of the manager runs.
Running == manager \in {"fetch", "write", "sleep"} /\ ~starting

\* Nothing happens before Start.
StartInv == manager = "idle" => starting

\* What the manager holds was issued by now.
HeldInv == (starting => held = 0) /\ held <= clock + TTL /\ held <= CAEnd

\* What is about to be written was issued now, so it is no older than what it replaces.
WriteInv ==
  manager = "write" => answer = Issued /\ answer > clock + RefreshBefore /\ (held = 0 \/ held > clock)

\* A document in the file is looked after: the manager knows of it, and sleeps no longer
\* than it is valid.
LookedAfterInv ==
  Running /\ document # 0 /\ ~undeletable =>
    held # 0 /\ document >= clock /\ (manager = "sleep" => wake <= document)

DocumentInv == SvidType /\ StartInv /\ HeldInv /\ WriteInv /\ CurrentIsOnDisk /\ LookedAfterInv

\* With one failure or delay at most the SVID is valid; with none there is still time for one.
SpareInv ==
  Running /\ ~cancelled /\ trouble <= 1 =>
    /\ clock < held
    /\ manager = "sleep" => clock <= wake /\ wake < held /\ (trouble = 0 => wake + RefreshBefore <= held)
    /\ manager # "sleep" /\ trouble = 0 => clock + RefreshBefore <= held

-----------------------------------------------------------------------------
LEMMA LeastFact ==
  ASSUME NEW a \in Nat, NEW b \in Nat
  PROVE  Least(a, b) \in Nat /\ Least(a, b) <= a /\ Least(a, b) <= b /\ Least(a, b) \in {a, b}
BY DEF Least

LEMMA IssuedType ==
  ASSUME SvidType
  PROVE  Issued \in Nat /\ Issued <= clock + TTL /\ Issued <= CAEnd
         /\ \A h \in Nat : h <= clock + TTL /\ h <= CAEnd => h <= Issued
BY SvidAssumption DEF SvidType, Issued, Least

\* The wait after a failure ends at the expiry, at the latest.
LEMMA FailureDelayFact ==
  ASSUME SvidType, NEW e \in Nat
  PROVE  /\ FailureDelay(e) \in Nat
         /\ e > clock => clock + FailureDelay(e) <= e
         /\ FailureDelay(e) <= RetryInterval
BY SvidAssumption DEF SvidType, FailureDelay, Least

LEMMA RefreshDelayFact ==
  ASSUME SvidType, NEW e \in Nat, e > clock + RefreshBefore
  PROVE  clock + RefreshDelay(e) = e - RefreshBefore /\ e - RefreshBefore \in Nat
BY SvidAssumption DEF SvidType, RefreshDelay

-----------------------------------------------------------------------------
(* What a failed attempt leaves                                            *)

LEMMA FailsType ==
  ASSUME SvidType, NEW d \in Nat, NEW n \in {0, 1}, AttemptFails(d, n),
         UNCHANGED <<clock, starting, cancelled>>, answer' \in Nat
  PROVE  SvidType'
<1> USE DEF SvidType
<1>1. PICK removal \in {"done", "unsynced", "failed"} :
        /\ svidFaults' = svidFaults + n + (IF removal = "done" THEN 0 ELSE 1)
        /\ trouble' = trouble + 1
        /\ IF starting \/ ~Expired(held)
           THEN document' = d /\ UNCHANGED <<held, undeletable>>
           ELSE /\ document' = IF removal = "failed" THEN d ELSE 0
                /\ held' = IF removal = "done" THEN 0 ELSE held
                /\ undeletable' = (removal = "failed")
        /\ IF starting THEN manager' = "refused" /\ UNCHANGED wake
           ELSE /\ manager' = IF cancelled THEN "stopped" ELSE "sleep"
                /\ wake' = clock + FailureDelay(held')
  BY DEF AttemptFails
<1>b. undeletable' \in BOOLEAN
  <2>1. CASE starting \/ ~Expired(held)
    BY <1>1, <2>1
  <2>2. CASE ~(starting \/ ~Expired(held))
    <3>1. undeletable' = (removal = "failed")
      BY <1>1, <2>2, Zenon
    <3> QED BY <3>1, Zenon
  <2> QED BY <2>1, <2>2
<1>2. held' \in Nat /\ document' \in Nat
  BY <1>1
<1>3. wake' \in Nat
  BY <1>1, <1>2, FailureDelayFact
<1>4. svidFaults' \in Nat /\ trouble' \in Nat
  BY <1>1
<1> QED BY <1>1, <1>b, <1>2, <1>3, <1>4

\* The effect of a failed attempt: at startup the manager ends; later it keeps an SVID that is
\* valid and drops one that is not, or notes that it could not.
LEMMA FailsEffect ==
  ASSUME SvidType, NEW d, NEW n, AttemptFails(d, n)
  PROVE  /\ starting => manager' = "refused" /\ held' = held /\ document' = d
         /\ ~starting => /\ manager' \in {"sleep", "stopped"} /\ (manager' = "sleep" => ~cancelled)
                         /\ wake' = clock + FailureDelay(held')
         /\ ~starting /\ held > clock => held' = held /\ document' = d
         /\ ~starting /\ held <= clock => held' \in {0, held} /\ (document' = 0 \/ undeletable')
         /\ trouble' = trouble + 1
<1>1. PICK removal \in {"done", "unsynced", "failed"} :
        /\ trouble' = trouble + 1
        /\ IF starting \/ ~Expired(held)
           THEN document' = d /\ UNCHANGED <<held, undeletable>>
           ELSE /\ document' = IF removal = "failed" THEN d ELSE 0
                /\ held' = IF removal = "done" THEN 0 ELSE held
                /\ undeletable' = (removal = "failed")
        /\ IF starting THEN manager' = "refused" /\ UNCHANGED wake
           ELSE /\ manager' = IF cancelled THEN "stopped" ELSE "sleep"
                /\ wake' = clock + FailureDelay(held')
  BY DEF AttemptFails
<1>2. CASE starting
  BY <1>1, <1>2
<1>3. CASE ~starting /\ held > clock
  BY <1>1, <1>3 DEF Expired, SvidType
<1>4. CASE ~starting /\ held <= clock
  <2>1. /\ document' = IF removal = "failed" THEN d ELSE 0
        /\ held' = IF removal = "done" THEN 0 ELSE held
        /\ undeletable' = (removal = "failed")
    BY <1>1, <1>4, Zenon DEF Expired
  <2>2. document' = 0 \/ undeletable'
    BY <2>1, Zenon
  <2>3. ~(held > clock)
    BY <1>4 DEF SvidType
  <2> QED BY <1>1, <1>4, <2>1, <2>2, <2>3
<1> QED BY <1>2, <1>3, <1>4 DEF SvidType

LEMMA FailsKeepDocument ==
  ASSUME DocumentInv, NEW d \in Nat, NEW n \in {0, 1}, AttemptFails(d, n),
         held > clock => d >= held,
         UNCHANGED <<clock, starting, cancelled>>, answer' \in Nat
  PROVE  DocumentInv'
<1> USE DEF DocumentInv
<1>1. SvidType'
  BY FailsType
<1>e. /\ starting => manager' = "refused" /\ held' = held /\ document' = d
      /\ ~starting => /\ manager' \in {"sleep", "stopped"} /\ wake' = clock + FailureDelay(held')
      /\ ~starting /\ held > clock => held' = held /\ document' = d
      /\ ~starting /\ held <= clock => held' \in {0, held} /\ (document' = 0 \/ undeletable')
  BY FailsEffect
<1>h. held' \in {0, held}
  BY <1>e DEF SvidType
<1>s. StartInv'
  BY <1>e DEF StartInv, SvidType
<1>2. HeldInv'
  BY <1>e, <1>h, SvidAssumption DEF HeldInv, SvidType
<1>3. WriteInv'
  BY <1>e DEF WriteInv
<1>4. CurrentIsOnDisk'
  BY <1>e, <1>h DEF CurrentIsOnDisk, SvidType
<1>5. LookedAfterInv'
  <2> SUFFICES ASSUME Running', (document # 0)', (~undeletable)'
               PROVE  held' # 0 /\ document' >= clock /\ (manager' = "sleep" => wake' <= document')
    BY DEF LookedAfterInv
  <2>1. ~starting /\ held > clock
    BY <1>e DEF Running, SvidType
  <2>2. clock + FailureDelay(held) <= held
    BY <2>1, FailureDelayFact DEF SvidType
  <2>3. held' = held /\ document' = d /\ d >= held /\ wake' = clock + FailureDelay(held)
    BY <2>1, <1>e
  <2>4. clock + FailureDelay(held) \in Nat
    BY FailureDelayFact DEF SvidType
  <2> QED BY <2>1, <2>2, <2>3, <2>4 DEF SvidType
<1> QED BY <1>1, <1>s, <1>2, <1>3, <1>4, <1>5

-----------------------------------------------------------------------------
(* The document is current                                                 *)

LEMMA DocumentInvHolds == SvidSpec => []DocumentInv
<1>1. SvidInit => DocumentInv
  <2> SUFFICES ASSUME SvidInit PROVE DocumentInv
    OBVIOUS
  <2>1. SvidType
    <3>1. /\ clock = 1 /\ document \in {0, 2} /\ held = 0 /\ answer = 0 /\ wake = 0 /\ trouble = 0
          /\ svidFaults = 0 /\ manager = "idle"
      BY DEF SvidInit
    <3>2. starting \in BOOLEAN /\ cancelled \in BOOLEAN /\ undeletable \in BOOLEAN
      BY Zenon DEF SvidInit
    <3> QED BY <3>1, <3>2 DEF SvidType
  <2>2. StartInv /\ HeldInv /\ WriteInv /\ CurrentIsOnDisk /\ LookedAfterInv
    BY SvidAssumption DEF SvidInit, StartInv, HeldInv, WriteInv, CurrentIsOnDisk, LookedAfterInv, Running
  <2> QED BY <2>1, <2>2 DEF DocumentInv
<1>2. DocumentInv /\ [SvidNext]_svidVars => DocumentInv'
  <2> SUFFICES ASSUME DocumentInv, [SvidNext]_svidVars
               PROVE  DocumentInv'
    OBVIOUS
  <2> USE DEF DocumentInv
  <2>d. held > clock => document >= held
    BY DEF CurrentIsOnDisk
  <2>1. CASE Start
    <3>1. starting
      BY <2>1 DEF Start, StartInv
    <3> QED BY <2>1, <3>1 DEF Start, SvidType, StartInv, HeldInv, WriteInv, CurrentIsOnDisk, LookedAfterInv, Running
  <2>2. CASE Wake
    <3>1. CASE held # 0 /\ Expired(held)
      <4>1. AttemptFails(document, 0) /\ UNCHANGED <<clock, starting, cancelled, answer>>
        BY <2>2, <3>1 DEF Wake
      <4> QED BY <4>1, <2>d, FailsKeepDocument DEF SvidType
    <3>2. CASE ~(held # 0 /\ Expired(held))
      BY <2>2, <3>2 DEF Wake, SvidType, StartInv, HeldInv, WriteInv, CurrentIsOnDisk, LookedAfterInv, Running
    <3> QED BY <3>1, <3>2
  <2>3. CASE FetchSVID
    <3>1. Issued \in Nat
      BY IssuedType
    <3>2. CASE Issued > clock + RefreshBefore
      BY <2>3, <3>1, <3>2 DEF FetchSVID, SvidType, StartInv, HeldInv, WriteInv, CurrentIsOnDisk, LookedAfterInv, Running, Issued
    <3>3. CASE ~(Issued > clock + RefreshBefore)
      <4>1. AttemptFails(document, 0) /\ UNCHANGED <<clock, starting, cancelled>> /\ answer' = Issued
        BY <2>3, <3>3 DEF FetchSVID
      <4> QED BY <4>1, <3>1, <2>d, FailsKeepDocument DEF SvidType
    <3> QED BY <3>2, <3>3
  <2>4. CASE FetchFails
    <3>1. AttemptFails(document, 1) /\ UNCHANGED <<clock, starting, cancelled, answer>>
      BY <2>4 DEF FetchFails
    <3> QED BY <3>1, <2>d, FailsKeepDocument DEF SvidType
  <2>5. CASE FetchEnds
    <3>1. AttemptFails(document, 0) /\ UNCHANGED <<clock, starting, cancelled, answer>>
      BY <2>5 DEF FetchEnds
    <3> QED BY <3>1, <2>d, FailsKeepDocument DEF SvidType
  <2>6. CASE WriteDocument
    <3>1. /\ answer > clock + RefreshBefore /\ answer <= clock + TTL /\ answer <= CAEnd
          /\ UNCHANGED <<clock, answer, cancelled, trouble, svidFaults>>
          /\ document' = answer /\ held' = answer /\ undeletable' = FALSE /\ starting' = FALSE
          /\ manager' \in {"stopped", "sleep"}
      BY <2>6, IssuedType DEF WriteDocument, WriteInv
    <3>2. wake' = answer - RefreshBefore /\ wake' \in Nat
      BY <2>6, <3>1, RefreshDelayFact DEF WriteDocument, SvidType
    <3>0. SvidType'
      BY <3>1, <3>2, ZenonT(30) DEF SvidType
    <3>3. StartInv' /\ HeldInv' /\ WriteInv' /\ CurrentIsOnDisk'
      BY <3>1, <3>2 DEF SvidType, StartInv, HeldInv, WriteInv, CurrentIsOnDisk
    <3>4. LookedAfterInv'
      BY <3>1, <3>2, SvidAssumption DEF SvidType, LookedAfterInv, Running
    <3> QED BY <3>0, <3>3, <3>4
  <2>7. CASE WriteDocumentFails
    <3>1. PICK d \in {document, answer} : AttemptFails(d, 1)
      BY <2>7 DEF WriteDocumentFails
    <3>2. held > clock => d >= held
      <4>1. answer >= held
        BY <2>7, IssuedType DEF WriteDocumentFails, WriteInv, HeldInv, SvidType
      <4> QED BY <4>1, <2>d
    <3> QED BY <2>7, <3>1, <3>2, FailsKeepDocument DEF SvidType, WriteDocumentFails
  <2>8. CASE StopManager
    BY <2>8 DEF StopManager, SvidType, StartInv, HeldInv, WriteInv, CurrentIsOnDisk, LookedAfterInv, Running, Issued
  <2>9. CASE Tick
    <3>1. clock' = clock + 1 /\ trouble' \in Nat /\ manager # "write"
      BY <2>9 DEF Tick, Due, SvidType
    <3>2. SvidType' /\ StartInv' /\ HeldInv' /\ WriteInv' /\ CurrentIsOnDisk'
      BY <2>9, <3>1, SvidAssumption DEF Tick, SvidType, StartInv, HeldInv, WriteInv, CurrentIsOnDisk
    <3>3. LookedAfterInv'
      BY <2>9, <3>1 DEF Tick, Due, LookedAfterInv, Running, CurrentIsOnDisk, SvidType
    <3> QED BY <3>2, <3>3
  <2>10. CASE UNCHANGED svidVars
    BY <2>10 DEF svidVars, SvidType, StartInv, HeldInv, WriteInv, CurrentIsOnDisk, LookedAfterInv, Running, Issued
  <2> QED BY <2>1, <2>2, <2>3, <2>4, <2>5, <2>6, <2>7, <2>8, <2>9, <2>10 DEF SvidNext
<1> QED BY <1>1, <1>2, PTL DEF SvidSpec

(***************************************************************************)
(* For every lifetime, refresh time and retry interval, and any number of  *)
(* failing fetches, writes and removals: an expired document does not stay *)
(* in the file while the manager runs, unless it cannot be removed, and a  *)
(* valid SVID that Current returns is in the file (run, rotateOnce,        *)
(* invalidate, writeDocument).                                             *)
(***************************************************************************)
THEOREM DocumentStaysCurrent == SvidSpec => []DocumentIsCurrent
<1>1. DocumentInv => DocumentIsCurrent
  BY DEF DocumentInv, LookedAfterInv, DocumentIsCurrent, ExpiredIsRemoved, Running
<1> QED BY <1>1, DocumentInvHolds, PTL

-----------------------------------------------------------------------------
(* One failure costs no identity                                           *)

LEMMA FailsKeepSpare ==
  ASSUME DocumentInv, SpareInv, RetryInterval < RefreshBefore, manager \in {"fetch", "write", "sleep"},
         manager = "sleep" => clock = wake,
         NEW d, NEW n, AttemptFails(d, n), UNCHANGED <<clock, starting, cancelled>>
  PROVE  SpareInv'
<1> SUFFICES ASSUME Running', (~cancelled)', trouble' <= 1
             PROVE  clock < held' /\ (manager' = "sleep" => clock <= wake' /\ wake' < held') /\ manager' = "sleep"
                    /\ trouble' # 0
  BY DEF SpareInv
<1>1. ~starting /\ manager' \in {"sleep", "stopped"} /\ wake' = clock + FailureDelay(held') /\ trouble' = trouble + 1
      /\ (held > clock => held' = held)
  BY FailsEffect DEF Running, DocumentInv
<1>2. trouble = 0 /\ trouble' # 0 /\ manager' = "sleep"
  BY <1>1 DEF DocumentInv, SvidType, Running
<1>3. clock < held /\ clock + RefreshBefore <= held
  <2>1. Running /\ ~cancelled /\ trouble <= 1
    BY <1>1, <1>2 DEF Running
  <2> QED BY <2>1, <1>2 DEF SpareInv, DocumentInv, SvidType
<1>4. held' = held /\ wake' = clock + FailureDelay(held)
  BY <1>1, <1>3 DEF DocumentInv, SvidType
<1>5. FailureDelay(held) \in Nat /\ FailureDelay(held) <= RetryInterval
  BY FailureDelayFact DEF DocumentInv, SvidType
<1>6. clock <= wake' /\ wake' < held
  BY <1>3, <1>4, <1>5, SvidAssumption DEF DocumentInv, SvidType
<1> QED BY <1>2, <1>3, <1>4, <1>6

LEMMA SpareStep ==
  ASSUME DocumentInv, SpareInv, RetryInterval < RefreshBefore, [SvidNext]_svidVars
  PROVE  SpareInv'
<1> USE DEF DocumentInv
<1>1. CASE Start
  BY <1>1 DEF Start, SpareInv, Running, StartInv
<1>2. CASE Wake
  <2>1. CASE trouble > 1 \/ cancelled \/ ~Running
    <3>1. trouble' \in Nat /\ trouble' >= trouble /\ cancelled' = cancelled /\ starting' = starting
      BY <1>2, FailsEffect DEF Wake, SvidType
    <3> QED BY <1>2, <2>1, <3>1 DEF Wake, SpareInv, Running, SvidType
  <2>2. CASE ~(trouble > 1 \/ cancelled \/ ~Running)
    <3>1. clock = wake /\ clock < held
      BY <1>2, <2>2 DEF Wake, SpareInv, SvidType
    <3>2. ~Expired(held)
      BY <3>1 DEF Expired, SvidType
    <3>3. manager' = "fetch" /\ UNCHANGED <<clock, starting, cancelled, held, trouble>>
      BY <1>2, <3>2 DEF Wake
    <3> QED BY <1>2, <2>2, <3>1, <3>3 DEF SpareInv, Running, Wake, SvidType
  <2> QED BY <2>1, <2>2
<1>3. CASE FetchSVID
  <2>1. CASE Issued > clock + RefreshBefore
    BY <1>3, <2>1 DEF FetchSVID, SpareInv, Running
  <2>2. CASE ~(Issued > clock + RefreshBefore)
    <3>1. AttemptFails(document, 0) /\ UNCHANGED <<clock, starting, cancelled>> /\ manager = "fetch"
      BY <1>3, <2>2 DEF FetchSVID
    <3> QED BY <3>1, FailsKeepSpare
  <2> QED BY <2>1, <2>2
<1>4. CASE FetchFails \/ FetchEnds
  <2>1. PICK n \in {0, 1} : AttemptFails(document, n)
    BY <1>4 DEF FetchFails, FetchEnds
  <2> QED BY <1>4, <2>1, FailsKeepSpare DEF FetchFails, FetchEnds
<1>5. CASE WriteDocument
  <2>1. answer > clock + RefreshBefore
    BY <1>5 DEF WriteDocument, WriteInv
  <2>2. wake' = answer - RefreshBefore
    BY <1>5, <2>1, RefreshDelayFact DEF WriteDocument, SvidType
  <2>3. clock' = clock /\ held' = answer /\ manager' \in {"stopped", "sleep"}
    BY <1>5 DEF WriteDocument
  <2> QED BY <2>1, <2>2, <2>3, SvidAssumption DEF SpareInv, Running, SvidType
<1>6. CASE WriteDocumentFails
  <2>1. PICK d \in {document, answer} : AttemptFails(d, 1)
    BY <1>6 DEF WriteDocumentFails
  <2> QED BY <1>6, <2>1, FailsKeepSpare DEF WriteDocumentFails
<1>7. CASE StopManager
  BY <1>7 DEF StopManager, SpareInv
<1>8. CASE Tick
  <2>1. clock' = clock + 1 /\ manager # "write" /\ UNCHANGED <<manager, starting, held, wake, cancelled>>
        /\ (manager = "sleep" => clock < wake /\ trouble' = trouble)
        /\ (manager = "fetch" => trouble' = trouble + 1)
    BY <1>8 DEF Tick, Due, SvidType
  <2>2. CASE manager = "sleep"
    BY <2>1, <2>2 DEF SpareInv, Running, SvidType
  <2>3. CASE manager = "fetch"
    BY <2>1, <2>3, SvidAssumption DEF SpareInv, Running, SvidType
  <2> QED BY <2>1, <2>2, <2>3 DEF SpareInv, Running
<1>9. CASE UNCHANGED svidVars
  BY <1>9 DEF svidVars, SpareInv, Running
<1> QED BY <1>1, <1>2, <1>3, <1>4, <1>5, <1>6, <1>7, <1>8, <1>9 DEF SvidNext

(***************************************************************************)
(* If a retry comes sooner than the SVID is rotated ahead of its expiry,   *)
(* which is so for the default RetryInterval of a third of RefreshBefore,  *)
(* one failed attempt or one unit of delay costs no identity: from the end *)
(* of Start until it is cancelled the manager keeps a valid SVID in the    *)
(* file (run, refreshDelay, failureDelay).                                 *)
(***************************************************************************)
THEOREM IdentitySurvives ==
  ASSUME RetryInterval < RefreshBefore
  PROVE  SvidSpec => []IdentitySurvivesOneFailure
<1>1. SvidInit => SpareInv
  BY DEF SvidInit, SpareInv, Running
<1>2. DocumentInv /\ SpareInv /\ [SvidNext]_svidVars => SpareInv'
  BY SpareStep
<1>3. DocumentInv /\ SpareInv => IdentitySurvivesOneFailure
  BY DEF DocumentInv, SpareInv, CurrentIsOnDisk, IdentitySurvivesOneFailure, Running, SvidType
<1> QED BY <1>1, <1>2, <1>3, DocumentInvHolds, PTL DEF SvidSpec

-----------------------------------------------------------------------------
(* The host network: the inductive invariant                               *)

\* The specification: what is proved is safety.
RulesSpec == RulesInit /\ [][RulesNext]_ruleVars

Entries == {<<"nat">>} \union {Jump(v, k) : v \in NetVMs, k \in {"bridge", "tap"}}
Words == Destinations \union {"dns", "proxy", "ACCEPT", "DROP", "no chain"}
Phases == {"none", "tap", "egress", "ready", "forward", "running", "gone"}

RulesType ==
  /\ policy \in [NetVMs -> Policies] /\ phase \in [NetVMs -> Phases] /\ at \in [NetVMs -> Nat] /\ tap \in [NetVMs -> Nat]
  /\ chain \in [NetVMs -> Seq(Words)] /\ forward \in Seq(Entries) /\ table \subseteq AllRules
  /\ exited \in [NetVMs -> BOOLEAN] /\ left \in BOOLEAN

\* How far the bridge and the NAT rules are.
HostInv ==
  /\ hostNet \in {"down", "bridge", "nat", "up"} /\ natRules \subseteq {1, 2, 3}
  /\ bridge \in 0 .. 4 /\ halfBridge \in BOOLEAN
  /\ hostNet = "bridge" => bridge \in {1, 2, 3}
  /\ hostNet = "down" /\ ~halfBridge => bridge \in {0, 4}
  /\ hostNet \in {"nat", "up"} /\ ~halfBridge => bridge = 4
  /\ hostNet = "up" => natRules = {1, 2, 3}

\* The address has one VM at a time.
Active(v) == phase[v] \notin {"none", "gone"}
AloneInv == \A v, w \in NetVMs : Active(v) /\ Active(w) => v = w

MadeReady == {"ready", "forward", "running"}

\* The jump with the device is the head of FORWARD before the chain has a rule.
HeadIs(v) == forward # <<>> /\ forward[1] = Jump(v, "tap")

EnforcedInv(v) ==
  /\ phase[v] = "egress" =>
       /\ at[v] >= 1 /\ at[v] <= Len(EgressRules(policy[v])) + 3
       /\ at[v] \in {2, 3} => chain[v] = <<>>
       /\ at[v] >= 4 => HeadIs(v) /\ chain[v] = SubSeq(EgressRules(policy[v]), 1, at[v] - 4)
  /\ phase[v] \in MadeReady /\ ~exited[v] => HeadIs(v) /\ chain[v] = EgressRules(policy[v])

\* Without a leftover: a VM that is not there has nothing, and no jump is there twice.
Once(s, e) == \A i, j \in DOMAIN s : s[i] = e /\ s[j] = e => i = j
Jumped(v) == \/ phase[v] = "egress" /\ at[v] >= 3
             \/ phase[v] \in MadeReady

CleanInv(v) ==
  /\ phase[v] \in {"none", "gone"} => tap[v] = 0
  /\ ~Jumped(v) /\ ~(phase[v] = "egress" /\ at[v] >= 2) => chain[v] = NoChain
  /\ \A k \in {"bridge", "tap"} :
       Once(forward, Jump(v, k)) /\ (Jump(v, k) \in ToSet(forward) => Jumped(v))

\* The PREROUTING rule of a forward stands for all its rules, except for the forward that
\* is being added.
First(f) == Rules(Forwards[f])[1]
BeingAdded(f) == \E v \in NetVMs : phase[v] = "forward" /\ RuleAt(v) > 1 /\ First(ForwardAt(v)) = First(f)

TableInv ==
  /\ (\A v \in NetVMs : phase[v] \notin MadeReady) => table \subseteq ForwardAccepts
  /\ \A f \in DOMAIN Forwards : First(f) \in table /\ ~BeingAdded(f) => ToSet(Rules(Forwards[f])) \subseteq table
  /\ \A v \in NetVMs :
       /\ phase[v] = "forward" =>
            /\ \A f \in 1 .. ForwardAt(v) - 1 : ToSet(Rules(Forwards[f])) \subseteq table
            /\ \A k \in 1 .. RuleAt(v) - 1 : Rules(Forwards[ForwardAt(v)])[k] \in table
       /\ phase[v] = "running" => AllRules \subseteq table

PlaceInv == \A v \in NetVMs : phase[v] = "forward" => at[v] \in 1 .. 5 * Len(Forwards)

NetInv ==
  /\ RulesType /\ HostInv /\ AloneInv /\ PlaceInv
  /\ \A v \in NetVMs : EnforcedInv(v)
  /\ ~left => (\A v \in NetVMs : CleanInv(v)) /\ TableInv

-----------------------------------------------------------------------------
(* The first of a set of places, and a sequence without an entry           *)

LEMMA LeastPlace ==
  ASSUME NEW S \in SUBSET Nat, S # {}
  PROVE  LET m == CHOOSE x \in S : \A y \in S : x <= y IN m \in S /\ \A y \in S : m <= y
<1>1. \E x \in S : \A y \in S : ~(<<y, x>> \in OpToRel(<, Nat))
  BY NatLessThanWellFounded, WFMin
<1>2. PICK x \in S : \A y \in S : ~(<<y, x>> \in OpToRel(<, Nat))
  BY <1>1
<1>3. ASSUME NEW y \in S PROVE x <= y
  <2>1. ~(y < x)
    BY <1>2 DEF OpToRel
  <2> QED BY <2>1
<1> QED BY <1>3

\* RemoveFirst takes one occurrence away and keeps the rest.
LEMMA RemoveFirstFacts ==
  ASSUME NEW E, NEW s \in Seq(E), NEW e
  PROVE  /\ RemoveFirst(s, e) \in Seq(E)
         /\ ToSet(RemoveFirst(s, e)) \subseteq ToSet(s)
         /\ Once(s, e) => e \notin ToSet(RemoveFirst(s, e))
         /\ \A j : Once(s, j) => Once(RemoveFirst(s, e), j)
<1>1. CASE ~\E i \in 1 .. Len(s) : s[i] = e
  <2>1. RemoveFirst(s, e) = s
    BY <1>1 DEF RemoveFirst
  <2> QED BY <1>1, <2>1 DEF ToSet
<1>2. CASE \E i \in 1 .. Len(s) : s[i] = e
  <2> DEFINE I == {i \in 1 .. Len(s) : s[i] = e}
             m == CHOOSE x \in I : \A y \in I : x <= y
             t == SubSeq(s, 1, m - 1) \o SubSeq(s, m + 1, Len(s))
  <2>1. RemoveFirst(s, e) = t
    BY <1>2 DEF RemoveFirst, RemoveAt, SelectInSeq, Min
  <2>2. m \in I
    <3>1. I \in SUBSET Nat /\ I # {}
      BY <1>2
    <3> HIDE DEF I
    <3> QED BY <3>1, LeastPlace
  <2>3. m \in 1 .. Len(s) /\ s[m] = e
    BY <2>2
  <2> HIDE DEF m
  <2> DEFINE a == SubSeq(s, 1, m - 1)
             b == SubSeq(s, m + 1, Len(s))
  <2>a. a \in Seq(E) /\ Len(a) = m - 1 /\ \A i \in 1 .. m - 1 : a[i] = s[i]
    BY <2>3
  <2>b. b \in Seq(E) /\ Len(b) = Len(s) - m /\ \A i \in 1 .. Len(s) - m : b[i] = s[i + m]
    BY <2>3
  <2>t. t = a \o b
    OBVIOUS
  <2> HIDE DEF t, a, b
  <2>4. t \in Seq(E) /\ Len(t) = Len(s) - 1
    BY <2>3, <2>a, <2>b, <2>t
  <2>5. \A i \in 1 .. Len(s) - 1 : t[i] = IF i < m THEN s[i] ELSE s[i + 1]
    <3> TAKE i \in 1 .. Len(s) - 1
    <3>1. CASE i < m
      BY <2>3, <2>a, <2>b, <2>t, <3>1
    <3>2. CASE i >= m
      <4>1. t[i] = b[i - (m - 1)]
        BY <2>3, <2>a, <2>b, <2>t, <3>2
      <4>2. i - (m - 1) \in 1 .. Len(s) - m
        BY <2>3, <3>2
      <4> QED BY <2>3, <2>b, <3>2, <4>1, <4>2
    <3> QED BY <2>3, <3>1, <3>2
  <2>6. DOMAIN t = 1 .. Len(s) - 1 /\ DOMAIN s = 1 .. Len(s)
    BY <2>4
  <2>7. ToSet(t) \subseteq ToSet(s)
    BY <2>5, <2>6 DEF ToSet
  <2>8. Once(s, e) => e \notin ToSet(t)
    BY <2>3, <2>5, <2>6 DEF ToSet, Once
  <2>9. \A j : Once(s, j) => Once(t, j)
    BY <2>3, <2>5, <2>6 DEF Once
  <2> QED BY <2>1, <2>4, <2>7, <2>8, <2>9
<1> QED BY <1>1, <1>2

-----------------------------------------------------------------------------
(* What the kernel does with a chain                                       *)

LEMMA RulesOfPolicy ==
  ASSUME NEW p \in Policies
  PROVE  \E r \in Seq(Words \ {"ACCEPT", "DROP"}), x \in {"ACCEPT", "DROP"} :
           /\ EgressRules(p) = r \o <<x>> /\ (x = "ACCEPT" <=> p.default = "allow")
           /\ \A d \in Destinations : d \in ToSet(r) <=>
                (p.dns /\ d = "dns") \/ (p.proxy /\ d = "proxy") \/ (~p.proxyOnly /\ d \in ToSet(p.rules))
<1> DEFINE W == Words \ {"ACCEPT", "DROP"}
           a == IF p.dns THEN <<"dns", "dns">> ELSE <<>>
           b == IF p.proxy THEN <<"proxy">> ELSE <<>>
           c == IF p.proxyOnly THEN <<>> ELSE p.rules
           x == IF p.default = "allow" THEN "ACCEPT" ELSE "DROP"
<1>1. p.dns \in BOOLEAN /\ p.proxy \in BOOLEAN /\ p.proxyOnly \in BOOLEAN /\ p.rules \in Seq(Destinations)
  BY RulesAssumption
<1>2. Destinations \subseteq W /\ "dns" \in W /\ "proxy" \in W
  BY RulesAssumption DEF Words
<1>3. a \in Seq(W) /\ ToSet(a) = (IF p.dns THEN {"dns"} ELSE {})
  <2>1. DOMAIN <<"dns", "dns">> = {1, 2} /\ DOMAIN << >> = {}
    OBVIOUS
  <2>2. CASE p.dns
    BY <1>2, <2>1, <2>2 DEF ToSet
  <2>3. CASE ~p.dns
    BY <1>2, <2>1, <2>3 DEF ToSet
  <2> QED BY <2>2, <2>3
<1>4. b \in Seq(W) /\ ToSet(b) = (IF p.proxy THEN {"proxy"} ELSE {})
  <2>1. DOMAIN <<"proxy">> = {1} /\ DOMAIN << >> = {}
    OBVIOUS
  <2>2. CASE p.proxy
    BY <1>2, <2>1, <2>2 DEF ToSet
  <2>3. CASE ~p.proxy
    BY <1>2, <2>1, <2>3 DEF ToSet
  <2> QED BY <2>2, <2>3
<1>5. c \in Seq(W) /\ ToSet(c) = (IF p.proxyOnly THEN {} ELSE ToSet(p.rules))
  BY <1>1, <1>2 DEF ToSet
<1>6. EgressRules(p) = a \o b \o c \o <<x>>
  BY DEF EgressRules
<1> HIDE DEF W, a, b, c
<1>7. a \o b \o c \in Seq(W) /\ ToSet(a \o b \o c) = ToSet(a) \union ToSet(b) \union ToSet(c)
  <2>1. \A s, t \in Seq(W) : s \o t \in Seq(W) /\ ToSet(s \o t) = ToSet(s) \union ToSet(t)
    <3> TAKE s, t \in Seq(W)
    <3>1. /\ s \o t \in Seq(W) /\ DOMAIN (s \o t) = 1 .. Len(s) + Len(t) /\ Len(s) \in Nat /\ Len(t) \in Nat
          /\ DOMAIN s = 1 .. Len(s) /\ DOMAIN t = 1 .. Len(t)
          /\ \A i \in 1 .. Len(s) : (s \o t)[i] = s[i]
          /\ \A i \in 1 .. Len(t) : (s \o t)[Len(s) + i] = t[i]
      OBVIOUS
    <3> DEFINE u == s \o t
    <3> HIDE DEF u
    <3>2. \A i \in 1 .. Len(s) + Len(t) : i \in 1 .. Len(s) \/ (i - Len(s) \in 1 .. Len(t) /\ i = Len(s) + (i - Len(s)))
      BY <3>1
    <3>3. ToSet(u) \subseteq ToSet(s) \union ToSet(t)
      BY <3>1, <3>2 DEF ToSet, u
    <3>4. ToSet(s) \subseteq ToSet(u)
      BY <3>1 DEF ToSet, u
    <3>5. ToSet(t) \subseteq ToSet(u)
      <4> SUFFICES ASSUME NEW i \in 1 .. Len(t) PROVE t[i] \in ToSet(u)
        BY <3>1 DEF ToSet
      <4>1. Len(s) + i \in DOMAIN u /\ u[Len(s) + i] = t[i]
        BY <3>1 DEF u
      <4> QED BY <4>1 DEF ToSet
    <3> QED BY <3>1, <3>3, <3>4, <3>5 DEF u
  <2>2. a \o b \in Seq(W) /\ ToSet(a \o b) = ToSet(a) \union ToSet(b)
    BY <2>1, <1>3, <1>4
  <2>3. (a \o b) \o c \in Seq(W) /\ ToSet((a \o b) \o c) = ToSet(a \o b) \union ToSet(c)
    BY <2>1, <2>2, <1>5
  <2> QED BY <2>2, <2>3
<1>8. \A d \in Destinations : d \in ToSet(a \o b \o c) <=>
        (p.dns /\ d = "dns") \/ (p.proxy /\ d = "proxy") \/ (~p.proxyOnly /\ d \in ToSet(p.rules))
  BY <1>3, <1>4, <1>5, <1>7
<1> DEFINE r == a \o b \o c
<1>9. r \in Seq(W) /\ EgressRules(p) = r \o <<x>> /\ x \in {"ACCEPT", "DROP"} /\ (x = "ACCEPT" <=> p.default = "allow")
  BY <1>6, <1>7
<1> HIDE DEF r, x
<1> QED BY <1>8, <1>9 DEF W, r

\* The chain of a VM has an answer for every packet: that of the policy.
LEMMA ChainIsPolicy ==
  ASSUME NEW p \in Policies, NEW d \in Destinations
  PROVE  ChainVerdict(EgressRules(p), d) = IF Allowed(p, d) THEN "ACCEPT" ELSE "DROP"
<1>1. PICK r \in Seq(Words \ {"ACCEPT", "DROP"}), x \in {"ACCEPT", "DROP"} :
           /\ EgressRules(p) = r \o <<x>> /\ (x = "ACCEPT" <=> p.default = "allow")
           /\ (d \in ToSet(r) <=>
                (p.dns /\ d = "dns") \/ (p.proxy /\ d = "proxy") \/ (~p.proxyOnly /\ d \in ToSet(p.rules)))
  BY RulesOfPolicy
<1> DEFINE c == r \o <<x>>
           n == Len(r) + 1
           hits == {i \in DOMAIN c : c[i] \in {d, "ACCEPT", "DROP"}}
           m == CHOOSE i \in hits : \A j \in hits : i <= j
<1>2. /\ Len(r) \in Nat /\ DOMAIN c = 1 .. n /\ c[n] = x /\ DOMAIN r = 1 .. Len(r)
      /\ \A i \in 1 .. Len(r) : c[i] = r[i] /\ r[i] \notin {"ACCEPT", "DROP"}
  OBVIOUS
<1>3. d \notin {"ACCEPT", "DROP"}
  BY RulesAssumption
<1>4. Allowed(p, d) <=> d \in ToSet(r) \/ x = "ACCEPT"
  BY <1>1 DEF Allowed
<1> HIDE DEF c
<1>5. hits \in SUBSET Nat /\ n \in hits
  BY <1>2
<1>6. m \in hits /\ \A j \in hits : m <= j
  <2> HIDE DEF hits
  <2> QED BY <1>5, LeastPlace
<1>7. ChainVerdict(c, d) = IF c[m] = "DROP" THEN "DROP" ELSE "ACCEPT"
  BY <1>5 DEF ChainVerdict
<1> HIDE DEF m
<1>8. CASE d \in ToSet(r)
  <2>1. PICK i \in 1 .. Len(r) : r[i] = d
    BY <1>2, <1>8 DEF ToSet
  <2>2. i \in hits
    BY <1>2, <2>1
  <2>3. m \in 1 .. Len(r)
    BY <1>2, <1>6, <2>2
  <2>4. c[m] # "DROP"
    BY <1>2, <2>3
  <2> QED BY <1>1, <1>4, <1>7, <1>8, <2>4 DEF c
<1>9. CASE d \notin ToSet(r)
  <2>1. \A i \in 1 .. Len(r) : i \notin hits
    BY <1>2, <1>9 DEF ToSet
  <2>2. m = n
    BY <1>2, <1>6, <2>1
  <2> QED BY <1>1, <1>2, <1>4, <1>7, <1>9, <2>2 DEF c
<1> QED BY <1>8, <1>9

\* With its jump at the head of FORWARD the chain decides.
LEMMA HeadDecides ==
  ASSUME RulesType, NEW v \in NetVMs, HeadIs(v), chain[v] = EgressRules(policy[v]), NEW d \in Destinations
  PROVE  Verdict(v, d) = IF Allowed(policy[v], d) THEN "ACCEPT" ELSE "DROP"
<1> DEFINE ans == IF Allowed(policy[v], d) THEN "ACCEPT" ELSE "DROP"
           said == {i \in DOMAIN forward : RuleVerdict(v, i, d) # "next"}
           m == CHOOSE i \in said : \A j \in said : i <= j
<1>1. ChainVerdict(chain[v], d) = ans
  <2>1. policy[v] \in Policies
    BY DEF RulesType
  <2> QED BY <2>1, ChainIsPolicy
<1>2. forward[1] = <<"tap", v>> /\ DOMAIN forward = 1 .. Len(forward) /\ Len(forward) \in Nat \ {0}
  BY DEF HeadIs, Jump, RulesType
<1>3. <<"tap", v>> # <<"nat">> /\ <<"tap", v>>[2] = v
  OBVIOUS
<1>4. RuleVerdict(v, 1, d) = ans
  BY <1>1, <1>2, <1>3 DEF RuleVerdict
<1>5. 1 \in said /\ said \in SUBSET Nat /\ \A j \in said : 1 <= j
  BY <1>2, <1>4
<1> HIDE DEF said, ans
<1>6. m \in said /\ \A j \in said : m <= j
  BY <1>5, LeastPlace
<1>7. Verdict(v, d) = RuleVerdict(v, m, d)
  BY <1>5 DEF Verdict, said
<1> HIDE DEF m
<1>8. m = 1
  BY <1>5, <1>6
<1> QED BY <1>4, <1>7, <1>8 DEF ans

-----------------------------------------------------------------------------
(* Places: which rule of which forward                                     *)

LEMMA PlaceOf ==
  ASSUME NEW a \in Nat \ {0}, NEW n \in Nat
  PROVE  LET f == ((a - 1) \div 5) + 1
             k == ((a - 1) % 5) + 1 IN
         /\ f \in Nat \ {0} /\ k \in 1 .. 5 /\ a = 5 * (f - 1) + k /\ (a \in 1 .. 5 * n => f \in 1 .. n)
OBVIOUS

LEMMA PlaceFacts ==
  ASSUME RulesType, PlaceInv, NEW v \in NetVMs, phase[v] = "forward"
  PROVE  /\ at[v] \in Nat \ {0} /\ at[v] \in 1 .. 5 * Len(Forwards) /\ Len(Forwards) \in Nat
         /\ ForwardAt(v) \in DOMAIN Forwards /\ ForwardAt(v) \in 1 .. Len(Forwards) /\ RuleAt(v) \in 1 .. 5
         /\ at[v] = 5 * (ForwardAt(v) - 1) + RuleAt(v) /\ DOMAIN Forwards = 1 .. Len(Forwards)
<1>1. at[v] \in 1 .. 5 * Len(Forwards) /\ Len(Forwards) \in Nat /\ DOMAIN Forwards = 1 .. Len(Forwards)
  BY RulesAssumption DEF PlaceInv
<1>2. at[v] \in Nat \ {0}
  BY <1>1
<1> QED BY <1>1, <1>2, PlaceOf DEF ForwardAt, RuleAt

LEMMA RulesFacts ==
  ASSUME NEW f \in DOMAIN Forwards, NEW k \in 1 .. 5
  PROVE  /\ Rules(Forwards[f])[k] \in AllRules /\ Rules(Forwards[f])[k] \in ToSet(Rules(Forwards[f]))
         /\ ToSet(Rules(Forwards[f])) = {Rules(Forwards[f])[i] : i \in 1 .. 5}
         /\ First(f) \in RemovedRules /\ First(f) \notin ForwardAccepts
         /\ \A g \in DOMAIN Forwards : Rules(Forwards[f])[k] = First(g) <=> k = 1 /\ First(f) = First(g)
         /\ \A g \in DOMAIN Forwards : First(f) = First(g) => Rules(Forwards[f]) = Rules(Forwards[g])
<1> DEFINE R == Rules(Forwards[f])
           h == Forwards[f].host
           p == Forwards[f].port
<1>1. DOMAIN R = 1 .. 5
  BY DEF Rules
<1>2. ToSet(R) = {R[i] : i \in 1 .. 5}
  BY <1>1 DEF ToSet
<1>3. R[k] \in ToSet(R)
  BY <1>2
<1>4. R[k] \in AllRules
  BY <1>3 DEF AllRules
<1>5. /\ R[1] = <<"PREROUTING", h, p>> /\ R[2] = <<"OUTPUT", h, p>>
      /\ R[3] = <<"FORWARD", p>> /\ R[4] = <<"MASQUERADE", p>> /\ R[5] = <<"SNAT", p>>
  BY DEF Rules
<1>6. First(f) = <<"PREROUTING", h, p>>
  BY <1>5 DEF First
<1>7. \A g \in DOMAIN Forwards : First(g) = <<"PREROUTING", Forwards[g].host, Forwards[g].port>>
  BY DEF First, Rules
<1>8. First(f) \notin ForwardAccepts
  <2>1. \A q : <<"PREROUTING", h, p>> # <<"FORWARD", q>>
    OBVIOUS
  <2> QED BY <1>6, <2>1 DEF ForwardAccepts
<1>9. First(f) \in AllRules
  <2>1. R[1] \in ToSet(R)
    BY <1>2
  <2> QED BY <2>1 DEF AllRules, First
<1>10. ASSUME NEW g \in DOMAIN Forwards PROVE R[k] = First(g) <=> k = 1 /\ First(f) = First(g)
  <2>1. k = 1 => R[k] = First(f)
    BY DEF First
  <2>2. k # 1 => R[k] # First(g)
    <3>1. k \in {2, 3, 4, 5} \/ k = 1
      OBVIOUS
    <3>2. \A y, z, q : <<"PREROUTING", y, z>> # <<"OUTPUT", h, p>> /\ <<"PREROUTING", y, z>> # <<q, p>>
      OBVIOUS
    <3> HIDE DEF R
    <3> QED BY <1>5, <1>7, <3>1, <3>2
  <2> QED BY <2>1, <2>2
<1>11. ASSUME NEW g \in DOMAIN Forwards, First(f) = First(g) PROVE R = Rules(Forwards[g])
  <2>1. h = Forwards[g].host /\ p = Forwards[g].port
    BY <1>6, <1>7, <1>11
  <2> QED BY <2>1 DEF Rules
<1> QED BY <1>2, <1>3, <1>4, <1>8, <1>9, <1>10, <1>11 DEF RemovedRules

-----------------------------------------------------------------------------
(* Types                                                                   *)

LEMMA RulesAreWords ==
  ASSUME NEW p \in Policies
  PROVE  EgressRules(p) \in Seq(Words) /\ Len(EgressRules(p)) \in Nat \ {0}
<1>1. PICK r \in Seq(Words \ {"ACCEPT", "DROP"}), x \in {"ACCEPT", "DROP"} : EgressRules(p) = r \o <<x>>
  BY RulesOfPolicy
<1>2. Words \ {"ACCEPT", "DROP"} \subseteq Words /\ x \in Words
  BY DEF Words
<1>3. r \in Seq(Words) /\ Len(r) \in Nat
  BY <1>2
<1>4. <<x>> \in Seq(Words) /\ Len(<<x>>) = 1
  BY <1>2
<1> QED BY <1>1, <1>3, <1>4

LEMMA WithoutFacts ==
  ASSUME forward \in Seq(Entries), NEW v, NEW keep
  PROVE  LET g == ForwardWithout(v, keep) IN
         /\ g \in Seq(Entries) /\ ToSet(g) \subseteq ToSet(forward)
         /\ \A j : Once(forward, j) => Once(g, j)
         /\ (keep = {} /\ Once(forward, Jump(v, "bridge")) /\ Once(forward, Jump(v, "tap"))) =>
              \A k \in {"bridge", "tap"} : Jump(v, k) \notin ToSet(g)
<1> DEFINE b == IF "bridge" \in keep THEN forward ELSE RemoveFirst(forward, Jump(v, "bridge"))
           g == IF "tap" \in keep THEN b ELSE RemoveFirst(b, Jump(v, "tap"))
<1>1. ForwardWithout(v, keep) = g
  BY DEF ForwardWithout
<1>2. /\ b \in Seq(Entries) /\ ToSet(b) \subseteq ToSet(forward) /\ (\A j : Once(forward, j) => Once(b, j))
      /\ keep = {} /\ Once(forward, Jump(v, "bridge")) => Jump(v, "bridge") \notin ToSet(b)
  BY RemoveFirstFacts
<1> HIDE DEF b
<1>3. /\ g \in Seq(Entries) /\ ToSet(g) \subseteq ToSet(b) /\ (\A j : Once(b, j) => Once(g, j))
      /\ keep = {} /\ Once(b, Jump(v, "tap")) => Jump(v, "tap") \notin ToSet(g)
  BY <1>2, RemoveFirstFacts
<1> HIDE DEF g
<1> QED BY <1>1, <1>2, <1>3

\* What a clean-up of the egress policy does, whatever cannot be deleted.
LEMMA CleanupFacts ==
  ASSUME RulesType, NEW v \in NetVMs, NEW n, CleanupEgressPolicy(v, n)
  PROVE  /\ forward' \in Seq(Entries) /\ chain' \in [NetVMs -> Seq(Words)] /\ left' \in BOOLEAN /\ (left => left')
         /\ \A w \in NetVMs : w # v => chain'[w] = chain[w]
         /\ ToSet(forward') \subseteq ToSet(forward) /\ \A j : Once(forward, j) => Once(forward', j)
         /\ (~left' /\ Once(forward, Jump(v, "bridge")) /\ Once(forward, Jump(v, "tap"))) =>
              /\ \A k \in {"bridge", "tap"} : Jump(v, k) \notin ToSet(forward')
              /\ chain'[v] = NoChain
<1>1. PICK keep \in SUBSET {"bridge", "tap", "chain"} :
        /\ (keep = {} /\ left' = left) \/ left' = TRUE
        /\ forward' = ForwardWithout(v, keep)
        /\ chain' = [chain EXCEPT ![v] =
                       IF @ = NoChain THEN NoChain
                       ELSE IF "chain" \in keep \/ \E k \in {"bridge", "tap"} :
                                 Jump(v, k) \in ToSet(ForwardWithout(v, keep)) THEN <<>>
                       ELSE NoChain]
  BY DEF CleanupEgressPolicy
<1>2. left \in BOOLEAN /\ forward \in Seq(Entries) /\ chain \in [NetVMs -> Seq(Words)]
  BY DEF RulesType
<1>3. NoChain \in Seq(Words) /\ <<>> \in Seq(Words)
  BY DEF NoChain, Words
<1> DEFINE new == IF chain[v] = NoChain THEN NoChain
                  ELSE IF "chain" \in keep \/ \E k \in {"bridge", "tap"} : Jump(v, k) \in ToSet(forward') THEN <<>>
                  ELSE NoChain
<1>4. chain' = [chain EXCEPT ![v] = new] /\ new \in Seq(Words)
  BY <1>1, <1>3
<1> HIDE DEF new
<1>5. chain' \in [NetVMs -> Seq(Words)] /\ chain'[v] = new /\ \A w \in NetVMs : w # v => chain'[w] = chain[w]
  BY <1>2, <1>4
<1>6. left' \in BOOLEAN /\ (left => left') /\ (~left' => keep = {})
  BY <1>1, <1>2
<1>7. /\ forward' \in Seq(Entries) /\ ToSet(forward') \subseteq ToSet(forward) /\ (\A j : Once(forward, j) => Once(forward', j))
      /\ (keep = {} /\ Once(forward, Jump(v, "bridge")) /\ Once(forward, Jump(v, "tap"))) =>
              \A k \in {"bridge", "tap"} : Jump(v, k) \notin ToSet(forward')
  BY <1>1, <1>2, WithoutFacts
<1>8. (keep = {} /\ \A k \in {"bridge", "tap"} : Jump(v, k) \notin ToSet(forward')) => new = NoChain
  BY DEF new
<1> QED BY <1>5, <1>6, <1>7, <1>8

VMStep(v) ==
  \/ CreateTAPDevice(v) \/ AttachTAP(v) \/ AttachTAPFails(v)
  \/ EgressChain(v) \/ EgressChainFails(v) \/ InstallEgressJump(v) \/ AppendEgressRule(v) \/ EgressFails(v)
  \/ StartVM(v) \/ AddPortForwardRule(v) \/ AddPortForwardFails(v)
  \/ StopVMNetwork(v) \/ ExitCleansNetwork(v) \/ EnsureTapForResume(v) \/ DeleteVMNetwork(v)

HostStep == SetupBridge \/ ConfigureBridge \/ ConfigureBridgeFails \/ SetupNAT \/ SetupNATFails

LEMMA HostStepTypes ==
  ASSUME NetInv, HostStep
  PROVE  RulesType' /\ UNCHANGED vmVars /\ (forward' = forward \/ forward' = Append(forward, <<"nat">>))
<1>1. UNCHANGED vmVars /\ (forward' = forward \/ forward' = Append(forward, <<"nat">>))
  <2>1. CASE SetupNAT
    <3>1. UNCHANGED vmVars
      BY <2>1 DEF SetupNAT
    <3>2. forward' = forward \/ forward' = Append(forward, <<"nat">>)
      BY <2>1 DEF SetupNAT
    <3> QED BY <3>1, <3>2
  <2>2. CASE SetupBridge \/ ConfigureBridge \/ ConfigureBridgeFails \/ SetupNATFails
    BY <2>2 DEF SetupBridge, ConfigureBridge, ConfigureBridgeFails, SetupNATFails
  <2> QED BY <2>1, <2>2 DEF HostStep
<1>2. <<"nat">> \in Entries
  BY DEF Entries
<1>3. RulesType
  BY DEF NetInv
<1>4. forward' \in Seq(Entries)
  <2>1. forward \in Seq(Entries)
    BY <1>3 DEF RulesType
  <2>2. Append(forward, <<"nat">>) \in Seq(Entries)
    BY <1>2, <2>1
  <2> QED BY <1>1, <2>1, <2>2
<1> QED BY <1>1, <1>3, <1>4 DEF RulesType, vmVars

LEMMA VMStepTypes ==
  ASSUME NetInv, NEW v \in NetVMs, VMStep(v)
  PROVE  RulesType'
<1>1. RulesType /\ PlaceInv /\ EnforcedInv(v)
  BY DEF NetInv
<1>2. policy' = policy
  BY DEF VMStep, CreateTAPDevice, AttachTAP, AttachTAPFails, EgressChain, EgressChainFails, InstallEgressJump, AppendEgressRule,
    EgressFails, StartVM, AddPortForwardRule, AddPortForwardFails, StopVMNetwork, ExitCleansNetwork, EnsureTapForResume, DeleteVMNetwork
<1>3. PICK ph \in Phases : phase' = [phase EXCEPT ![v] = ph]
  <2>1. CASE EnsureTapForResume(v)
    <3>1. phase' = [phase EXCEPT ![v] = phase[v]] /\ phase[v] \in Phases
      BY <1>1, <2>1 DEF EnsureTapForResume, RulesType
    <3> QED BY <3>1
  <2>2. CASE EgressChain(v) \/ InstallEgressJump(v)
    <3>1. phase' = [phase EXCEPT ![v] = phase[v]] /\ phase[v] \in Phases
      BY <1>1, <2>2 DEF EgressChain, InstallEgressJump, RulesType
    <3> QED BY <3>1
  <2>3. CASE CreateTAPDevice(v) \/ AttachTAP(v) \/ AttachTAPFails(v) \/ EgressChainFails(v) \/ AppendEgressRule(v) \/ EgressFails(v)
    BY <2>3 DEF CreateTAPDevice, AttachTAP, AttachTAPFails, EgressChainFails, AppendEgressRule, EgressFails, SetPhase, Phases
  <2>4. CASE StartVM(v) \/ AddPortForwardRule(v) \/ AddPortForwardFails(v) \/ StopVMNetwork(v) \/ ExitCleansNetwork(v) \/ DeleteVMNetwork(v)
    BY <2>4 DEF StartVM, AddPortForwardRule, AddPortForwardFails, StopVMNetwork, ExitCleansNetwork, DeleteVMNetwork, SetPhase, Phases
  <2> QED BY <2>1, <2>2, <2>3, <2>4 DEF VMStep
<1>4. phase' \in [NetVMs -> Phases]
  BY <1>1, <1>3 DEF RulesType
<1>5. at' \in [NetVMs -> Nat] /\ tap' \in [NetVMs -> Nat]
  <2>1. at[v] \in Nat /\ tap[v] \in Nat /\ at \in [NetVMs -> Nat] /\ tap \in [NetVMs -> Nat]
    BY <1>1 DEF RulesType
  <2>2. CASE CreateTAPDevice(v) \/ AttachTAP(v) \/ AttachTAPFails(v) \/ EgressChain(v) \/ EgressChainFails(v)
    BY <2>1, <2>2 DEF CreateTAPDevice, AttachTAP, AttachTAPFails, EgressChain, EgressChainFails, DeleteTAPDevice
  <2>3. CASE InstallEgressJump(v) \/ AppendEgressRule(v) \/ EgressFails(v) \/ StartVM(v)
    BY <2>1, <2>3 DEF InstallEgressJump, AppendEgressRule, EgressFails, StartVM
  <2>4. CASE AddPortForwardRule(v)
    BY <2>1, <2>4 DEF AddPortForwardRule
  <2>5. CASE AddPortForwardFails(v) \/ StopVMNetwork(v) \/ ExitCleansNetwork(v) \/ EnsureTapForResume(v) \/ DeleteVMNetwork(v)
    BY <2>1, <2>5 DEF AddPortForwardFails, StopVMNetwork, ExitCleansNetwork, EnsureTapForResume, DeleteVMNetwork
  <2> QED BY <2>2, <2>3, <2>4, <2>5 DEF VMStep
<1>6. chain' \in [NetVMs -> Seq(Words)] /\ forward' \in Seq(Entries) /\ left' \in BOOLEAN
  <2>1. /\ chain \in [NetVMs -> Seq(Words)] /\ chain[v] \in Seq(Words) /\ forward \in Seq(Entries) /\ left \in BOOLEAN
        /\ <<>> \in Seq(Words) /\ policy[v] \in Policies /\ at[v] \in Nat
    BY <1>1 DEF RulesType
  <2>2. CASE CreateTAPDevice(v) \/ AttachTAP(v) \/ AttachTAPFails(v) \/ EgressChain(v) \/ EgressChainFails(v)
    <3>1. CASE EgressChainFails(v)
      <4>1. (chain' = chain \/ chain' = [chain EXCEPT ![v] = IF @ = NoChain THEN <<>> ELSE @]) /\ forward' = forward
            /\ (left' = left \/ left' = TRUE)
        BY <3>1 DEF EgressChainFails, DeleteTAPDevice
      <4> QED BY <2>1, <4>1
    <3> QED BY <2>1, <2>2, <3>1 DEF CreateTAPDevice, AttachTAP, AttachTAPFails, EgressChain, DeleteTAPDevice
  <2>3. CASE InstallEgressJump(v)
    <3>1. PICK j \in Entries : forward' = <<j>> \o RemoveFirst(forward, j)
      <4>1. JumpKinds[at[v] - 1] \in {"bridge", "tap"}
        BY <2>3 DEF InstallEgressJump, JumpKinds
      <4>2. Jump(v, JumpKinds[at[v] - 1]) \in Entries
        BY <4>1 DEF Entries
      <4> QED BY <2>3, <4>2 DEF InstallEgressJump
    <3>2. RemoveFirst(forward, j) \in Seq(Entries)
      BY <2>1, RemoveFirstFacts
    <3>3. <<j>> \in Seq(Entries)
      OBVIOUS
    <3> QED BY <2>1, <2>3, <3>1, <3>2, <3>3 DEF InstallEgressJump
  <2>4. CASE AppendEgressRule(v)
    <3>1. EgressRules(policy[v]) \in Seq(Words)
      BY <2>1, RulesAreWords
    <3>2. at[v] - 3 \in 1 .. Len(EgressRules(policy[v]))
      BY <1>1, <2>1, <2>4, <3>1 DEF AppendEgressRule, EnforcedInv
    <3>3. EgressRules(policy[v])[at[v] - 3] \in Words
      BY <3>1, <3>2
    <3>4. Append(chain[v], EgressRules(policy[v])[at[v] - 3]) \in Seq(Words)
      BY <2>1, <3>3
    <3> QED BY <2>1, <2>4, <3>4 DEF AppendEgressRule
  <2>5. CASE EgressFails(v) \/ ExitCleansNetwork(v) \/ DeleteVMNetwork(v)
    <3>1. PICK n \in {0, 1} : CleanupEgressPolicy(v, n)
      BY <2>5 DEF EgressFails, ExitCleansNetwork, DeleteVMNetwork
    <3> QED BY <1>1, <3>1, CleanupFacts
  <2>6. CASE StartVM(v) \/ AddPortForwardRule(v) \/ EnsureTapForResume(v)
    BY <2>1, <2>6 DEF StartVM, AddPortForwardRule, EnsureTapForResume
  <2>7. CASE AddPortForwardFails(v) \/ StopVMNetwork(v)
    BY <2>1, <2>7 DEF AddPortForwardFails, StopVMNetwork, CleanupPortForwards
  <2> QED BY <2>2, <2>3, <2>4, <2>5, <2>6, <2>7 DEF VMStep
<1>7. table' \subseteq AllRules
  <2>1. table \subseteq AllRules
    BY <1>1 DEF RulesType
  <2>2. CASE AddPortForwardRule(v)
    <3>1. ForwardAt(v) \in DOMAIN Forwards /\ RuleAt(v) \in 1 .. 5
      BY <1>1, <2>2, PlaceFacts DEF AddPortForwardRule
    <3>2. Rules(Forwards[ForwardAt(v)])[RuleAt(v)] \in AllRules
      BY <3>1, RulesFacts
    <3> QED BY <2>1, <2>2, <3>2 DEF AddPortForwardRule
  <2>3. CASE ~AddPortForwardRule(v)
    <3>1. table' \subseteq table
      BY <2>3 DEF VMStep, CreateTAPDevice, AttachTAP, AttachTAPFails, EgressChain, EgressChainFails, InstallEgressJump, AppendEgressRule,
        EgressFails, StartVM, AddPortForwardFails, StopVMNetwork, ExitCleansNetwork, EnsureTapForResume, DeleteVMNetwork, CleanupPortForwards
    <3> QED BY <2>1, <3>1
  <2> QED BY <2>2, <2>3
<1>8. exited' \in [NetVMs -> BOOLEAN]
  <2>1. exited' = exited \/ exited' = [exited EXCEPT ![v] = TRUE]
    BY DEF VMStep, CreateTAPDevice, AttachTAP, AttachTAPFails, EgressChain, EgressChainFails, InstallEgressJump, AppendEgressRule,
      EgressFails, StartVM, AddPortForwardRule, AddPortForwardFails, StopVMNetwork, ExitCleansNetwork, EnsureTapForResume, DeleteVMNetwork
  <2> QED BY <1>1, <2>1, Zenon DEF RulesType
<1> QED BY <1>1, <1>2, <1>4, <1>5, <1>6, <1>7, <1>8 DEF RulesType

-----------------------------------------------------------------------------
(* One VM moves at a time                                                  *)

LEMMA OthersIdle ==
  ASSUME NetInv, NEW v \in NetVMs, VMStep(v)
  PROVE  /\ UNCHANGED <<hostVars, policy>> /\ (left => left')
         /\ \A w \in NetVMs : w # v =>
              /\ ~Active(w) /\ phase'[w] = phase[w] /\ at'[w] = at[w] /\ tap'[w] = tap[w] /\ chain'[w] = chain[w]
              /\ exited'[w] = exited[w]
<1>1. RulesType /\ AloneInv
  BY DEF NetInv
<1>2. UNCHANGED <<hostVars, policy>>
  BY DEF VMStep, CreateTAPDevice, AttachTAP, AttachTAPFails, EgressChain, EgressChainFails, InstallEgressJump, AppendEgressRule,
    EgressFails, StartVM, AddPortForwardRule, AddPortForwardFails, StopVMNetwork, ExitCleansNetwork, EnsureTapForResume, DeleteVMNetwork
<1>3. \A w \in NetVMs : w # v => ~Active(w)
  <2>1. CASE CreateTAPDevice(v)
    BY <2>1 DEF CreateTAPDevice, Active
  <2>2. CASE ~CreateTAPDevice(v)
    <3>1. Active(v)
      BY <2>2 DEF VMStep, AttachTAP, AttachTAPFails, EgressChain, EgressChainFails, InstallEgressJump, AppendEgressRule,
        EgressFails, StartVM, AddPortForwardRule, AddPortForwardFails, StopVMNetwork, ExitCleansNetwork, EnsureTapForResume,
        DeleteVMNetwork, Active
    <3> QED BY <1>1, <3>1 DEF AloneInv
  <2> QED BY <2>1, <2>2
<1>4. left => left'
  <2>1. CASE EgressFails(v) \/ ExitCleansNetwork(v) \/ DeleteVMNetwork(v)
    <3>1. PICK n \in {0, 1} : CleanupEgressPolicy(v, n)
      BY <2>1 DEF EgressFails, ExitCleansNetwork, DeleteVMNetwork
    <3> QED BY <1>1, <3>1, CleanupFacts
  <2>2. CASE ~(EgressFails(v) \/ ExitCleansNetwork(v) \/ DeleteVMNetwork(v))
    BY <2>2 DEF VMStep, CreateTAPDevice, AttachTAP, AttachTAPFails, EgressChain, EgressChainFails, InstallEgressJump, AppendEgressRule,
      StartVM, AddPortForwardRule, AddPortForwardFails, StopVMNetwork, EnsureTapForResume, DeleteTAPDevice, CleanupPortForwards
  <2> QED BY <2>1, <2>2
<1>5. ASSUME NEW w \in NetVMs, w # v PROVE chain'[w] = chain[w]
  <2>1. CASE EgressFails(v) \/ ExitCleansNetwork(v) \/ DeleteVMNetwork(v)
    <3>1. PICK n \in {0, 1} : CleanupEgressPolicy(v, n)
      BY <2>1 DEF EgressFails, ExitCleansNetwork, DeleteVMNetwork
    <3> QED BY <1>1, <1>5, <3>1, CleanupFacts
  <2>2. CASE EgressChain(v) \/ EgressChainFails(v) \/ AppendEgressRule(v)
    BY <1>1, <1>5, <2>2 DEF EgressChain, EgressChainFails, AppendEgressRule, RulesType
  <2>3. CASE ~(EgressFails(v) \/ ExitCleansNetwork(v) \/ DeleteVMNetwork(v) \/ EgressChain(v) \/ EgressChainFails(v) \/ AppendEgressRule(v))
    BY <2>3 DEF VMStep, CreateTAPDevice, AttachTAP, AttachTAPFails, InstallEgressJump, StartVM, AddPortForwardRule, AddPortForwardFails,
      StopVMNetwork, EnsureTapForResume
  <2> QED BY <2>1, <2>2, <2>3
<1>6. ASSUME NEW w \in NetVMs, w # v PROVE phase'[w] = phase[w]
  <2>1. CASE CreateTAPDevice(v) \/ AttachTAP(v) \/ AttachTAPFails(v) \/ EgressChain(v) \/ EgressChainFails(v) \/ InstallEgressJump(v)
    BY <1>1, <1>6, <2>1 DEF CreateTAPDevice, AttachTAP, AttachTAPFails, EgressChain, EgressChainFails, InstallEgressJump, SetPhase, RulesType
  <2>2. CASE ~(CreateTAPDevice(v) \/ AttachTAP(v) \/ AttachTAPFails(v) \/ EgressChain(v) \/ EgressChainFails(v) \/ InstallEgressJump(v))
    BY <1>1, <1>6, <2>2 DEF VMStep, AppendEgressRule, EgressFails, StartVM, AddPortForwardRule, AddPortForwardFails, StopVMNetwork,
      ExitCleansNetwork, EnsureTapForResume, DeleteVMNetwork, SetPhase, RulesType
  <2> QED BY <2>1, <2>2
<1>7. ASSUME NEW w \in NetVMs, w # v PROVE at'[w] = at[w] /\ tap'[w] = tap[w]
  <2>1. CASE CreateTAPDevice(v) \/ AttachTAP(v) \/ AttachTAPFails(v) \/ EgressChain(v) \/ EgressChainFails(v) \/ InstallEgressJump(v)
    BY <1>1, <1>7, <2>1 DEF CreateTAPDevice, AttachTAP, AttachTAPFails, EgressChain, EgressChainFails, InstallEgressJump, DeleteTAPDevice, RulesType
  <2>2. CASE ~(CreateTAPDevice(v) \/ AttachTAP(v) \/ AttachTAPFails(v) \/ EgressChain(v) \/ EgressChainFails(v) \/ InstallEgressJump(v))
    BY <1>1, <1>7, <2>2 DEF VMStep, AppendEgressRule, EgressFails, StartVM, AddPortForwardRule, AddPortForwardFails, StopVMNetwork,
      ExitCleansNetwork, EnsureTapForResume, DeleteVMNetwork, RulesType
  <2> QED BY <2>1, <2>2
<1>8. ASSUME NEW w \in NetVMs, w # v PROVE exited'[w] = exited[w]
  <2>1. exited' = exited \/ exited' = [exited EXCEPT ![v] = TRUE]
    BY DEF VMStep, CreateTAPDevice, AttachTAP, AttachTAPFails, EgressChain, EgressChainFails, InstallEgressJump, AppendEgressRule,
      EgressFails, StartVM, AddPortForwardRule, AddPortForwardFails, StopVMNetwork, ExitCleansNetwork, EnsureTapForResume, DeleteVMNetwork
  <2> QED BY <1>1, <1>8, <2>1, Zenon DEF RulesType
<1> QED BY <1>2, <1>3, <1>4, <1>5, <1>6, <1>7, <1>8

\* What a death of the daemon does to the VMs.
LEMMA DeathFacts ==
  ASSUME NetInv, NetworkDaemonDies
  PROVE  /\ UNCHANGED <<policy, at, tap, chain, forward, table, exited>> /\ RulesType'
         /\ left => left'
         /\ \A v \in NetVMs :
              \/ phase'[v] = phase[v] /\ phase[v] \notin {"tap", "egress", "forward"}
              \/ phase[v] \in {"tap", "egress"} /\ phase'[v] = "gone" /\ left'
              \/ phase[v] = "forward" /\ phase'[v] = "ready" /\ left'
<1>1. RulesType
  BY DEF NetInv
<1>2. UNCHANGED <<policy, at, tap, chain, forward, table, exited>>
  BY DEF NetworkDaemonDies
<1>3. left' = (left \/ \E v \in NetVMs : phase[v] \in {"tap", "egress", "forward"})
  BY DEF NetworkDaemonDies
<1>4. left' \in BOOLEAN /\ (left => left')
  BY <1>1, <1>3 DEF RulesType
<1>5. ASSUME NEW v \in NetVMs
      PROVE  /\ phase'[v] \in Phases
             /\ \/ phase'[v] = phase[v] /\ phase[v] \notin {"tap", "egress", "forward"}
                \/ phase[v] \in {"tap", "egress"} /\ phase'[v] = "gone"
                \/ phase[v] = "forward" /\ phase'[v] = "ready"
  <2>1. phase[v] \in Phases
    BY <1>1 DEF RulesType
  <2>2. phase'[v] = CASE phase[v] \in {"tap", "egress"} -> "gone" [] phase[v] = "forward" -> "ready" [] OTHER -> phase[v]
    BY DEF NetworkDaemonDies
  <2>3. CASE phase[v] \in {"tap", "egress"}
    BY <2>2, <2>3 DEF Phases
  <2>4. CASE phase[v] = "forward"
    BY <2>2, <2>4 DEF Phases
  <2>5. CASE phase[v] \notin {"tap", "egress", "forward"}
    BY <2>1, <2>2, <2>5
  <2> QED BY <2>3, <2>4, <2>5
<1>6. phase' \in [NetVMs -> Phases]
  <2>1. phase' = [v \in NetVMs |-> phase'[v]]
    BY DEF NetworkDaemonDies
  <2> QED BY <1>5, <2>1
<1>7. RulesType'
  BY <1>1, <1>2, <1>4, <1>6 DEF RulesType
<1>8. \A v \in NetVMs : phase[v] \in {"tap", "egress", "forward"} => left'
  BY <1>3
<1> QED BY <1>2, <1>4, <1>5, <1>7, <1>8

-----------------------------------------------------------------------------
(* The bridge and the NAT rules                                            *)

LEMMA HostKeeps ==
  ASSUME NetInv, HostStep \/ NetworkDaemonDies
  PROVE  HostInv'
<1>1. HostInv
  BY DEF NetInv
<1>2. CASE SetupBridge \/ ConfigureBridge \/ SetupNATFails
  <2>1. natRules' = natRules /\ halfBridge' = halfBridge
    BY <1>2 DEF SetupBridge, ConfigureBridge, SetupNATFails
  <2>2. CASE SetupBridge
    BY <1>1, <2>1, <2>2 DEF HostInv, SetupBridge
  <2>3. CASE ConfigureBridge
    BY <1>1, <2>1, <2>3 DEF HostInv, ConfigureBridge
  <2>4. CASE SetupNATFails
    BY <1>1, <2>1, <2>4 DEF HostInv, SetupNATFails
  <2> QED BY <1>2, <2>2, <2>3, <2>4
<1>4. CASE ConfigureBridgeFails
  <2>1. /\ hostNet = "bridge" /\ hostNet' = "down" /\ natRules' = natRules
        /\ (bridge' = 0 /\ halfBridge' = halfBridge) \/ (bridge' = bridge /\ halfBridge' = TRUE)
    BY <1>4 DEF ConfigureBridgeFails
  <2>2. CASE bridge' = 0 /\ halfBridge' = halfBridge
    BY <1>1, <2>1, <2>2 DEF HostInv
  <2>3. CASE bridge' = bridge /\ halfBridge' = TRUE
    BY <1>1, <2>1, <2>3 DEF HostInv
  <2> QED BY <2>1, <2>2, <2>3
<1>5. CASE NetworkDaemonDies
  <2>1. /\ hostNet' = "down" /\ UNCHANGED <<bridge, natRules>> /\ halfBridge' = (halfBridge \/ hostNet = "bridge") /\ hostNet # "down"
    BY <1>5 DEF NetworkDaemonDies
  <2>2. halfBridge' \in BOOLEAN /\ (~halfBridge' => ~halfBridge /\ hostNet # "bridge")
    BY <1>1, <2>1 DEF HostInv
  <2> QED BY <1>1, <2>1, <2>2 DEF HostInv
<1>3. CASE SetupNAT
  <2> DEFINE OK(r) == r \notin natRules /\ \A q \in 1 .. r - 1 : q \in natRules
             r == CHOOSE x \in 1 .. 4 : OK(x)
  <2>1. natRules \subseteq {1, 2, 3} /\ 1 .. 4 = {1, 2, 3, 4}
    BY <1>1 DEF HostInv
  <2>2. \E x \in 1 .. 4 : OK(x)
    <3>1. CASE 1 \notin natRules
      BY <3>1
    <3>2. CASE 1 \in natRules /\ 2 \notin natRules
      BY <3>2
    <3>3. CASE {1, 2} \subseteq natRules /\ 3 \notin natRules
      BY <3>3
    <3>4. CASE {1, 2, 3} \subseteq natRules
      BY <2>1, <3>4
    <3> QED BY <3>1, <3>2, <3>3, <3>4
  <2>3. r \in 1 .. 4 /\ OK(r)
    BY <2>2
  <2>4. /\ hostNet = "nat" /\ UNCHANGED <<bridge, halfBridge>>
        /\ r = 4 => hostNet' = "up" /\ natRules' = natRules
        /\ r # 4 => natRules' = natRules \union {r} /\ hostNet' = hostNet
    BY <1>3 DEF SetupNAT
  <2> HIDE DEF r
  <2>5. ASSUME r = 4 PROVE natRules = {1, 2, 3}
    <3>1. 1 \in 1 .. r - 1 /\ 2 \in 1 .. r - 1 /\ 3 \in 1 .. r - 1
      BY <2>5
    <3> QED BY <2>1, <2>3, <3>1
  <2> QED BY <1>1, <2>1, <2>3, <2>4, <2>5 DEF HostInv
<1> QED BY <1>2, <1>3, <1>4, <1>5 DEF HostStep

-----------------------------------------------------------------------------
(* One VM at a time, and its place among the forwards                      *)

LEMMA AloneKeeps ==
  ASSUME NetInv, NEW v \in NetVMs, VMStep(v)
  PROVE  AloneInv' /\ PlaceInv'
<1>0. RulesType /\ PlaceInv /\ AloneInv
  BY DEF NetInv
<1>1. \A w \in NetVMs : w # v => ~Active(w) /\ phase'[w] = phase[w]
  BY OthersIdle
<1>2. \A w \in NetVMs : Active(w)' => w = v
  BY <1>1 DEF Active
<1>3. phase'[v] = "forward" => at'[v] \in 1 .. 5 * Len(Forwards)
  <2>0. phase[v] \in Phases /\ at[v] \in Nat /\ at \in [NetVMs -> Nat] /\ phase \in [NetVMs -> Phases] /\ Len(Forwards) \in Nat \ {0}
    BY <1>0, RulesAssumption DEF RulesType
  <2>1. CASE StartVM(v)
    BY <2>0, <2>1 DEF StartVM
  <2>2. CASE AddPortForwardRule(v)
    <3>1. at[v] \in 1 .. 5 * Len(Forwards)
      BY <1>0, <2>2, PlaceFacts DEF AddPortForwardRule
    <3> DEFINE nx == IF RuleAt(v) = 1 /\ Rules(Forwards[ForwardAt(v)])[RuleAt(v)] \in table THEN at[v] + 5 ELSE at[v] + 1
    <3>a. /\ nx \in Nat /\ at' = [at EXCEPT ![v] = nx] /\ nx \in {at[v] + 1, at[v] + 5}
          /\ phase' = [phase EXCEPT ![v] = IF nx > 5 * Len(Forwards) THEN "running" ELSE "forward"]
      BY <2>0, <2>2 DEF AddPortForwardRule, SetPhase
    <3>2. PICK next \in Nat : /\ at' = [at EXCEPT ![v] = next] /\ next \in {at[v] + 1, at[v] + 5}
                              /\ phase' = [phase EXCEPT ![v] = IF next > 5 * Len(Forwards) THEN "running" ELSE "forward"]
      BY <3>a
    <3> QED BY <2>0, <3>1, <3>2
  <2>3. CASE ~StartVM(v) /\ ~AddPortForwardRule(v)
    <3>1. phase'[v] # "forward"
      BY <2>0, <2>3 DEF VMStep, CreateTAPDevice, AttachTAP, AttachTAPFails, EgressChain, EgressChainFails, InstallEgressJump, AppendEgressRule,
        EgressFails, AddPortForwardFails, StopVMNetwork, ExitCleansNetwork, EnsureTapForResume, DeleteVMNetwork, SetPhase
    <3> QED BY <3>1
  <2> QED BY <2>1, <2>2, <2>3
<1> QED BY <1>1, <1>2, <1>3 DEF AloneInv, PlaceInv, Active

-----------------------------------------------------------------------------
(* Egress                                                                  *)

LEMMA EnforcedKeeps ==
  ASSUME NetInv, NEW v \in NetVMs, VMStep(v)
  PROVE  \A w \in NetVMs : EnforcedInv(w)'
<1>0. RulesType /\ EnforcedInv(v)
  BY DEF NetInv
<1>1. ASSUME NEW w \in NetVMs, w # v PROVE EnforcedInv(w)'
  <2>1. phase'[w] \in {"none", "gone"}
    BY <1>1, OthersIdle DEF Active
  <2> QED BY <2>1 DEF EnforcedInv, MadeReady
<1> SUFFICES EnforcedInv(v)'
  BY <1>1
<1>2. policy' = policy
  BY OthersIdle
<1> DEFINE R == EgressRules(policy[v])
<1>3. /\ phase \in [NetVMs -> Phases] /\ at \in [NetVMs -> Nat] /\ at[v] \in Nat /\ chain \in [NetVMs -> Seq(Words)]
      /\ R \in Seq(Words) /\ Len(R) \in Nat \ {0} /\ forward \in Seq(Entries)
  <2>1. policy[v] \in Policies
    BY <1>0 DEF RulesType
  <2> QED BY <1>0, <2>1, RulesAreWords DEF RulesType
<1>4. EgressRules(policy[v])' = R
  BY <1>2 DEF EgressRules
<1> HIDE DEF R
<1>e. EnforcedInv(v)' <=>
        /\ phase'[v] = "egress" =>
             /\ at'[v] >= 1 /\ at'[v] <= Len(R) + 3
             /\ at'[v] \in {2, 3} => chain'[v] = <<>>
             /\ at'[v] >= 4 => HeadIs(v)' /\ chain'[v] = SubSeq(R, 1, at'[v] - 4)
        /\ phase'[v] \in MadeReady /\ ~exited'[v] => HeadIs(v)' /\ chain'[v] = R
  BY <1>4 DEF EnforcedInv, MadeReady
<1>f. /\ phase[v] = "egress" =>
             /\ at[v] >= 1 /\ at[v] <= Len(R) + 3
             /\ at[v] \in {2, 3} => chain[v] = <<>>
             /\ at[v] >= 4 => HeadIs(v) /\ chain[v] = SubSeq(R, 1, at[v] - 4)
      /\ phase[v] \in MadeReady /\ ~exited[v] => HeadIs(v) /\ chain[v] = R
  BY <1>0 DEF EnforcedInv, R
<1>5. CASE CreateTAPDevice(v) \/ AttachTAPFails(v) \/ EgressChainFails(v) \/ EgressFails(v) \/ DeleteVMNetwork(v)
  <2>1. phase'[v] \in {"tap", "gone"}
    BY <1>3, <1>5 DEF CreateTAPDevice, AttachTAPFails, EgressChainFails, EgressFails, DeleteVMNetwork, SetPhase
  <2> QED BY <1>e, <2>1 DEF MadeReady
<1>6. CASE AttachTAP(v)
  <2>1. phase'[v] \in {"tap", "egress"} /\ at'[v] = 1
    BY <1>3, <1>6 DEF AttachTAP, SetPhase
  <2> QED BY <1>3, <1>e, <2>1 DEF MadeReady
<1>7. CASE EgressChain(v)
  <2>1. phase'[v] = "egress" /\ at'[v] = 2 /\ chain'[v] = <<>>
    BY <1>3, <1>7 DEF EgressChain
  <2> QED BY <1>3, <1>e, <2>1 DEF MadeReady
<1>8. CASE InstallEgressJump(v)
  <2>1. /\ phase'[v] = "egress" /\ at'[v] = at[v] + 1 /\ at[v] \in {2, 3} /\ chain'[v] = <<>>
        /\ forward' = <<Jump(v, JumpKinds[at[v] - 1])>> \o RemoveFirst(forward, Jump(v, JumpKinds[at[v] - 1]))
    BY <1>3, <1>8, <1>f DEF InstallEgressJump
  <2>2. CASE at[v] = 2
    BY <1>3, <1>e, <2>1, <2>2 DEF MadeReady
  <2>3. CASE at[v] = 3
    <3>1. JumpKinds[at[v] - 1] = "tap"
      BY <2>3 DEF JumpKinds
    <3>2. PICK j : j = Jump(v, "tap")
      OBVIOUS
    <3>3. RemoveFirst(forward, j) \in Seq(Entries)
      BY <1>3, RemoveFirstFacts
    <3>4. Jump(v, "tap") \in Entries
      BY DEF Entries
    <3>5. forward' # <<>> /\ forward'[1] = j
      <4>1. PICK t \in Seq(Entries) : t = RemoveFirst(forward, j)
        BY <3>3
      <4>2. forward' = <<j>> \o t /\ j \in Entries
        BY <2>1, <3>1, <3>2, <3>4, <4>1
      <4> QED BY <4>2
    <3>6. HeadIs(v)'
      BY <3>2, <3>5 DEF HeadIs, Jump
    <3>7. SubSeq(R, 1, 0) = <<>>
      BY <1>3
    <3>8. at'[v] = 4
      BY <2>1, <2>3
    <3> QED BY <1>3, <1>e, <2>1, <3>6, <3>7, <3>8 DEF MadeReady
  <2> QED BY <2>1, <2>2, <2>3
<1>9. CASE AppendEgressRule(v)
  <2> DEFINE i == at[v] - 3
  <2>1. /\ phase'[v] = (IF i = Len(R) THEN "ready" ELSE "egress") /\ at'[v] = at[v] + 1 /\ phase[v] = "egress" /\ at[v] >= 4
        /\ chain'[v] = Append(chain[v], R[i]) /\ forward' = forward
    BY <1>3, <1>9 DEF AppendEgressRule, SetPhase, R
  <2>2. i \in 1 .. Len(R) /\ HeadIs(v) /\ chain[v] = SubSeq(R, 1, i - 1)
    BY <1>3, <1>f, <2>1
  <2>3. HeadIs(v)'
    BY <2>1, <2>2 DEF HeadIs, Jump
  <2>4. chain'[v] = SubSeq(R, 1, i)
    <3>1. Append(SubSeq(R, 1, i - 1), R[i]) = SubSeq(R, 1, i)
      BY <1>3, <2>2
    <3> QED BY <2>1, <2>2, <3>1
  <2>5. i = Len(R) => SubSeq(R, 1, i) = R
    BY <1>3
  <2>6. at'[v] - 4 = i /\ at'[v] >= 4 /\ (i # Len(R) => at'[v] <= Len(R) + 3)
    BY <1>3, <2>1, <2>2
  <2>7. CASE i = Len(R)
    BY <1>e, <2>1, <2>3, <2>4, <2>5, <2>7
  <2>8. CASE i # Len(R)
    <3>1. phase'[v] = "egress" /\ at'[v] >= 1 /\ at'[v] \notin {2, 3}
      BY <1>3, <2>1, <2>8
    <3>2. chain'[v] = SubSeq(R, 1, at'[v] - 4)
      BY <2>4, <2>6
    <3> QED BY <1>e, <2>3, <2>6, <2>8, <3>1, <3>2 DEF MadeReady
  <2> QED BY <2>7, <2>8
<1>10. CASE StartVM(v) \/ AddPortForwardRule(v) \/ AddPortForwardFails(v) \/ StopVMNetwork(v) \/ EnsureTapForResume(v)
  <2>1. phase'[v] \in MadeReady /\ phase[v] \in MadeReady /\ chain' = chain /\ forward' = forward /\ exited' = exited
    BY <1>3, <1>10 DEF StartVM, AddPortForwardRule, AddPortForwardFails, StopVMNetwork, EnsureTapForResume, SetPhase, MadeReady
  <2>2. HeadIs(v)' <=> HeadIs(v)
    BY <2>1 DEF HeadIs, Jump
  <2> QED BY <1>e, <1>f, <2>1, <2>2 DEF MadeReady
<1>11. CASE ExitCleansNetwork(v)
  <2>1. exited'[v] = TRUE
    BY <1>0, <1>11, Zenon DEF ExitCleansNetwork, RulesType
  <2>2. phase'[v] = "ready"
    BY <1>3, <1>11 DEF ExitCleansNetwork, SetPhase
  <2> QED BY <1>e, <2>1, <2>2
<1> QED BY <1>5, <1>6, <1>7, <1>8, <1>9, <1>10, <1>11 DEF VMStep

-----------------------------------------------------------------------------
(* Nothing is left behind                                                  *)

\* A jump of w is no jump of v, nor a NAT rule.
LEMMA JumpsDiffer ==
  ASSUME NEW v, NEW w, NEW k, NEW l
  PROVE  /\ Jump(v, k) = Jump(w, l) <=> v = w /\ k = l
         /\ Jump(v, k) # <<"nat">>
BY DEF Jump

LEMMA CleanKeeps ==
  ASSUME NetInv, NEW v \in NetVMs, VMStep(v), ~left'
  PROVE  \A w \in NetVMs : CleanInv(w)'
<1>0. RulesType /\ EnforcedInv(v) /\ ~left /\ (\A w \in NetVMs : CleanInv(w))
  BY OthersIdle DEF NetInv
<1>1. /\ phase \in [NetVMs -> Phases] /\ at \in [NetVMs -> Nat] /\ at[v] \in Nat /\ tap \in [NetVMs -> Nat]
      /\ chain \in [NetVMs -> Seq(Words)] /\ forward \in Seq(Entries) /\ phase[v] \in Phases
  BY <1>0 DEF RulesType
<1>2. \A w \in NetVMs : w # v =>
        /\ ~Active(w) /\ phase'[w] = phase[w] /\ at'[w] = at[w] /\ tap'[w] = tap[w] /\ chain'[w] = chain[w]
  BY OthersIdle
<1>3. ASSUME NEW w \in NetVMs, w # v,
             \A k \in {"bridge", "tap"} : /\ Once(forward, Jump(w, k)) => Once(forward', Jump(w, k))
                                          /\ Jump(w, k) \in ToSet(forward') => Jump(w, k) \in ToSet(forward)
      PROVE  CleanInv(w)'
  <2>1. /\ CleanInv(w) /\ phase'[w] = phase[w] /\ at'[w] = at[w] /\ tap'[w] = tap[w] /\ chain'[w] = chain[w]
        /\ (Jumped(w)' <=> Jumped(w))
    BY <1>0, <1>2, <1>3 DEF Jumped, MadeReady
  <2>2. \A k \in {"bridge", "tap"} : Jump(w, k)' = Jump(w, k)
    BY DEF Jump
  <2> QED BY <1>3, <2>1, <2>2 DEF CleanInv, NoChain
<1>v. /\ phase[v] \in {"none", "gone"} => tap[v] = 0
      /\ ~Jumped(v) /\ ~(phase[v] = "egress" /\ at[v] >= 2) => chain[v] = NoChain
      /\ \A k \in {"bridge", "tap"} : Once(forward, Jump(v, k)) /\ (Jump(v, k) \in ToSet(forward) => Jumped(v))
  BY <1>0 DEF CleanInv
<1>w. /\ /\ phase'[v] \in {"none", "gone"} => tap'[v] = 0
         /\ ~Jumped(v)' /\ ~(phase'[v] = "egress" /\ at'[v] >= 2) => chain'[v] = NoChain
         /\ \A k \in {"bridge", "tap"} : Once(forward', Jump(v, k)) /\ (Jump(v, k) \in ToSet(forward') => Jumped(v)')
      => CleanInv(v)'
  BY DEF CleanInv, Jump, NoChain
\* Steps that leave FORWARD alone.
<1>4. ASSUME forward' = forward, phase'[v] \in {"none", "gone"} => tap'[v] = 0,
             ~Jumped(v)' /\ ~(phase'[v] = "egress" /\ at'[v] >= 2) => chain'[v] = NoChain, Jumped(v) => Jumped(v)'
      PROVE  \A w \in NetVMs : CleanInv(w)'
  <2>1. \A w \in NetVMs : w # v => CleanInv(w)'
    BY <1>3, <1>4
  <2>2. CleanInv(v)'
    BY <1>v, <1>w, <1>4
  <2> QED BY <2>1, <2>2
\* Steps that clean the policy up.
<1>5. ASSUME NEW n, CleanupEgressPolicy(v, n), tap'[v] = 0 PROVE \A w \in NetVMs : CleanInv(w)'
  <2>1. /\ ToSet(forward') \subseteq ToSet(forward) /\ (\A j : Once(forward, j) => Once(forward', j))
        /\ (~left' /\ Once(forward, Jump(v, "bridge")) /\ Once(forward, Jump(v, "tap"))) =>
              /\ \A k \in {"bridge", "tap"} : Jump(v, k) \notin ToSet(forward')
              /\ chain'[v] = NoChain
    BY <1>0, <1>5, CleanupFacts
  <2>2. \A w \in NetVMs : w # v => CleanInv(w)'
    BY <1>3, <2>1
  <2>3. CleanInv(v)'
    BY <1>5, <1>v, <1>w, <2>1
  <2> QED BY <2>2, <2>3
<1>6. CASE CreateTAPDevice(v) \/ AttachTAP(v)
  <2>1. /\ forward' = forward /\ chain' = chain /\ phase[v] \in {"none", "tap"}
        /\ phase'[v] = "tap" \/ (phase'[v] = "egress" /\ at'[v] = 1)
    BY <1>1, <1>6 DEF CreateTAPDevice, AttachTAP, SetPhase
  <2>2. ~Jumped(v) /\ chain[v] = NoChain
    BY <1>v, <2>1 DEF Jumped, MadeReady
  <2> QED BY <1>4, <2>1, <2>2
<1>7. CASE AttachTAPFails(v) \/ EgressChainFails(v)
  <2>1. /\ forward' = forward /\ chain' = chain /\ (phase[v] = "tap" \/ (phase[v] = "egress" /\ at[v] = 1))
        /\ phase'[v] = "gone" /\ tap'[v] = 0
    BY <1>1, <1>7 DEF AttachTAPFails, EgressChainFails, SetPhase, DeleteTAPDevice
  <2>2. ~Jumped(v) /\ chain[v] = NoChain
    BY <1>v, <2>1 DEF Jumped, MadeReady
  <2> QED BY <1>4, <2>1, <2>2
<1>8. CASE EgressChain(v)
  <2>1. forward' = forward /\ phase[v] = "egress" /\ at[v] = 1 /\ phase'[v] = "egress" /\ at'[v] = 2
    BY <1>1, <1>8 DEF EgressChain
  <2>2. ~Jumped(v)
    BY <2>1 DEF Jumped, MadeReady
  <2> QED BY <1>4, <2>1, <2>2
<1>9. CASE InstallEgressJump(v)
  <2> DEFINE j == Jump(v, JumpKinds[at[v] - 1])
  <2>1. /\ forward' = <<j>> \o RemoveFirst(forward, j) /\ phase[v] = "egress" /\ at[v] \in {2, 3}
        /\ phase'[v] = "egress" /\ at'[v] = at[v] + 1
    BY <1>1, <1>9 DEF InstallEgressJump
  <2>2. JumpKinds[at[v] - 1] \in {"bridge", "tap"}
    BY <2>1 DEF JumpKinds
  <2>3. j \in Entries /\ Once(forward, j)
    BY <1>v, <2>2 DEF Entries
  <2>4. \A k : \A w \in NetVMs : w # v => Jump(w, k) # j
    BY JumpsDiffer
  <2> HIDE DEF j
  <2> DEFINE t == RemoveFirst(forward, j)
  <2>5. /\ t \in Seq(Entries) /\ ToSet(t) \subseteq ToSet(forward) /\ j \notin ToSet(t)
        /\ \A e : Once(forward, e) => Once(t, e)
    BY <1>1, <2>3, RemoveFirstFacts
  <2> HIDE DEF t
  <2>6. /\ DOMAIN forward' = 1 .. Len(t) + 1 /\ forward'[1] = j /\ DOMAIN t = 1 .. Len(t) /\ Len(t) \in Nat
        /\ \A i \in 2 .. Len(t) + 1 : forward'[i] = t[i - 1]
    <3>1. forward' = <<j>> \o t
      BY <2>1 DEF t
    <3> QED BY <2>3, <2>5, <3>1
  <2>7. \A e : e # j /\ Once(forward, e) => Once(forward', e)
    <3> SUFFICES ASSUME NEW e, e # j, Once(t, e), NEW x \in DOMAIN forward', NEW y \in DOMAIN forward', forward'[x] = e, forward'[y] = e
                 PROVE  x = y
      BY <2>5 DEF Once
    <3>1. x \in 2 .. Len(t) + 1 /\ y \in 2 .. Len(t) + 1
      BY <2>6
    <3>2. x - 1 \in DOMAIN t /\ y - 1 \in DOMAIN t /\ t[x - 1] = e /\ t[y - 1] = e
      BY <2>6, <3>1
    <3>3. x - 1 = y - 1
      BY <3>2 DEF Once
    <3> QED BY <3>1, <3>3
  <2>8. Once(forward', j)
    <3> SUFFICES ASSUME NEW x \in DOMAIN forward', forward'[x] = j PROVE x = 1
      BY DEF Once
    <3>1. CASE x \in 2 .. Len(t) + 1
      <4>1. x - 1 \in DOMAIN t /\ t[x - 1] = j
        BY <2>6, <3>1
      <4> QED BY <2>5, <4>1 DEF ToSet
    <3> QED BY <2>6, <3>1
  <2>9. \A e \in ToSet(forward') : e = j \/ e \in ToSet(forward)
    <3> SUFFICES ASSUME NEW x \in DOMAIN forward', forward'[x] # j PROVE forward'[x] \in ToSet(forward)
      BY DEF ToSet
    <3>1. x \in 2 .. Len(t) + 1
      BY <2>6
    <3>2. x - 1 \in DOMAIN t /\ forward'[x] = t[x - 1]
      BY <2>6, <3>1
    <3> QED BY <2>5, <3>2 DEF ToSet
  <2>10. \A w \in NetVMs : w # v => CleanInv(w)'
    BY <1>3, <2>4, <2>7, <2>9
  <2>11. Jumped(v)' /\ phase'[v] \notin {"none", "gone"}
    BY <2>1 DEF Jumped
  <2>12. \A k \in {"bridge", "tap"} : Once(forward', Jump(v, k))
    BY <1>v, <2>7, <2>8
  <2>13. CleanInv(v)'
    BY <1>w, <2>11, <2>12
  <2> QED BY <2>10, <2>13
<1>10. CASE AppendEgressRule(v)
  <2>1. forward' = forward /\ phase'[v] \in {"egress", "ready"} /\ at'[v] \in Nat /\ at'[v] >= 4
    BY <1>1, <1>10 DEF AppendEgressRule, SetPhase
  <2>2. Jumped(v)'
    BY <1>1, <2>1 DEF Jumped, MadeReady
  <2> QED BY <1>4, <2>1, <2>2
<1>11. CASE EgressFails(v) \/ ExitCleansNetwork(v) \/ DeleteVMNetwork(v)
  <2>1. tap'[v] = 0 /\ \E n \in {0, 1} : CleanupEgressPolicy(v, n)
    BY <1>1, <1>11 DEF EgressFails, ExitCleansNetwork, DeleteVMNetwork
  <2> QED BY <1>5, <2>1
<1>12. CASE StartVM(v) \/ AddPortForwardRule(v) \/ AddPortForwardFails(v) \/ StopVMNetwork(v) \/ EnsureTapForResume(v)
  <2>1. forward' = forward /\ phase'[v] \in MadeReady
    BY <1>1, <1>12 DEF StartVM, AddPortForwardRule, AddPortForwardFails, StopVMNetwork, EnsureTapForResume, SetPhase, MadeReady
  <2>2. Jumped(v)' /\ phase'[v] \notin {"none", "gone"}
    BY <2>1 DEF Jumped, MadeReady
  <2> QED BY <1>4, <2>1, <2>2
<1> QED BY <1>6, <1>7, <1>8, <1>9, <1>10, <1>11, <1>12 DEF VMStep

-----------------------------------------------------------------------------
(* Port forwards                                                           *)

\* The forwards that a VM has added so far.
Added(v) ==
  /\ phase[v] = "forward" =>
       /\ \A f \in 1 .. ForwardAt(v) - 1 : ToSet(Rules(Forwards[f])) \subseteq table
       /\ \A k \in 1 .. RuleAt(v) - 1 : Rules(Forwards[ForwardAt(v)])[k] \in table
  /\ phase[v] = "running" => AllRules \subseteq table

LEMMA TableParts ==
  TableInv <=> /\ (\A v \in NetVMs : phase[v] \notin MadeReady) => table \subseteq ForwardAccepts
               /\ \A f \in DOMAIN Forwards : First(f) \in table /\ ~BeingAdded(f) => ToSet(Rules(Forwards[f])) \subseteq table
               /\ \A v \in NetVMs : Added(v)
BY DEF TableInv, Added

\* Only one VM is made ready at a time, so BeingAdded is about that one.
LEMMA TableKeeps ==
  ASSUME NetInv, NEW v \in NetVMs, VMStep(v), ~left'
  PROVE  TableInv'
<1>0. /\ RulesType /\ PlaceInv /\ ~left /\ TableInv /\ phase[v] \in Phases /\ phase \in [NetVMs -> Phases]
      /\ at \in [NetVMs -> Nat] /\ at[v] \in Nat /\ table \subseteq AllRules
  BY OthersIdle DEF NetInv, RulesType
<1>1. \A w \in NetVMs : w # v => phase[w] \notin MadeReady /\ phase'[w] \notin MadeReady
  BY OthersIdle DEF Active, MadeReady
<1>2. /\ (\A w \in NetVMs : phase[w] \notin MadeReady) => table \subseteq ForwardAccepts
      /\ \A f \in DOMAIN Forwards : First(f) \in table /\ ~BeingAdded(f) => ToSet(Rules(Forwards[f])) \subseteq table
      /\ Added(v)
  BY <1>0, TableParts
<1>3. \A f \in DOMAIN Forwards : /\ First(f)' = First(f)
                                 /\ BeingAdded(f) <=> phase[v] = "forward" /\ RuleAt(v) > 1 /\ First(ForwardAt(v)) = First(f)
                                 /\ BeingAdded(f)' <=> phase'[v] = "forward" /\ RuleAt(v)' > 1 /\ First(ForwardAt(v)') = First(f)
  BY <1>1 DEF BeingAdded, First, MadeReady
<1>4. ASSUME phase'[v] \notin MadeReady => table' \subseteq ForwardAccepts,
             \A f \in DOMAIN Forwards : First(f) \in table' /\ ~BeingAdded(f)' => ToSet(Rules(Forwards[f])) \subseteq table',
             Added(v)'
      PROVE  TableInv'
  <2>1. \A w \in NetVMs : Added(w)'
    BY <1>1, <1>4 DEF Added, MadeReady
  <2>2. (\A w \in NetVMs : phase'[w] \notin MadeReady) => table' \subseteq ForwardAccepts
    BY <1>4
  <2>3. \A f \in DOMAIN Forwards : First(f)' \in table' /\ ~BeingAdded(f)' => ToSet(Rules(Forwards[f])) \subseteq table'
    BY <1>3, <1>4
  <2> QED BY <2>1, <2>2, <2>3 DEF TableInv, Added
\* The table as it was, and no start under way.
<1>5. ASSUME table' = table, phase[v] \notin {"forward"}, phase'[v] \notin {"forward", "running"},
             phase[v] \in MadeReady => phase'[v] \in MadeReady
      PROVE  TableInv'
  <2>1. Added(v)'
    BY <1>5 DEF Added
  <2>2. \A f \in DOMAIN Forwards : First(f) \in table' /\ ~BeingAdded(f)' => ToSet(Rules(Forwards[f])) \subseteq table'
    BY <1>2, <1>3, <1>5
  <2>3. phase'[v] \notin MadeReady => table' \subseteq ForwardAccepts
    BY <1>1, <1>2, <1>5
  <2> QED BY <1>4, <2>1, <2>2, <2>3
\* No rule but FORWARD rules.
<1>6. ASSUME table' \subseteq table \ RemovedRules, phase'[v] \notin {"forward", "running"} PROVE TableInv'
  <2>1. Added(v)'
    BY <1>6 DEF Added
  <2>2. \A f \in DOMAIN Forwards : First(f) \notin table'
    BY <1>6, RulesFacts
  <2>3. table' \subseteq ForwardAccepts
    BY <1>0, <1>6 DEF RemovedRules
  <2> QED BY <1>4, <2>1, <2>2, <2>3
<1>7. CASE CreateTAPDevice(v) \/ AttachTAP(v) \/ AttachTAPFails(v) \/ EgressChain(v) \/ EgressChainFails(v) \/ InstallEgressJump(v)
           \/ AppendEgressRule(v) \/ EgressFails(v) \/ EnsureTapForResume(v)
  <2>1. /\ table' = table /\ phase[v] \notin {"forward"} /\ phase'[v] \notin {"forward", "running"}
        /\ phase[v] \in MadeReady => phase'[v] \in MadeReady
    BY <1>0, <1>7 DEF CreateTAPDevice, AttachTAP, AttachTAPFails, EgressChain, EgressChainFails, InstallEgressJump,
      AppendEgressRule, EgressFails, EnsureTapForResume, SetPhase, MadeReady
  <2> QED BY <1>5, <2>1
<1>8. CASE ExitCleansNetwork(v) \/ DeleteVMNetwork(v) \/ AddPortForwardFails(v)
  <2>1. table' \subseteq table \ RemovedRules /\ phase'[v] \notin {"forward", "running"}
    BY <1>0, <1>8 DEF ExitCleansNetwork, DeleteVMNetwork, AddPortForwardFails, CleanupPortForwards, SetPhase
  <2> QED BY <1>6, <2>1
<1>9. CASE StopVMNetwork(v)
  <2>1. phase[v] = "running" /\ phase'[v] = "ready" /\ (table' = table \/ table' \subseteq table \ RemovedRules)
    BY <1>0, <1>9 DEF StopVMNetwork, CleanupPortForwards, SetPhase
  <2>2. CASE table' = table
    BY <1>5, <2>1, <2>2 DEF MadeReady
  <2>3. CASE table' \subseteq table \ RemovedRules
    BY <1>6, <2>1, <2>3
  <2> QED BY <2>1, <2>2, <2>3
<1>10. CASE StartVM(v)
  <2>1. table' = table /\ phase[v] = "ready" /\ phase'[v] = "forward" /\ at'[v] = 1
    BY <1>0, <1>10 DEF StartVM, SetPhase
  <2>2. ForwardAt(v)' = 1 /\ RuleAt(v)' = 1
    BY <2>1 DEF ForwardAt, RuleAt
  <2>3. Added(v)'
    BY <2>1, <2>2 DEF Added
  <2>4. \A f \in DOMAIN Forwards : First(f) \in table' /\ ~BeingAdded(f)' => ToSet(Rules(Forwards[f])) \subseteq table'
    BY <1>2, <1>3, <2>1
  <2> QED BY <1>4, <2>1, <2>3, <2>4 DEF MadeReady
<1>11. CASE AddPortForwardRule(v)
  <2> DEFINE f == ForwardAt(v)
             k == RuleAt(v)
             r == Rules(Forwards[f])[k]
             nx == IF k = 1 /\ r \in table THEN at[v] + 5 ELSE at[v] + 1
  <2>1. /\ phase[v] = "forward" /\ table' = table \union {r} /\ at' = [at EXCEPT ![v] = nx]
        /\ phase' = [phase EXCEPT ![v] = IF nx > 5 * Len(Forwards) THEN "running" ELSE "forward"]
    BY <1>11 DEF AddPortForwardRule, SetPhase
  <2>2. /\ at[v] \in Nat \ {0} /\ Len(Forwards) \in Nat /\ f \in DOMAIN Forwards /\ k \in 1 .. 5
        /\ at[v] = 5 * (f - 1) + k /\ DOMAIN Forwards = 1 .. Len(Forwards)
    BY <1>0, <2>1, PlaceFacts
  <2>3. at'[v] = nx /\ phase'[v] = IF nx > 5 * Len(Forwards) THEN "running" ELSE "forward"
    BY <1>0, <2>1
  <2>4. /\ k < 5 /\ nx = at[v] + 1 => ForwardAt(v)' = f /\ RuleAt(v)' = k + 1
        /\ k = 5 /\ nx = at[v] + 1 => ForwardAt(v)' = f + 1 /\ RuleAt(v)' = 1
        /\ k = 1 /\ nx = at[v] + 5 => ForwardAt(v)' = f + 1 /\ RuleAt(v)' = 1
    <3>1. nx \in Nat \ {0} /\ at'[v] = nx
      BY <2>2, <2>3
    <3>2. ForwardAt(v)' = ((at'[v] - 1) \div 5) + 1 /\ RuleAt(v)' = ((at'[v] - 1) % 5) + 1
      BY DEF ForwardAt, RuleAt
    <3>3. PICK a \in Nat \ {0} : a = nx
      BY <3>1
    <3>4. /\ ((a - 1) \div 5) + 1 \in Nat \ {0} /\ ((a - 1) % 5) + 1 \in 1 .. 5
          /\ a = 5 * (((a - 1) \div 5) + 1 - 1) + (((a - 1) % 5) + 1)
      BY PlaceOf
    <3>5. PICK g \in Nat \ {0}, i \in 1 .. 5 : g = ForwardAt(v)' /\ i = RuleAt(v)' /\ a = 5 * (g - 1) + i
      BY <3>1, <3>2, <3>3, <3>4
    <3> HIDE DEF nx, f, k
    <3>6. PICK p \in Nat \ {0}, q \in 1 .. 5 : p = f /\ q = k /\ at[v] = 5 * (p - 1) + q
      BY <2>2
    <3>7. \A n \in {1, 5} : a = 5 * (p - 1) + q + n =>
            /\ q < 5 /\ n = 1 => g = p /\ i = q + 1
            /\ (q = 5 /\ n = 1) \/ (q = 1 /\ n = 5) => g = p + 1 /\ i = 1
      BY <3>5
    <3>8. \A n \in {1, 5} : nx = at[v] + n => a = 5 * (p - 1) + q + n
      BY <3>3, <3>6
    <3> QED BY <3>5, <3>6, <3>7, <3>8
  <2>5. /\ \A g \in 1 .. f - 1 : ToSet(Rules(Forwards[g])) \subseteq table
        /\ \A i \in 1 .. k - 1 : Rules(Forwards[f])[i] \in table
    BY <1>2, <2>1 DEF Added
  <2>6. /\ \A g \in DOMAIN Forwards : r = First(g) <=> k = 1 /\ First(f) = First(g)
        /\ ToSet(Rules(Forwards[f])) = {Rules(Forwards[f])[i] : i \in 1 .. 5}
        /\ \A g \in DOMAIN Forwards : First(f) = First(g) => Rules(Forwards[f]) = Rules(Forwards[g])
    BY <2>2, RulesFacts
  <2>7. ASSUME (k = 1 /\ r \in table) \/ k = 5 PROVE ToSet(Rules(Forwards[f])) \subseteq table'
    <3>1. CASE k = 5
      <4>1. \A i \in 1 .. 5 : i = 5 \/ i \in 1 .. k - 1
        BY <3>1
      <4>2. \A i \in 1 .. 5 : Rules(Forwards[f])[i] \in table'
        BY <2>1, <2>5, <3>1, <4>1
      <4> QED BY <2>6, <4>2
    <3>2. CASE k = 1 /\ r \in table
      <4>1. First(f) \in table /\ ~BeingAdded(f)
        BY <1>3, <2>2, <3>2 DEF First
      <4> QED BY <1>2, <2>1, <2>2, <4>1
    <3> QED BY <2>7, <3>1, <3>2
  <2> HIDE DEF f, k, r
  <2>p. RuleAt(v) = k /\ ForwardAt(v) = f
    BY DEF k, f
  <2>8. CASE (k = 1 /\ r \in table) \/ k = 5
    <3>1. /\ ForwardAt(v)' = f + 1 /\ RuleAt(v)' = 1 /\ (nx > 5 * Len(Forwards) <=> f = Len(Forwards))
      BY <2>2, <2>4, <2>8
    <3>2. \A g \in 1 .. f : ToSet(Rules(Forwards[g])) \subseteq table'
      <4>1. \A g \in 1 .. f : g = f \/ g \in 1 .. f - 1
        BY <2>2
      <4> QED BY <2>1, <2>5, <2>7, <2>8, <4>1
    <3>3. Added(v)'
      <4>1. CASE phase'[v] = "forward"
        <5>1. /\ \A g \in 1 .. ForwardAt(v)' - 1 : ToSet(Rules(Forwards[g])) \subseteq table'
              /\ \A i \in 1 .. RuleAt(v)' - 1 : Rules(Forwards[ForwardAt(v)'])[i] \in table'
          BY <2>2, <3>1, <3>2
        <5> QED BY <4>1, <5>1 DEF Added
      <4>2. CASE phase'[v] = "running"
        <5>1. f = Len(Forwards)
          BY <2>3, <3>1, <4>2
        <5>2. AllRules \subseteq table'
          BY <2>2, <3>2, <5>1 DEF AllRules
        <5> QED BY <4>2, <5>2 DEF Added
      <4> QED BY <2>3, <4>1, <4>2 DEF Added
    <3>4. ASSUME NEW g \in DOMAIN Forwards, First(g) \in table' PROVE ToSet(Rules(Forwards[g])) \subseteq table'
      <4>1. CASE First(g) = First(f)
        BY <2>2, <2>6, <2>7, <2>8, <4>1
      <4>2. CASE First(g) # First(f)
        <5>1. First(g) \in table /\ ~BeingAdded(g)
          BY <1>3, <2>1, <2>6, <2>p, <3>4, <4>2
        <5> QED BY <1>2, <2>1, <5>1
      <4> QED BY <4>1, <4>2
    <3>5. phase'[v] \in MadeReady
      BY <2>3 DEF MadeReady
    <3> QED BY <1>4, <3>3, <3>4, <3>5
  <2>9. CASE ~((k = 1 /\ r \in table) \/ k = 5)
    <3>1. k < 5 /\ nx = at[v] + 1 /\ ForwardAt(v)' = f /\ RuleAt(v)' = k + 1 /\ phase'[v] = "forward"
      BY <2>2, <2>3, <2>4, <2>9
    <3>2. \A i \in 1 .. k : Rules(Forwards[f])[i] \in table'
      <4>1. \A i \in 1 .. k : i = k \/ i \in 1 .. k - 1
        BY <2>2
      <4> QED BY <2>1, <2>5, <4>1 DEF r
    <3>3. Added(v)'
      <4>1. /\ \A g \in 1 .. ForwardAt(v)' - 1 : ToSet(Rules(Forwards[g])) \subseteq table'
            /\ \A i \in 1 .. RuleAt(v)' - 1 : Rules(Forwards[ForwardAt(v)'])[i] \in table'
        BY <2>1, <2>2, <2>5, <3>1, <3>2
      <4> QED BY <3>1, <4>1 DEF Added
    <3>4. ASSUME NEW g \in DOMAIN Forwards, First(g) \in table', ~BeingAdded(g)' PROVE ToSet(Rules(Forwards[g])) \subseteq table'
      <4>1. First(g) # First(f)
        BY <1>3, <2>2, <3>1, <3>4
      <4>2. First(g) \in table /\ ~BeingAdded(g)
        BY <1>3, <2>1, <2>6, <2>p, <3>4, <4>1
      <4> QED BY <1>2, <2>1, <4>2
    <3> QED BY <1>4, <3>1, <3>3, <3>4 DEF MadeReady
  <2> QED BY <2>8, <2>9
<1> QED BY <1>7, <1>8, <1>9, <1>10, <1>11 DEF VMStep

-----------------------------------------------------------------------------
(* All steps                                                               *)

LEMMA VMStepKeeps ==
  ASSUME NetInv, NEW v \in NetVMs, VMStep(v)
  PROVE  NetInv'
<1>1. HostInv'
  <2>1. UNCHANGED hostVars
    BY OthersIdle
  <2> QED BY <2>1 DEF NetInv, HostInv, hostVars
<1>2. ~left' => (\A w \in NetVMs : CleanInv(w)') /\ TableInv'
  BY CleanKeeps, TableKeeps
<1> QED BY <1>1, <1>2, VMStepTypes, AloneKeeps, EnforcedKeeps DEF NetInv

\* A rule at the end of FORWARD changes no head and is no jump.
LEMMA HostStepKeeps ==
  ASSUME NetInv, HostStep
  PROVE  NetInv'
<1>1. RulesType' /\ UNCHANGED vmVars /\ (forward' = forward \/ forward' = Append(forward, <<"nat">>))
  BY HostStepTypes
<1>2. HostInv'
  BY HostKeeps
<1>3. UNCHANGED <<policy, phase, at, tap, chain, table, exited, left>>
  BY <1>1 DEF vmVars
<1>4. RulesType /\ forward \in Seq(Entries)
  BY DEF NetInv, RulesType
<1>5. AloneInv' /\ PlaceInv'
  BY <1>3 DEF NetInv, AloneInv, Active, PlaceInv
<1>6. ASSUME NEW v \in NetVMs PROVE EnforcedInv(v)'
  <2>1. HeadIs(v) => HeadIs(v)'
    BY <1>1, <1>4 DEF HeadIs, Jump
  <2>2. EnforcedInv(v) /\ EgressRules(policy[v])' = EgressRules(policy[v])
    BY <1>3 DEF NetInv, EgressRules
  <2> QED BY <1>3, <2>1, <2>2 DEF EnforcedInv, MadeReady
<1>7. ASSUME NEW v \in NetVMs, ~left PROVE CleanInv(v)'
  <2>1. CleanInv(v) /\ (Jumped(v)' <=> Jumped(v))
    BY <1>3, <1>7 DEF NetInv, Jumped, MadeReady
  <2>2. ASSUME NEW k \in {"bridge", "tap"}
        PROVE  /\ Once(forward, Jump(v, k)) => Once(forward', Jump(v, k))
               /\ Jump(v, k) \in ToSet(forward') => Jump(v, k) \in ToSet(forward)
    <3> DEFINE j == Jump(v, k)
    <3>1. j # <<"nat">>
      BY JumpsDiffer
    <3> HIDE DEF j
    <3>2. CASE forward' = Append(forward, <<"nat">>)
      <4>1. /\ DOMAIN forward = 1 .. Len(forward) /\ Len(forward) \in Nat /\ DOMAIN forward' = 1 .. Len(forward) + 1
            /\ forward'[Len(forward) + 1] = <<"nat">> /\ \A i \in 1 .. Len(forward) : forward'[i] = forward[i]
        <5>0. <<"nat">> \in Entries
          BY DEF Entries
        <5>1. PICK n \in Entries : n = <<"nat">>
          BY <5>0
        <5> QED BY <1>4, <3>2, <5>1
      <4>2. \A i \in DOMAIN forward' : forward'[i] = j => i \in DOMAIN forward /\ forward[i] = j
        BY <3>1, <4>1
      <4> QED BY <4>2 DEF Once, ToSet, j
    <3> QED BY <1>1, <3>2
  <2>3. \A k \in {"bridge", "tap"} : Jump(v, k)' = Jump(v, k)
    BY DEF Jump
  <2> QED BY <1>3, <2>1, <2>2, <2>3 DEF CleanInv, NoChain
<1>8. ~left => TableInv'
  <2>1. ~left => TableInv
    BY DEF NetInv
  <2> QED BY <1>3, <2>1 DEF TableInv, BeingAdded, First, RuleAt, ForwardAt, MadeReady
<1> QED BY <1>1, <1>2, <1>3, <1>5, <1>6, <1>7, <1>8 DEF NetInv

LEMMA DeathKeeps ==
  ASSUME NetInv, NetworkDaemonDies
  PROVE  NetInv'
<1>1. /\ UNCHANGED <<policy, at, tap, chain, forward, table, exited>> /\ RulesType' /\ (left => left')
      /\ \A v \in NetVMs :
           \/ phase'[v] = phase[v] /\ phase[v] \notin {"tap", "egress", "forward"}
           \/ phase[v] \in {"tap", "egress"} /\ phase'[v] = "gone" /\ left'
           \/ phase[v] = "forward" /\ phase'[v] = "ready" /\ left'
  BY DeathFacts
<1>2. HostInv'
  BY HostKeeps
<1>3. AloneInv' /\ PlaceInv'
  BY <1>1 DEF NetInv, AloneInv, Active, PlaceInv
<1>4. ASSUME NEW v \in NetVMs PROVE EnforcedInv(v)'
  <2>1. EnforcedInv(v) /\ EgressRules(policy[v])' = EgressRules(policy[v]) /\ (HeadIs(v)' <=> HeadIs(v))
    BY <1>1 DEF NetInv, EgressRules, HeadIs, Jump
  <2>2. phase'[v] # "egress" /\ (phase'[v] \in MadeReady => phase[v] \in MadeReady)
    BY <1>1 DEF MadeReady
  <2> QED BY <1>1, <2>1, <2>2 DEF EnforcedInv, MadeReady
<1>5. ASSUME ~left' PROVE (\A v \in NetVMs : CleanInv(v)') /\ TableInv'
  <2>1. ~left /\ \A v \in NetVMs : phase'[v] = phase[v]
    BY <1>1, <1>5
  <2>2. (\A v \in NetVMs : CleanInv(v)) /\ TableInv
    BY <2>1 DEF NetInv
  <2>3. ASSUME NEW v \in NetVMs PROVE CleanInv(v)'
    <3>1. CleanInv(v) /\ phase'[v] = phase[v] /\ (Jumped(v)' <=> Jumped(v))
      BY <1>1, <2>1, <2>2 DEF Jumped, MadeReady
    <3>2. \A k \in {"bridge", "tap"} : Jump(v, k)' = Jump(v, k)
      BY DEF Jump
    <3> QED BY <1>1, <3>1, <3>2 DEF CleanInv, NoChain
  <2>4. TableInv'
    BY <1>1, <2>1, <2>2 DEF TableInv, BeingAdded, First, RuleAt, ForwardAt, MadeReady
  <2> QED BY <2>3, <2>4
<1> QED BY <1>1, <1>2, <1>3, <1>4, <1>5 DEF NetInv

LEMMA InitNet == RulesInit => NetInv
<1> SUFFICES ASSUME RulesInit PROVE NetInv
  OBVIOUS
<1>1. RulesType
  <2>1. exited \in [NetVMs -> BOOLEAN] /\ left \in BOOLEAN
    BY Zenon DEF RulesInit
  <2>2. NoChain \in Seq(Words)
    BY DEF NoChain, Words
  <2>3. chain \in [NetVMs -> Seq(Words)]
    BY <2>2 DEF RulesInit
  <2>4. forward \in Seq(Entries) /\ table \subseteq AllRules
    BY DEF RulesInit
  <2>5. policy \in [NetVMs -> Policies] /\ phase \in [NetVMs -> Phases] /\ at \in [NetVMs -> Nat] /\ tap \in [NetVMs -> Nat]
    BY DEF RulesInit, Phases
  <2> QED BY <2>1, <2>3, <2>4, <2>5 DEF RulesType
<1>2. \A v \in NetVMs : phase[v] = "none" /\ tap[v] = 0 /\ chain[v] = NoChain
  BY DEF RulesInit
<1>3. HostInv
  <2>1. hostNet = "down" /\ bridge = 0 /\ natRules = {} /\ halfBridge = FALSE
    BY DEF RulesInit
  <2>2. halfBridge \in BOOLEAN
    BY <2>1, Zenon
  <2>3. bridge \in 0 .. 4
    BY <2>1
  <2> QED BY <2>1, <2>2, <2>3 DEF HostInv
<1>4. AloneInv /\ PlaceInv /\ \A v \in NetVMs : EnforcedInv(v)
  BY <1>2 DEF AloneInv, Active, PlaceInv, EnforcedInv, MadeReady
<1>5. \A v \in NetVMs : CleanInv(v)
  <2>1. forward = <<>> /\ DOMAIN << >> = {}
    BY DEF RulesInit
  <2>2. ToSet(forward) = {} /\ \A e : Once(forward, e)
    BY <2>1 DEF ToSet, Once
  <2> QED BY <1>2, <2>2 DEF CleanInv
<1>6. TableInv
  BY <1>2 DEF RulesInit, TableInv
<1> QED BY <1>1, <1>3, <1>4, <1>5, <1>6 DEF NetInv

LEMMA NextNet == NetInv /\ [RulesNext]_ruleVars => NetInv'
<1> SUFFICES ASSUME NetInv, [RulesNext]_ruleVars PROVE NetInv'
  OBVIOUS
<1>1. CASE UNCHANGED ruleVars
  <2>1. UNCHANGED <<hostNet, bridge, natRules, halfBridge, policy, phase, at, tap, chain, forward, table, exited, left>>
    BY <1>1 DEF ruleVars, hostVars
  <2>2. RulesType' /\ HostInv' /\ AloneInv' /\ PlaceInv'
    BY <2>1 DEF NetInv, RulesType, HostInv, AloneInv, Active, PlaceInv
  <2>3. \A v \in NetVMs : EnforcedInv(v)'
    BY <2>1 DEF NetInv, EnforcedInv, HeadIs, Jump, EgressRules, MadeReady
  <2>4. ~left' => \A v \in NetVMs : CleanInv(v)'
    BY <2>1 DEF NetInv, CleanInv, Jumped, Jump, NoChain, MadeReady
  <2>5. ~left' => TableInv'
    BY <2>1 DEF NetInv, TableInv, BeingAdded, First, RuleAt, ForwardAt, MadeReady
  <2> QED BY <2>2, <2>3, <2>4, <2>5 DEF NetInv
<1>2. CASE RulesNext
  <2>1. CASE HostStep
    BY <2>1, HostStepKeeps
  <2>2. CASE NetworkDaemonDies
    BY <2>2, DeathKeeps
  <2>3. ASSUME NEW v \in NetVMs, VMStep(v) PROVE NetInv'
    BY <2>3, VMStepKeeps
  <2> QED BY <1>2, <2>1, <2>2, <2>3 DEF RulesNext, HostStep, VMStep
<1> QED BY <1>1, <1>2

LEMMA NetInvariant == RulesSpec => []NetInv
<1> QED BY InitNet, NextNet, PTL DEF RulesSpec

(***************************************************************************)
(* For any number of VMs that follow each other with one address, any      *)
(* policies, any number of failing commands and deaths of the daemon:      *)
(* every packet of a VM that is ready meets exactly the verdict of its own *)
(* policy, until the exit handler has removed it.                          *)
(***************************************************************************)
THEOREM PoliciesAreEnforced == RulesSpec => []EgressEnforced
<1>1. NetInv => EgressEnforced
  <2> SUFFICES ASSUME NetInv, NEW v \in NetVMs, phase[v] \in MadeReady, ~exited[v], NEW d \in Destinations
               PROVE  Verdict(v, d) = IF Allowed(policy[v], d) THEN "ACCEPT" ELSE "DROP"
    BY DEF EgressEnforced, MadeReady
  <2>1. RulesType /\ HeadIs(v) /\ chain[v] = EgressRules(policy[v])
    BY DEF NetInv, EnforcedInv
  <2> QED BY <2>1, HeadDecides
<1> QED BY <1>1, NetInvariant, PTL

(***************************************************************************)
(* For any number of VMs, forwards and failing commands: a VM that runs    *)
(* has all rules of its forwards, VMs that are gone leave nothing, and a   *)
(* daemon that is up has a whole bridge and all NAT rules, as long as no   *)
(* roll-back itself failed or was cut off.                                 *)
(***************************************************************************)
THEOREM SetUpIsAllOrNothing == RulesSpec => []SetUpAllOrNothing
<1>1. NetInv => HostNetworkReady
  BY DEF NetInv, HostInv, HostNetworkReady
<1>2. NetInv => ForwardsComplete
  BY DEF NetInv, TableInv, ForwardsComplete
<1>3. NetInv => NetworkLeftClean
  <2> SUFFICES ASSUME NetInv, \A v \in NetVMs : phase[v] \in {"none", "gone"}, ~left
               PROVE  /\ \A v \in NetVMs : tap[v] = 0 /\ chain[v] = NoChain
                      /\ ToSet(forward) \subseteq {<<"nat">>} /\ table \subseteq ForwardAccepts
    BY DEF NetworkLeftClean
  <2>1. \A v \in NetVMs : CleanInv(v) /\ ~Jumped(v)
    BY DEF NetInv, Jumped, MadeReady
  <2>2. \A v \in NetVMs : tap[v] = 0 /\ chain[v] = NoChain
    BY <2>1 DEF CleanInv
  <2>3. \A v \in NetVMs, k \in {"bridge", "tap"} : Jump(v, k) \notin ToSet(forward)
    BY <2>1 DEF CleanInv
  <2>4. ToSet(forward) \subseteq Entries
    BY DEF NetInv, RulesType, ToSet
  <2>5. ToSet(forward) \subseteq {<<"nat">>}
    BY <2>3, <2>4 DEF Entries
  <2>6. table \subseteq ForwardAccepts
    BY DEF NetInv, TableInv, MadeReady
  <2> QED BY <2>2, <2>5, <2>6
<1> QED BY <1>1, <1>2, <1>3, NetInvariant, PTL DEF SetUpAllOrNothing
=============================================================================
