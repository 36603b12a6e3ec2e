-------------------------------- MODULE Svid --------------------------------
(***************************************************************************)
(* The workload identity of a VM: the manager that fetches an SVID, writes *)
(* it to a file and rotates it ahead of its expiry                         *)
(* (internal/spire/manager.go, credwrite_unix.go, issuer.go).              *)
(*                                                                         *)
(* Time is discrete.  An SVID is the time at which it expires.  Timers     *)
(* fire when they are due; a fetch may take any time, up to its deadline;  *)
(* verifying and writing take less than one unit of time.                  *)
(***************************************************************************)
EXTENDS Naturals

CONSTANTS
  TTL,            \* lifetime of an SVID that the source issues
  CAEnd,          \* time at which the signing certificate of the source expires
  RefreshBefore,  \* ManagerConfig.RefreshBefore
  RetryInterval,  \* ManagerConfig.RetryInterval
  MaxClock,       \* bound: last moment that is looked at
  MaxSvidFaults   \* bound: failing fetches, writes and removals

ASSUME SvidAssumption ==
  /\ {TTL, CAEnd, RefreshBefore, RetryInterval, MaxClock, MaxSvidFaults} \subseteq Nat
  /\ RefreshBefore > 0 /\ RetryInterval > 0

VARIABLES
  clock,
  manager,     \* "idle", "fetch", "write", "sleep", "stopped" or "refused"
  starting,    \* the initial issue is not over
  document,    \* expiry of the SVID in the file, 0 without a file
  held,        \* Manager.current: its expiry, or 0 for nil
  answer,      \* expiry of the SVID that was fetched
  wake,        \* when the timer of the loop fires
  cancelled,   \* the context of the manager is cancelled
  undeletable, \* history: the last removal of the file failed
  trouble,     \* history: failed attempts, and time spent in fetches
  svidFaults

svidVars == <<clock, manager, starting, document, held, answer, wake, cancelled, undeletable, trouble, svidFaults>>

Least(a, b) == IF a < b THEN a ELSE b

\* A file of an earlier manager may be there.
SvidInit ==
  /\ clock = 1 /\ manager = "idle" /\ starting = TRUE /\ document \in {0, 2}
  /\ held = 0 /\ answer = 0 /\ wake = 0 /\ cancelled = FALSE
  /\ undeletable = FALSE /\ trouble = 0 /\ svidFaults = 0

-----------------------------------------------------------------------------
(* The loop                                                                *)

Expired(e) == e <= clock    \* currentExpired: nil counts as expired

\* Mutant: the wait after a failure is not cut short at the expiry.
FailureDelayFull(e) == RetryInterval

\* failureDelay: no longer than the SVID is valid.
FailureDelay(e) ==
  IF e > clock THEN Least(RetryInterval, e - clock) ELSE RetryInterval

\* Mutant: the rotation starts when the SVID expires.
RefreshDelayLate(e) == IF e > clock THEN e - clock ELSE 0

\* refreshDelay: until RefreshBefore ahead of the expiry, at least zero.
RefreshDelay(e) == IF e > clock + RefreshBefore THEN e - RefreshBefore - clock ELSE 0

\* An attempt failed, at the cost of n faults, while the file holds d.  At startup the
\* manager gives up.  Later it drops an expired SVID (invalidate): the file is removed, and
\* current is forgotten only if that and the sync succeed.  Then it waits to try again.
AttemptFails(d, n) ==
  \E removal \in {"done", "unsynced", "failed"} :
    /\ removal # "done" => ~starting /\ Expired(held)
    /\ svidFaults' = svidFaults + n + (IF removal = "done" THEN 0 ELSE 1)
    /\ svidFaults' <= MaxSvidFaults
    /\ trouble' = trouble + 1
    /\ IF starting \/ ~Expired(held)
       THEN document' = d /\ UNCHANGED <<held, undeletable>>
       ELSE /\ document' = IF removal = "failed" THEN d ELSE 0
            /\ held' = IF removal = "done" THEN 0 ELSE held
            /\ undeletable' = (removal = "failed")
    /\ IF starting THEN manager' = "refused" /\ UNCHANGED wake
       ELSE /\ manager' = IF cancelled THEN "stopped" ELSE "sleep"
            /\ wake' = clock + FailureDelay(held')

\* Start: the first issue; a second call is refused.
Start ==
  /\ manager = "idle" /\ manager' = "fetch"
  /\ UNCHANGED <<clock, starting, document, held, answer, wake, cancelled, undeletable, trouble, svidFaults>>

\* The timer fires; rotateOnce does not try to rotate an SVID that has expired.
Wake ==
  /\ manager = "sleep" /\ wake <= clock
  /\ IF held # 0 /\ Expired(held)
     THEN AttemptFails(document, 0)
     ELSE manager' = "fetch" /\ UNCHANGED <<document, held, wake, undeletable, trouble, svidFaults>>
  /\ UNCHANGED <<clock, starting, answer, cancelled>>

\* The source signs with a certificate that it never renews.
Issued == Least(clock + TTL, CAEnd)

\* FetchSVID answers.  An SVID that does not outlive the refresh time is refused.
FetchSVID ==
  /\ manager = "fetch" /\ ~cancelled /\ (held = 0 \/ held > clock)
  /\ answer' = Issued
  /\ IF Issued > clock + RefreshBefore
     THEN manager' = "write" /\ UNCHANGED <<starting, document, held, wake, undeletable, trouble, svidFaults>>
     ELSE AttemptFails(document, 0) /\ UNCHANGED starting
  /\ UNCHANGED <<clock, cancelled>>

\* The source is unreachable, gives an SVID that does not verify, or nothing.
FetchFails ==
  /\ manager = "fetch" /\ (held = 0 \/ held > clock)
  /\ AttemptFails(document, 1)
  /\ UNCHANGED <<clock, starting, answer, cancelled>>

\* The fetch reaches its deadline, the expiry of the current SVID, or is cancelled.
FetchEnds ==
  /\ manager = "fetch" /\ (cancelled \/ (held # 0 /\ held <= clock))
  /\ AttemptFails(document, 0)
  /\ UNCHANGED <<clock, starting, answer, cancelled>>

\* Mutant: current is replaced although the document could not be written.
WriteDocumentLate ==
  /\ manager = "write"
  /\ held' = answer
  /\ \/ document' = answer /\ UNCHANGED svidFaults
     \/ svidFaults < MaxSvidFaults /\ svidFaults' = svidFaults + 1 /\ UNCHANGED document
  /\ starting' = FALSE /\ manager' = IF cancelled THEN "stopped" ELSE "sleep"
  /\ wake' = clock + RefreshDelay(answer)
  /\ undeletable' = FALSE
  /\ UNCHANGED <<clock, answer, cancelled, trouble>>

\* writeDocument renames the new file over the old one; current follows.
WriteDocument ==
  /\ manager = "write"
  /\ document' = answer /\ held' = answer
  /\ starting' = FALSE /\ manager' = IF cancelled THEN "stopped" ELSE "sleep"
  /\ wake' = clock + RefreshDelay(answer)
  /\ undeletable' = FALSE
  /\ UNCHANGED <<clock, answer, cancelled, trouble, svidFaults>>

\* The write fails before the rename, or after it at the sync of the directory.
WriteDocumentFails ==
  /\ manager = "write"
  /\ \E d \in {document, answer} : AttemptFails(d, 1)
  /\ UNCHANGED <<clock, starting, answer, cancelled>>

\* Stop, or the context of the caller ends.  A document that is being written is finished.
StopManager ==
  /\ manager \in {"fetch", "write", "sleep"} /\ ~cancelled
  /\ cancelled' = TRUE
  /\ manager' = IF manager = "sleep" THEN "stopped" ELSE manager
  /\ UNCHANGED <<clock, starting, document, held, answer, wake, undeletable, trouble, svidFaults>>

\* Time passes when nothing is due now.
Due ==
  \/ manager = "write"
  \/ manager = "sleep" /\ wake <= clock
  \/ manager = "fetch" /\ (cancelled \/ (held # 0 /\ held <= clock))

Tick ==
  /\ ~Due /\ clock < MaxClock /\ clock' = clock + 1
  /\ trouble' = IF manager = "fetch" THEN trouble + 1 ELSE trouble
  /\ UNCHANGED <<manager, starting, document, held, answer, wake, cancelled, undeletable, svidFaults>>

SvidNext ==
  \/ Start \/ Wake \/ FetchSVID \/ FetchFails \/ FetchEnds
  \/ WriteDocument \/ WriteDocumentFails \/ StopManager \/ Tick

-----------------------------------------------------------------------------
(***************************************************************************)
(* While the manager runs, a document never stays in the file beyond its   *)
(* expiry, whatever fails and however long a fetch takes, unless the file  *)
(* cannot be removed: the retry wakes up at the expiry and a fetch is cut  *)
(* off there (run, rotateOnce, failureDelay).                              *)
(***************************************************************************)
ExpiredIsRemoved ==
  manager \in {"fetch", "write", "sleep"} /\ ~starting /\ document # 0 =>
    document >= clock \/ undeletable

(***************************************************************************)
(* As long as Current returns an SVID that is valid, the file holds it or  *)
(* a later one: current follows the document and not the other way round.  *)
(***************************************************************************)
CurrentIsOnDisk == held > clock => document >= held

(***************************************************************************)
(* One failed attempt, or one unit of delay, costs no identity: from the   *)
(* end of Start on the file holds a valid SVID.  (Near the end of the      *)
(* signing certificate every attempt fails.)                               *)
(***************************************************************************)
IdentitySurvivesOneFailure ==
  manager \in {"fetch", "write", "sleep"} /\ ~starting /\ ~cancelled /\ trouble <= 1 =>
    document > clock

(***************************************************************************)
(* The file holds the SVID that the manager has, and only while it is      *)
(* valid.                                                                  *)
(***************************************************************************)
DocumentIsCurrent == ExpiredIsRemoved /\ CurrentIsOnDisk
=============================================================================
