------------------------------- MODULE CliLogs -------------------------------
(***************************************************************************)
(* nanofuse vm logs --follow (cmd/nanofuse/main.go, streamVMLogs): the     *)
(* whole console log is fetched twice a second, and what lies behind the   *)
(* length seen last is printed.  The log grows meanwhile, may be truncated *)
(* by somebody, and goes with its VM.                                      *)
(*                                                                         *)
(* A line of the log is the number of lines written before it.             *)
(***************************************************************************)
EXTENDS Naturals, Sequences

CONSTANTS
  Tails,        \* values of --tail
  MaxLines,     \* bound: lines the guest writes
  MaxLogFaults  \* bound: truncations of the log

ASSUME LogsAssumption == Tails \subseteq Nat /\ MaxLines \in Nat /\ MaxLogFaults \in Nat

VARIABLES
  log,        \* the console log
  written,    \* number of lines the guest has written
  truncated,  \* number of truncations
  vmExists,   \* the VM is known to the daemon
  follow,     \* the command: "idle", "polls" or "over"
  lastSize,   \* lastSize of streamVMLogs
  printed     \* history: the lines it has printed

logVars == <<log, written, truncated, vmExists, follow, lastSize, printed>>

LogsInit ==
  /\ log = <<>> /\ written = 0 /\ truncated = 0 /\ vmExists = TRUE
  /\ follow = "idle" /\ lastSize = 0 /\ printed = <<>>

\* The guest writes to its console.
GuestWrites ==
  /\ vmExists /\ written < MaxLines
  /\ log' = Append(log, written) /\ written' = written + 1
  /\ UNCHANGED <<truncated, vmExists, follow, lastSize, printed>>

\* Somebody rotates the log.
LogTruncated ==
  /\ truncated < MaxLogFaults /\ log # <<>> /\ log' = <<>> /\ truncated' = truncated + 1
  /\ UNCHANGED <<written, vmExists, follow, lastSize, printed>>

VMDeleted ==
  /\ vmExists /\ vmExists' = FALSE /\ UNCHANGED <<log, written, truncated, follow, lastSize, printed>>

-----------------------------------------------------------------------------
(* streamVMLogs                                                            *)

LastLines(s, n) == IF n > 0 /\ Len(s) > n THEN SubSeq(s, Len(s) - n + 1, Len(s)) ELSE s

\* The first fetch: its last lines are printed, its length is where following begins.
FollowStarts(tail) ==
  /\ follow = "idle"
  /\ \/ /\ vmExists /\ follow' = "polls" /\ lastSize' = Len(log) /\ printed' = LastLines(log, tail)
     \/ follow' = "over" /\ UNCHANGED <<lastSize, printed>>
  /\ UNCHANGED <<log, written, truncated, vmExists>>

\* Mutant: the new length is not noted when the log has shrunk.
SeeLogTwice ==
  /\ printed' = printed \o (IF Len(log) < lastSize THEN log ELSE SubSeq(log, lastSize + 1, Len(log)))
  /\ lastSize' = IF Len(log) < lastSize THEN lastSize ELSE Len(log)

\* A log that has shrunk is new from its beginning; otherwise the part behind lastSize is.
SeeLog ==
  /\ printed' = printed \o (IF Len(log) < lastSize THEN log ELSE SubSeq(log, lastSize + 1, Len(log)))
  /\ lastSize' = Len(log)

PollSucceeds ==
  /\ follow = "polls" /\ vmExists /\ SeeLog /\ UNCHANGED <<log, written, truncated, vmExists, follow>>

\* Mutant: a VM that is gone is one more error to wait for the end of.
PollFindsNoVMWaits == follow = "polls" /\ ~vmExists /\ UNCHANGED logVars

\* VM_NOT_FOUND ends the command; other errors are tried again.
PollFindsNoVM ==
  /\ follow = "polls" /\ ~vmExists /\ follow' = "over"
  /\ UNCHANGED <<log, written, truncated, vmExists, lastSize, printed>>

\* Ctrl-C.
Interrupted ==
  /\ follow = "polls" /\ follow' = "over" /\ UNCHANGED <<log, written, truncated, vmExists, lastSize, printed>>

LogsNext ==
  \/ GuestWrites \/ LogTruncated \/ VMDeleted
  \/ \E n \in Tails : FollowStarts(n)
  \/ PollSucceeds \/ PollFindsNoVM \/ Interrupted

\* The ticker goes on, and not every request fails.
LogsFairness == WF_logVars(PollSucceeds) /\ WF_logVars(PollFindsNoVM)

-----------------------------------------------------------------------------
(***************************************************************************)
(* No line is printed twice or before an earlier one, whenever the log is  *)
(* truncated and however it grows between two polls; and without           *)
(* truncations none is left out.                                           *)
(***************************************************************************)
FollowedOnceInOrder ==
  /\ \A i \in 1..(Len(printed) - 1) : printed[i] < printed[i + 1]
  /\ truncated = 0 /\ printed # <<>> =>
       printed[Len(printed)] = lastSize - 1 /\ \A i \in 1..(Len(printed) - 1) : printed[i + 1] = printed[i] + 1

(***************************************************************************)
(* A VM that has been deleted ends the command that follows its log.       *)
(***************************************************************************)
FollowEnds == []<>(follow = "polls" => vmExists)
==============================================================================
