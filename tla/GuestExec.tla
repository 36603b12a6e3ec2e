------------------------------ MODULE GuestExec ------------------------------
(***************************************************************************)
(* Running a command in a guest over ssh (internal/firecracker/exec.go and *)
(* the handler in internal/api/vm_handlers.go).  The remote shell prints a *)
(* marker with the exit code of the command after its output, because the  *)
(* exit code of ssh says 255 both for a broken connection and for a        *)
(* command that ended with 255.  Output is captured up to a limit, so the  *)
(* marker may be cut off, and the command may print the marker itself.     *)
(*                                                                         *)
(* Output is a sequence of tokens of length one.                           *)
(***************************************************************************)
EXTENDS Naturals, Sequences, SequencesExt

CONSTANTS
  Tokens,     \* what a command prints: "x", "nl", the marker "mark", digits
  ExitCodes,  \* its exit codes: strings of digits
  OutputCap,  \* execOutputCap
  MaxOutput   \* bound: length of the output of the command

ASSUME GuestExecAssumption ==
  /\ OutputCap \in Nat \ {0} /\ MaxOutput \in Nat
  /\ "255" \in ExitCodes /\ {"nl", "mark", "cut"} \cap ExitCodes = {}

VARIABLES
  execAt,    \* "request", "running", "ended" (ssh has ended) or "over"
  output,    \* what the command has printed so far
  code,      \* its exit code
  sshCode,   \* the exit code of ssh
  buffer,    \* cappedBuffer
  expired,   \* the context has expired
  execAnswer \* the answer of the API

execVars == <<execAt, output, code, sshCode, buffer, expired, execAnswer>>

NoResult == [status |-> 0, code |-> "", stdout |-> <<>>]

ExecInit ==
  /\ execAt = "request" /\ output = <<>> /\ code \in ExitCodes /\ sshCode = ""
  /\ buffer = [buf |-> <<>>, truncated |-> FALSE] /\ expired = FALSE /\ execAnswer = NoResult

-----------------------------------------------------------------------------
(* cappedBuffer                                                            *)

\* WriteCapped: what fits is kept, the rest is dropped and noted.
WriteCapped(b, p) ==
  LET remaining == OutputCap - Len(b.buf) IN
  [buf |-> IF Len(p) > remaining THEN b.buf \o SubSeq(p, 1, remaining) ELSE b.buf \o p,
   truncated |-> b.truncated \/ Len(p) > remaining]

\* CappedString: a truncated text ends with a mark of its own, within the limit.
CappedString(b) == IF b.truncated THEN SubSeq(b.buf, 1, OutputCap - 1) \o <<"cut">> ELSE b.buf

-----------------------------------------------------------------------------
(* parseExitSentinel                                                       *)

NoSentinel(s) == [ok |-> FALSE, code |-> "", clean |-> s]

Marks(s) == {i \in DOMAIN s : s[i] = "mark"}
Digits == ExitCodes \union {"0"}

\* The marker at i, digits behind it, then only blanks; one newline before it is ours.
SentinelAt(s, i) ==
  LET rest == SubSeq(s, i + 1, Len(s)) IN
  IF rest # <<>> /\ Head(rest) \in Digits /\ \A k \in 2..Len(rest) : rest[k] = "nl"
  THEN [ok |-> TRUE, code |-> Head(rest),
        clean |-> IF i > 1 /\ s[i - 1] = "nl" THEN SubSeq(s, 1, i - 2) ELSE SubSeq(s, 1, i - 1)]
  ELSE NoSentinel(s)

\* Mutant: the first marker is taken for the one of the shell.
ParseFirstSentinel(s) ==
  IF Marks(s) = {} THEN NoSentinel(s) ELSE SentinelAt(s, CHOOSE i \in Marks(s) : \A j \in Marks(s) : i <= j)

\* The last marker counts.
ParseExitSentinel(s) ==
  IF Marks(s) = {} THEN NoSentinel(s) ELSE SentinelAt(s, CHOOSE i \in Marks(s) : \A j \in Marks(s) : i >= j)

-----------------------------------------------------------------------------
(* Exec and its handler                                                    *)

\* The request, the VM and its state are looked at, without a lock ...
ExecAdmitted ==
  /\ execAt = "request" /\ execAt' = "running" /\ UNCHANGED <<output, code, sshCode, buffer, expired, execAnswer>>

\* ... and refused: a bad request, an unknown VM, another state, no key for ssh, no address.
ExecRefused ==
  /\ execAt = "request" /\ execAt' = "over"
  /\ \E s \in {400, 404, 409, 500, 501} : execAnswer' = [NoResult EXCEPT !.status = s]
  /\ UNCHANGED <<output, code, sshCode, buffer, expired>>

\* The command prints, in pieces of any length.
CommandPrints(piece) ==
  /\ execAt = "running" /\ Len(output) + Len(piece) <= MaxOutput
  /\ output' = output \o piece /\ buffer' = WriteCapped(buffer, piece)
  /\ UNCHANGED <<execAt, code, sshCode, expired, execAnswer>>

\* Mutant: the shell exits with the status of its last command, which printed the marker.
ShellEndsZero ==
  /\ execAt = "running" /\ execAt' = "ended" /\ sshCode' = "0"
  /\ buffer' = WriteCapped(buffer, <<"nl", "mark", code, "nl">>)
  /\ UNCHANGED <<output, code, expired, execAnswer>>

\* It ends: the shell prints the marker with its exit code, and exits with that code.
ShellEnds ==
  /\ execAt = "running" /\ execAt' = "ended" /\ sshCode' = code
  /\ buffer' = WriteCapped(buffer, <<"nl", "mark", code, "nl">>)
  /\ UNCHANGED <<output, code, expired, execAnswer>>

\* The connection breaks, or ssh is killed because the context has expired.
SshBreaks ==
  /\ execAt = "running" /\ execAt' = "ended" /\ sshCode' = "255"
  /\ UNCHANGED <<output, code, buffer, expired, execAnswer>>

ContextExpires ==
  /\ execAt \in {"running", "ended"} /\ ~expired /\ expired' = TRUE
  /\ UNCHANGED <<execAt, output, code, sshCode, buffer, execAnswer>>

\* The marker decides; without it the context, then the exit code of ssh.
ExecResult ==
  LET p == ParseExitSentinel(CappedString(buffer)) IN
  CASE p.ok -> [status |-> 200, code |-> p.code, stdout |-> p.clean]
    [] ~p.ok /\ expired -> [status |-> 504, code |-> "", stdout |-> p.clean]
    [] ~p.ok /\ ~expired /\ sshCode # "255" -> [status |-> 200, code |-> sshCode, stdout |-> p.clean]
    [] OTHER -> [status |-> 500, code |-> "255", stdout |-> p.clean]

ExecEnds ==
  /\ execAt = "ended" /\ execAt' = "over" /\ execAnswer' = ExecResult
  /\ UNCHANGED <<output, code, sshCode, buffer, expired>>

ExecNext ==
  \/ ExecAdmitted \/ ExecRefused \/ ShellEnds \/ SshBreaks \/ ContextExpires \/ ExecEnds
  \/ \E n \in 1..2 : \E piece \in [1..n -> Tokens] : CommandPrints(piece)

-----------------------------------------------------------------------------
\* The shell printed the marker, so the command ran to its end.
RanToEnd == buffer = WriteCapped(WriteCapped([buf |-> <<>>, truncated |-> FALSE], output), <<"nl", "mark", code, "nl">>)

(***************************************************************************)
(* The exit code the API reports is that of the command, however much it   *)
(* printed and whatever it printed, the marker included.  Only a command   *)
(* that printed the marker at the end of what came through before the      *)
(* connection broke can pass for one that has ended.                       *)
(***************************************************************************)
ExecCodeIsTrue ==
  execAnswer.status = 200 =>
    \/ RanToEnd /\ execAnswer.code = code
    \/ ~RanToEnd /\ "mark" \in {output[i] : i \in DOMAIN output}

(***************************************************************************)
(* The output the API reports is that of the command, to the last newline  *)
(* and without the marker, if it fits; else it is marked as truncated, and *)
(* what is before that was printed.                                        *)
(***************************************************************************)
ExecOutputIsTrue ==
  execAnswer.status = 200 /\ RanToEnd =>
    IF buffer.truncated
    THEN /\ Last(execAnswer.stdout) = "cut"
         /\ IsPrefix(Front(execAnswer.stdout), output \o <<"nl", "mark", code, "nl">>)
    ELSE execAnswer.stdout = output

(***************************************************************************)
(* The answer of the API is what happened in the guest.                    *)
(***************************************************************************)
ExecAnswerIsTrue == ExecCodeIsTrue /\ ExecOutputIsTrue
==============================================================================
