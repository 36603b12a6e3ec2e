--------------------------------- MODULE Cli ---------------------------------
(***************************************************************************)
(* The command line (cmd/nanofuse/main.go) and its API client              *)
(* (internal/client, internal/clierrors).  A command is a sequence of      *)
(* requests; it ends at the first that does not succeed, with an exit code *)
(* by which a script decides what to do next.  A request can fail in many  *)
(* ways, and after some of them the daemon still has it.                   *)
(*                                                                         *)
(* What the daemon does with a request is left open here (VMLifecycle,     *)
(* Images): it performs it, or refuses it with an answer of the API.       *)
(***************************************************************************)
EXTENDS Naturals, Sequences, FiniteSets

CONSTANTS
  Terminals,   \* each runs one command
  Commands     \* the commands it chooses from

VARIABLES
  command,    \* per terminal: the command, or "none"
  at,         \* per terminal: "idle", "prompt", "call", "wait", "sleep", "over"
  step,       \* number of the request of the command it is at
  exit,       \* exit code
  error,      \* history: the error the command ended with
  held,       \* requests the daemon has: terminal and step
  answer,     \* answers on their way to the terminals
  performed,  \* history: requests the daemon has performed
  job,        \* per terminal: its pull job: "none", "running", "completed", "failed"
  daemonUp    \* the daemon listens

cliVars == <<command, at, step, exit, error, held, answer, performed, job, daemonUp>>

NoAnswer == [kind |-> "none"]

-----------------------------------------------------------------------------
(* The requests of each command                                            *)

CreateRequests == <<"create">>
RunRequests == <<"create", "start">>
StartRequests == <<"start">>
StopRequests == <<"stop">>
KillRequests == <<"kill">>
RestartRequests == <<"stop", "start">>
PauseRequests == <<"pause">>
ResumeRequests == <<"resume">>
DeleteRequests == <<"delete">>
ExecRequests == <<"exec">>
SnapshotRequests == <<"snapshot">>
SnapshotDeleteRequests == <<"snapshotDelete">>
ImageRemoveRequests == <<"imageRemove">>
PullRequests == <<"pull", "poll">>

Requests ==
  [get |-> <<"get">>,   \* stands for the commands that only read
   create |-> CreateRequests, run |-> RunRequests, start |-> StartRequests, stop |-> StopRequests,
   kill |-> KillRequests, restart |-> RestartRequests, pause |-> PauseRequests, resume |-> ResumeRequests,
   delete |-> DeleteRequests, exec |-> ExecRequests, snapshot |-> SnapshotRequests,
   snapshotDelete |-> SnapshotDeleteRequests, imageRemove |-> ImageRemoveRequests, pull |-> PullRequests]

ASSUME CliAssumption == Commands \subseteq DOMAIN Requests

\* Methods of the client: the request the command is at.
Request(t) == Requests[command[t]][step[t]]

CliInit ==
  /\ command = [t \in Terminals |-> "none"] /\ at = [t \in Terminals |-> "idle"]
  /\ step = [t \in Terminals |-> 1] /\ exit = [t \in Terminals |-> 0] /\ error = [t \in Terminals |-> NoAnswer]
  /\ held = {} /\ answer = [t \in Terminals |-> NoAnswer] /\ performed = {}
  /\ job = [t \in Terminals |-> "none"] /\ daemonUp = TRUE

-----------------------------------------------------------------------------
(* Exit codes                                                              *)

InvalidExit == 2
UnreachableExit == 3
NotFoundExit == 4
ConflictExit == 5

\* ClientError.ExitCode, by the status of the answer.
ExitCode(status) ==
  CASE status \in {400, 422} -> 2 [] status = 404 -> 4 [] status = 409 -> 5 [] status = 503 -> 3 [] OTHER -> 1

\* FromClientError: some codes of the API have an exit code of their own.
FromClientError(status, code) ==
  CASE code \in {"VM_NOT_FOUND", "IMAGE_NOT_FOUND", "SNAPSHOT_NOT_FOUND"} -> NotFoundExit
    [] code = "API_UNREACHABLE" -> UnreachableExit
    [] code \in {"INVALID_STATE_TRANSITION", "VM_LOCKED"} -> ConflictExit
    [] code \in {"REGISTRY_AUTH_FAILED", "VALIDATION_ERROR"} -> InvalidExit
    [] OTHER -> ExitCode(status)

\* Mutant: every request that failed counts as one that found no daemon.
IsConnectionErrorAny(e) == e.kind \in {"dial", "timeout", "interrupt", "cut"}

\* IsConnectionError: the text speaks of dialling.
IsConnectionError(e) == e.kind = "dial"

\* IsAuthError: the text holds 401 or 403, as the path of a request may.
IsAuthError(e) == e.digits

\* FromError, and handleAPIErrorWithResource around it.
FromError(e) ==
  CASE e.kind = "api" -> FromClientError(e.status, e.code)
    [] IsConnectionError(e) -> UnreachableExit
    [] e.kind # "api" /\ ~IsConnectionError(e) /\ IsAuthError(e) -> InvalidExit
    [] OTHER -> 1

\* The error of a start in "vm run" is reported with the id of a VM that is nil by then:
\* a panic, for which Go exits with 2.
ExitOf(t, e) == IF command[t] = "run" /\ Request(t) = "start" THEN 2 ELSE FromError(e)

ExitsWith(t, code, e) ==
  /\ at' = [at EXCEPT ![t] = "over"] /\ exit' = [exit EXCEPT ![t] = code] /\ error' = [error EXCEPT ![t] = e]

Fails(t, e) == ExitsWith(t, ExitOf(t, e), e)

\* An error of the transport, in a request whose path may hold these digits.
TransportErrors(kind) == {[kind |-> kind, digits |-> d] : d \in BOOLEAN}

-----------------------------------------------------------------------------
(* The commands                                                            *)

\* Deleting asks first, unless --force is given.
Begin(t, c) ==
  /\ at[t] = "idle" /\ command' = [command EXCEPT ![t] = c]
  /\ \E p \in IF c \in {"delete", "snapshotDelete"} THEN {"prompt", "call"} ELSE {"call"} : at' = [at EXCEPT ![t] = p]
  /\ UNCHANGED <<step, exit, error, held, answer, performed, job, daemonUp>>

\* "Continue? [y/N]".
PromptAnswered(t) ==
  /\ at[t] = "prompt"
  /\ \/ at' = [at EXCEPT ![t] = "call"] /\ UNCHANGED <<exit, error>>
     \/ ExitsWith(t, 0, [kind |-> "cancelled"])
  /\ UNCHANGED <<command, step, held, answer, performed, job, daemonUp>>

\* httpClient.Do: nobody listens, or the request reaches the daemon.
SendRequest(t) ==
  /\ at[t] = "call"
  /\ IF daemonUp
     THEN /\ at' = [at EXCEPT ![t] = "wait"] /\ held' = held \union {<<t, step[t]>>}
          /\ UNCHANGED <<exit, error>>
     ELSE (\E e \in TransportErrors("dial") : Fails(t, e)) /\ UNCHANGED held
  /\ UNCHANGED <<command, step, answer, performed, job, daemonUp>>

\* The timeout of the client, Ctrl-C, or an answer that breaks off: the daemon may still go on.
RequestBreaks(t) ==
  /\ at[t] = "wait" /\ \E k \in {"timeout", "interrupt", "cut"} : \E e \in TransportErrors(k) : Fails(t, e)
  /\ answer' = [answer EXCEPT ![t] = NoAnswer]
  /\ UNCHANGED <<command, step, held, performed, job, daemonUp>>

\* Ctrl-C while the program sleeps is noticed by the next request.
NextPoll(t) ==
  /\ at[t] = "sleep" /\ at' = [at EXCEPT ![t] = "call"]
  /\ UNCHANGED <<command, step, exit, error, held, answer, performed, job, daemonUp>>

\* Statuses get, postWithStatus and delete take for success.
GetAccepts == {200}
PostAccepts(expected) == {expected, 201}
DeleteAccepts == {200, 204}

Deletions == {"delete", "snapshotDelete", "imageRemove"}

Accepted(request) ==
  CASE request = "pull" -> PostAccepts(202) [] request \in Deletions -> DeleteAccepts
    [] request \in {"get", "poll"} -> GetAccepts [] OTHER -> PostAccepts(200)

\* Mutant: only a completed job ends the polling.
PollEndsLate(t, state) == state = "completed"

\* The polling of "image pull" goes on until the job is completed or has failed.
PollEnds(t, state) == state \in {"completed", "failed"}

\* A command in a guest that failed makes "vm exec" fail.
ResultExits(t) == IF command[t] = "exec" THEN {0, 1} ELSE {0}

\* The answer is an error, or the last one of the command, or the next request follows.
ReceiveAnswer(t) ==
  LET a == answer[t] IN
  /\ at[t] = "wait" /\ a # NoAnswer /\ answer' = [answer EXCEPT ![t] = NoAnswer]
  /\ IF a.status \notin Accepted(Request(t)) THEN Fails(t, a) /\ UNCHANGED step
     ELSE IF Request(t) = "poll" /\ ~PollEnds(t, a.state)
     THEN at' = [at EXCEPT ![t] = "sleep"] /\ UNCHANGED <<exit, error, step>>
     ELSE IF Request(t) = "poll" /\ a.state = "failed"
     THEN ExitsWith(t, 1, [kind |-> "failed"]) /\ UNCHANGED step
     ELSE IF step[t] = Len(Requests[command[t]])
     THEN (\E code \in ResultExits(t) : ExitsWith(t, code, NoAnswer)) /\ UNCHANGED step
     ELSE step' = [step EXCEPT ![t] = @ + 1] /\ at' = [at EXCEPT ![t] = "call"] /\ UNCHANGED <<exit, error>>
  /\ UNCHANGED <<command, held, performed, job, daemonUp>>

-----------------------------------------------------------------------------
(* The daemon, seen from here                                              *)

\* Statuses and codes with which a handler refuses a request.
Refusals ==
  {[kind |-> "api", status |-> s[1], code |-> s[2], state |-> "none"] :
     s \in {<<400, "INVALID_REQUEST">>, <<401, "UNAUTHORIZED">>, <<404, "VM_NOT_FOUND">>, <<409, "VM_LOCKED">>,
            <<422, "RESOURCE_LIMIT_EXCEEDED">>, <<503, "SERVICE_UNAVAILABLE">>}}

\* After an internal error something may have been done.
InternalError == [kind |-> "api", status |-> 500, code |-> "INTERNAL_ERROR", state |-> "none"]

SuccessStatus(r) ==
  CASE r \in {"create", "snapshot"} -> 201 [] r = "pull" -> 202 [] r \in Deletions -> 204 [] OTHER -> 200

Success(t, r) == [kind |-> "ok", status |-> SuccessStatus(r), code |-> "", state |-> job[t]]

\* The terminal gets the answer if it still waits.
Answers(t, a) == answer' = IF at[t] = "wait" THEN [answer EXCEPT ![t] = a] ELSE answer

DaemonHandles(t, s) ==
  LET r == Requests[command[t]][s] IN
  /\ <<t, s>> \in held /\ held' = held \ {<<t, s>>}
  /\ \/ /\ r # "poll" /\ performed' = performed \union {<<t, s>>}
        /\ job' = IF r = "pull" THEN [job EXCEPT ![t] = "running"] ELSE job
        /\ \/ Answers(t, Success(t, r)) \/ Answers(t, InternalError)
     \/ r = "poll" /\ Answers(t, Success(t, r)) /\ UNCHANGED <<performed, job>>
     \/ \E a \in Refusals \union {InternalError} : Answers(t, a) /\ UNCHANGED <<performed, job>>
  /\ UNCHANGED <<command, at, step, exit, error, daemonUp>>

\* The pull job ends by itself.
JobEnds(t) ==
  /\ job[t] = "running" /\ \E s \in {"completed", "failed"} : job' = [job EXCEPT ![t] = s]
  /\ UNCHANGED <<command, at, step, exit, error, held, answer, performed, daemonUp>>

\* The daemon stops: what it holds is lost.  It may come back.
DaemonStops ==
  /\ daemonUp /\ daemonUp' = FALSE /\ held' = {}
  /\ UNCHANGED <<command, at, step, exit, error, answer, performed, job>>
DaemonStarts ==
  /\ ~daemonUp /\ daemonUp' = TRUE
  /\ UNCHANGED <<command, at, step, exit, error, held, answer, performed, job>>

TerminalStep(t) == PromptAnswered(t) \/ SendRequest(t) \/ RequestBreaks(t) \/ NextPoll(t) \/ ReceiveAnswer(t)

CliNext ==
  \/ \E t \in Terminals : TerminalStep(t) \/ JobEnds(t) \/ \E c \in Commands : Begin(t, c)
  \/ \E t \in Terminals : command[t] # "none" /\ \E s \in DOMAIN Requests[command[t]] : DaemonHandles(t, s)
  \/ DaemonStops \/ DaemonStarts

\* Programs run, and a request ends by its answer or its timeout; so do jobs.
CliFairness == \A t \in Terminals : WF_cliVars(TerminalStep(t)) /\ WF_cliVars(JobEnds(t))

-----------------------------------------------------------------------------
(***************************************************************************)
(* What the exit code says is true of the daemon.  0: every request was    *)
(* performed (or the user declined), and the job of a pull is completed.   *)
(* 3, 4 and 5: the last request was not performed and never will be, so    *)
(* that a script may repeat it; the requests before it were.  (1 and 2     *)
(* leave it open: 2 is also the code of a panic and of a timeout with 401  *)
(* or 403 in the path.)                                                    *)
(***************************************************************************)
ExitTellsTruth ==
  \A t \in Terminals : at[t] = "over" =>
    LET rs == Requests[command[t]]
        effective == {s \in DOMAIN rs : rs[s] # "poll" /\ <<t, s>> \in performed} IN
    /\ exit[t] = 0 => \/ error[t].kind = "cancelled" /\ effective = {}
                      \/ effective = {s \in DOMAIN rs : rs[s] # "poll"} /\ (command[t] = "pull" => job[t] = "completed")
    /\ exit[t] \in {3, 4, 5} => /\ <<t, step[t]>> \notin performed \union held
                                /\ \A s \in 1..(step[t] - 1) : <<t, s>> \in performed

(***************************************************************************)
(* Every command ends: also "image pull", which polls its job without a    *)
(* limit of its own and ends because jobs do.                              *)
(***************************************************************************)
CommandEnds == []<>(\A t \in Terminals : at[t] \in {"idle", "over"})
==============================================================================
