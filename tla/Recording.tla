------------------------------ MODULE Recording ------------------------------
(***************************************************************************)
(* Session recording: the receiver that reads events of a VM from vsock    *)
(* connections (internal/recording/receiver.go), the storage of sessions   *)
(* (internal/recording/local.go) and the handlers that finalize and delete *)
(* a recording (internal/api/recording_handlers.go).                       *)
(*                                                                         *)
(* One session of one VM; the VM may connect again while the goroutines of *)
(* an earlier connection still run.  Events are numbered in the order they *)
(* are sent.  The mutex of the storage makes each action below one step;   *)
(* Write and Finalize give it up in between.                               *)
(***************************************************************************)
EXTENDS Naturals, Sequences, FiniteSets

CONSTANTS
  Conns,        \* connections of the VM, each with a reader and a processor
  MaxEvents,    \* bound: events sent
  BufferSize,   \* capacity of a connection's channel
  BatchSize,    \* events per Write
  Calls      \* requests to finalize or delete the recording

ASSUME RecordingAssumption == {MaxEvents, BufferSize, BatchSize} \subseteq Nat /\ IsFiniteSet(Calls)

VARIABLES
  reader,      \* per connection: "idle", "read", "wait" or "over"
  processor,   \* per connection: "idle", "run", "create", "append" or "over"
  channel,     \* per connection: events between reader and processor
  batch,       \* per connection: events the processor has collected
  stopped,     \* Receiver.Stop was called: every context is cancelled
  sentEvents,  \* number of events sent so far
  sessions,    \* LocalStorage.sessions: the number of the session object, or 0
  objects,     \* session objects ever made: their file is open
  eventsBin,   \* events.bin: the events in it, or Gone
  eventsZst,   \* events.bin.zst: the events in it, or Gone
  status,      \* metadata.json: "none", "active", "completed" or "failed"
  request,     \* per finalize or delete request: where it is
  origin,      \* history: the connection that brought each event
  missed,      \* history: events dropped or lost by a failed write
  panicked     \* the daemon died of a nil session

connVars == <<reader, processor, channel, batch, stopped, sentEvents, origin, missed>>
storeVars == <<sessions, objects, eventsBin, eventsZst, status>>
recordingVars == <<connVars, storeVars, request, panicked>>

Gone == <<0>>    \* no such file; events have positive numbers
SeqSet(s) == {s[i] : i \in DOMAIN s}

RecordingInit ==
  /\ reader = [c \in Conns |-> "idle"] /\ processor = [c \in Conns |-> "idle"]
  /\ channel = [c \in Conns |-> <<>>] /\ batch = [c \in Conns |-> <<>>]
  /\ stopped = FALSE /\ sentEvents = 0
  /\ sessions = 0 /\ objects = <<>>
  /\ eventsBin = Gone /\ eventsZst = Gone /\ status = "none"
  /\ request = [q \in Calls |-> "idle"]
  /\ origin = <<>> /\ missed = {} /\ panicked = FALSE

-----------------------------------------------------------------------------
(* Receiver                                                                *)

\* acceptLoop and handleConnection: the VM has one connection open at a time.
Accept(c) ==
  /\ reader[c] = "idle" /\ ~stopped /\ \A d \in Conns : reader[d] # "read"
  /\ reader' = [reader EXCEPT ![c] = "read"] /\ processor' = [processor EXCEPT ![c] = "run"]
  /\ UNCHANGED <<channel, batch, stopped, sentEvents, origin, missed, storeVars, request, panicked>>

\* readEvents: the event goes to the channel, or is dropped when the channel is full.
ReadEvents(c) ==
  LET e == sentEvents + 1 IN
  /\ reader[c] = "read" /\ ~stopped /\ e <= MaxEvents
  /\ sentEvents' = e /\ origin' = Append(origin, c)
  /\ IF Len(channel[c]) < BufferSize
     THEN channel' = [channel EXCEPT ![c] = Append(@, e)] /\ UNCHANGED missed
     ELSE missed' = missed \union {e} /\ UNCHANGED channel
  /\ UNCHANGED <<reader, processor, batch, stopped, storeVars, request, panicked>>

\* The VM closes the connection, it breaks, or Stop closes it: the reader ends.  The
\* channel is closed only when handleConnection returns.
ReaderEnds(c) ==
  /\ reader[c] = "read"
  /\ reader' = [reader EXCEPT ![c] = "wait"]
  /\ UNCHANGED <<processor, channel, batch, stopped, sentEvents, origin, missed, storeVars, request, panicked>>

\* handleConnection returns after its processor.
ConnectionCloses(c) ==
  /\ reader[c] = "wait" /\ processor[c] = "over"
  /\ reader' = [reader EXCEPT ![c] = "over"]
  /\ UNCHANGED <<processor, channel, batch, stopped, sentEvents, origin, missed, storeVars, request, panicked>>

\* processEvents takes the next event; a full batch must be written first.
Collect(c) ==
  /\ processor[c] = "run" /\ channel[c] # <<>> /\ Len(batch[c]) < BatchSize
  /\ batch' = [batch EXCEPT ![c] = Append(@, Head(channel[c]))]
  /\ channel' = [channel EXCEPT ![c] = Tail(@)]
  /\ UNCHANGED <<reader, processor, stopped, sentEvents, origin, missed, storeVars, request, panicked>>

\* Mutant: a cancelled context is only looked at when there is nothing to collect or write.
ProcessorIgnoresStop(c) ==
  /\ processor[c] = "run" /\ stopped /\ channel[c] = <<>> /\ batch[c] = <<>> /\ reader[c] = "read"
  /\ processor' = [processor EXCEPT ![c] = "over"]
  /\ UNCHANGED <<reader, channel, batch, stopped, sentEvents, origin, missed, storeVars, request, panicked>>

\* The context is cancelled and the batch is written: the processor ends, whatever the
\* channel still holds.
ProcessorEnds(c) ==
  /\ processor[c] = "run" /\ stopped /\ batch[c] = <<>>
  /\ processor' = [processor EXCEPT ![c] = "over"]
  /\ missed' = missed \union SeqSet(channel[c]) /\ channel' = [channel EXCEPT ![c] = <<>>]
  /\ UNCHANGED <<reader, batch, stopped, sentEvents, origin, storeVars, request, panicked>>

\* Receiver.Stop.
Stop ==
  /\ ~stopped /\ stopped' = TRUE
  /\ UNCHANGED <<reader, processor, channel, batch, sentEvents, origin, missed, storeVars, request, panicked>>

-----------------------------------------------------------------------------
(* LocalStorage.Write, called by the processor's flush                     *)

\* The events are lost; the error is only logged.
WriteError(c) ==
  /\ missed' = missed \union SeqSet(batch[c])
  /\ batch' = [batch EXCEPT ![c] = <<>>] /\ processor' = [processor EXCEPT ![c] = "run"]

\* Mutant: the batch is kept for the next flush although it was written.
AppendEventsTwice(c) ==
  /\ eventsBin' = IF eventsBin = Gone THEN Gone ELSE eventsBin \o batch[c]
  /\ missed' = missed
  /\ batch' = IF status = "active" /\ Len(batch[c]) < BatchSize THEN batch ELSE [batch EXCEPT ![c] = <<>>]
  /\ processor' = [processor EXCEPT ![c] = "run"]

\* The events are appended to the file that the session object has open; when the
\* directory was removed under it they are written to nowhere.
AppendEvents(c) ==
  /\ eventsBin' = IF eventsBin = Gone THEN Gone ELSE eventsBin \o batch[c]
  /\ missed' = IF eventsBin = Gone THEN missed \union SeqSet(batch[c]) ELSE missed
  /\ batch' = [batch EXCEPT ![c] = <<>>] /\ processor' = [processor EXCEPT ![c] = "run"]

\* The session is looked up; a session that is not there is created without the mutex.
Write(c) ==
  /\ processor[c] = "run" /\ batch[c] # <<>>
  /\ \/ /\ sessions # 0 /\ objects[sessions] /\ AppendEvents(c)
     \/ /\ sessions # 0 /\ ~objects[sessions] /\ WriteError(c) /\ UNCHANGED eventsBin
     \/ /\ sessions = 0 /\ processor' = [processor EXCEPT ![c] = "create"]
        /\ UNCHANGED <<batch, missed, eventsBin>>
  /\ UNCHANGED <<reader, channel, stopped, sentEvents, origin, sessions, objects, eventsZst, status, request, panicked>>

\* StartSession: the file is opened for appending and the metadata are written anew.
StartSession(c) ==
  /\ processor[c] = "create"
  /\ \/ /\ sessions # 0 /\ WriteError(c) /\ UNCHANGED <<sessions, objects, eventsBin, status>>
     \/ /\ sessions = 0
        /\ objects' = Append(objects, TRUE) /\ sessions' = Len(objects) + 1
        /\ eventsBin' = IF eventsBin = Gone THEN <<>> ELSE eventsBin
        /\ status' = "active"
        /\ processor' = [processor EXCEPT ![c] = "append"] /\ UNCHANGED <<batch, missed>>
  /\ UNCHANGED <<reader, channel, stopped, sentEvents, origin, eventsZst, request, panicked>>

\* The map is read again under the mutex; a session that has gone is a nil pointer.
AppendToCreated(c) ==
  /\ processor[c] = "append"
  /\ IF sessions = 0
     THEN panicked' = TRUE /\ UNCHANGED <<processor, batch, missed, eventsBin>>
     ELSE /\ UNCHANGED panicked
          /\ IF objects[sessions] THEN AppendEvents(c) ELSE WriteError(c) /\ UNCHANGED eventsBin
  /\ UNCHANGED <<reader, channel, stopped, sentEvents, origin, sessions, objects, eventsZst, status, request>>

-----------------------------------------------------------------------------
(* Finalize and DeleteSession                                              *)

\* handleFinalizeRecording reads the status, Finalize takes the session and closes its file.
Finalize(q) ==
  /\ request[q] = "idle" /\ status = "active" /\ sessions # 0
  /\ objects' = [objects EXCEPT ![sessions] = FALSE]
  /\ request' = [request EXCEPT ![q] = "compress"]
  /\ UNCHANGED <<connVars, sessions, eventsBin, eventsZst, status, panicked>>

\* Mutant: a missing events.bin is taken for an empty one that has been compressed.
CompressFileTolerant(q) ==
  /\ request[q] = "compress"
  /\ eventsZst' = eventsBin
  /\ request' = [request EXCEPT ![q] = "remove"] /\ UNCHANGED <<sessions, status>>
  /\ UNCHANGED <<connVars, objects, eventsBin, panicked>>

\* compressFile, without the mutex: a whole new events.bin.zst; without events.bin it fails.
CompressFile(q) ==
  /\ request[q] = "compress"
  /\ IF eventsBin = Gone
     THEN /\ request' = [request EXCEPT ![q] = "over"]
          /\ status' = (IF status = "none" THEN "none" ELSE "failed") /\ sessions' = 0
          /\ UNCHANGED eventsZst
     ELSE /\ eventsZst' = eventsBin
          /\ request' = [request EXCEPT ![q] = "remove"] /\ UNCHANGED <<sessions, status>>
  /\ UNCHANGED <<connVars, objects, eventsBin, panicked>>

\* Mutant: events.bin is removed before the compressed file is there.
RemoveUncompressedFirst(q) ==
  /\ request[q] = "remove"
  /\ eventsBin' = Gone /\ eventsZst' = Gone
  /\ request' = [request EXCEPT ![q] = "finish"]
  /\ UNCHANGED <<connVars, sessions, objects, status, panicked>>

RemoveUncompressed(q) ==
  /\ request[q] = "remove" /\ eventsBin' = Gone
  /\ request' = [request EXCEPT ![q] = "finish"]
  /\ UNCHANGED <<connVars, sessions, objects, eventsZst, status, panicked>>

\* The metadata become completed, unless the directory has gone, and whatever session is
\* in the map is removed from it.
FinishFinalize(q) ==
  /\ request[q] = "finish"
  /\ IF status = "none"
     THEN UNCHANGED <<status, sessions>>
     ELSE status' = "completed" /\ sessions' = 0
  /\ request' = [request EXCEPT ![q] = "over"]
  /\ UNCHANGED <<connVars, objects, eventsBin, eventsZst, panicked>>

\* DeleteSession: file closed, entry and directory gone.
DeleteSession(q) ==
  /\ request[q] = "idle" /\ status # "none"
  /\ sessions' = 0
  /\ objects' = IF sessions = 0 THEN objects ELSE [objects EXCEPT ![sessions] = FALSE]
  /\ eventsBin' = Gone /\ eventsZst' = Gone /\ status' = "none"
  /\ request' = [request EXCEPT ![q] = "deleted"]
  /\ UNCHANGED <<connVars, panicked>>

ConnectionStep(c) ==
  \/ (stopped /\ ReaderEnds(c)) \/ ConnectionCloses(c) \/ Collect(c) \/ ProcessorEnds(c)
  \/ Write(c) \/ StartSession(c) \/ AppendToCreated(c)

RecordingNext ==
  /\ ~panicked
  /\ \/ \E c \in Conns : Accept(c) \/ ReadEvents(c) \/ ReaderEnds(c) \/ ConnectionStep(c)
     \/ \E q \in Calls :
          \/ Finalize(q) \/ CompressFile(q) \/ RemoveUncompressed(q) \/ FinishFinalize(q)
          \/ DeleteSession(q)
     \/ Stop

\* The goroutines of a connection go on.
RecordingFairness == \A c \in Conns : WF_recordingVars(~panicked /\ ConnectionStep(c))

-----------------------------------------------------------------------------
Stored == (IF eventsZst = Gone THEN {} ELSE SeqSet(eventsZst)) \union
          (IF eventsBin = Gone THEN {} ELSE SeqSet(eventsBin))

\* No event twice, and those of one connection in the order they were sent.
InOrder(s) ==
  \A i, j \in DOMAIN s : i < j => s[i] # s[j] /\ (origin[s[i]] = origin[s[j]] => s[i] < s[j])

(***************************************************************************)
(* A recording has every event at most once and the events of each         *)
(* connection in the order of the VM, through auto-created sessions,       *)
(* second connections, finalize and delete.                                *)
(***************************************************************************)
RecordedInOrder ==
  /\ eventsBin = Gone \/ InOrder(eventsBin)
  /\ eventsZst = Gone \/ InOrder(eventsZst)

Deleted == \E q \in Calls : request[q] = "deleted"

(***************************************************************************)
(* Until a recording is deleted or finalized a second time, every event    *)
(* that was read is in one of its files, on its way there, or known to be  *)
(* missed: dropped by a full channel or by Stop, or refused while another  *)
(* connection creates the session or a finalize compresses it.  A late     *)
(* batch after the finalize goes to a new events.bin and harms nothing.    *)
(***************************************************************************)
EventsAccounted ==
  ~Deleted /\ Cardinality({q \in Calls : request[q] # "idle"}) <= 1 => \A e \in 1..sentEvents :
    \/ e \in Stored \/ e \in missed
    \/ \E c \in Conns : e \in SeqSet(channel[c]) \union SeqSet(batch[c])

(***************************************************************************)
(* A recording that is completed and was not deleted has its compressed    *)
(* file, also after two finalizes at once: the one that comes second finds *)
(* no events.bin and marks it failed, or compresses the same events again. *)
(***************************************************************************)
CompletedCanBePlayed == status = "completed" /\ ~Deleted => eventsZst # Gone

(***************************************************************************)
(* Stop ends every connection: readers and processors see the cancelled    *)
(* context, whatever is in channels and batches (Stop waits for them).     *)
(***************************************************************************)
StopEnds == []<>(stopped => panicked \/ \A c \in Conns : reader[c] \in {"idle", "over"})

(***************************************************************************)
(* A recording is faithful: every event once, in order, accounted for, and *)
(* there when the recording says it is completed.                          *)
(***************************************************************************)
RecordingIsFaithful == RecordedInOrder /\ EventsAccounted /\ CompletedCanBePlayed
==============================================================================
