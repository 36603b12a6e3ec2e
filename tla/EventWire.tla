------------------------------ MODULE EventWire ------------------------------
(***************************************************************************)
(* The wire format of recording events (internal/recording/events.go): the *)
(* agent in the guest writes events one behind the other, the receiver     *)
(* reads them back without any mark between them, so that one event that   *)
(* is read wrongly spoils all that follow.                                 *)
(*                                                                         *)
(* A stream is a sequence of numbers; every field of fixed width is one    *)
(* number, every byte of an id, a payload or a string is one.  The guest   *)
(* may go away anywhere within an event.                                   *)
(***************************************************************************)
EXTENDS Naturals, Sequences, SequencesExt

CONSTANTS
  IDSize,            \* UUIDFieldSize
  MaxPayload,        \* MaxPayloadSize
  MaxEntries,        \* MaxMetadataEntries
  MaxKey, MaxValue,  \* MaxMetadataKeySize, MaxMetadataValueSize
  AgentEvents,       \* events the agent in the guest may have to send
  MaxSent            \* bound: events a guest sends

ASSUME EventWireAssumption ==
  /\ {IDSize, MaxPayload, MaxEntries, MaxKey, MaxValue, MaxSent} \subseteq Nat
  /\ AgentEvents \subseteq [vm : Seq(Nat), session : Seq(Nat), time : Nat, type : Nat, payload : Seq(Nat),
                             metadata : Seq([key : Seq(Nat), value : Seq(Nat)])]

\* Number of fields from the length to the length of the payload.
HeaderSize == 1 + IDSize + IDSize + 3

-----------------------------------------------------------------------------
(* Writing                                                                 *)

\* An id is padded with zeros, or cut.
Pad(id) == [i \in 1..IDSize |-> IF i <= Len(id) THEN id[i] ELSE 0]

WriteLengthPrefixedString(s) == <<Len(s)>> \o s

WriteEntry(m) == WriteLengthPrefixedString(m.key) \o WriteLengthPrefixedString(m.value)

WriteMetadata(md) == FlattenSeq([i \in 1..Len(md) |-> WriteEntry(md[i])])

\* The map of metadata is written in any order: a sequence with distinct keys stands for it.
WriteEvent(e) ==
  LET metadata == WriteMetadata(e.metadata) IN
  <<IDSize + IDSize + 3 + Len(e.payload) + 1 + Len(metadata)>>
    \o Pad(e.vm) \o Pad(e.session) \o <<e.time, e.type, Len(e.payload)>> \o e.payload
    \o <<Len(e.metadata)>> \o metadata

-----------------------------------------------------------------------------
(* Reading.  A reader is what it has read last, the rest of the stream,    *)
(* and whether no error has occurred.                                      *)

Reader(s) == [ok |-> TRUE, rest |-> s, last |-> <<>>]
Number(r) == IF r.last = <<>> THEN 0 ELSE r.last[1]

\* Mutant: a stream that ends early gives what there is.
ReadFullShort(r, n) ==
  LET k == IF n <= Len(r.rest) THEN n ELSE Len(r.rest) IN
  [ok |-> r.ok, last |-> SubSeq(r.rest, 1, k), rest |-> SubSeq(r.rest, k + 1, Len(r.rest))]

HasFields(r, n) == r.ok /\ n <= Len(r.rest)

Took(r, n) == [ok |-> TRUE, last |-> SubSeq(r.rest, 1, n), rest |-> SubSeq(r.rest, n + 1, Len(r.rest))]

ReadFailed == [ok |-> FALSE, last |-> <<>>, rest |-> <<>>]

\* io.ReadFull and binary.Read: n fields or an error.
ReadFull(r, n) == IF HasFields(r, n) THEN Took(r, n) ELSE ReadFailed

\* A length, at most max, and as many bytes.
ReadLengthPrefixedString(r, max) ==
  LET l == ReadFull(r, 1) IN
  IF l.ok /\ Number(l) <= max THEN ReadFull(l, Number(l)) ELSE [l EXCEPT !.ok = FALSE]

\* Mutant: the last byte goes with the padding.
TrimNullPaddingTooFar(b) == SubSeq(b, 1, Len(b) - 1)

TrimNullPadding(b) ==
  LET bytes == {i \in DOMAIN b : b[i] # 0} IN
  SubSeq(b, 1, IF bytes = {} THEN 0 ELSE CHOOSE i \in bytes : \A j \in bytes : j <= i)

\* One entry of the metadata, read into a.
ReadEntry(a) ==
  LET k == ReadLengthPrefixedString(a.reader, MaxKey) v == ReadLengthPrefixedString(k, MaxValue) IN
  [reader |-> v, metadata |-> Append(a.metadata, [key |-> k.last, value |-> v.last])]

ReadEvent(s) ==
  LET length  == ReadFull(Reader(s), 1)
      vm      == ReadFull(length, IDSize)
      session == ReadFull(vm, IDSize)
      time    == ReadFull(session, 1)
      type    == ReadFull(time, 1)
      payload == ReadLengthPrefixedString(type, MaxPayload)
      count   == ReadFull(payload, 1)
      entries[n \in 0..Number(count)] ==
        IF n = 0 THEN [reader |-> count, metadata |-> <<>>] ELSE ReadEntry(entries[n - 1])
      body    == entries[Number(count)] IN
  IF \/ Number(length) < HeaderSize - 1 \/ Number(length) > MaxPayload + HeaderSize
     \/ Number(count) > MaxEntries \/ ~body.reader.ok
  THEN [ok |-> FALSE]
  ELSE [ok |-> TRUE, rest |-> body.reader.rest,
        event |-> [vm |-> TrimNullPadding(vm.last), session |-> TrimNullPadding(session.last), time |-> Number(time),
                   type |-> Number(type), payload |-> payload.last, metadata |-> body.metadata]]

-----------------------------------------------------------------------------
(* Events                                                                  *)

\* Within the limits of the receiver.  An id is text that fits its field; the metadata is a map.
WithinLimits(e) ==
  /\ \A id \in {e.vm, e.session} : Len(id) <= IDSize /\ \A i \in DOMAIN id : id[i] # 0
  /\ Len(e.payload) <= MaxPayload /\ Len(e.metadata) <= MaxEntries
  /\ \A i \in DOMAIN e.metadata : Len(e.metadata[i].key) <= MaxKey /\ Len(e.metadata[i].value) <= MaxValue
  /\ \A i, j \in DOMAIN e.metadata : i # j => e.metadata[i].key # e.metadata[j].key

\* Nothing that is sent is longer than the receiver admits: the writer looks at the payload only.
WireEvents == {e \in AgentEvents : WithinLimits(e) /\ WriteEvent(e)[1] <= MaxPayload + HeaderSize}

-----------------------------------------------------------------------------
(* The stream                                                              *)

VARIABLES
  writtenEvents,      \* history: events written
  stream,          \* what is on its way
  line,            \* "open", "broken" (the guest has gone) or "over" (the receiver has an error)
  whole,           \* history: number of events that came through whole
  receivedEvents   \* events read

wireVars == <<writtenEvents, stream, line, whole, receivedEvents>>

WireInit == writtenEvents = <<>> /\ stream = <<>> /\ line = "open" /\ whole = 0 /\ receivedEvents = <<>>

GuestSends(e) ==
  /\ line = "open" /\ Len(writtenEvents) < MaxSent
  /\ writtenEvents' = Append(writtenEvents, e) /\ stream' = stream \o WriteEvent(e) /\ whole' = whole + 1
  /\ UNCHANGED <<line, receivedEvents>>

\* The guest goes away while it writes its last event, of which n fields come through.
GuestGoes ==
  /\ line = "open" /\ line' = "broken"
  /\ \/ UNCHANGED <<stream, whole>>
     \/ /\ whole > Len(receivedEvents) /\ whole' = whole - 1
        /\ LET last == Len(WriteEvent(writtenEvents[whole])) IN
           \E n \in 1..last : stream' = SubSeq(stream, 1, Len(stream) - n)
  /\ UNCHANGED <<writtenEvents, receivedEvents>>

\* The receiver reads an event, or ends with an error, the end of the stream being one.
ReceiverReads ==
  /\ line # "over" /\ (line = "broken" \/ stream # <<>>)
  /\ LET r == ReadEvent(stream) IN
     IF r.ok THEN receivedEvents' = Append(receivedEvents, r.event) /\ stream' = r.rest /\ UNCHANGED line
     ELSE line' = "over" /\ UNCHANGED <<receivedEvents, stream>>
  /\ UNCHANGED <<writtenEvents, whole>>

WireNext == GuestGoes \/ ReceiverReads \/ \E e \in WireEvents : GuestSends(e)

-----------------------------------------------------------------------------
(***************************************************************************)
(* What was written is read back, with its ids, payload and metadata, at   *)
(* every limit, and the stream stays in step for the events behind it: the *)
(* receiver gives up only when the guest has gone, and has then read every *)
(* event that came through whole.                                          *)
(***************************************************************************)
WrittenIsRead ==
  /\ IsPrefix(SubSeq(receivedEvents, 1, IF Len(receivedEvents) <= whole THEN Len(receivedEvents) ELSE whole), writtenEvents)
  /\ line = "over" => Len(receivedEvents) >= whole

(***************************************************************************)
(* An event that breaks off is refused wherever it breaks off, never taken *)
(* for a shorter one: no event is read that did not come through whole.    *)
(***************************************************************************)
TornIsRefused == Len(receivedEvents) <= whole

(***************************************************************************)
(* Reader and writer of the event stream agree, up to the event on which   *)
(* the connection breaks.                                                  *)
(***************************************************************************)
ReadAsWritten == WrittenIsRead /\ TornIsRefused
==============================================================================
