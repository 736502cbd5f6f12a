--------------------------- MODULE RoomDataStreams --------------------------
(***************************************************************************)
(* A data stream from end to end: the messages of a DataStreamWriter reach *)
(* the Room of another participant as events, which Room::onEvent()        *)
(* (src/src/room.cpp) turns into calls of a TextStreamReader or            *)
(* ByteStreamReader (src/src/data_stream.cpp) that the application reads.  *)
(* The wire is the reliable, ordered data channel; Rust hands over its     *)
(* messages one after the other.                                           *)
(*                                                                         *)
(* There is one stream, and so one entry at most in text_stream_readers_   *)
(* or byte_stream_readers_; a reader is a number, new for every header     *)
(* that finds a handler.                                                   *)
(***************************************************************************)
EXTENDS RoomEvents, DataStreamWriter

CONSTANT MaxHeaders   \* bound on the readers created: the headers one writer can send

ASSUME HeadersAssumption == MaxHeaders \in Nat /\ Cardinality(Callers) <= MaxHeaders

Readers == 1 .. MaxHeaders

VARIABLES
  handler,         \* a handler is registered for the topic
  stream_readers,  \* the reader in the map, or None
  created,         \* the number of readers created
  target,          \* the reader the handler of the event works on, or None
  queue,           \* per reader, queue_
  reader_closed,   \* per reader, closed_
  given,           \* the readers given to the application
  read,            \* history: per reader, what readNext() has returned
  ended,           \* the readers whose readNext() has returned false
  delivered        \* the messages Rust has handed over

readerVars == <<queue, reader_closed, read, ended>>
receiverVars == <<handler, stream_readers, created, target, given, readerVars, delivered>>
streamsVars == <<loopVars, writerVars, receiverVars>>

StreamsInit ==
  /\ LoopInit
  /\ WriterInit
  /\ handler \in BOOLEAN
  /\ stream_readers = None
  /\ created = 0
  /\ target = None
  /\ queue = [r \in Readers |-> << >>]
  /\ reader_closed = [r \in Readers |-> FALSE]
  /\ given = {}
  /\ read = [r \in Readers |-> << >>]
  /\ ended = {}
  /\ delivered = 0

-----------------------------------------------------------------------------
(* registerTextStreamHandler(), unregisterTextStreamHandler() and the same for bytes *)

RegisterStreamHandler ==
  /\ ~handler
  /\ handler' = TRUE
  /\ UNCHANGED <<loopVars, writerVars, stream_readers, created, target, given, readerVars, delivered>>

UnregisterStreamHandler ==
  /\ handler
  /\ handler' = FALSE
  /\ UNCHANGED <<loopVars, writerVars, stream_readers, created, target, given, readerVars, delivered>>

-----------------------------------------------------------------------------
(* Events *)

RustDeliver ==
  /\ delivered < Len(wire)
  /\ Emit(wire[delivered + 1].type, {}, delivered + 1)
  /\ delivered' = delivered + 1
  /\ UNCHANGED <<writerVars, handler, stream_readers, created, target, given, readerVars>>

\* kStreamHeaderReceived with a handler for the topic: a new reader replaces what the map
\* has for the stream.
OnStreamHeader ==
  /\ Handles("header")
  /\ handler
  /\ created' = created + 1
  /\ stream_readers' = created + 1
  /\ target' = created + 1
  /\ Goto("callback")
  /\ UNCHANGED <<writerVars, handler, given, readerVars, delivered>>

\* Nobody wants the stream, or the reader of a chunk or trailer is not in the map.
OnStreamIgnored ==
  /\ \/ Handles("header") /\ ~handler
     \/ (Handles("chunk") \/ Handles("trailer")) /\ stream_readers = None
  /\ Finish
  /\ UNCHANGED <<writerVars, receiverVars>>

\* kStreamChunkReceived finds the reader, kStreamTrailerReceived takes it out of the map.
OnStreamChunk ==
  /\ Handles("chunk")
  /\ stream_readers # None
  /\ target' = stream_readers
  /\ Goto("callback")
  /\ UNCHANGED <<writerVars, handler, stream_readers, created, given, readerVars, delivered>>

OnStreamTrailer ==
  /\ Handles("trailer")
  /\ stream_readers # None
  /\ target' = stream_readers
  /\ stream_readers' = None
  /\ Goto("callback")
  /\ UNCHANGED <<writerVars, handler, created, given, readerVars, delivered>>

\* The handler is called, outside lock_, and given the reader.
CallHandler ==
  /\ at = "callback" /\ event.kind = "header"
  /\ given' = given \cup {target}
  /\ target' = None
  /\ Finish
  /\ UNCHANGED <<writerVars, handler, stream_readers, created, readerVars, delivered>>

\* Mutant of OnChunkUpdate: the chunk goes to the wrong end of the queue.
ChunkPushedFront ==
  /\ at = "callback" /\ event.kind = "chunk"
  /\ queue' = [queue EXCEPT ![target] = IF reader_closed[target] THEN @ ELSE <<wire[event.what]>> \o @]
  /\ target' = None
  /\ Finish
  /\ UNCHANGED <<writerVars, handler, stream_readers, created, given, reader_closed, read, ended, delivered>>

OnChunkUpdate ==
  /\ at = "callback" /\ event.kind = "chunk"
  /\ queue' = [queue EXCEPT ![target] = IF reader_closed[target] THEN @ ELSE Append(@, wire[event.what])]
  /\ target' = None
  /\ Finish
  /\ UNCHANGED <<writerVars, handler, stream_readers, created, given, reader_closed, read, ended, delivered>>

\* Mutant of OnStreamClose: the reader is forgotten and not closed.
StreamCloseForgotten ==
  /\ at = "callback" /\ event.kind = "trailer"
  /\ target' = None
  /\ Finish
  /\ UNCHANGED <<writerVars, handler, stream_readers, created, given, readerVars, delivered>>

OnStreamClose ==
  /\ at = "callback" /\ event.kind = "trailer"
  /\ reader_closed' = [reader_closed EXCEPT ![target] = TRUE]
  /\ target' = None
  /\ Finish
  /\ UNCHANGED <<writerVars, handler, stream_readers, created, given, queue, read, ended, delivered>>

HandleEvent ==
  \/ (OnEventIgnored \/ OnEventChecked) /\ UNCHANGED <<writerVars, receiverVars>>
  \/ OnStreamHeader \/ OnStreamIgnored \/ OnStreamChunk \/ OnStreamTrailer
  \/ CallHandler \/ OnChunkUpdate \/ OnStreamClose

-----------------------------------------------------------------------------
(* readNext(); readAll() calls it until it returns false *)

ReadNext(r) ==
  /\ r \in given
  /\ queue[r] # << >>
  /\ read' = [read EXCEPT ![r] = Append(@, Head(queue[r]))]
  /\ queue' = [queue EXCEPT ![r] = Tail(@)]
  /\ UNCHANGED <<loopVars, writerVars, handler, stream_readers, created, target, given, reader_closed, ended, delivered>>

ReadEnds(r) ==
  /\ r \in given \ ended
  /\ queue[r] = << >> /\ reader_closed[r]
  /\ ended' = ended \cup {r}
  /\ UNCHANGED <<loopVars, writerVars, handler, stream_readers, created, target, given, queue, reader_closed, read, delivered>>

-----------------------------------------------------------------------------
(* disconnect() on the receiving side: the maps of readers are moved out and destroyed; the *)
(* readers are not closed                                                                   *)

ShutdownDropReaders ==
  /\ Claim
  /\ stream_readers' = None
  /\ UNCHANGED <<writerVars, handler, created, target, given, readerVars, delivered>>

ShutdownRest ==
  /\ StopAll \/ RemoveListener \/ Release
  /\ UNCHANGED <<writerVars, receiverVars>>

-----------------------------------------------------------------------------
\* (What is sent once the receiving Room has given up its readers reaches nobody, and no
\* property looks at it: the wire then stays as it is.)
StreamsNext ==
  \/ room_state = "connected" /\ WriterNext /\ UNCHANGED <<loopVars, receiverVars>>
  \/ RegisterStreamHandler \/ UnregisterStreamHandler
  \/ RustDeliver \/ HandleEvent
  \/ \E r \in Readers : ReadNext(r) \/ ReadEnds(r)
  \/ ShutdownDropReaders \/ ShutdownRest

StreamsSpec == StreamsInit /\ [][StreamsNext]_streamsVars

\* Rust delivers what it has received, the handling of an event and the application's reads
\* go on; nobody has to write, close or disconnect.
StreamsFairness ==
  /\ WF_streamsVars(RustDeliver)
  /\ WF_streamsVars(HandleEvent)
  /\ \A r \in Readers : WF_streamsVars(ReadNext(r)) /\ WF_streamsVars(ReadEnds(r))

-----------------------------------------------------------------------------
(***************************************************************************)
(* Properties                                                              *)
(***************************************************************************)
\* A stream that close() did not overlap with is read as it was written: at any time the
\* reader has returned and queued the first chunks of the wire in their order; and when
\* readNext() has returned false, it has returned all of them, and if nothing failed they
\* are every byte of every write.
StreamsComplete ==
  ~overlapped =>
    \A r \in 1 .. created :
      /\ \E k \in 0 .. Len(wire) : HasChunks(read[r] \o queue[r], wire, k)
      /\ r \in ended =>
           /\ HasChunks(read[r], wire, Len(wire))
           /\ ~failed => \A w \in DOMAIN writes :
                           writes[w] # << >> => \E k \in DOMAIN read[r] : read[r][k].write = w /\ read[r][k].to = Len(writes[w])

\* A reader of a stream whose trailer is on the wire reaches the end of the stream, unless the
\* Room is disconnected first (the reader then stays open for ever) or close() overlapped
\* with another call.
StreamsEnd ==
  \A r \in Readers :
    (r <= created /\ wire # << >> /\ wire[Len(wire)] = Trailer) ~> (r \in ended \/ room_state = "released" \/ overlapped)
=============================================================================
