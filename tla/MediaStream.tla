----------------------------- MODULE MediaStream -----------------------------
(***************************************************************************)
(* livekit::AudioStream and livekit::VideoStream (src/src/audio_stream.cpp,*)
(* src/src/video_stream.cpp), whose code is the same up to the frame type: *)
(* a queue of frames between the FFI thread that delivers them and the     *)
(* threads that read them, with the creation and the closing of the stream *)
(* on either side of it.                                                   *)
(*                                                                         *)
(* One step is one region under mutex_, or one of the unsynchronised       *)
(* accesses of stream_handle_ and listener_id_ between two such regions.   *)
(* Frames are numbered in the order in which Rust emits them.              *)
(***************************************************************************)
EXTENDS Integers, Sequences, FiniteSets

CONSTANTS
  Readers,      \* threads that call read()
  Closers,      \* threads that call close()
  Capacity,     \* capacity_; 0 is unbounded
  MaxFrames     \* bound on the frames Rust emits

ASSUME StreamAssumption ==
  /\ IsFiniteSet(Readers) /\ IsFiniteSet(Closers) /\ Readers \cap Closers = {}
  /\ Capacity \in Nat /\ MaxFrames \in Nat

VARIABLES
  init,            \* how far initFromTrack() or initFromParticipant() is
  moved,           \* has the stream been moved to another object?
  stream_handle,   \* is the handle of the Rust stream in stream_handle_?
  listening,       \* is onFfiEvent registered with the client?
  queue,
  eof,
  closed,
  emitted,         \* the frames Rust has emitted
  rust,            \* the stream on Rust's side: "none", "open" or "ended"
  ffi,             \* the event the FFI thread is delivering: Idle, a frame or Eos
  ffi_at,          \* where the FFI thread is in onFfiEvent()
  reader,          \* per reader: "idle", "waiting" or "woken" in the wait, "ended"
  last_read,       \* per reader, the last frame it got
  closer,          \* per closer, where it is in close()
  pushed           \* history: the last frame that went into the queue

streamVars == <<queue, eof, closed>>
ffiVars == <<emitted, rust, ffi, ffi_at>>
readVars == <<reader, last_read>>

vars == <<init, moved, stream_handle, listening, streamVars, ffiVars, readVars, closer, pushed>>

Idle == 0
Eos == MaxFrames + 1

Init ==
  /\ init = "listen" /\ moved = FALSE
  /\ stream_handle = FALSE
  /\ listening = FALSE
  /\ queue = <<>> /\ eof = FALSE /\ closed = FALSE
  /\ emitted = 0 /\ rust = "none" /\ ffi = Idle /\ ffi_at = "none"
  /\ reader = [r \in Readers |-> "idle"]
  /\ last_read = [r \in Readers |-> 0]
  /\ closer = [c \in Closers |-> "idle"]
  /\ pushed = 0

-----------------------------------------------------------------------------
(* fromTrack() / fromParticipant(): nobody has the stream before it returns *)

InitAddListener ==
  /\ init = "listen"
  /\ listening' = TRUE
  /\ init' = "request"
  /\ UNCHANGED <<moved, stream_handle, streamVars, ffiVars, readVars, closer, pushed>>

\* An answer without the stream passes for one with the handle 0 ...
InitRequest(complete) ==
  /\ init = "request"
  /\ rust' = IF complete THEN "open" ELSE "none"
  /\ init' = "store"
  /\ UNCHANGED <<moved, stream_handle, listening, streamVars, emitted, ffi, ffi_at, readVars, closer, pushed>>

\* ... or makes VideoStream::initFromTrack() throw, as any request may; then the destructor closes the stream.
InitThrows ==
  /\ init = "request"
  /\ init' = "failed"
  /\ closed' = TRUE
  /\ listening' = FALSE
  /\ UNCHANGED <<moved, stream_handle, queue, eof, ffiVars, readVars, closer, pushed>>

InitStoreHandle ==
  /\ init = "store"
  /\ stream_handle' = (rust # "none")
  /\ init' = "done"
  /\ UNCHANGED <<moved, listening, streamVars, ffiVars, readVars, closer, pushed>>

-----------------------------------------------------------------------------
(* Rust (external): frames one after the other, and then the end *)

\* Rust may emit events before its answer to the request has been stored.
MayEmit == rust = "open" /\ ffi = Idle

\* An event for which the listener is not called (any more) is lost.
Emit(e) ==
  /\ ffi' = IF listening THEN e ELSE Idle
  /\ ffi_at' = IF listening THEN "filter" ELSE "none"

RustFrame ==
  /\ MayEmit
  /\ emitted < MaxFrames
  /\ emitted' = emitted + 1
  /\ Emit(emitted + 1)
  /\ UNCHANGED <<init, moved, stream_handle, listening, streamVars, rust, readVars, closer, pushed>>

RustEos ==
  /\ MayEmit
  /\ rust' = "ended"
  /\ Emit(Eos)
  /\ UNCHANGED <<init, moved, stream_handle, listening, streamVars, emitted, readVars, closer, pushed>>

-----------------------------------------------------------------------------
(* onFfiEvent() *)

FfiReturn == ffi' = Idle /\ ffi_at' = "none"

\* The comparison of the event's handle with stream_handle_, without the lock.  The listener is that
\* of the object it was registered by, which has no handle any more once it has been moved from.
OnFfiEventFilter ==
  /\ ffi_at = "filter"
  /\ IF stream_handle /\ ~moved THEN ffi_at' = "push" /\ UNCHANGED ffi ELSE FfiReturn
  /\ UNCHANGED <<init, moved, stream_handle, listening, streamVars, emitted, rust, readVars, closer, pushed>>

NotifyOne ==
  IF \E r \in Readers : reader[r] = "waiting"
    THEN \E r \in Readers : reader[r] = "waiting" /\ reader' = [reader EXCEPT ![r] = "woken"]
    ELSE UNCHANGED reader

NotifyAll == reader' = [r \in Readers |-> IF reader[r] = "waiting" THEN "woken" ELSE reader[r]]

\* Mutant of Enqueue: a full queue refuses the new frame instead of dropping the oldest.
EnqueueDropsNewest(frame) ==
  IF Capacity > 0 /\ Len(queue) >= Capacity THEN queue ELSE Append(queue, frame)

\* The oldest frame makes room for the new one.
Enqueue(frame) ==
  Append(IF Capacity > 0 /\ Len(queue) >= Capacity THEN Tail(queue) ELSE queue, frame)

PushFrame ==
  /\ ffi_at = "push" /\ ffi # Eos
  /\ IF moved \/ closed \/ eof
       THEN UNCHANGED <<queue, pushed, reader>>
       ELSE queue' = Enqueue(ffi) /\ pushed' = ffi /\ NotifyOne
  /\ FfiReturn
  /\ UNCHANGED <<init, moved, stream_handle, listening, eof, closed, emitted, rust, last_read, closer>>

\* Not guarded by closed_, unlike PushFrame.
PushEos ==
  /\ ffi_at = "push" /\ ffi = Eos
  /\ eof' = (eof \/ ~moved)
  /\ IF moved \/ eof THEN UNCHANGED reader ELSE NotifyAll
  /\ FfiReturn
  /\ UNCHANGED <<init, moved, stream_handle, listening, queue, closed, emitted, rust, last_read, closer, pushed>>

-----------------------------------------------------------------------------
(* read() *)

MustWait == queue = <<>> /\ ~eof /\ ~closed

ReadWaits(r) ==
  /\ init = "done"
  /\ reader[r] \in {"idle", "woken"}
  /\ MustWait
  /\ reader' = [reader EXCEPT ![r] = "waiting"]
  /\ UNCHANGED <<init, moved, stream_handle, listening, streamVars, ffiVars, last_read, closer, pushed>>

ReadFrame(r) ==
  /\ init = "done"
  /\ reader[r] \in {"idle", "woken"}
  /\ ~closed /\ queue # <<>>
  /\ last_read' = [last_read EXCEPT ![r] = Head(queue)]
  /\ queue' = Tail(queue)
  /\ reader' = [reader EXCEPT ![r] = "idle"]
  /\ UNCHANGED <<init, moved, stream_handle, listening, eof, closed, ffiVars, closer, pushed>>

ReadEnds(r) ==
  /\ init = "done"
  /\ reader[r] \in {"idle", "woken"}
  /\ closed \/ (queue = <<>> /\ eof)
  /\ reader' = [reader EXCEPT ![r] = "ended"]
  /\ UNCHANGED <<init, moved, stream_handle, listening, streamVars, ffiVars, last_read, closer, pushed>>

-----------------------------------------------------------------------------
(* close(), also called by the destructor *)

\* A second close() returns at once, without waiting for the first.
CloseClaim(c) ==
  /\ init = "done"
  /\ closer[c] = "idle"
  /\ closed' = TRUE
  /\ closer' = [closer EXCEPT ![c] = IF closed THEN "done" ELSE "reset"]
  /\ UNCHANGED <<init, moved, stream_handle, listening, queue, eof, ffiVars, readVars, pushed>>

\* Rust drops the stream with its handle.
CloseResetHandle(c) ==
  /\ closer[c] = "reset"
  /\ stream_handle' = FALSE
  /\ rust' = "ended"
  /\ closer' = [closer EXCEPT ![c] = "remove"]
  /\ UNCHANGED <<init, moved, listening, streamVars, emitted, ffi, ffi_at, readVars, pushed>>

\* removeListener(): the listener is taken out, and the call waits for its callback.
CloseRemoveListener(c) ==
  /\ closer[c] = "remove"
  /\ listening' = FALSE
  /\ closer' = [closer EXCEPT ![c] = "wait"]
  /\ UNCHANGED <<init, moved, stream_handle, streamVars, ffiVars, readVars, pushed>>

CloseListenerRemoved(c) ==
  /\ closer[c] = "wait"
  /\ ffi = Idle
  /\ closer' = [closer EXCEPT ![c] = "wake"]
  /\ UNCHANGED <<init, moved, stream_handle, listening, streamVars, ffiVars, readVars, pushed>>

\* Mutant of CloseNotify: the readers are not notified.
CloseSilently(c) ==
  /\ closer[c] = "wake"
  /\ closer' = [closer EXCEPT ![c] = "done"]
  /\ UNCHANGED <<init, moved, stream_handle, listening, streamVars, ffiVars, readVars, pushed>>

CloseNotify(c) ==
  /\ closer[c] = "wake"
  /\ NotifyAll
  /\ closer' = [closer EXCEPT ![c] = "done"]
  /\ UNCHANGED <<init, moved, stream_handle, listening, streamVars, ffiVars, last_read, pushed>>

-----------------------------------------------------------------------------
(* The move constructor and the move assignment, of a stream that nobody is using.  What the   *)
(* variables stand for is the object that has the stream; the one it was moved from is kept.   *)

NobodyInside ==
  /\ \A r \in Readers : reader[r] \in {"idle", "ended"}
  /\ \A c \in Closers : closer[c] \in {"idle", "done"}

\* The new object has the queue, the flags, the handle and the number of the listener ...
TakeOver == UNCHANGED <<stream_handle, listening, streamVars>>

\* ... and the old one is closed, but the listener still calls it.
LeaveBehind == moved' = TRUE

Move ==
  /\ init = "done" /\ NobodyInside /\ ~moved
  /\ TakeOver /\ LeaveBehind
  /\ UNCHANGED <<init, ffiVars, readVars, closer, pushed>>

-----------------------------------------------------------------------------
Creation == InitAddListener \/ (\E complete \in BOOLEAN : InitRequest(complete)) \/ InitThrows \/ InitStoreHandle
Delivery == OnFfiEventFilter \/ PushFrame \/ PushEos
Read(r) == ReadWaits(r) \/ ReadFrame(r) \/ ReadEnds(r)
Close(c) == CloseResetHandle(c) \/ CloseRemoveListener(c) \/ CloseListenerRemoved(c) \/ CloseNotify(c)

Next ==
  \/ Creation \/ Move \/ RustFrame \/ RustEos \/ Delivery
  \/ \E r \in Readers : Read(r)
  \/ \E c \in Closers : CloseClaim(c) \/ Close(c)

(***************************************************************************)
(* Fairness: every thread that is not in a wait goes on.  Nothing is       *)
(* promised of Rust or of the application's decision to create or to close *)
(* the stream.                                                             *)
(***************************************************************************)
Fairness ==
  /\ WF_vars(Delivery)
  /\ \A r \in Readers : WF_vars(Read(r))
  /\ \A c \in Closers : WF_vars(Close(c))

Safe == Init /\ [][Next]_vars
Spec == Safe /\ Fairness

-----------------------------------------------------------------------------
(***************************************************************************)
(* Properties                                                              *)
(***************************************************************************)

\* The queue never loses a frame from the middle or the end: it holds the newest frames, in
\* the order of their emission, and never more than its capacity ("if the queue is full, the
\* oldest frame is dropped when a new one" arrives).  The threads that read share it: no frame is
\* read twice, and nobody gets a frame older than one that somebody has read.
QueueHoldsNewest ==
  /\ \A i \in 1 .. Len(queue) : queue[i] > pushed - Len(queue)
  /\ \A i, j \in 1 .. Len(queue) : i < j => queue[i] < queue[j]
  /\ Capacity > 0 => Len(queue) <= Capacity
  /\ \A r \in Readers, i \in 1 .. Len(queue) : last_read[r] < queue[i]
  /\ \A r, s \in Readers : r # s /\ last_read[r] = last_read[s] => last_read[r] = 0

\* A call of read() does not sleep through what it waits for: if the stream has been closed or its
\* end has come to the queue, or a frame is there that nobody else takes, it is woken and returns.
\* No wake-up is lost between the flags and frames, set under the lock, and the notifications,
\* given outside it; and close() gets to its notification, because the callback it waits for in
\* removeListener() never waits for it.
ReadsEnd ==
  \A r \in Readers :
    (reader[r] \in {"waiting", "woken"} /\ (closed \/ eof \/ queue # <<>>)) ~>
      (reader[r] \in {"idle", "ended"} \/ (queue = <<>> /\ ~closed /\ ~eof))

\* What the documentation of read() promises ("false if the stream ended (end-of-stream or
\* close())"): once Rust has ended the stream, a call of read() that waits comes back.
EosEndsReads ==
  \A r \in Readers :
    (rust = "ended" /\ reader[r] \in {"waiting", "woken"}) ~> reader[r] \in {"idle", "ended"}
=============================================================================
