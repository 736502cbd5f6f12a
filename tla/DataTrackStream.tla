--------------------------- MODULE DataTrackStream ---------------------------
(***************************************************************************)
(* livekit::DataTrackStream (src/src/data_track_stream.cpp): a stream of   *)
(* data frames that are pulled one at a time.  read() asks Rust for a      *)
(* frame and waits for the event that brings it; close(), which any thread *)
(* may call, takes the stream down; the end of the stream comes in the     *)
(* answer to a read or in an event, with or without an error.              *)
(*                                                                         *)
(* One step is one region under mutex_ or one call between two of them.    *)
(***************************************************************************)
EXTENDS Integers, FiniteSets

CONSTANTS
  Closers,     \* the threads that call close() (the reader thread closes too)
  Errors,      \* the errors an end of stream may carry
  MaxFrames    \* bound on the frames Rust delivers

Reader == "reader"
ClosingThreads == Closers \cup {Reader}
NoError == "none"
ProtocolError == "protocol_error"

ASSUME DataTrackAssumption ==
  /\ IsFiniteSet(Closers) /\ IsFiniteSet(Errors)
  /\ Reader \notin Closers
  /\ NoError \notin Errors /\ ProtocolError \notin Errors
  /\ MaxFrames \in Nat

VARIABLES
  subscription_handle,  \* is the handle there?
  listening,            \* is onFfiEvent registered with the client?
  frame,                \* frame_: 0, or the number of the frame it holds
  eof,
  closed,
  terminal_error,
  reading,              \* where the reader is in read()
  last_read,            \* the last frame it got
  closing,              \* per thread, where it is in close()
  demand,               \* Rust: it owes the answer to a read
  sent,                 \* Rust: the frames it has delivered
  end,                  \* Rust: "open", or the error (or none) with which the stream ended
  end_known,            \* Rust: it has told us of the end
  ffi,                  \* what the FFI thread is delivering
  ffi_at,               \* where it is in onFfiEvent
  overwritten           \* history: pushFrame found a frame in frame_

slotVars == <<frame, eof, closed, terminal_error>>
rustVars == <<demand, sent, end, end_known>>
ffiVars == <<ffi, ffi_at>>

vars == <<subscription_handle, listening, slotVars, reading, last_read, closing, rustVars, ffiVars, overwritten>>

Ends == Errors \cup {NoError}
Nothing == [frame |-> 0, error |-> NoError]

\* In init(): the handle is stored, the listener is not added yet.
Init ==
  /\ subscription_handle = TRUE
  /\ listening = FALSE
  /\ frame = 0 /\ eof = FALSE /\ closed = FALSE /\ terminal_error = NoError
  /\ reading = "init"
  /\ last_read = 0
  /\ closing = [t \in ClosingThreads |-> "idle"]
  /\ demand = FALSE /\ sent = 0 /\ end = "open" /\ end_known = FALSE
  /\ ffi = Nothing /\ ffi_at = "idle"
  /\ overwritten = FALSE

InitAddListener ==
  /\ reading = "init"
  /\ listening' = TRUE
  /\ reading' = "idle"
  /\ UNCHANGED <<subscription_handle, slotVars, last_read, closing, rustVars, ffiVars, overwritten>>

-----------------------------------------------------------------------------
\* The condition variable: a reader that sleeps is woken by a notification only.
Woken == IF reading = "asleep" THEN "wait" ELSE reading

\* pushEos
PushEos(error) ==
  IF closed \/ eof
    THEN UNCHANGED <<eof, terminal_error>>
    ELSE eof' = TRUE /\ terminal_error' = error

-----------------------------------------------------------------------------
(* read() *)

\* Under the lock: nothing is asked of a stream that is over ...
ReadOver ==
  /\ reading = "idle"
  /\ closed \/ eof
  /\ reading' = "ended"
  /\ UNCHANGED <<subscription_handle, listening, slotVars, last_read, closing, rustVars, ffiVars, overwritten>>

\* ... otherwise Rust is asked for a frame.  Its response says so if the stream has ended.
ReadRequest ==
  /\ reading = "idle"
  /\ ~closed /\ ~eof
  /\ IF end = "open"
       THEN reading' = "wait" /\ demand' = TRUE /\ UNCHANGED end_known
       ELSE reading' = "response" /\ end_known' = TRUE /\ UNCHANGED demand
  /\ UNCHANGED <<subscription_handle, listening, slotVars, last_read, closing, sent, end, ffiVars, overwritten>>

\* handleReadResponse with an end of stream, after the lock has been released.
ReadResponseEos ==
  /\ reading = "response"
  /\ PushEos(end)
  /\ reading' = "wait"
  /\ UNCHANGED <<subscription_handle, listening, frame, closed, last_read, closing, rustVars, ffiVars, overwritten>>

\* The request throws, out of read(), or its response lacks the field.
ReadRequestThrows ==
  /\ reading = "idle"
  /\ ~closed /\ ~eof
  /\ reading' \in {"threw", "missing"}
  /\ UNCHANGED <<subscription_handle, listening, slotVars, last_read, closing, rustVars, ffiVars, overwritten>>

\* failProtocolError, which ends the stream and then closes it.
FailProtocolError ==
  /\ reading = "missing"
  /\ PushEos(ProtocolError)
  /\ reading' = "fail"
  /\ UNCHANGED <<subscription_handle, listening, frame, closed, last_read, closing, rustVars, ffiVars, overwritten>>

\* The wait and what follows it.
ReadSleeps ==
  /\ reading = "wait"
  /\ frame = 0 /\ ~eof /\ ~closed
  /\ reading' = "asleep"
  /\ UNCHANGED <<subscription_handle, listening, slotVars, last_read, closing, rustVars, ffiVars, overwritten>>

\* Mutant of ReadFrame: the frame is copied out and not reset.
ReadFrameKept ==
  /\ reading = "wait"
  /\ frame # 0 /\ ~closed
  /\ last_read' = frame
  /\ reading' = "idle"
  /\ UNCHANGED <<subscription_handle, listening, slotVars, closing, rustVars, ffiVars, overwritten>>

ReadFrame ==
  /\ reading = "wait"
  /\ frame # 0 /\ ~closed
  /\ last_read' = frame
  /\ frame' = 0
  /\ reading' = "idle"
  /\ UNCHANGED <<subscription_handle, listening, eof, closed, terminal_error, closing, rustVars, ffiVars, overwritten>>

ReadEnds ==
  /\ reading = "wait"
  /\ closed \/ (frame = 0 /\ eof)
  /\ reading' = "ended"
  /\ UNCHANGED <<subscription_handle, listening, slotVars, last_read, closing, rustVars, ffiVars, overwritten>>

-----------------------------------------------------------------------------
(* close() *)

MayClose(t) ==
  /\ closing[t] = "idle"
  /\ reading # "init"
  /\ t = Reader => reading = "fail"

\* Mutant of CloseClaim: the error is reset whether or not the stream had ended.
CloseResetsError(t) ==
  /\ MayClose(t)
  /\ ~closed
  /\ closed' = TRUE
  /\ terminal_error' = NoError
  /\ subscription_handle' = FALSE
  /\ closing' = [closing EXCEPT ![t] = "remove"]
  /\ UNCHANGED <<listening, frame, eof, reading, last_read, rustVars, ffiVars, overwritten>>

\* The error of an end of stream is kept, a close before the end leaves none.
CloseClaim(t) ==
  /\ MayClose(t)
  /\ ~closed
  /\ closed' = TRUE
  /\ terminal_error' = IF eof THEN terminal_error ELSE NoError
  /\ subscription_handle' = FALSE
  /\ closing' = [closing EXCEPT ![t] = "remove"]
  /\ UNCHANGED <<listening, frame, eof, reading, last_read, rustVars, ffiVars, overwritten>>

CloseAgain(t) ==
  /\ MayClose(t)
  /\ closed
  /\ closing' = [closing EXCEPT ![t] = "returned"]
  /\ UNCHANGED <<subscription_handle, listening, slotVars, reading, last_read, rustVars, ffiVars, overwritten>>

\* removeListener() and its wait, then notify_all().
CloseRemoveListener(t) ==
  /\ closing[t] = "remove"
  /\ listening' = FALSE
  /\ closing' = [closing EXCEPT ![t] = "wait"]
  /\ UNCHANGED <<subscription_handle, slotVars, reading, last_read, rustVars, ffiVars, overwritten>>

CloseNotify(t) ==
  /\ closing[t] = "wait"
  /\ ffi_at = "idle"
  /\ closing' = [closing EXCEPT ![t] = "done"]
  /\ reading' = Woken
  /\ UNCHANGED <<subscription_handle, listening, slotVars, last_read, rustVars, ffiVars, overwritten>>

\* failProtocolError returns, and read() with it.
ReadFailed ==
  /\ reading = "fail"
  /\ closing[Reader] \in {"returned", "done"}
  /\ reading' = "ended"
  /\ UNCHANGED <<subscription_handle, listening, slotVars, last_read, closing, rustVars, ffiVars, overwritten>>

-----------------------------------------------------------------------------
(* Rust (external): one frame per demand, and one end *)

RustDeliver(event) ==
  /\ ffi_at = "idle"
  /\ ffi' = IF listening THEN event ELSE Nothing
  /\ ffi_at' = IF listening THEN "filter" ELSE "idle"

RustFrame ==
  /\ demand /\ end = "open"
  /\ sent < MaxFrames
  /\ RustDeliver([frame |-> sent + 1, error |-> NoError])
  /\ sent' = sent + 1
  /\ demand' = FALSE
  /\ UNCHANGED <<subscription_handle, listening, slotVars, reading, last_read, closing, end, end_known, overwritten>>

RustEnds(error) ==
  /\ end = "open"
  /\ end' = error
  /\ UNCHANGED <<subscription_handle, listening, slotVars, reading, last_read, closing, demand, sent, end_known,
                 ffiVars, overwritten>>

RustEos ==
  /\ end # "open" /\ ~end_known
  /\ RustDeliver([frame |-> 0, error |-> end])
  /\ end_known' = TRUE
  /\ UNCHANGED <<subscription_handle, listening, slotVars, reading, last_read, closing, demand, sent, end, overwritten>>

-----------------------------------------------------------------------------
(* onFfiEvent() *)

\* The stream is still open and the event is for its handle: under the lock, which is then
\* released.
OnFfiEventFilter ==
  /\ ffi_at = "filter"
  /\ ffi_at' = IF closed \/ ~subscription_handle THEN "idle" ELSE "push"
  /\ ffi' = IF closed \/ ~subscription_handle THEN Nothing ELSE ffi
  /\ UNCHANGED <<subscription_handle, listening, slotVars, reading, last_read, closing, rustVars, overwritten>>

PushFrame ==
  /\ ffi_at = "push" /\ ffi.frame # 0
  /\ IF closed \/ eof
       THEN UNCHANGED <<frame, reading, overwritten>>
       ELSE frame' = ffi.frame /\ reading' = Woken /\ overwritten' = (overwritten \/ frame # 0)
  /\ ffi' = Nothing /\ ffi_at' = "idle"
  /\ UNCHANGED <<subscription_handle, listening, eof, closed, terminal_error, last_read, closing, rustVars>>

PushEosEvent ==
  /\ ffi_at = "push" /\ ffi.frame = 0
  /\ PushEos(ffi.error)
  /\ reading' = IF closed \/ eof THEN reading ELSE Woken
  /\ ffi' = Nothing /\ ffi_at' = "idle"
  /\ UNCHANGED <<subscription_handle, listening, frame, closed, last_read, closing, rustVars, overwritten>>

-----------------------------------------------------------------------------
Read == ReadOver \/ ReadRequest \/ ReadResponseEos \/ ReadRequestThrows \/ FailProtocolError \/ ReadFailed
        \/ ReadSleeps \/ ReadFrame \/ ReadEnds
Close(t) == CloseClaim(t) \/ CloseAgain(t)
ContinueClose(t) == CloseRemoveListener(t) \/ CloseNotify(t)
Deliver == OnFfiEventFilter \/ PushFrame \/ PushEosEvent
Rust == RustFrame \/ RustEos \/ \E error \in Ends : RustEnds(error)

Next ==
  \/ InitAddListener \/ Read \/ Deliver \/ Rust
  \/ \E t \in ClosingThreads : Close(t) \/ ContinueClose(t)

(***************************************************************************)
(* Fairness: threads go on, the reader closes a stream that has failed,    *)
(* and Rust reports an end of stream.                                      *)
(***************************************************************************)
Fairness ==
  /\ WF_vars(Read) /\ WF_vars(Deliver)
  /\ WF_vars(RustEos)
  /\ WF_vars(Close(Reader))
  /\ \A t \in ClosingThreads : WF_vars(ContinueClose(t))

Safe == Init /\ [][Next]_vars
Spec == Safe /\ Fairness

-----------------------------------------------------------------------------
(***************************************************************************)
(* Properties                                                              *)
(***************************************************************************)

\* "rust side handles buffering, so we should only really ever have one item": the assertion
\* in pushFrame holds, so no frame is overwritten before it is read; the frames reach the
\* reader in order, none before its predecessor was taken, and what is in the slot or on its
\* way there is the one frame the reader waits for.
OneFrameInFlight ==
  /\ ~overwritten
  /\ frame # 0 => frame = sent /\ last_read < frame /\ ~demand
  /\ ffi.frame # 0 => ffi.frame = sent /\ frame = 0 /\ ~demand

\* How a stream ended is decided once: the error of an end of stream survives close(), and an
\* end that is noticed after close() leaves no error behind ("do not treat a local early
\* close as a terminal subscription error").
TerminalErrorKept ==
  [][eof \/ closed => eof' = eof /\ terminal_error' = terminal_error]_vars

\* A read() of a stream that has ended or has been closed returns, also when the event of the
\* end was lost because the listener was not there yet or not there any more.
ReadReturns ==
  (reading \in {"wait", "asleep", "response", "missing", "fail"} /\ (end # "open" \/ closed \/ eof)) ~>
    (reading \in {"idle", "ended"})
=============================================================================
