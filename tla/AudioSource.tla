----------------------------- MODULE AudioSource -----------------------------
(***************************************************************************)
(* livekit::AudioSource (audio_source.cpp): captureFrame() hands a frame   *)
(* to Rust and keeps an estimate of how much audio is queued there, which  *)
(* queuedDuration() reports and clearQueue() resets.                       *)
(*                                                                         *)
(* Durations and times are whole units; Rust plays one unit per unit of    *)
(* time.  One thread captures; another may call clearQueue() while the     *)
(* first one waits for the answer to its frame.                            *)
(***************************************************************************)
EXTENDS Integers, Sequences, SequencesExt

CONSTANTS
  FrameDurations,    \* the durations of the frames; 0 is a frame without samples
  CaptureTimeouts,   \* the values of timeout_ms, of which 0 waits for ever
  QueueSizes,        \* the values of queue_size_ms
  MaxAudioClock,     \* bound on the clock
  MaxCaptures        \* bound on the calls of captureFrame() that submit a frame

ASSUME AudioSourceAssumption ==
  /\ FrameDurations \subseteq Nat /\ CaptureTimeouts \subseteq Int /\ QueueSizes \subseteq Nat
  /\ \E d \in FrameDurations : \A e \in FrameDurations : e <= d     \* there is a longest frame
  /\ MaxAudioClock \in Nat /\ MaxCaptures \in Nat

VARIABLES
  audio_handle,             \* does handle_ hold a handle?  The constructor takes what it gets
  queue_size_ms,
  last_capture, q_size,     \* the tracking; last_capture is 0 when it has been reset
  now_seconds,
  capturing,                \* what captureFrame() is doing: "no", or waiting "forever" or until a "timeout"
  capture_result,           \* how the last call ended
  native_queued,            \* Rust: the audio that is queued
  native_frames,            \* Rust: the frames whose callback is outstanding, of this and of earlier calls
  captures,
  rejected                  \* history: the durations of frames that were tracked and not queued since the reset

sourceVars == <<audio_handle, queue_size_ms>>
trackingVars == <<last_capture, q_size>>
audioVars == <<sourceVars, trackingVars, now_seconds, capturing, capture_result, native_queued, native_frames,
               captures, rejected>>

LongestFrame == CHOOSE d \in FrameDurations : \A e \in FrameDurations : e <= d
AtLeastZero(n) == IF n > 0 THEN n ELSE 0

AudioInit ==
  /\ audio_handle \in BOOLEAN
  /\ queue_size_ms \in QueueSizes
  /\ last_capture = 0 /\ q_size = 0
  /\ now_seconds = 1
  /\ capturing = "no" /\ capture_result = "none"
  /\ native_queued = 0 /\ native_frames = <<>>
  /\ captures = 0 /\ rejected = 0

QueuedDuration == IF last_capture = 0 THEN 0 ELSE AtLeastZero(q_size - (now_seconds - last_capture))

\* Mutant of TrackedSize: the time since the last capture is not taken into account.
TrackedSizeNoDrain(d) == q_size + d

\* The tracking of a frame; what was queued drains only by what the estimate still held.
TrackedSize(d) == AtLeastZero(q_size + d - (IF last_capture = 0 THEN 0 ELSE now_seconds - last_capture))

-----------------------------------------------------------------------------
(* captureFrame() *)

\* A negative timeout throws; without a handle, or a sample, nothing is done.
CaptureRefused(d, timeout) ==
  /\ capturing = "no"
  /\ timeout < 0 \/ ~audio_handle \/ d = 0
  /\ capture_result' = IF timeout < 0 THEN "invalid_argument" ELSE "returned"
  /\ UNCHANGED <<sourceVars, trackingVars, now_seconds, capturing, native_queued, native_frames, captures, rejected>>

\* The frame is tracked before it is sent.
Track(d) ==
  /\ captures < MaxCaptures /\ captures' = captures + 1
  /\ q_size' = TrackedSize(d)
  /\ last_capture' = now_seconds

MayCapture(d, timeout) == capturing = "no" /\ timeout >= 0 /\ audio_handle /\ d > 0

\* queue_size_ms = 0: one synchronous request, which may fail; WebRTC consumes the frame before it returns, and
\* nothing is queued, although the frame has been tracked like any other.
CaptureUnbuffered(d, timeout, accepted) ==
  /\ MayCapture(d, timeout) /\ queue_size_ms = 0
  /\ Track(d)
  /\ capture_result' = IF accepted THEN "returned" ELSE "error"
  /\ UNCHANGED <<sourceVars, now_seconds, capturing, native_queued, native_frames, rejected>>

\* Else an asynchronous request; frames of calls that timed out may be under way.
CaptureBuffered(d, timeout) ==
  /\ MayCapture(d, timeout) /\ queue_size_ms > 0
  /\ Track(d)
  /\ native_frames' = Append(native_frames, [duration |-> d, capture |-> captures + 1])
  /\ native_queued' = native_queued + d
  /\ capturing' = IF timeout = 0 THEN "forever" ELSE "timeout"
  /\ UNCHANGED <<sourceVars, now_seconds, capture_result, rejected>>

\* The callback: a frame has been processed, or was refused.  Only the last call may be waiting.
CaptureCallback(i, accepted) ==
  LET f == native_frames[i]
      waiting == capturing # "no" /\ f.capture = captures IN
  /\ native_frames' = RemoveAt(native_frames, i)
  /\ native_queued' = IF accepted THEN native_queued ELSE AtLeastZero(native_queued - f.duration)
  /\ rejected' = IF accepted THEN rejected ELSE rejected + f.duration
  /\ capturing' = IF waiting THEN "no" ELSE capturing
  /\ capture_result' = IF ~waiting THEN capture_result ELSE IF accepted THEN "returned" ELSE "error"
  /\ UNCHANGED <<sourceVars, trackingVars, now_seconds, captures>>

\* The call gives up; Rust goes on with the frame.
CaptureTimesOut ==
  /\ capturing = "timeout"
  /\ capturing' = "no" /\ capture_result' = "timed_out"
  /\ UNCHANGED <<sourceVars, trackingVars, now_seconds, native_queued, native_frames, captures, rejected>>

\* clearQueue(); if the request throws the tracking is left as it is.
ClearQueue(sent) ==
  /\ native_queued' = IF sent THEN 0 ELSE native_queued
  /\ IF sent \/ ~audio_handle THEN last_capture' = 0 /\ q_size' = 0 /\ rejected' = 0
     ELSE UNCHANGED <<trackingVars, rejected>>
  /\ UNCHANGED <<sourceVars, now_seconds, capturing, capture_result, native_frames, captures>>

AudioTick ==
  /\ now_seconds < MaxAudioClock
  /\ now_seconds' = now_seconds + 1
  /\ native_queued' = AtLeastZero(native_queued - 1)
  /\ UNCHANGED <<sourceVars, trackingVars, capturing, capture_result, native_frames, captures, rejected>>

AudioNext ==
  \/ \E d \in FrameDurations, timeout \in CaptureTimeouts :
       CaptureRefused(d, timeout) \/ CaptureBuffered(d, timeout)
         \/ \E accepted \in BOOLEAN : CaptureUnbuffered(d, timeout, accepted)
  \/ \E b \in BOOLEAN : ClearQueue(b) \/ \E i \in DOMAIN native_frames : CaptureCallback(i, b)
  \/ CaptureTimesOut \/ AudioTick

\* Time runs out; Rust need not answer.
AudioFairness == WF_audioVars(CaptureTimesOut)

AudioSpec == AudioInit /\ [][AudioNext]_audioVars

-----------------------------------------------------------------------------
(* Properties *)

\* What queuedDuration() says of the queue of a source that has one: never more than is queued besides the
\* frames that were refused after they had been counted, and less by at most one frame (the estimate of a queue that
\* ran dry before a frame forgets part of the frame).  Of a source without a queue it says nothing:
\* queuedDuration() counts the frames of such a source too, although none of them is queued.
QueuedDurationClose ==
  queue_size_ms > 0 =>
    /\ QueuedDuration <= native_queued + rejected
    /\ QueuedDuration >= native_queued - LongestFrame

\* A call with a timeout returns, whether or not Rust ever answers.
TimedCapturesReturn == capturing = "timeout" ~> capturing = "no"
=============================================================================
