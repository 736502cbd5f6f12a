--------------------------- MODULE FreshAudioStream ---------------------------
(***************************************************************************)
(* livekit::FreshAudioStream (fresh_audio_stream.cpp) and the native queue *)
(* it reads (FreshAudioQueue and livekit_ffi_fresh_audio_read(), in the    *)
(* patch of the Rust SDK): one thread of WebRTC pushes decoded audio, one  *)
(* owner thread reads it and refuses what has become too old, also if it   *)
(* became so between the native call and its return.                       *)
(*                                                                         *)
(* Time passes at every step.  A frame is its sequence number and the time *)
(* at which it was decoded.  The two threads share the queue under `busy', *)
(* for which neither waits, and counters that are read one by one.  Frames *)
(* of another format, which are only counted, and the end of the stream,   *)
(* after which nobody reads, are left out.                                 *)
(***************************************************************************)
EXTENDS Integers, Sequences

CONSTANTS
  kFrames,         \* FRESH_AUDIO_CAPACITY
  MaximumAges,     \* the maximum ages that are asked for
  kAgeLimit,       \* the largest maximum age that is allowed
  MaxSequence,     \* bound on the frames that are decoded
  MaxFreshClock    \* bound on the clock

ASSUME FreshAudioAssumption ==
  /\ kFrames \in Nat \ {0} /\ kAgeLimit \in Nat
  /\ MaximumAges \subseteq Nat
  /\ MaxSequence \in Nat /\ MaxFreshClock \in Nat

VARIABLES
  steady_clock,
  native_queue,          \* the frames of QueueState
  consumed_sequence,
  busy,                  \* who has the queue: "nobody", "push" or "take"
  native_stats,          \* the counters; `taken' is history, the frames that take() has returned
  pushing,               \* where push() is, and its frame
  fresh_at,              \* where the owner is in tryRead()
  fresh_call,            \* its arguments, and what it has got so far
  fresh_stats,           \* stats_
  bridge_stale, delivered_sequence,
  output,                \* the frame the caller got last
  output_at,             \* history: when it got it, and after which frame
  quiet                  \* history: no push() ran since the counters were read for stats_

nativeVars == <<native_queue, consumed_sequence, busy, native_stats>>
bridgeVars == <<fresh_stats, bridge_stale, delivered_sequence, output, output_at>>
freshVars == <<steady_clock, nativeVars, pushing, fresh_at, fresh_call, bridgeVars, quiet>>

NoFrame == [sequence |-> 0, decoded |-> 0, discontinuity |-> FALSE]
NoCounters == [received |-> 0, dropped |-> 0, stale |-> 0, queued |-> 0]
NoCall == [maximum_age |-> 0, read_started |-> 0, now |-> 0, age |-> 0, frame |-> NoFrame, stats |-> NoCounters]
NotPushing == [at |-> "no", sequence |-> 0, decoded |-> 0]

FreshInit ==
  /\ steady_clock = 0
  /\ native_queue = <<>> /\ consumed_sequence = 0 /\ busy = "nobody"
  /\ native_stats = [received |-> 0, dropped |-> 0, stale |-> 0, queued |-> 0, taken |-> 0]
  /\ pushing = NotPushing
  /\ fresh_at = "idle" /\ fresh_call = NoCall
  /\ fresh_stats = NoCounters
  /\ bridge_stale = 0 /\ delivered_sequence = 0
  /\ output = NoFrame /\ output_at = [at |-> 0, after |-> 0, maximum_age |-> 0]
  /\ quiet = TRUE

FreshTick ==
  /\ steady_clock < MaxFreshClock
  /\ steady_clock' = steady_clock + 1
  /\ UNCHANGED <<nativeVars, pushing, fresh_at, fresh_call, bridgeVars, quiet>>

-----------------------------------------------------------------------------
(* push(), by the thread of WebRTC that decodes *)

\* The frame has been decoded some time ago; it gets its number before the queue is tried ...
PushReceived(decoded) ==
  /\ pushing.at = "no" /\ native_stats.received < MaxSequence
  /\ native_stats' = [native_stats EXCEPT !.received = @ + 1]
  /\ pushing' = [at |-> "try", sequence |-> native_stats.received + 1, decoded |-> decoded]
  /\ quiet' = FALSE
  /\ UNCHANGED <<steady_clock, native_queue, consumed_sequence, busy, fresh_at, fresh_call, bridgeVars>>

\* ... is dropped if the owner has the queue at that moment ...
PushContended ==
  /\ pushing.at = "try" /\ busy # "nobody"
  /\ native_stats' = [native_stats EXCEPT !.dropped = @ + 1]
  /\ pushing' = NotPushing
  /\ UNCHANGED <<steady_clock, native_queue, consumed_sequence, busy, fresh_at, fresh_call, bridgeVars, quiet>>

PushLocked ==
  /\ pushing.at = "try" /\ busy = "nobody"
  /\ busy' = "push"
  /\ pushing' = [pushing EXCEPT !.at = "evict"]
  /\ UNCHANGED <<steady_clock, native_queue, consumed_sequence, native_stats, fresh_at, fresh_call, bridgeVars, quiet>>

\* ... takes the place of the oldest one in a full queue ...
PushEvict ==
  /\ pushing.at = "evict"
  /\ IF Len(native_queue) = kFrames
     THEN /\ native_queue' = Tail(native_queue)
          /\ native_stats' = [native_stats EXCEPT !.dropped = @ + 1]
     ELSE UNCHANGED <<native_queue, native_stats>>
  /\ pushing' = [pushing EXCEPT !.at = "append"]
  /\ UNCHANGED <<steady_clock, consumed_sequence, busy, fresh_at, fresh_call, bridgeVars, quiet>>

\* ... and is the last.
PushAppend ==
  /\ pushing.at = "append"
  /\ native_queue' = Append(native_queue, [sequence |-> pushing.sequence, decoded |-> pushing.decoded])
  /\ native_stats' = [native_stats EXCEPT !.queued = Len(native_queue) + 1]
  /\ busy' = "nobody"
  /\ pushing' = NotPushing
  /\ UNCHANGED <<steady_clock, consumed_sequence, fresh_at, fresh_call, bridgeVars, quiet>>

-----------------------------------------------------------------------------
(* tryRead() by the owner; a call by another thread returns at once and changes nothing *)

OwnerGoto(step) == fresh_at' = step

AllowedAge(maximum_age) == maximum_age > 0 /\ maximum_age <= kAgeLimit

TryRead(maximum_age) ==
  /\ fresh_at = "idle"
  /\ AllowedAge(maximum_age)
  /\ OwnerGoto("native")
  /\ fresh_call' = [NoCall EXCEPT !.maximum_age = maximum_age, !.read_started = steady_clock]
  /\ UNCHANGED <<steady_clock, nativeVars, pushing, bridgeVars, quiet>>

\* try_read() looks at the clock before take() tries the queue ...
NativeTryRead ==
  /\ fresh_at = "native"
  /\ OwnerGoto("try")
  /\ fresh_call' = [fresh_call EXCEPT !.now = steady_clock]
  /\ UNCHANGED <<steady_clock, nativeVars, pushing, bridgeVars, quiet>>

\* ... which returns without a frame if push() has it.
TakeContended ==
  /\ fresh_at = "try" /\ busy # "nobody"
  /\ OwnerGoto("received")
  /\ UNCHANGED <<steady_clock, nativeVars, pushing, fresh_call, bridgeVars, quiet>>

TakeLocked ==
  /\ fresh_at = "try" /\ busy = "nobody"
  /\ busy' = "take"
  /\ OwnerGoto("take")
  /\ UNCHANGED <<steady_clock, native_queue, consumed_sequence, native_stats, pushing, fresh_call, bridgeVars, quiet>>

TakeEmpty ==
  /\ fresh_at = "take" /\ native_queue = <<>>
  /\ busy' = "nobody"
  /\ OwnerGoto("received")
  /\ UNCHANGED <<steady_clock, native_queue, consumed_sequence, native_stats, pushing, fresh_call, bridgeVars, quiet>>

\* Too old, or decoded after the look at the clock.
NativeStale(f) == fresh_call.now < f.decoded \/ fresh_call.now - f.decoded > fresh_call.maximum_age

\* One round of the loop: a stale frame is skipped ...
TakeStale ==
  /\ fresh_at = "take" /\ native_queue # <<>>
  /\ NativeStale(Head(native_queue))
  /\ native_queue' = Tail(native_queue)
  /\ native_stats' = [native_stats EXCEPT !.queued = Len(native_queue) - 1, !.stale = @ + 1]
  /\ UNCHANGED <<steady_clock, consumed_sequence, busy, pushing, fresh_at, fresh_call, bridgeVars, quiet>>

\* ... and another one is returned.
TakeFresh ==
  /\ fresh_at = "take" /\ native_queue # <<>>
  /\ LET f == Head(native_queue) IN
     /\ ~NativeStale(f)
     /\ consumed_sequence' = f.sequence
     /\ fresh_call' = [fresh_call EXCEPT !.frame = [sequence |-> f.sequence, decoded |-> f.decoded,
                                                    discontinuity |-> f.sequence # consumed_sequence + 1]]
  /\ native_queue' = Tail(native_queue)
  /\ native_stats' = [native_stats EXCEPT !.queued = Len(native_queue) - 1, !.taken = @ + 1]
  /\ busy' = "nobody"
  /\ OwnerGoto("received")
  /\ UNCHANGED <<steady_clock, pushing, bridgeVars, quiet>>

\* stats() loads one counter after the other, outside the lock.
StatsReceived ==
  /\ fresh_at = "received"
  /\ OwnerGoto("dropped")
  /\ fresh_call' = [fresh_call EXCEPT !.stats.received = native_stats.received]
  /\ quiet' = (pushing.at = "no")
  /\ UNCHANGED <<steady_clock, nativeVars, pushing, bridgeVars>>

StatsDropped ==
  /\ fresh_at = "dropped"
  /\ OwnerGoto("queued")
  /\ fresh_call' = [fresh_call EXCEPT !.stats.dropped = native_stats.dropped, !.stats.stale = native_stats.stale]
  /\ UNCHANGED <<steady_clock, nativeVars, pushing, bridgeVars, quiet>>

StatsQueued ==
  /\ fresh_at = "queued"
  /\ OwnerGoto("return")
  /\ fresh_call' = [fresh_call EXCEPT !.stats.queued = native_stats.queued]
  /\ UNCHANGED <<steady_clock, nativeVars, pushing, bridgeVars, quiet>>

\* The native call returns, with the age of the frame if there is one; stats_ is refreshed in any case.
NativeReturn ==
  /\ fresh_at = "return"
  /\ fresh_stats' = [fresh_call.stats EXCEPT !.stale = @ + bridge_stale]
  /\ IF fresh_call.frame = NoFrame
     THEN OwnerGoto("idle") /\ fresh_call' = NoCall
     ELSE OwnerGoto("bridge") /\ fresh_call' = [fresh_call EXCEPT !.age = steady_clock - fresh_call.frame.decoded]
  /\ UNCHANGED <<steady_clock, nativeVars, pushing, bridge_stale, delivered_sequence, output, output_at, quiet>>

\* Mutant of AgeInBridge: the age that was sampled during the native call is taken as it is.
AgeAsSampled == fresh_call.age

\* The age on return: the time since the call began and the age the frame had in it.
AgeInBridge == steady_clock - fresh_call.read_started + fresh_call.age

DropInBridge ==
  /\ fresh_at = "bridge" /\ AgeInBridge > fresh_call.maximum_age
  /\ bridge_stale' = bridge_stale + 1
  /\ fresh_stats' = [fresh_stats EXCEPT !.stale = @ + 1]
  /\ OwnerGoto("idle") /\ fresh_call' = NoCall
  /\ UNCHANGED <<steady_clock, nativeVars, pushing, delivered_sequence, output, output_at, quiet>>

Discontinuity(f) == f.discontinuity \/ f.sequence # delivered_sequence + 1

DeliverFresh ==
  /\ fresh_at = "bridge" /\ AgeInBridge <= fresh_call.maximum_age
  /\ output' = [fresh_call.frame EXCEPT !.discontinuity = Discontinuity(fresh_call.frame)]
  /\ delivered_sequence' = fresh_call.frame.sequence
  /\ output_at' = [at |-> steady_clock, after |-> delivered_sequence, maximum_age |-> fresh_call.maximum_age]
  /\ OwnerGoto("idle") /\ fresh_call' = NoCall
  /\ UNCHANGED <<steady_clock, nativeVars, pushing, fresh_stats, bridge_stale, quiet>>

FreshNext ==
  \/ FreshTick
  \/ \E decoded \in 0 .. steady_clock : PushReceived(decoded)
  \/ PushContended \/ PushLocked \/ PushEvict \/ PushAppend
  \/ \E a \in MaximumAges : TryRead(a)
  \/ NativeTryRead \/ TakeContended \/ TakeLocked \/ TakeEmpty \/ TakeStale \/ TakeFresh
  \/ StatsReceived \/ StatsDropped \/ StatsQueued
  \/ NativeReturn \/ DropInBridge \/ DeliverFresh

FreshSpec == FreshInit /\ [][FreshNext]_freshVars

-----------------------------------------------------------------------------
(* Properties *)

\* "counters make gaps and capacity visible": while no push() has run since stats() began to read the counters, they
\* account for every frame that was received: it was delivered, dropped by either side, stale in the queue or on
\* the bridge, or is still queued.  With a push() in between the counters are of different moments.
StatsAccountForFrames ==
  fresh_at = "idle" /\ quiet =>
    fresh_stats.received = fresh_stats.dropped + fresh_stats.stale + fresh_stats.queued
                           + (native_stats.taken - bridge_stale)

\* "bridge time may conservatively increase age, never hide a stall": a frame that is delivered is
\* not older than the caller allowed at the moment it is delivered, however long the call took;
\* and frames come in order, with every gap between two of them flagged, whichever side lost them.
DeliveredFreshInOrder ==
  output # NoFrame =>
    /\ output_at.at - output.decoded <= output_at.maximum_age
    /\ output.sequence > output_at.after
    /\ output.sequence > output_at.after + 1 => output.discontinuity

\* What a reader relies on: fresh frames in order, and statistics that account for the others.
FreshReads == DeliveredFreshInOrder /\ StatsAccountForFrames
=============================================================================
