------------------------ MODULE MediaEndpointsProofs ------------------------
(***************************************************************************)
(* Proofs about the objects through which media enter and leave the SDK:   *)
(* AudioStream and VideoStream (MediaStream), FreshAudioStream,            *)
(* AudioSource, the settings of remote publications (RemoteSettings) and   *)
(* video frames (VideoFrames).  They hold for any capacity, any size of a  *)
(* picture and any number of readers, frames and calls.                    *)
(***************************************************************************)
EXTENDS MediaStream, FreshAudioStream, AudioSource, RemoteSettings, VideoFrames,
        SequenceTheorems, TLAPS

-----------------------------------------------------------------------------
(* MediaStream *)

MediaTypeOK ==
  /\ init \in {"listen", "request", "store", "done", "failed"}
  /\ rust \in {"none", "open", "ended"}
  /\ moved \in BOOLEAN /\ stream_handle \in BOOLEAN /\ listening \in BOOLEAN
  /\ eof \in BOOLEAN /\ closed \in BOOLEAN
  /\ queue \in Seq(Nat) /\ pushed \in Nat /\ emitted \in 0 .. MaxFrames
  /\ ffi \in 0 .. Eos /\ ffi_at \in {"none", "filter", "push"}
  /\ last_read \in [Readers -> Nat]
  /\ closer \in [Closers -> {"idle", "reset", "remove", "wait", "wake", "done"}]

\* What the threads that create and close the stream have done so far.
LifetimeInv ==
  /\ init \in {"request", "store", "done"} /\ ~closed => listening
  /\ rust = "open" => init \in {"store", "done"}
  /\ init # "done" => ~stream_handle
  /\ \A c \in Closers : closer[c] \in {"reset", "remove", "wait", "wake"} => closed
  /\ ffi_at = "push" /\ ~closed => stream_handle
  /\ pushed # 0 /\ ~closed => stream_handle

\* The frame on its way to the queue is the last one that Rust emitted, and as long as frames are
\* accepted none was lost between the last one in the queue and this one.
DeliveryInv ==
  /\ ffi = Idle <=> ffi_at = "none"
  /\ ffi \notin {Idle, Eos} => ffi = emitted
  /\ pushed # 0 /\ ~moved /\ ~closed /\ ~eof =>
       IF ffi \in {Idle, Eos} THEN emitted = pushed ELSE emitted = pushed + 1

\* The queue holds consecutive frames up to the last one pushed; what has been read came before them.
QueueInv ==
  /\ pushed = 0 => queue = <<>>
  /\ Len(queue) <= pushed
  /\ \A i \in 1 .. Len(queue) : queue[i] = pushed - Len(queue) + i
  /\ Capacity > 0 => Len(queue) <= Capacity
  /\ \A r \in Readers : last_read[r] <= pushed - Len(queue)
  /\ \A r, s \in Readers : r # s /\ last_read[r] = last_read[s] => last_read[r] = 0

MediaInv == MediaTypeOK /\ LifetimeInv /\ DeliveryInv /\ QueueInv

\* A stream that is being created.
LEMMA MediaInit == Init => MediaInv
<1> SUFFICES ASSUME Init PROVE MediaInv
  OBVIOUS
<1> USE StreamAssumption DEF Init, Eos, Idle
<1>0. MaxFrames + 1 \in Nat /\ <<>> \in Seq(Nat)
  BY EmptySeq
<1>1. MediaTypeOK
  <2>1. queue \in Seq(Nat) /\ pushed \in Nat /\ emitted \in 0 .. MaxFrames /\ ffi \in 0 .. Eos
    BY <1>0
  <2>2. last_read \in [Readers -> Nat]
    OBVIOUS
  <2> QED
    BY <2>1, <2>2 DEF MediaTypeOK
<1>2. LifetimeInv /\ DeliveryInv
  BY DEF LifetimeInv, DeliveryInv
<1>3. QueueInv
  BY DEF QueueInv
<1> QED
  BY <1>1, <1>2, <1>3 DEF MediaInv

\* A step that leaves the queue, its history and the readers' last frames alone keeps QueueInv.
LEMMA QueueKept ==
  ASSUME QueueInv, UNCHANGED <<queue, pushed, last_read>>
  PROVE  QueueInv'
  BY DEF QueueInv

\* A step of the reader or of a notification concerns the reader's own state only.
LEMMA NotifyTouchesReaders ==
  ASSUME MediaInv, UNCHANGED <<init, moved, stream_handle, listening, streamVars, ffiVars, last_read, closer, pushed>>
  PROVE  MediaInv'
  BY DEF MediaInv, MediaTypeOK, LifetimeInv, DeliveryInv, QueueInv, streamVars, ffiVars

\* The oldest frame makes room for the new one, which continues the queue.
LEMMA EnqueueFacts ==
  ASSUME MediaTypeOK, QueueInv, NEW frame \in Nat \ {0}, pushed # 0 => frame = pushed + 1
  PROVE  /\ Enqueue(frame) \in Seq(Nat)
         /\ Len(Enqueue(frame)) \in 1 .. Len(queue) + 1
         /\ Len(Enqueue(frame)) <= frame
         /\ \A i \in 1 .. Len(Enqueue(frame)) : Enqueue(frame)[i] = frame - Len(Enqueue(frame)) + i
         /\ Capacity > 0 => Len(Enqueue(frame)) <= Capacity
<1> DEFINE kept == IF Capacity > 0 /\ Len(queue) >= Capacity THEN Tail(queue) ELSE queue
<1>1. queue \in Seq(Nat) /\ Len(queue) \in Nat /\ pushed \in Nat /\ Capacity \in Nat
  BY StreamAssumption, LenProperties DEF MediaTypeOK
<1>2. kept \in Seq(Nat) /\ Len(kept) \in 0 .. Len(queue) /\ (Capacity > 0 => Len(kept) < Capacity)
  <2>1. CASE Capacity > 0 /\ Len(queue) >= Capacity
    <3>1. queue # <<>>
      BY <1>1, <2>1
    <3> QED
      BY <1>1, <2>1, <3>1, HeadTailProperties DEF QueueInv
  <2>2. CASE ~(Capacity > 0 /\ Len(queue) >= Capacity)
    BY <1>1, <2>2
  <2> QED
    BY <2>1, <2>2
<1>3. \A i \in 1 .. Len(kept) : kept[i] = pushed - Len(kept) + i
  <2>1. CASE Capacity > 0 /\ Len(queue) >= Capacity
    <3>1. queue # <<>>
      BY <1>1, <2>1
    <3>2. kept = Tail(queue) /\ Len(kept) = Len(queue) - 1 /\ \A i \in 1 .. Len(kept) : kept[i] = queue[i + 1]
      BY <1>1, <2>1, <3>1, HeadTailProperties
    <3>3. ASSUME NEW i \in 1 .. Len(kept) PROVE kept[i] = pushed - Len(kept) + i
      <4> HIDE DEF kept
      <4>1. i + 1 \in 1 .. Len(queue)
        BY <1>1, <1>2, <3>2
      <4>2. kept[i] = pushed - Len(queue) + (i + 1)
        BY <3>2, <4>1 DEF QueueInv
      <4>3. i \in Int /\ Len(queue) \in Int /\ pushed \in Int /\ Len(kept) = Len(queue) - 1
        BY <1>1, <3>2
      <4>4. pushed - Len(queue) + (i + 1) = pushed - (Len(queue) - 1) + i
        BY <4>3
      <4> QED
        BY <4>2, <4>3, <4>4
    <3> QED
      BY <3>3
  <2>2. CASE ~(Capacity > 0 /\ Len(queue) >= Capacity)
    BY <1>1, <2>2 DEF QueueInv
  <2> QED
    BY <2>1, <2>2
<1> HIDE DEF kept
<1>4. Enqueue(frame) = Append(kept, frame)
  BY DEF Enqueue, kept
<1>5. /\ Append(kept, frame) \in Seq(Nat) /\ Len(Append(kept, frame)) = Len(kept) + 1
      /\ \A i \in 1 .. Len(kept) : Append(kept, frame)[i] = kept[i]
      /\ Append(kept, frame)[Len(kept) + 1] = frame
  BY <1>2, AppendProperties
<1>6. Len(kept) > 0 => frame = pushed + 1
  <2>1. pushed = 0 => Len(queue) = 0
    BY DEF QueueInv
  <2> QED
    BY <1>1, <1>2, <2>1
<1>7. Len(kept) + 1 <= frame
  BY <1>1, <1>2, <1>6 DEF QueueInv
<1>8. ASSUME NEW i \in 1 .. Len(kept) + 1
      PROVE  Append(kept, frame)[i] = frame - (Len(kept) + 1) + i
  <2>1. CASE i = Len(kept) + 1
    BY <1>2, <1>5, <2>1
  <2>2. CASE i \in 1 .. Len(kept)
    BY <1>1, <1>2, <1>3, <1>5, <1>6, <2>2
  <2> QED
    BY <1>2, <2>1, <2>2
<1> QED
  BY <1>1, <1>2, <1>4, <1>5, <1>7, <1>8

\* Every step of the threads that create, read and close the stream, of Rust and of the FFI thread
\* keeps the invariant.
LEMMA MediaStep == MediaInv /\ [Next]_vars => MediaInv'
<1> SUFFICES ASSUME MediaInv, [Next]_vars PROVE MediaInv'
  OBVIOUS
<1> USE StreamAssumption DEF MediaInv, streamVars, ffiVars, readVars
<1>a. MaxFrames + 1 \in Nat /\ Eos = MaxFrames + 1 /\ Idle = 0
  BY DEF Eos, Idle
<1>0. CASE UNCHANGED vars
  BY <1>0, NotifyTouchesReaders DEF vars
<1>1. CASE InitAddListener
  <2>1. MediaTypeOK'
    BY <1>1, <1>a DEF InitAddListener, MediaTypeOK
  <2>2. LifetimeInv'
    BY <1>1, <1>a DEF InitAddListener, LifetimeInv, MediaTypeOK
  <2>3. DeliveryInv'
    BY <1>1, <1>a DEF InitAddListener, DeliveryInv, MediaTypeOK, LifetimeInv
  <2>4. QueueInv'
    BY <1>1, QueueKept DEF InitAddListener
  <2> QED
    BY <2>1, <2>2, <2>3, <2>4
<1>2. ASSUME NEW complete \in BOOLEAN, InitRequest(complete)
      PROVE  MediaInv'
  <2>1. MediaTypeOK'
    BY <1>2, <1>a DEF InitRequest, MediaTypeOK
  <2>2. LifetimeInv'
    BY <1>2, <1>a DEF InitRequest, LifetimeInv, MediaTypeOK
  <2>3. DeliveryInv'
    BY <1>2, <1>a DEF InitRequest, DeliveryInv, MediaTypeOK, LifetimeInv
  <2>4. QueueInv'
    BY <1>2, QueueKept DEF InitRequest
  <2> QED
    BY <2>1, <2>2, <2>3, <2>4
<1>3. CASE InitThrows
  <2>1. MediaTypeOK'
    BY <1>3, <1>a DEF InitThrows, MediaTypeOK
  <2>2. LifetimeInv'
    BY <1>3, <1>a DEF InitThrows, LifetimeInv, MediaTypeOK
  <2>3. DeliveryInv'
    BY <1>3, <1>a DEF InitThrows, DeliveryInv, MediaTypeOK, LifetimeInv
  <2>4. QueueInv'
    BY <1>3, QueueKept DEF InitThrows
  <2> QED
    BY <2>1, <2>2, <2>3, <2>4
<1>4. CASE InitStoreHandle
  <2>1. MediaTypeOK'
    BY <1>4, <1>a DEF InitStoreHandle, MediaTypeOK
  <2>2. LifetimeInv'
    BY <1>4, <1>a DEF InitStoreHandle, LifetimeInv, MediaTypeOK
  <2>3. DeliveryInv'
    BY <1>4, <1>a DEF InitStoreHandle, DeliveryInv, MediaTypeOK, LifetimeInv
  <2>4. QueueInv'
    BY <1>4, QueueKept DEF InitStoreHandle
  <2> QED
    BY <2>1, <2>2, <2>3, <2>4
<1>5. CASE Move
  <2>1. MediaTypeOK'
    BY <1>5, <1>a DEF Move, TakeOver, LeaveBehind, MediaTypeOK
  <2>2. LifetimeInv'
    BY <1>5, <1>a DEF Move, TakeOver, LeaveBehind, LifetimeInv, MediaTypeOK
  <2>3. DeliveryInv'
    BY <1>5, <1>a DEF Move, TakeOver, LeaveBehind, DeliveryInv, MediaTypeOK, LifetimeInv
  <2>4. QueueInv'
    BY <1>5, QueueKept DEF Move, TakeOver, LeaveBehind
  <2> QED
    BY <2>1, <2>2, <2>3, <2>4
<1>6. CASE RustFrame
  <2>1. MediaTypeOK'
    BY <1>6, <1>a DEF RustFrame, MayEmit, Emit, MediaTypeOK
  <2>2. LifetimeInv'
    BY <1>6, <1>a DEF RustFrame, MayEmit, Emit, LifetimeInv, MediaTypeOK
  <2>3. DeliveryInv'
    BY <1>6, <1>a DEF RustFrame, MayEmit, Emit, DeliveryInv, MediaTypeOK, LifetimeInv
  <2>4. QueueInv'
    BY <1>6, QueueKept DEF RustFrame, MayEmit, Emit
  <2> QED
    BY <2>1, <2>2, <2>3, <2>4
<1>7. CASE RustEos
  <2>1. MediaTypeOK'
    BY <1>7, <1>a DEF RustEos, MayEmit, Emit, MediaTypeOK
  <2>2. LifetimeInv'
    BY <1>7, <1>a DEF RustEos, MayEmit, Emit, LifetimeInv, MediaTypeOK
  <2>3. DeliveryInv'
    BY <1>7, <1>a DEF RustEos, MayEmit, Emit, DeliveryInv, MediaTypeOK, LifetimeInv
  <2>4. QueueInv'
    BY <1>7, QueueKept DEF RustEos, MayEmit, Emit
  <2> QED
    BY <2>1, <2>2, <2>3, <2>4
<1>8. CASE OnFfiEventFilter
  <2>1. MediaTypeOK'
    BY <1>8, <1>a DEF OnFfiEventFilter, FfiReturn, MediaTypeOK
  <2>2. LifetimeInv'
    BY <1>8, <1>a DEF OnFfiEventFilter, FfiReturn, LifetimeInv, MediaTypeOK
  <2>3. DeliveryInv'
    BY <1>8, <1>a DEF OnFfiEventFilter, FfiReturn, DeliveryInv, MediaTypeOK, LifetimeInv
  <2>4. QueueInv'
    BY <1>8, QueueKept DEF OnFfiEventFilter, FfiReturn
  <2> QED
    BY <2>1, <2>2, <2>3, <2>4
<1>9. CASE PushFrame
  <2>1. CASE moved \/ closed \/ eof
    <3>1. MediaTypeOK' /\ LifetimeInv'
      BY <1>9, <1>a, <2>1 DEF PushFrame, FfiReturn, MediaTypeOK, LifetimeInv
    <3>2. DeliveryInv'
      BY <1>9, <1>a, <2>1 DEF PushFrame, FfiReturn, MediaTypeOK, DeliveryInv
    <3>3. QueueInv'
      BY <1>9, <2>1, QueueKept DEF PushFrame
    <3> QED
      BY <3>1, <3>2, <3>3
  <2>2. CASE ~(moved \/ closed \/ eof)
    <3>1. /\ queue' = Enqueue(ffi) /\ pushed' = ffi /\ ffi' = Idle /\ ffi_at' = "none"
          /\ ffi_at = "push" /\ ffi # Eos
          /\ UNCHANGED <<init, moved, stream_handle, listening, eof, closed, emitted, rust, last_read, closer>>
      BY <1>9, <2>2 DEF PushFrame, FfiReturn
    <3>2. ffi \in Nat \ {0} /\ ffi = emitted /\ (pushed # 0 => ffi = pushed + 1)
      BY <1>a, <2>2, <3>1 DEF MediaTypeOK, DeliveryInv
    <3>3. /\ Enqueue(ffi) \in Seq(Nat) /\ Len(Enqueue(ffi)) \in 1 .. Len(queue) + 1 /\ Len(Enqueue(ffi)) <= ffi
          /\ \A i \in 1 .. Len(Enqueue(ffi)) : Enqueue(ffi)[i] = ffi - Len(Enqueue(ffi)) + i
          /\ Capacity > 0 => Len(Enqueue(ffi)) <= Capacity
      BY <3>2, EnqueueFacts
    <3>4. MediaTypeOK'
      BY <1>a, <3>1, <3>2, <3>3 DEF MediaTypeOK
    <3>5. LifetimeInv' /\ DeliveryInv'
      BY <1>a, <2>2, <3>1, <3>2 DEF MediaTypeOK, LifetimeInv, DeliveryInv
    <3>6. ASSUME NEW r \in Readers PROVE last_read[r] <= ffi - Len(Enqueue(ffi))
      <4>1. Len(queue) \in Nat /\ last_read[r] \in Nat /\ pushed \in Nat
        BY LenProperties DEF MediaTypeOK
      <4>2. last_read[r] <= pushed - Len(queue) /\ Len(queue) <= pushed
        BY DEF QueueInv
      <4>3. CASE pushed = 0
        BY <3>2, <3>3, <4>1, <4>2, <4>3
      <4>4. CASE pushed # 0
        BY <3>2, <3>3, <4>1, <4>2, <4>4
      <4> QED
        BY <4>3, <4>4
    <3>7. QueueInv'
      BY <3>1, <3>2, <3>3, <3>6 DEF QueueInv
    <3> QED
      BY <3>4, <3>5, <3>7
  <2> QED
    BY <2>1, <2>2
<1>10. CASE PushEos
  <2>1. MediaTypeOK'
    BY <1>10, <1>a DEF PushEos, FfiReturn, MediaTypeOK
  <2>2. LifetimeInv'
    BY <1>10, <1>a DEF PushEos, FfiReturn, LifetimeInv, MediaTypeOK
  <2>3. DeliveryInv'
    BY <1>10, <1>a DEF PushEos, FfiReturn, DeliveryInv, MediaTypeOK, LifetimeInv
  <2>4. QueueInv'
    BY <1>10, QueueKept DEF PushEos, FfiReturn
  <2> QED
    BY <2>1, <2>2, <2>3, <2>4
<1>11. ASSUME NEW r \in Readers, ReadWaits(r) \/ ReadEnds(r)
       PROVE  MediaInv'
  BY <1>11, NotifyTouchesReaders DEF ReadWaits, ReadEnds
<1>12. ASSUME NEW r \in Readers, ReadFrame(r)
       PROVE  MediaInv'
  <2>1. /\ queue # <<>> /\ queue' = Tail(queue) /\ last_read' = [last_read EXCEPT ![r] = Head(queue)]
        /\ UNCHANGED <<init, moved, stream_handle, listening, eof, closed, ffiVars, closer, pushed>>
    BY <1>12 DEF ReadFrame
  <2>2. queue \in Seq(Nat) /\ pushed \in Nat /\ last_read \in [Readers -> Nat]
    BY DEF MediaTypeOK
  <2>3. /\ Head(queue) \in Nat /\ Tail(queue) \in Seq(Nat) /\ Len(Tail(queue)) = Len(queue) - 1
        /\ \A i \in 1 .. Len(Tail(queue)) : Tail(queue)[i] = queue[i + 1]
        /\ Len(queue) \in Nat \ {0} /\ Head(queue) = queue[1]
    BY <2>1, <2>2, HeadTailProperties, EmptySeq
  <2>4. Head(queue) = pushed - Len(queue) + 1
    BY <2>3 DEF QueueInv
  <2>5. MediaTypeOK' /\ LifetimeInv' /\ DeliveryInv'
    BY <2>1, <2>3 DEF MediaTypeOK, LifetimeInv, DeliveryInv
  <2>6. ASSUME NEW i \in 1 .. Len(Tail(queue)) PROVE Tail(queue)[i] = pushed - (Len(queue) - 1) + i
    <3>1. i + 1 \in 1 .. Len(queue) /\ i \in Int
      BY <2>3
    <3>2. Tail(queue)[i] = pushed - Len(queue) + (i + 1)
      BY <2>3, <3>1 DEF QueueInv
    <3> QED
      BY <2>2, <2>3, <3>1, <3>2
  <2>7. ASSUME NEW s \in Readers PROVE last_read'[s] <= pushed - (Len(queue) - 1)
    BY <2>1, <2>2, <2>3, <2>4 DEF QueueInv
  <2>8. ASSUME NEW s \in Readers, NEW u \in Readers, s # u, last_read'[s] = last_read'[u]
        PROVE  last_read'[s] = 0
    <3>1. \A v \in Readers \ {r} : last_read'[v] = last_read[v] /\ last_read[v] < Head(queue)
      BY <2>1, <2>2, <2>3, <2>4 DEF QueueInv
    <3>2. last_read'[r] = Head(queue)
      BY <2>1, <2>2
    <3> QED
      BY <2>2, <2>3, <2>8, <3>1, <3>2 DEF QueueInv
  <2>9. QueueInv'
    <3>1. Len(queue') = Len(queue) - 1 /\ pushed' = pushed
      BY <2>1, <2>3
    <3>2. \A i \in 1 .. Len(queue') : queue'[i] = pushed' - Len(queue') + i
      BY <2>1, <2>6, <3>1
    <3>3. pushed # 0
      BY <2>3 DEF QueueInv
    <3>4. Len(queue') <= pushed' /\ (Capacity > 0 => Len(queue') <= Capacity)
      BY <2>2, <2>3, <3>1 DEF QueueInv
    <3> QED
      BY <2>7, <2>8, <3>1, <3>2, <3>3, <3>4 DEF QueueInv
  <2> QED
    BY <2>5, <2>9
<1>13. ASSUME NEW c \in Closers, CloseClaim(c)
       PROVE  MediaInv'
  <2>1. MediaTypeOK'
    BY <1>13, <1>a DEF CloseClaim, MediaTypeOK
  <2>2. LifetimeInv'
    BY <1>13, <1>a DEF CloseClaim, LifetimeInv, MediaTypeOK
  <2>3. DeliveryInv'
    BY <1>13, <1>a DEF CloseClaim, DeliveryInv, MediaTypeOK, LifetimeInv
  <2>4. QueueInv'
    BY <1>13, QueueKept DEF CloseClaim
  <2> QED
    BY <2>1, <2>2, <2>3, <2>4
<1>14. ASSUME NEW c \in Closers, CloseResetHandle(c)
       PROVE  MediaInv'
  <2>1. MediaTypeOK'
    BY <1>14, <1>a DEF CloseResetHandle, MediaTypeOK
  <2>2. LifetimeInv'
    BY <1>14, <1>a DEF CloseResetHandle, LifetimeInv, MediaTypeOK
  <2>3. DeliveryInv'
    BY <1>14, <1>a DEF CloseResetHandle, DeliveryInv, MediaTypeOK, LifetimeInv
  <2>4. QueueInv'
    BY <1>14, QueueKept DEF CloseResetHandle
  <2> QED
    BY <2>1, <2>2, <2>3, <2>4
<1>15. ASSUME NEW c \in Closers, CloseRemoveListener(c)
       PROVE  MediaInv'
  <2>1. MediaTypeOK'
    BY <1>15, <1>a DEF CloseRemoveListener, MediaTypeOK
  <2>2. LifetimeInv'
    BY <1>15, <1>a DEF CloseRemoveListener, LifetimeInv, MediaTypeOK
  <2>3. DeliveryInv'
    BY <1>15, <1>a DEF CloseRemoveListener, DeliveryInv, MediaTypeOK, LifetimeInv
  <2>4. QueueInv'
    BY <1>15, QueueKept DEF CloseRemoveListener
  <2> QED
    BY <2>1, <2>2, <2>3, <2>4
<1>16. ASSUME NEW c \in Closers, CloseListenerRemoved(c)
       PROVE  MediaInv'
  <2>1. MediaTypeOK'
    BY <1>16, <1>a DEF CloseListenerRemoved, MediaTypeOK
  <2>2. LifetimeInv'
    BY <1>16, <1>a DEF CloseListenerRemoved, LifetimeInv, MediaTypeOK
  <2>3. DeliveryInv'
    BY <1>16, <1>a DEF CloseListenerRemoved, DeliveryInv, MediaTypeOK, LifetimeInv
  <2>4. QueueInv'
    BY <1>16, QueueKept DEF CloseListenerRemoved
  <2> QED
    BY <2>1, <2>2, <2>3, <2>4
<1>17. ASSUME NEW c \in Closers, CloseNotify(c)
       PROVE  MediaInv'
  <2>1. MediaTypeOK'
    BY <1>17, <1>a DEF CloseNotify, MediaTypeOK
  <2>2. LifetimeInv'
    BY <1>17, <1>a DEF CloseNotify, LifetimeInv, MediaTypeOK
  <2>3. DeliveryInv'
    BY <1>17, <1>a DEF CloseNotify, DeliveryInv, MediaTypeOK, LifetimeInv
  <2>4. QueueInv'
    BY <1>17, QueueKept DEF CloseNotify
  <2> QED
    BY <2>1, <2>2, <2>3, <2>4
<1> QED
  BY <1>0, <1>1, <1>2, <1>3, <1>4, <1>5, <1>6, <1>7, <1>8, <1>9, <1>10, <1>11, <1>12, <1>13, <1>14, <1>15, <1>16, <1>17
  DEF Next, Creation, Delivery, Read, Close

\* The queue of an AudioStream or a VideoStream holds the newest frames in order, within its capacity,
\* and the threads that read share it: no frame is read twice, none after a younger one.
THEOREM NewestFramesQueued == Safe => []QueueHoldsNewest
<1>1. MediaInv => QueueHoldsNewest
  <2> SUFFICES ASSUME MediaInv PROVE QueueHoldsNewest
    OBVIOUS
  <2>1. Len(queue) \in Nat /\ pushed \in Nat /\ \A r \in Readers : last_read[r] \in Nat
    BY LenProperties DEF MediaInv, MediaTypeOK
  <2> QED
    BY <2>1 DEF MediaInv, QueueInv, QueueHoldsNewest
<1> QED
  BY <1>1, MediaInit, MediaStep, PTL DEF Safe

-----------------------------------------------------------------------------
(* AudioSource *)

NativeFrame == [duration : Nat, capture : Nat]

AudioTypeOK ==
  /\ audio_handle \in BOOLEAN /\ queue_size_ms \in Nat
  /\ now_seconds \in Nat /\ now_seconds > 0 /\ last_capture \in 0 .. now_seconds
  /\ q_size \in Nat /\ native_queued \in Nat /\ rejected \in Nat /\ captures \in Nat
  /\ native_frames \in Seq(NativeFrame)

\* The estimate before it is cut off at zero: how far below zero it is says how long Rust's queue
\* may have been dry.
RawEstimate == q_size - (IF last_capture = 0 THEN 0 ELSE now_seconds - last_capture)

EstimateInv ==
  /\ ~audio_handle => native_queued = 0
  /\ last_capture = 0 => q_size = 0 /\ native_queued = 0
  /\ queue_size_ms > 0 => RawEstimate <= native_queued + rejected
  /\ native_queued > 0 => RawEstimate >= native_queued - LongestFrame

AudioInv == AudioTypeOK /\ EstimateInv

\* There is a longest frame.
LEMMA LongestFrameFacts == LongestFrame \in Nat /\ \A d \in FrameDurations : d <= LongestFrame
  BY AudioSourceAssumption DEF LongestFrame

\* The frames of a sequence that one of them has been removed from.
LEMMA RemoveAtFacts ==
  ASSUME NEW S, NEW s \in Seq(S), NEW i \in 1 .. Len(s)
  PROVE  RemoveAt(s, i) \in Seq(S)
<1>1. Len(s) \in Nat /\ \A j \in 1 .. Len(s) : s[j] \in S
  BY LenProperties, ElementOfSeq
<1>2. SubSeq(s, 1, i - 1) \in Seq(S)
  BY <1>1, SubSeqProperties
<1>3. SubSeq(s, i + 1, Len(s)) \in Seq(S)
  BY <1>1, SubSeqProperties
<1> QED
  BY <1>2, <1>3, ConcatProperties DEF RemoveAt

\* A frame is counted in the estimate, and queued if the source has a queue.
LEMMA TrackFacts ==
  ASSUME AudioInv, NEW d \in FrameDurations, Track(d), audio_handle, UNCHANGED <<sourceVars, now_seconds, rejected>>,
         native_queued' = IF queue_size_ms = 0 THEN native_queued ELSE native_queued + d,
         native_frames' \in Seq(NativeFrame)
  PROVE  AudioInv'
<1>1. d \in Nat /\ LongestFrame \in Nat /\ d <= LongestFrame
  BY LongestFrameFacts, AudioSourceAssumption
<1>2. /\ q_size' = AtLeastZero(RawEstimate + d) /\ last_capture' = now_seconds /\ captures' = captures + 1
      /\ RawEstimate \in Int
  BY <1>1 DEF Track, TrackedSize, RawEstimate, AudioInv, AudioTypeOK
<1>3. q_size' \in Nat /\ q_size' >= RawEstimate + d /\ (q_size' > 0 => q_size' = RawEstimate + d)
  BY <1>1, <1>2 DEF AtLeastZero
<1>4. RawEstimate' = q_size'
  BY <1>2, <1>3 DEF RawEstimate, AudioInv, AudioTypeOK
<1>5. AudioTypeOK'
  BY <1>1, <1>2, <1>3 DEF AudioInv, AudioTypeOK, sourceVars
<1> USE DEF sourceVars
<1>6. queue_size_ms' > 0 => RawEstimate' <= native_queued' + rejected'
  BY <1>1, <1>2, <1>3, <1>4 DEF AudioInv, AudioTypeOK, EstimateInv
<1>7. native_queued' > 0 => RawEstimate' >= native_queued' - LongestFrame
  BY <1>1, <1>2, <1>3, <1>4 DEF AudioInv, AudioTypeOK, EstimateInv
<1> QED
  BY <1>2, <1>5, <1>6, <1>7 DEF AudioInv, AudioTypeOK, EstimateInv

\* A source whose queue is empty.
LEMMA AudioInitInv == AudioInit => AudioInv
<1> SUFFICES ASSUME AudioInit PROVE AudioInv
  OBVIOUS
<1>1. <<>> \in Seq(NativeFrame)
  BY EmptySeq
<1> QED
  BY <1>1, AudioSourceAssumption DEF AudioInit, AudioInv, AudioTypeOK, EstimateInv, RawEstimate

\* Every capture, callback, timeout and clearing of the queue, and the passing of time, keeps the
\* estimate within its bounds.
LEMMA AudioStep == AudioInv /\ [AudioNext]_audioVars => AudioInv'
<1> SUFFICES ASSUME AudioInv, [AudioNext]_audioVars PROVE AudioInv'
  OBVIOUS
<1> USE DEF sourceVars, trackingVars
<1>0. CASE UNCHANGED audioVars
  BY <1>0 DEF audioVars, AudioInv, AudioTypeOK, EstimateInv, RawEstimate
<1>1. ASSUME NEW d \in FrameDurations, NEW timeout \in CaptureTimeouts, CaptureRefused(d, timeout)
      PROVE  AudioInv'
  BY <1>1 DEF CaptureRefused, AudioInv, AudioTypeOK, EstimateInv, RawEstimate
<1>2. ASSUME NEW d \in FrameDurations, NEW timeout \in CaptureTimeouts, CaptureBuffered(d, timeout)
      PROVE  AudioInv'
  <2>1. [duration |-> d, capture |-> captures + 1] \in NativeFrame
    BY AudioSourceAssumption DEF AudioInv, AudioTypeOK, NativeFrame
  <2>2. native_frames' \in Seq(NativeFrame)
    BY <1>2, <2>1, AppendProperties DEF CaptureBuffered, AudioInv, AudioTypeOK
  <2> QED
    BY <1>2, <2>2, TrackFacts DEF CaptureBuffered, MayCapture, AudioInv, AudioTypeOK
<1>3. ASSUME NEW d \in FrameDurations, NEW timeout \in CaptureTimeouts, NEW accepted \in BOOLEAN,
             CaptureUnbuffered(d, timeout, accepted)
      PROVE  AudioInv'
  <2>1. native_frames' \in Seq(NativeFrame)
    BY <1>3 DEF CaptureUnbuffered, AudioInv, AudioTypeOK
  <2> QED
    BY <1>3, <2>1, TrackFacts DEF CaptureUnbuffered, MayCapture
<1>4. ASSUME NEW sent \in BOOLEAN, ClearQueue(sent)
      PROVE  AudioInv'
  BY <1>4, LongestFrameFacts DEF ClearQueue, AudioInv, AudioTypeOK, EstimateInv, RawEstimate
<1>5. ASSUME NEW accepted \in BOOLEAN, NEW i \in DOMAIN native_frames, CaptureCallback(i, accepted)
      PROVE  AudioInv'
  <2>1. i \in 1 .. Len(native_frames)
    BY LenProperties DEF AudioInv, AudioTypeOK
  <2>2. RemoveAt(native_frames, i) \in Seq(NativeFrame)
    BY <2>1, RemoveAtFacts DEF AudioInv, AudioTypeOK
  <2>3. native_frames[i].duration \in Nat
    <3>1. native_frames[i] \in NativeFrame
      BY <2>1, ElementOfSeq DEF AudioInv, AudioTypeOK
    <3> QED
      BY <3>1 DEF NativeFrame
  <2>4. /\ native_frames' = RemoveAt(native_frames, i)
        /\ native_queued' = IF accepted THEN native_queued ELSE AtLeastZero(native_queued - native_frames[i].duration)
        /\ rejected' = IF accepted THEN rejected ELSE rejected + native_frames[i].duration
        /\ UNCHANGED <<sourceVars, trackingVars, now_seconds, captures>>
    BY <1>5 DEF CaptureCallback
  <2>5. AudioTypeOK'
    BY <2>2, <2>3, <2>4 DEF AudioInv, AudioTypeOK, AtLeastZero
  <2>6. native_queued' <= native_queued /\ native_queued' + rejected' >= native_queued + rejected
    BY <2>3, <2>4 DEF AudioInv, AudioTypeOK, AtLeastZero
  <2>7. RawEstimate' = RawEstimate /\ RawEstimate \in Int
    BY <2>4 DEF RawEstimate, AudioInv, AudioTypeOK
  <2>8. EstimateInv'
    BY <2>4, <2>5, <2>6, <2>7, LongestFrameFacts DEF AudioInv, AudioTypeOK, EstimateInv
  <2> QED
    BY <2>5, <2>8 DEF AudioInv
<1>6. CASE CaptureTimesOut
  BY <1>6 DEF CaptureTimesOut, AudioInv, AudioTypeOK, EstimateInv, RawEstimate
<1>7. CASE AudioTick
  <2>1. /\ now_seconds' = now_seconds + 1 /\ native_queued' = AtLeastZero(native_queued - 1)
        /\ UNCHANGED <<sourceVars, trackingVars, native_frames, captures, rejected>>
    BY <1>7 DEF AudioTick
  <2>2. AudioTypeOK'
    BY <2>1 DEF AudioInv, AudioTypeOK, AtLeastZero
  <2>3. RawEstimate \in Int /\ RawEstimate' = IF last_capture = 0 THEN RawEstimate ELSE RawEstimate - 1
    BY <2>1 DEF RawEstimate, AudioInv, AudioTypeOK
  <2>4. last_capture = 0 => RawEstimate = 0
    BY DEF RawEstimate, AudioInv, EstimateInv
  <2>5. native_queued \in Nat /\ rejected \in Nat /\ native_queued' = IF native_queued > 0 THEN native_queued - 1 ELSE 0
    BY <2>1 DEF AudioInv, AudioTypeOK, AtLeastZero
  <2>6. queue_size_ms > 0 => RawEstimate' <= native_queued' + rejected
    BY <2>3, <2>4, <2>5 DEF AudioInv, EstimateInv
  <2>7. native_queued' > 0 => RawEstimate' >= native_queued' - LongestFrame
    BY <2>3, <2>5, LongestFrameFacts DEF AudioInv, EstimateInv
  <2>8. EstimateInv'
    BY <2>1, <2>5, <2>6, <2>7 DEF AudioInv, EstimateInv
  <2> QED
    BY <2>2, <2>8 DEF AudioInv
<1> QED
  BY <1>0, <1>1, <1>2, <1>3, <1>4, <1>5, <1>6, <1>7 DEF AudioNext

\* Of a source with a queue, queuedDuration() never says more than Rust has queued and refused, and less by one frame at
\* most.
THEOREM EstimateClose == AudioSpec => []QueuedDurationClose
<1>1. AudioInv => QueuedDurationClose
  BY LongestFrameFacts DEF AudioInv, AudioTypeOK, EstimateInv, RawEstimate, QueuedDurationClose, QueuedDuration,
     AtLeastZero
<1> QED
  BY <1>1, AudioInitInv, AudioStep, PTL DEF AudioSpec

-----------------------------------------------------------------------------
(* RemoteSettings *)

RustSettings ==
  [wanted : BOOLEAN, enabled : BOOLEAN, preference : {"DEFAULT", "QUALITY", "DIMENSIONS"}, quality : Qualities,
   dimensions : Nat \X Nat, e2ee : BOOLEAN]

SettingsTypeOK ==
  /\ rust_settings \in RustSettings
  /\ subscription_events \in Seq(BOOLEAN) /\ rust_subscribed_now \in BOOLEAN /\ intent \in BOOLEAN
  /\ setter.field \in {"none", "subscribed", "enabled", "quality", "dimensions", "e2ee"}
  /\ setter.field = "none" => setter = NoSetter

\* A setting agrees with Rust, except for the one whose request has been sent: its value is the one
\* that is about to be assigned.
CopyInv ==
  /\ IF setter.field = "enabled" THEN setter.value = rust_settings.enabled ELSE enabled_ = rust_settings.enabled
  /\ IF setter.field = "e2ee" THEN setter.value = rust_settings.e2ee ELSE e2ee_enabled = rust_settings.e2ee
  /\ setter.field = "quality" => rust_settings.preference = "QUALITY" /\ rust_settings.quality = setter.value
  /\ setter.field = "dimensions" => rust_settings.preference = "DIMENSIONS" /\ rust_settings.dimensions = setter.value
  /\ setter.field \notin {"quality", "dimensions"} =>
       /\ video_preference = rust_settings.preference
       /\ video_preference = "QUALITY" => video_quality = rust_settings.quality
       /\ video_preference = "DIMENSIONS" => requested = rust_settings.dimensions /\ video_quality = "HIGH"

\* The last event says what Rust's subscription is now.  When all have been handled, subscribed()
\* comes from the last event or from the last call of setSubscribed().
SubscriptionInv ==
  /\ rust_settings.wanted = intent
  /\ setter.field = "subscribed" => setter.value = intent
  /\ subscription_events # <<>> => subscription_events[Len(subscription_events)] = rust_subscribed_now
  /\ subscription_events = <<>> => track_ = rust_subscribed_now
  /\ subscription_events = <<>> /\ setter.field # "subscribed" => subscribed_ \in {rust_subscribed_now, intent}

SettingsInv == SettingsTypeOK /\ CopyInv /\ SubscriptionInv

\* The publication and the manager as they are created.
LEMMA SettingsInitInv == SettingsInit => SettingsInv
<1> SUFFICES ASSUME SettingsInit PROVE SettingsInv
  OBVIOUS
<1>1. /\ rust_settings = [wanted |-> intent, enabled |-> TRUE, preference |-> "DEFAULT", quality |-> "HIGH",
                          dimensions |-> <<0, 0>>, e2ee |-> TRUE]
      /\ setter = [field |-> "none"] /\ intent \in BOOLEAN
  BY DEF SettingsInit, NoSetter
<1>2. rust_settings \in RustSettings /\ setter.field = "none"
  BY <1>1, RemoteSettingsAssumption DEF RustSettings
<1>3. <<>> \in Seq(BOOLEAN)
  BY EmptySeq
<1>4. SettingsTypeOK
  BY <1>2, <1>3 DEF SettingsInit, SettingsTypeOK
<1>5. /\ rust_settings.wanted = intent /\ rust_settings.enabled = TRUE /\ rust_settings.e2ee = TRUE
      /\ rust_settings.preference = "DEFAULT"
  BY <1>1
<1>6. enabled_ = TRUE /\ e2ee_enabled = TRUE /\ video_preference = "DEFAULT"
  BY DEF SettingsInit
<1>7. CopyInv
  BY <1>2, <1>5, <1>6 DEF CopyInv
<1>8. SubscriptionInv
  BY <1>2, <1>5 DEF SettingsInit, SubscriptionInv
<1> QED
  BY <1>4, <1>7, <1>8 DEF SettingsInv

\* The requests, in one statement: Rust has applied one, and nothing has been assigned yet.
LEMMA SendFacts ==
  ASSUME SettingsInv, NEW field \in {"subscribed", "enabled", "quality", "dimensions", "e2ee"}, NEW value,
         NEW settings \in RustSettings, Send(field, value, settings), intent' \in BOOLEAN
  PROVE  /\ setter.field = "none" /\ setter'.field = field /\ setter'.value = value /\ rust_settings' = settings
         /\ UNCHANGED <<subscribed_, track_, copyVars, rust_subscribed_now, subscription_events>>
         /\ SettingsTypeOK'
<1>1. setter = NoSetter /\ setter' = [field |-> field, value |-> value] /\ rust_settings' = settings
  BY DEF Send
<1>2. setter.field = "none" /\ setter'.field = field /\ setter'.value = value
  BY <1>1 DEF NoSetter
<1>3. UNCHANGED <<subscribed_, track_, copyVars, rust_subscribed_now, subscription_events>>
  BY DEF Send, rustSubVars
<1> QED
  BY <1>1, <1>2, <1>3 DEF SettingsInv, SettingsTypeOK

\* Every request, assignment, change in Rust and event keeps the invariant.
LEMMA SettingsStep == SettingsInv /\ [SettingsNext]_settingsVars => SettingsInv'
<1> SUFFICES ASSUME SettingsInv, [SettingsNext]_settingsVars PROVE SettingsInv'
  OBVIOUS
<1> USE DEF pubVars, copyVars, rustSubVars
<1>0. CASE UNCHANGED settingsVars
  BY <1>0 DEF settingsVars, SettingsInv, SettingsTypeOK, CopyInv, SubscriptionInv
<1>1. ASSUME NEW b \in BOOLEAN, SetSubscribed(b)
      PROVE  SettingsInv'
  <2> DEFINE new == [rust_settings EXCEPT !.wanted = b]
  <2>1. new \in RustSettings /\ new.wanted = b
    BY <1>1, RemoteSettingsAssumption DEF SetSubscribed, SettingsInv, SettingsTypeOK, RustSettings
  <2>2. \A f \in {"enabled", "preference", "quality", "dimensions", "e2ee"} : new[f] = rust_settings[f]
    BY DEF SettingsInv, SettingsTypeOK, RustSettings
  <2>3. Send("subscribed", b, new) /\ intent' = b /\ b \in BOOLEAN
    BY <1>1 DEF SetSubscribed, SettingsInv, SettingsTypeOK
  <2> HIDE DEF new
  <2>4. /\ setter.field = "none" /\ setter'.field = "subscribed" /\ setter'.value = b /\ rust_settings' = new
        /\ UNCHANGED <<subscribed_, track_, copyVars, rust_subscribed_now, subscription_events>>
        /\ SettingsTypeOK'
    BY <2>1, <2>3, SendFacts
  <2>5. CopyInv' /\ SubscriptionInv'
    BY <2>1, <2>2, <2>3, <2>4 DEF SettingsInv, CopyInv, SubscriptionInv
  <2> QED
    BY <2>4, <2>5 DEF SettingsInv
<1>2. ASSUME NEW b \in BOOLEAN, SetEnabled(b)
      PROVE  SettingsInv'
  <2> DEFINE new == [rust_settings EXCEPT !.enabled = b]
  <2>1. new \in RustSettings /\ new.enabled = b
    BY <1>2, RemoteSettingsAssumption DEF SetEnabled, SettingsInv, SettingsTypeOK, RustSettings
  <2>2. \A f \in {"wanted", "preference", "quality", "dimensions", "e2ee"} : new[f] = rust_settings[f]
    BY DEF SettingsInv, SettingsTypeOK, RustSettings
  <2>3. Send("enabled", b, new) /\ intent' = intent /\ intent \in BOOLEAN
    BY <1>2 DEF SetEnabled, SettingsInv, SettingsTypeOK
  <2> HIDE DEF new
  <2>4. /\ setter.field = "none" /\ setter'.field = "enabled" /\ setter'.value = b /\ rust_settings' = new
        /\ UNCHANGED <<subscribed_, track_, copyVars, rust_subscribed_now, subscription_events>>
        /\ SettingsTypeOK'
    BY <2>1, <2>3, SendFacts
  <2>5. CopyInv' /\ SubscriptionInv'
    BY <2>1, <2>2, <2>3, <2>4 DEF SettingsInv, CopyInv, SubscriptionInv
  <2> QED
    BY <2>4, <2>5 DEF SettingsInv
<1>3. ASSUME NEW b \in BOOLEAN, E2eeSetEnabled(b)
      PROVE  SettingsInv'
  <2> DEFINE new == [rust_settings EXCEPT !.e2ee = b]
  <2>1. new \in RustSettings /\ new.e2ee = b
    BY <1>3, RemoteSettingsAssumption DEF E2eeSetEnabled, SettingsInv, SettingsTypeOK, RustSettings
  <2>2. \A f \in {"wanted", "enabled", "preference", "quality", "dimensions"} : new[f] = rust_settings[f]
    BY DEF SettingsInv, SettingsTypeOK, RustSettings
  <2>3. Send("e2ee", b, new) /\ intent' = intent /\ intent \in BOOLEAN
    BY <1>3 DEF E2eeSetEnabled, SettingsInv, SettingsTypeOK
  <2> HIDE DEF new
  <2>4. /\ setter.field = "none" /\ setter'.field = "e2ee" /\ setter'.value = b /\ rust_settings' = new
        /\ UNCHANGED <<subscribed_, track_, copyVars, rust_subscribed_now, subscription_events>>
        /\ SettingsTypeOK'
    BY <2>1, <2>3, SendFacts
  <2>5. CopyInv' /\ SubscriptionInv'
    BY <2>1, <2>2, <2>3, <2>4 DEF SettingsInv, CopyInv, SubscriptionInv
  <2> QED
    BY <2>4, <2>5 DEF SettingsInv
<1>4. ASSUME NEW q \in Qualities \cup {InvalidQuality}, SetVideoQuality(q)
      PROVE  SettingsInv'
  <2> DEFINE new == [rust_settings EXCEPT !.preference = "QUALITY", !.quality = q]
  <2>1. new \in RustSettings /\ new.preference = "QUALITY" /\ new.quality = q
    BY <1>4, RemoteSettingsAssumption DEF SetVideoQuality, SettingsInv, SettingsTypeOK, RustSettings
  <2>2. \A f \in {"wanted", "enabled", "dimensions", "e2ee"} : new[f] = rust_settings[f]
    BY DEF SettingsInv, SettingsTypeOK, RustSettings
  <2>3. Send("quality", q, new) /\ intent' = intent /\ intent \in BOOLEAN
    BY <1>4 DEF SetVideoQuality, SettingsInv, SettingsTypeOK
  <2> HIDE DEF new
  <2>4. /\ setter.field = "none" /\ setter'.field = "quality" /\ setter'.value = q /\ rust_settings' = new
        /\ UNCHANGED <<subscribed_, track_, copyVars, rust_subscribed_now, subscription_events>>
        /\ SettingsTypeOK'
    BY <2>1, <2>3, SendFacts
  <2>5. CopyInv' /\ SubscriptionInv'
    BY <2>1, <2>2, <2>3, <2>4 DEF SettingsInv, CopyInv, SubscriptionInv
  <2> QED
    BY <2>4, <2>5 DEF SettingsInv
<1>5. ASSUME NEW d \in Dimensions, SetVideoDimensions(d)
      PROVE  SettingsInv'
  <2> DEFINE new == [rust_settings EXCEPT !.preference = "DIMENSIONS", !.dimensions = d]
  <2>1. new \in RustSettings /\ new.preference = "DIMENSIONS" /\ new.dimensions = d
    BY <1>5, RemoteSettingsAssumption DEF SetVideoDimensions, SettingsInv, SettingsTypeOK, RustSettings
  <2>2. \A f \in {"wanted", "enabled", "quality", "e2ee"} : new[f] = rust_settings[f]
    BY DEF SettingsInv, SettingsTypeOK, RustSettings
  <2>3. Send("dimensions", d, new) /\ intent' = intent /\ intent \in BOOLEAN
    BY <1>5 DEF SetVideoDimensions, SettingsInv, SettingsTypeOK
  <2> HIDE DEF new
  <2>4. /\ setter.field = "none" /\ setter'.field = "dimensions" /\ setter'.value = d /\ rust_settings' = new
        /\ UNCHANGED <<subscribed_, track_, copyVars, rust_subscribed_now, subscription_events>>
        /\ SettingsTypeOK'
    BY <2>1, <2>3, SendFacts
  <2>5. CopyInv' /\ SubscriptionInv'
    BY <2>1, <2>2, <2>3, <2>4 DEF SettingsInv, CopyInv, SubscriptionInv
  <2> QED
    BY <2>4, <2>5 DEF SettingsInv
<1>6. ASSUME NEW field \in {"subscribed", "enabled", "quality", "dimensions", "e2ee"}, Assign(field), AssignRest
      PROVE  /\ setter.field = field /\ setter'.field = "none" /\ SettingsTypeOK'
             /\ UNCHANGED <<track_, rust_settings, rust_subscribed_now, subscription_events, intent>>
  <2>1. setter' = NoSetter /\ setter.field = field
    BY <1>6 DEF Assign
  <2>2. setter'.field = "none"
    BY <2>1 DEF NoSetter
  <2> QED
    BY <1>6, <2>1, <2>2 DEF AssignRest, SettingsInv, SettingsTypeOK
<1>7. CASE AssignSubscribed
  BY <1>6, <1>7 DEF AssignSubscribed, SettingsInv, CopyInv, SubscriptionInv
<1>8. CASE AssignEnabled
  BY <1>6, <1>8 DEF AssignEnabled, SettingsInv, CopyInv, SubscriptionInv
<1>9. CASE AssignQuality
  BY <1>6, <1>9 DEF AssignQuality, SettingsInv, CopyInv, SubscriptionInv
<1>10. CASE AssignDimensions
  BY <1>6, <1>10 DEF AssignDimensions, SettingsInv, CopyInv, SubscriptionInv
<1>11. CASE AssignE2ee
  BY <1>6, <1>11 DEF AssignE2ee, SettingsInv, CopyInv, SubscriptionInv
<1>12. CASE RustChanges
  <2>1. /\ subscription_events' \in Seq(BOOLEAN) /\ subscription_events' # <<>>
        /\ subscription_events'[Len(subscription_events')] = rust_subscribed_now'
        /\ rust_subscribed_now' \in BOOLEAN
    BY <1>12, AppendProperties DEF RustChanges, SettingsInv, SettingsTypeOK
  <2> QED
    BY <1>12, <2>1 DEF RustChanges, SettingsInv, SettingsTypeOK, CopyInv, SubscriptionInv
<1>13. CASE OnSubscriptionEvent
  <2>1. subscription_events \in Seq(BOOLEAN) /\ subscription_events # <<>> /\ Len(subscription_events) \in Nat \ {0}
    BY <1>13, EmptySeq DEF OnSubscriptionEvent, SettingsInv, SettingsTypeOK
  <2>2. /\ subscription_events' = Tail(subscription_events) /\ Tail(subscription_events) \in Seq(BOOLEAN)
        /\ Len(Tail(subscription_events)) = Len(subscription_events) - 1
        /\ \A i \in 1 .. Len(Tail(subscription_events)) : Tail(subscription_events)[i] = subscription_events[i + 1]
        /\ Head(subscription_events) = subscription_events[1]
    BY <1>13, <2>1, HeadTailProperties DEF OnSubscriptionEvent
  <2>3. /\ track_' = Head(subscription_events) /\ subscribed_' = Head(subscription_events)
        /\ UNCHANGED <<pubVars, copyVars, setter, rust_settings, rustSubVars, requests, intent>>
    BY <1>13 DEF OnSubscriptionEvent, UpdateSubscriptionState
  <2>4. CASE Len(subscription_events) = 1
    <3>1. Head(subscription_events) = rust_subscribed_now
      BY <2>1, <2>2, <2>4 DEF SettingsInv, SubscriptionInv
    <3>2. subscription_events' = <<>>
      BY <2>1, <2>2, <2>4, EmptySeq
    <3> QED
      BY <2>2, <2>3, <3>1, <3>2 DEF SettingsInv, SettingsTypeOK, CopyInv, SubscriptionInv
  <2>5. CASE Len(subscription_events) # 1
    <3>1. subscription_events' # <<>>
      <4>1. Len(subscription_events') # 0
        BY <2>1, <2>2, <2>5
      <4> QED
        BY <4>1, EmptySeq
    <3> DEFINE n == Len(Tail(subscription_events))
    <3>2. subscription_events'[Len(subscription_events')] = subscription_events[Len(subscription_events)]
      <4>1. n \in 1 .. n /\ n + 1 = Len(subscription_events)
        BY <2>1, <2>2, <2>5
      <4>2. Tail(subscription_events)[n] = subscription_events[n + 1]
        BY <2>2, <4>1
      <4> QED
        BY <2>2, <4>1, <4>2
    <3> QED
      BY <2>1, <2>2, <2>3, <3>1, <3>2 DEF SettingsInv, SettingsTypeOK, CopyInv, SubscriptionInv
  <2> QED
    BY <2>4, <2>5
<1> QED
  BY <1>0, <1>1, <1>2, <1>3, <1>4, <1>5, <1>7, <1>8, <1>9, <1>10, <1>11, <1>12, <1>13 DEF SettingsNext

\* The copies of the settings agree with Rust between two calls, Rust wants what the application asked
\* for last, and subscribed() and track() settle on what Rust does.
THEOREM SettingsSettle == SettingsSpec => []SettingsAgree
<1>1. SettingsInv => SettingsAgree
  <2> SUFFICES ASSUME SettingsInv PROVE SettingsAgree
    OBVIOUS
  <2>1. setter = NoSetter => setter.field = "none"
    BY DEF NoSetter
  <2>2. SettingsMirrorRust
    BY <2>1 DEF SettingsInv, CopyInv, SettingsMirrorRust
  <2>3. SubscriptionSettles
    BY <2>1 DEF SettingsInv, SubscriptionInv, SubscriptionSettles
  <2> QED
    BY <2>2, <2>3 DEF SettingsAgree
<1> QED
  BY <1>1, SettingsInitInv, SettingsStep, PTL DEF SettingsSpec

-----------------------------------------------------------------------------
(* FreshAudioStream *)

NativeFrames == [sequence : Nat, decoded : Int]
Counters == [received : Nat, dropped : Nat, stale : Nat, queued : Nat]
NativeCounters == [received : Nat, dropped : Nat, stale : Nat, queued : Nat, taken : Nat]
ReadCalls ==
  [maximum_age : Nat, read_started : Nat, now : Nat, age : Int, stats : Counters,
   frame : [sequence : Nat, decoded : Int, discontinuity : BOOLEAN]]

FreshTypeOK ==
  /\ steady_clock \in Nat
  /\ native_queue \in Seq(NativeFrames) /\ consumed_sequence \in Nat
  /\ busy \in {"nobody", "push", "take"}
  /\ native_stats \in NativeCounters
  /\ pushing \in [at : {"no", "try", "evict", "append"}, sequence : Nat, decoded : Int]
  /\ fresh_at \in {"idle", "native", "try", "take", "received", "dropped", "queued", "return", "bridge"}
  /\ fresh_call \in ReadCalls
  /\ fresh_stats \in Counters
  /\ bridge_stale \in Nat /\ delivered_sequence \in Nat
  /\ quiet \in BOOLEAN

\* The two threads exclude each other from the queue.
BusyInv ==
  /\ busy = "push" <=> pushing.at \in {"evict", "append"}
  /\ busy = "take" <=> fresh_at = "take"

\* The frames of a queue are in order, after `low' and up to `high'.
Ordered(q, low, high) ==
  /\ \A i \in 1 .. Len(q) : low < q[i].sequence
  /\ \A i \in 1 .. Len(q) : q[i].sequence <= high
  /\ \A i, j \in 1 .. Len(q) : i < j => q[i].sequence < q[j].sequence

\* What waits is younger than what take() returned, and older than what is being pushed.
OrderInv ==
  /\ pushing.at # "no" => pushing.sequence = native_stats.received
  /\ consumed_sequence <= native_stats.received - (IF pushing.at = "no" THEN 0 ELSE 1)
  /\ Ordered(native_queue, consumed_sequence, native_stats.received - (IF pushing.at = "no" THEN 0 ELSE 1))

\* The frame of a call is the last one that take() returned, and its age is not less than when the call began.
CallInv ==
  /\ fresh_at # "idle" => fresh_call.read_started <= steady_clock
  /\ delivered_sequence <= consumed_sequence
  /\ fresh_at \in {"idle", "native", "try", "take"} => fresh_call.frame = NoFrame
  /\ fresh_call.frame # NoFrame =>
       fresh_call.frame.sequence = consumed_sequence /\ consumed_sequence > delivered_sequence
  /\ fresh_at = "bridge" =>
       fresh_call.frame # NoFrame /\ fresh_call.age + fresh_call.frame.decoded >= fresh_call.read_started

\* The counters account for the frames at every moment, except for the one that is being pushed; what stats()
\* has loaded is what they are as long as nothing is pushed.
CountersInv ==
  /\ native_stats.received = native_stats.dropped + native_stats.stale + native_stats.taken + Len(native_queue)
                             + (IF pushing.at = "no" THEN 0 ELSE 1)
  /\ pushing.at # "append" => native_stats.queued = Len(native_queue)

LoadedInv ==
  quiet =>
    /\ pushing.at = "no"
    /\ fresh_at \in {"dropped", "queued", "return"} => fresh_call.stats.received = native_stats.received
    /\ fresh_at \in {"queued", "return"} =>
         fresh_call.stats.dropped = native_stats.dropped /\ fresh_call.stats.stale = native_stats.stale
    /\ fresh_at = "return" => fresh_call.stats.queued = native_stats.queued
    /\ fresh_at \in {"idle", "bridge"} =>
         fresh_stats.received = fresh_stats.dropped + fresh_stats.stale + fresh_stats.queued
                                + (native_stats.taken - bridge_stale)

FreshInv ==
  FreshTypeOK /\ BusyInv /\ OrderInv /\ CallInv /\ CountersInv /\ LoadedInv /\ DeliveredFreshInOrder

LEMMA NoFrameType == NoFrame \in [sequence : Nat, decoded : Int, discontinuity : BOOLEAN] /\ NoCounters \in Counters
  BY DEF NoFrame, NoCounters, Counters

\* What counting does to the counters.
LEMMA CountReceived ==
  ASSUME NEW n \in NativeCounters, NEW x \in Nat, NEW m, m = [n EXCEPT !.received = x]
  PROVE  /\ m \in NativeCounters /\ m.received = x /\ m.dropped = n.dropped
         /\ m.stale = n.stale /\ m.queued = n.queued /\ m.taken = n.taken
  BY DEF NativeCounters

LEMMA CountDropped ==
  ASSUME NEW n \in NativeCounters, NEW x \in Nat, NEW m, m = [n EXCEPT !.dropped = x]
  PROVE  /\ m \in NativeCounters /\ m.received = n.received /\ m.dropped = x
         /\ m.stale = n.stale /\ m.queued = n.queued /\ m.taken = n.taken
  BY DEF NativeCounters

LEMMA CountQueued ==
  ASSUME NEW n \in NativeCounters, NEW x \in Nat, NEW m, m = [n EXCEPT !.queued = x]
  PROVE  /\ m \in NativeCounters /\ m.received = n.received /\ m.dropped = n.dropped
         /\ m.stale = n.stale /\ m.queued = x /\ m.taken = n.taken
  BY DEF NativeCounters

LEMMA NoCallType == NoCall \in ReadCalls
  BY DEF NoCall, NoFrame, NoCounters, Counters, ReadCalls

\* What tryRead() and stats() store in a call.
LEMMA CallUpdates ==
  ASSUME NEW c \in ReadCalls, NEW x \in Nat, NEW y \in Nat
  PROVE  /\ [c EXCEPT !.stats.received = x] \in ReadCalls
         /\ [c EXCEPT !.stats.dropped = x, !.stats.stale = y] \in ReadCalls
         /\ [c EXCEPT !.stats.queued = x] \in ReadCalls
         /\ [c EXCEPT !.maximum_age = x, !.read_started = y] \in ReadCalls
<1>1. /\ [c EXCEPT !.stats.received = x] \in ReadCalls
      /\ [c EXCEPT !.stats.queued = x] \in ReadCalls
  BY DEF ReadCalls, Counters
<1>2. [c EXCEPT !.stats.dropped = x, !.stats.stale = y] \in ReadCalls
  BY DEF ReadCalls, Counters
<1>3. [c EXCEPT !.maximum_age = x, !.read_started = y] \in ReadCalls
  BY DEF ReadCalls
<1> QED
  BY <1>1, <1>2, <1>3

LEMMA AgeStored ==
  ASSUME NEW c \in ReadCalls, NEW x \in Int
  PROVE  [c EXCEPT !.age = x] \in ReadCalls
  BY DEF ReadCalls

\* One more stale frame in the statistics.
LEMMA StaleAdded ==
  ASSUME NEW n \in Counters, NEW x \in Nat, NEW m, m = [n EXCEPT !.stale = x]
  PROVE  m \in Counters /\ m.received = n.received /\ m.dropped = n.dropped /\ m.stale = x /\ m.queued = n.queued
  BY DEF Counters

\* A queue without its oldest frame.
LEMMA TailFacts ==
  ASSUME NEW q \in Seq(NativeFrames), q # <<>>
  PROVE  /\ Tail(q) \in Seq(NativeFrames) /\ Len(q) \in Nat /\ Len(q) > 0 /\ Len(Tail(q)) = Len(q) - 1
         /\ Head(q) = q[1] /\ q[1] \in NativeFrames
         /\ \A i \in 1 .. Len(q) - 1 : Tail(q)[i] = q[i + 1]
  BY HeadTailProperties, EmptySeq, LenProperties, ElementOfSeq

LEMMA OrderedTail ==
  ASSUME NEW q \in Seq(NativeFrames), q # <<>>, NEW low \in Nat, NEW high \in Int, Ordered(q, low, high)
  PROVE  /\ Ordered(Tail(q), low, high) /\ Ordered(Tail(q), Head(q).sequence, high)
         /\ Head(q).sequence \in Nat /\ Head(q).decoded \in Int /\ low < Head(q).sequence /\ Head(q).sequence <= high
<1> DEFINE r == Tail(q)
<1>1. /\ Len(q) \in Nat /\ Len(q) > 0 /\ Len(r) = Len(q) - 1 /\ Head(q) = q[1] /\ q[1] \in NativeFrames
      /\ \A i \in 1 .. Len(q) - 1 : r[i] = q[i + 1]
  BY TailFacts
<1> HIDE DEF r
<1>2. \A i \in 1 .. Len(r) : i \in 1 .. Len(q) /\ i + 1 \in 1 .. Len(q) /\ r[i] = q[i + 1] /\ 1 < i + 1
  BY <1>1
<1>3. 1 \in 1 .. Len(q)
  BY <1>1
<1>4. \A i \in 1 .. Len(r) : low < r[i].sequence
  BY <1>2 DEF Ordered
<1>5. \A i \in 1 .. Len(r) : r[i].sequence <= high
  BY <1>2 DEF Ordered
<1>6. \A i \in 1 .. Len(r) : q[1].sequence < r[i].sequence
  BY <1>2, <1>3 DEF Ordered
<1>7. \A i, j \in 1 .. Len(r) : i < j => r[i].sequence < r[j].sequence
  <2> SUFFICES ASSUME NEW i \in 1 .. Len(r), NEW j \in 1 .. Len(r), i < j PROVE r[i].sequence < r[j].sequence
    OBVIOUS
  <2>1. i + 1 \in 1 .. Len(q) /\ j + 1 \in 1 .. Len(q) /\ i + 1 < j + 1
    BY <1>2
  <2> QED
    BY <1>2, <2>1 DEF Ordered
<1>8. q[1].sequence \in Nat /\ q[1].decoded \in Int /\ low < q[1].sequence /\ q[1].sequence <= high
  BY <1>1, <1>3 DEF Ordered, NativeFrames
<1> QED
  BY <1>1, <1>4, <1>5, <1>6, <1>7, <1>8 DEF Ordered, r

LEMMA OrderedLonger ==
  ASSUME NEW q \in Seq(NativeFrames), NEW low \in Nat, NEW high \in Nat, Ordered(q, low, high - 1)
  PROVE  Ordered(q, low, high)
<1>1. \A i \in 1 .. Len(q) : q[i] \in NativeFrames
  BY ElementOfSeq
<1>2. \A i \in 1 .. Len(q) : q[i].sequence \in Nat
  BY <1>1 DEF NativeFrames
<1>3. \A i \in 1 .. Len(q) : q[i].sequence <= high
  BY <1>2 DEF Ordered
<1> QED
  BY <1>3 DEF Ordered

LEMMA OrderedAppend ==
  ASSUME NEW q \in Seq(NativeFrames), NEW low \in Nat, NEW high \in Nat, Ordered(q, low, high - 1),
         NEW f \in NativeFrames, f.sequence = high, low < high
  PROVE  Append(q, f) \in Seq(NativeFrames) /\ Len(Append(q, f)) = Len(q) + 1 /\ Len(q) \in Nat
         /\ Ordered(Append(q, f), low, high)
<1> DEFINE r == Append(q, f)
<1>1. /\ r \in Seq(NativeFrames) /\ Len(q) \in Nat /\ Len(r) = Len(q) + 1
      /\ \A i \in 1 .. Len(q) : r[i] = q[i]
      /\ r[Len(q) + 1] = f
  BY AppendProperties, LenProperties
<1>2. \A i \in 1 .. Len(q) : q[i].sequence \in Nat
  <2>1. \A i \in 1 .. Len(q) : q[i] \in NativeFrames
    BY ElementOfSeq
  <2> QED
    BY <2>1 DEF NativeFrames
<1> HIDE DEF r
<1>3. \A i \in 1 .. Len(r) : (i \in 1 .. Len(q) /\ r[i] = q[i]) \/ (i = Len(q) + 1 /\ r[i] = f)
  BY <1>1
<1>4. \A i \in 1 .. Len(r) : low < r[i].sequence
  BY <1>3 DEF Ordered
<1>5. \A i \in 1 .. Len(r) : r[i].sequence <= high
  BY <1>2, <1>3 DEF Ordered
<1>6. \A i, j \in 1 .. Len(r) : i < j => r[i].sequence < r[j].sequence
  <2> SUFFICES ASSUME NEW i \in 1 .. Len(r), NEW j \in 1 .. Len(r), i < j PROVE r[i].sequence < r[j].sequence
    OBVIOUS
  <2>1. i \in 1 .. Len(q)
    BY <1>1, <1>3
  <2>2. CASE j \in 1 .. Len(q) /\ r[j] = q[j]
    BY <1>1, <2>1, <2>2 DEF Ordered
  <2>3. CASE j = Len(q) + 1 /\ r[j] = f
    BY <1>1, <1>2, <2>1, <2>3 DEF Ordered
  <2> QED
    BY <1>3, <2>2, <2>3
<1> QED
  BY <1>1, <1>4, <1>5, <1>6 DEF Ordered, r

LEMMA FreshInitInv == FreshInit => FreshInv
<1> SUFFICES ASSUME FreshInit PROVE FreshInv
  OBVIOUS
<1>1. native_queue \in Seq(NativeFrames) /\ Len(native_queue) = 0
  BY DEF FreshInit
<1>2. FreshTypeOK
  BY <1>1, NoFrameType, NoCallType DEF FreshInit, FreshTypeOK, NotPushing, NativeCounters
<1>3. BusyInv /\ CallInv /\ DeliveredFreshInOrder
  BY DEF FreshInit, BusyInv, CallInv, DeliveredFreshInOrder, NoFrame, NotPushing, NoCall
<1>4. CountersInv /\ LoadedInv
  BY <1>1 DEF FreshInit, CountersInv, LoadedInv, NoCounters, NotPushing
<1>5. OrderInv
  BY <1>1 DEF FreshInit, OrderInv, Ordered, NotPushing
<1> QED
  BY <1>2, <1>3, <1>4, <1>5 DEF FreshInv

LEMMA FreshTickKeeps ==
  ASSUME FreshInv, FreshTick
  PROVE  FreshInv'
<1> USE DEF FreshTick, nativeVars, bridgeVars, NotPushing, NoCall, OwnerGoto
<1>0. FreshTypeOK
  BY DEF FreshInv
<1>1. FreshTypeOK'
  BY <1>0, NoFrameType, FreshAudioAssumption DEF FreshTypeOK, Counters
<1>2. BusyInv'
  BY <1>0 DEF FreshInv, FreshTypeOK, BusyInv
<1>3. OrderInv'
  BY <1>0 DEF FreshInv, FreshTypeOK, OrderInv, BusyInv
<1>4. CallInv'
  BY <1>0 DEF FreshInv, FreshTypeOK, CallInv, ReadCalls, NoFrame
<1>5. CountersInv'
  BY <1>0 DEF FreshInv, FreshTypeOK, CountersInv, BusyInv
<1>6. LoadedInv'
  BY <1>0 DEF FreshInv, FreshTypeOK, LoadedInv, Counters, CountersInv, BusyInv
<1>7. DeliveredFreshInOrder'
  BY <1>0 DEF FreshInv, DeliveredFreshInOrder
<1> QED
  BY <1>1, <1>2, <1>3, <1>4, <1>5, <1>6, <1>7 DEF FreshInv

LEMMA PushReceivedKeeps ==
  ASSUME FreshInv, NEW decoded \in 0 .. steady_clock, PushReceived(decoded)
  PROVE  FreshInv'
<1> USE DEF PushReceived, nativeVars, bridgeVars, NotPushing, NoCall, OwnerGoto
<1>0. FreshTypeOK
  BY DEF FreshInv
<1>n. Len(native_queue) \in Nat
  BY <1>0, LenProperties DEF FreshTypeOK
<1>c. /\ native_stats.received \in Nat /\ native_stats.dropped \in Nat /\ native_stats.stale \in Nat
      /\ native_stats.queued \in Nat /\ native_stats.taken \in Nat
  BY <1>0 DEF FreshTypeOK, NativeCounters
<1>s. /\ native_stats' \in NativeCounters
      /\ native_stats'.received = native_stats.received + 1
      /\ native_stats'.dropped = native_stats.dropped
      /\ native_stats'.stale = native_stats.stale
      /\ native_stats'.queued = native_stats.queued
      /\ native_stats'.taken = native_stats.taken
  <2>1. native_stats \in NativeCounters /\ native_stats.received + 1 \in Nat
    BY <1>0, <1>c DEF FreshTypeOK
  <2>2. native_stats' = [native_stats EXCEPT !.received = native_stats.received + 1]
    OBVIOUS
  <2> QED
    BY <2>1, <2>2, CountReceived
<1>1. FreshTypeOK'
  <2>1. pushing' \in [at : {"no", "try", "evict", "append"}, sequence : Nat, decoded : Int]
    BY <1>0, <1>c DEF FreshTypeOK
  <2> QED
    BY <1>0, <1>s, <2>1 DEF FreshTypeOK
<1>2. BusyInv'
  BY <1>0 DEF FreshInv, FreshTypeOK, BusyInv
<1>3. OrderInv'
  <2>1. pushing.at = "no" /\ pushing'.at = "try" /\ pushing'.sequence = native_stats.received + 1
    OBVIOUS
  <2>2. native_stats'.received - 1 = native_stats.received
    BY <1>c, <1>s
  <2> QED
    BY <1>0, <1>c, <1>s, <2>1, <2>2 DEF FreshInv, OrderInv
<1>4. CallInv'
  BY <1>0 DEF FreshInv, FreshTypeOK, CallInv, OrderInv, NoFrame
<1>5. CountersInv'
  BY <1>c, <1>n, <1>s DEF FreshInv, CountersInv
<1>6. LoadedInv'
  BY <1>0 DEF FreshInv, FreshTypeOK, LoadedInv, Counters, CountersInv, BusyInv
<1>7. DeliveredFreshInOrder'
  BY <1>0 DEF FreshInv, DeliveredFreshInOrder
<1> QED
  BY <1>1, <1>2, <1>3, <1>4, <1>5, <1>6, <1>7 DEF FreshInv

LEMMA PushContendedKeeps ==
  ASSUME FreshInv, PushContended
  PROVE  FreshInv'
<1> USE DEF PushContended, nativeVars, bridgeVars, NotPushing, NoCall, OwnerGoto
<1>0. FreshTypeOK
  BY DEF FreshInv
<1>n. Len(native_queue) \in Nat
  BY <1>0, LenProperties DEF FreshTypeOK
<1>c. /\ native_stats.received \in Nat /\ native_stats.dropped \in Nat /\ native_stats.stale \in Nat
      /\ native_stats.queued \in Nat /\ native_stats.taken \in Nat
  BY <1>0 DEF FreshTypeOK, NativeCounters
<1>s. /\ native_stats' \in NativeCounters
      /\ native_stats'.received = native_stats.received
      /\ native_stats'.dropped = native_stats.dropped + 1
      /\ native_stats'.stale = native_stats.stale
      /\ native_stats'.queued = native_stats.queued
      /\ native_stats'.taken = native_stats.taken
  <2>1. native_stats \in NativeCounters /\ native_stats.dropped + 1 \in Nat
    BY <1>0, <1>c DEF FreshTypeOK
  <2>2. native_stats' = [native_stats EXCEPT !.dropped = native_stats.dropped + 1]
    OBVIOUS
  <2> QED
    BY <2>1, <2>2, CountDropped
<1>1. FreshTypeOK'
  BY <1>0, <1>s, NoFrameType, FreshAudioAssumption DEF FreshTypeOK, Counters
<1>2. BusyInv'
  BY <1>0 DEF FreshInv, FreshTypeOK, BusyInv
<1>3. OrderInv'
  <2>1. consumed_sequence \in Nat /\ native_queue \in Seq(NativeFrames)
    BY <1>0 DEF FreshTypeOK
  <2>2. pushing.at # "no" /\ pushing'.at = "no"
    OBVIOUS
  <2>3. /\ consumed_sequence <= native_stats.received - 1
        /\ Ordered(native_queue, consumed_sequence, native_stats.received - 1)
    BY <2>2 DEF FreshInv, OrderInv
  <2>4. Ordered(native_queue, consumed_sequence, native_stats.received)
    BY <1>c, <1>n, <2>1, <2>3, OrderedLonger
  <2> QED
    BY <1>c, <1>s, <2>1, <2>2, <2>3, <2>4 DEF OrderInv
<1>4. CallInv'
  BY <1>0 DEF FreshInv, FreshTypeOK, CallInv, OrderInv, NoFrame
<1>5. CountersInv'
  BY <1>c, <1>n, <1>s DEF FreshInv, CountersInv
<1>6. LoadedInv'
  BY <1>0 DEF FreshInv, FreshTypeOK, LoadedInv, Counters, CountersInv, BusyInv
<1>7. DeliveredFreshInOrder'
  BY <1>0 DEF FreshInv, DeliveredFreshInOrder
<1> QED
  BY <1>1, <1>2, <1>3, <1>4, <1>5, <1>6, <1>7 DEF FreshInv

LEMMA PushLockedKeeps ==
  ASSUME FreshInv, PushLocked
  PROVE  FreshInv'
<1> USE DEF PushLocked, nativeVars, bridgeVars, NotPushing, NoCall, OwnerGoto
<1>0. FreshTypeOK
  BY DEF FreshInv
<1>1. FreshTypeOK'
  BY <1>0, NoFrameType, FreshAudioAssumption DEF FreshTypeOK, Counters
<1>2. BusyInv'
  BY <1>0 DEF FreshInv, FreshTypeOK, BusyInv
<1>3. OrderInv'
  BY <1>0 DEF FreshInv, FreshTypeOK, OrderInv, BusyInv
<1>4. CallInv'
  BY <1>0 DEF FreshInv, FreshTypeOK, CallInv, OrderInv, NoFrame
<1>5. CountersInv'
  BY <1>0 DEF FreshInv, FreshTypeOK, CountersInv, BusyInv
<1>6. LoadedInv'
  BY <1>0 DEF FreshInv, FreshTypeOK, LoadedInv, Counters, CountersInv, BusyInv
<1>7. DeliveredFreshInOrder'
  BY <1>0 DEF FreshInv, DeliveredFreshInOrder
<1> QED
  BY <1>1, <1>2, <1>3, <1>4, <1>5, <1>6, <1>7 DEF FreshInv

LEMMA PushEvictKeeps ==
  ASSUME FreshInv, PushEvict
  PROVE  FreshInv'
<1> USE DEF PushEvict, nativeVars, bridgeVars, NotPushing, NoCall, OwnerGoto
<1>0. FreshTypeOK
  BY DEF FreshInv
<1>n. Len(native_queue) \in Nat
  BY <1>0, LenProperties DEF FreshTypeOK
<1>c. /\ native_stats.received \in Nat /\ native_stats.dropped \in Nat /\ native_stats.stale \in Nat
      /\ native_stats.queued \in Nat /\ native_stats.taken \in Nat
  BY <1>0 DEF FreshTypeOK, NativeCounters
<1>p. /\ pushing.at = "evict" /\ pushing'.at = "append" /\ pushing'.sequence = pushing.sequence
      /\ pushing' \in [at : {"no", "try", "evict", "append"}, sequence : Nat, decoded : Int]
  BY <1>0 DEF FreshTypeOK
<1>q. native_queue \in Seq(NativeFrames) /\ consumed_sequence \in Nat
  BY <1>0 DEF FreshTypeOK
<1>o. Ordered(native_queue, consumed_sequence, native_stats.received - 1)
  BY <1>p DEF FreshInv, OrderInv
<1>r. /\ native_queue' \in Seq(NativeFrames)
      /\ native_stats' \in NativeCounters
      /\ native_stats'.received = native_stats.received
      /\ native_stats'.stale = native_stats.stale /\ native_stats'.taken = native_stats.taken
      /\ Len(native_queue') \in Nat
      /\ native_stats'.dropped + Len(native_queue') = native_stats.dropped + Len(native_queue)
      /\ Ordered(native_queue', consumed_sequence, native_stats.received - 1)
  <2>1. CASE Len(native_queue) = kFrames
    <3>1. native_queue # <<>>
      BY <2>1, FreshAudioAssumption
    <3>2. native_queue' = Tail(native_queue) /\ native_stats' = [native_stats EXCEPT !.dropped = @ + 1]
      BY <2>1
    <3>3. native_queue' \in Seq(NativeFrames) /\ Len(native_queue') = Len(native_queue) - 1 /\ Len(native_queue) > 0
      BY <1>q, <3>1, <3>2, TailFacts
    <3>4. Ordered(native_queue', consumed_sequence, native_stats.received - 1)
      BY <1>c, <1>o, <1>q, <3>1, <3>2, OrderedTail
    <3>5. /\ native_stats' \in NativeCounters
          /\ native_stats'.received = native_stats.received /\ native_stats'.dropped = native_stats.dropped + 1
          /\ native_stats'.stale = native_stats.stale /\ native_stats'.taken = native_stats.taken
      <4>1. native_stats \in NativeCounters /\ native_stats.dropped + 1 \in Nat
        BY <1>0, <1>c DEF FreshTypeOK
      <4> QED
        BY <3>2, <4>1, CountDropped
    <3> HIDE DEF PushEvict
    <3>6. /\ Len(native_queue') \in Nat
          /\ native_stats'.dropped + Len(native_queue') = native_stats.dropped + Len(native_queue)
      <4>1. Len(native_queue') = Len(native_queue) - 1 /\ Len(native_queue) > 0
        BY <3>3
      <4>2. native_stats'.dropped = native_stats.dropped + 1 /\ native_stats.dropped \in Nat
        BY <1>c, <3>5
      <4> QED
        BY <1>n, <4>1, <4>2
    <3> QED
      BY <3>3, <3>4, <3>5, <3>6
  <2>2. CASE Len(native_queue) # kFrames
    <3>1. UNCHANGED <<native_queue, native_stats>>
      BY <2>2
    <3> QED
      BY <1>0, <1>c, <1>n, <1>o, <1>q, <3>1 DEF FreshTypeOK
  <2> QED
    BY <2>1, <2>2
<1>1. FreshTypeOK'
  BY <1>0, <1>p, <1>r DEF FreshTypeOK
<1>2. BusyInv'
  BY <1>0, <1>p DEF FreshInv, FreshTypeOK, BusyInv
<1>3. OrderInv'
  BY <1>c, <1>p, <1>q, <1>r DEF FreshInv, OrderInv
<1>4. CallInv'
  BY <1>0 DEF FreshInv, FreshTypeOK, CallInv, OrderInv, NoFrame
<1>5. CountersInv'
  <2>1. /\ native_stats'.dropped \in Nat
        /\ native_stats.received = native_stats.dropped + native_stats.stale + native_stats.taken + Len(native_queue) + 1
    BY <1>p, <1>r DEF FreshInv, CountersInv, NativeCounters
  <2> HIDE DEF PushEvict
  <2> QED
    <3>1. native_stats'.received = native_stats'.dropped + native_stats'.stale + native_stats'.taken + Len(native_queue') + 1
      <4>1. /\ native_stats'.received = native_stats.received /\ native_stats'.stale = native_stats.stale
            /\ native_stats'.taken = native_stats.taken /\ Len(native_queue') \in Nat
            /\ native_stats'.dropped + Len(native_queue') = native_stats.dropped + Len(native_queue)
        BY <1>r
      <4> QED
        <5>1. PICK a : a = native_stats.dropped
          OBVIOUS
        <5>2. PICK b : b = native_stats.stale
          OBVIOUS
        <5>3. PICK c : c = native_stats.taken
          OBVIOUS
        <5>4. PICK l : l = Len(native_queue)
          OBVIOUS
        <5>5. PICK r : r = native_stats.received
          OBVIOUS
        <5>6. PICK a1 : a1 = native_stats'.dropped
          OBVIOUS
        <5>7. PICK l1 : l1 = Len(native_queue')
          OBVIOUS
        <5>8. /\ r \in Nat /\ a \in Nat /\ b \in Nat /\ c \in Nat /\ l \in Nat /\ r = a + b + c + l + 1
              /\ a1 \in Nat /\ l1 \in Nat /\ a1 + l1 = a + l
          BY <1>c, <1>n, <2>1, <4>1, <5>1, <5>2, <5>3, <5>4, <5>5, <5>6, <5>7
        <5>9. r = a1 + b + c + l1 + 1
          BY <5>8
        <5> QED
          BY <4>1, <5>2, <5>3, <5>5, <5>6, <5>7, <5>9
    <3> QED
      BY <1>p, <3>1 DEF CountersInv
<1>6. LoadedInv'
  BY <1>0, <1>p DEF FreshInv, FreshTypeOK, LoadedInv
<1>7. DeliveredFreshInOrder'
  BY <1>0 DEF FreshInv, DeliveredFreshInOrder
<1> QED
  BY <1>1, <1>2, <1>3, <1>4, <1>5, <1>6, <1>7 DEF FreshInv

LEMMA PushAppendKeeps ==
  ASSUME FreshInv, PushAppend
  PROVE  FreshInv'
<1> USE DEF PushAppend, nativeVars, bridgeVars, NotPushing, NoCall, OwnerGoto
<1>0. FreshTypeOK
  BY DEF FreshInv
<1>n. Len(native_queue) \in Nat
  BY <1>0, LenProperties DEF FreshTypeOK
<1>c. /\ native_stats.received \in Nat /\ native_stats.dropped \in Nat /\ native_stats.stale \in Nat
      /\ native_stats.queued \in Nat /\ native_stats.taken \in Nat
  BY <1>0 DEF FreshTypeOK, NativeCounters
<1>s. /\ native_stats' \in NativeCounters
      /\ native_stats'.received = native_stats.received
      /\ native_stats'.dropped = native_stats.dropped
      /\ native_stats'.stale = native_stats.stale
      /\ native_stats'.queued = Len(native_queue) + 1
      /\ native_stats'.taken = native_stats.taken
  <2>1. native_stats \in NativeCounters
    BY <1>0 DEF FreshTypeOK
  <2>2. Len(native_queue) + 1 \in Nat
    BY <1>c, <1>n
  <2>3. native_stats' = [native_stats EXCEPT !.queued = Len(native_queue) + 1]
    OBVIOUS
  <2> QED
    BY <2>1, <2>2, <2>3, CountQueued
<1>p. /\ pushing.at = "append" /\ pushing'.at = "no" /\ pushing.sequence = native_stats.received
      /\ consumed_sequence <= native_stats.received - 1
      /\ Ordered(native_queue, consumed_sequence, native_stats.received - 1)
  BY DEF FreshInv, OrderInv
<1>q. native_queue \in Seq(NativeFrames) /\ consumed_sequence \in Nat
  BY <1>0 DEF FreshTypeOK
<1>r. /\ native_queue' \in Seq(NativeFrames) /\ Len(native_queue') = Len(native_queue) + 1
      /\ Ordered(native_queue', consumed_sequence, native_stats.received)
  <2>1. PICK f : f = [sequence |-> pushing.sequence, decoded |-> pushing.decoded]
    OBVIOUS
  <2>2. f \in NativeFrames /\ f.sequence = native_stats.received
    BY <1>0, <1>p, <2>1 DEF FreshTypeOK, NativeFrames
  <2>3. native_queue' = Append(native_queue, f)
    BY <2>1
  <2>4. consumed_sequence < native_stats.received
    BY <1>c, <1>p, <1>q
  <2> QED
    BY <1>c, <1>p, <1>q, <2>2, <2>3, <2>4, OrderedAppend
<1>1. FreshTypeOK'
  BY <1>0, <1>s, <1>r DEF FreshTypeOK
<1>2. BusyInv'
  BY <1>0 DEF FreshInv, FreshTypeOK, BusyInv
<1>3. OrderInv'
  BY <1>c, <1>p, <1>q, <1>r, <1>s DEF OrderInv
<1>4. CallInv'
  BY <1>0 DEF FreshInv, FreshTypeOK, CallInv, OrderInv, NoFrame
<1>5. CountersInv'
  BY <1>c, <1>n, <1>p, <1>r, <1>s DEF FreshInv, CountersInv
<1>6. LoadedInv'
  BY <1>0 DEF FreshInv, FreshTypeOK, LoadedInv, Counters, CountersInv, BusyInv
<1>7. DeliveredFreshInOrder'
  BY <1>0 DEF FreshInv, DeliveredFreshInOrder
<1> QED
  BY <1>1, <1>2, <1>3, <1>4, <1>5, <1>6, <1>7 DEF FreshInv

LEMMA TryReadKeeps ==
  ASSUME FreshInv, NEW a \in MaximumAges, TryRead(a)
  PROVE  FreshInv'
<1> USE DEF TryRead, nativeVars, bridgeVars, NotPushing, NoCall, OwnerGoto
<1>0. FreshTypeOK
  BY DEF FreshInv
<1>1. FreshTypeOK'
  <2>1. a \in Nat /\ steady_clock \in Nat
    BY <1>0, FreshAudioAssumption DEF FreshTypeOK
  <2>2. fresh_call' \in ReadCalls
    BY <2>1, CallUpdates, NoCallType
  <2> QED
    BY <1>0, <2>2 DEF FreshTypeOK
<1>2. BusyInv'
  BY <1>0 DEF FreshInv, FreshTypeOK, BusyInv
<1>3. OrderInv'
  BY <1>0 DEF FreshInv, FreshTypeOK, OrderInv, BusyInv
<1>4. CallInv'
  BY <1>0 DEF FreshInv, FreshTypeOK, CallInv, OrderInv, NoFrame
<1>5. CountersInv'
  BY <1>0 DEF FreshInv, FreshTypeOK, CountersInv, BusyInv
<1>6. LoadedInv'
  BY <1>0 DEF FreshInv, FreshTypeOK, LoadedInv, Counters, CountersInv, BusyInv
<1>7. DeliveredFreshInOrder'
  BY <1>0 DEF FreshInv, DeliveredFreshInOrder
<1> QED
  BY <1>1, <1>2, <1>3, <1>4, <1>5, <1>6, <1>7 DEF FreshInv

LEMMA NativeTryReadKeeps ==
  ASSUME FreshInv, NativeTryRead
  PROVE  FreshInv'
<1> USE DEF NativeTryRead, nativeVars, bridgeVars, NotPushing, NoCall, OwnerGoto
<1>0. FreshTypeOK
  BY DEF FreshInv
<1>1. FreshTypeOK'
  BY <1>0, NoFrameType, FreshAudioAssumption DEF FreshTypeOK, Counters, ReadCalls
<1>2. BusyInv'
  BY <1>0 DEF FreshInv, FreshTypeOK, BusyInv
<1>3. OrderInv'
  BY <1>0 DEF FreshInv, FreshTypeOK, OrderInv, BusyInv
<1>4. CallInv'
  BY <1>0 DEF FreshInv, FreshTypeOK, CallInv, OrderInv, NoFrame
<1>5. CountersInv'
  BY <1>0 DEF FreshInv, FreshTypeOK, CountersInv, BusyInv
<1>6. LoadedInv'
  BY <1>0 DEF FreshInv, FreshTypeOK, LoadedInv, Counters, CountersInv, BusyInv
<1>7. DeliveredFreshInOrder'
  BY <1>0 DEF FreshInv, DeliveredFreshInOrder
<1> QED
  BY <1>1, <1>2, <1>3, <1>4, <1>5, <1>6, <1>7 DEF FreshInv

LEMMA TakeContendedKeeps ==
  ASSUME FreshInv, TakeContended
  PROVE  FreshInv'
<1> USE DEF TakeContended, nativeVars, bridgeVars, NotPushing, NoCall, OwnerGoto
<1>0. FreshTypeOK
  BY DEF FreshInv
<1>1. FreshTypeOK'
  BY <1>0, NoFrameType, FreshAudioAssumption DEF FreshTypeOK, Counters
<1>2. BusyInv'
  BY <1>0 DEF FreshInv, FreshTypeOK, BusyInv
<1>3. OrderInv'
  BY <1>0 DEF FreshInv, FreshTypeOK, OrderInv, BusyInv
<1>4. CallInv'
  BY <1>0 DEF FreshInv, FreshTypeOK, CallInv, OrderInv, NoFrame
<1>5. CountersInv'
  BY <1>0 DEF FreshInv, FreshTypeOK, CountersInv, BusyInv
<1>6. LoadedInv'
  BY <1>0 DEF FreshInv, FreshTypeOK, LoadedInv, Counters, CountersInv, BusyInv
<1>7. DeliveredFreshInOrder'
  BY <1>0 DEF FreshInv, DeliveredFreshInOrder
<1> QED
  BY <1>1, <1>2, <1>3, <1>4, <1>5, <1>6, <1>7 DEF FreshInv

LEMMA TakeLockedKeeps ==
  ASSUME FreshInv, TakeLocked
  PROVE  FreshInv'
<1> USE DEF TakeLocked, nativeVars, bridgeVars, NotPushing, NoCall, OwnerGoto
<1>0. FreshTypeOK
  BY DEF FreshInv
<1>1. FreshTypeOK'
  BY <1>0, NoFrameType, FreshAudioAssumption DEF FreshTypeOK, Counters
<1>2. BusyInv'
  BY <1>0 DEF FreshInv, FreshTypeOK, BusyInv
<1>3. OrderInv'
  BY <1>0 DEF FreshInv, FreshTypeOK, OrderInv, BusyInv
<1>4. CallInv'
  BY <1>0 DEF FreshInv, FreshTypeOK, CallInv, OrderInv, NoFrame
<1>5. CountersInv'
  BY <1>0 DEF FreshInv, FreshTypeOK, CountersInv, BusyInv
<1>6. LoadedInv'
  BY <1>0 DEF FreshInv, FreshTypeOK, LoadedInv, Counters, CountersInv, BusyInv
<1>7. DeliveredFreshInOrder'
  BY <1>0 DEF FreshInv, DeliveredFreshInOrder
<1> QED
  BY <1>1, <1>2, <1>3, <1>4, <1>5, <1>6, <1>7 DEF FreshInv

LEMMA TakeEmptyKeeps ==
  ASSUME FreshInv, TakeEmpty
  PROVE  FreshInv'
<1> USE DEF TakeEmpty, nativeVars, bridgeVars, NotPushing, NoCall, OwnerGoto
<1>0. FreshTypeOK
  BY DEF FreshInv
<1>1. FreshTypeOK'
  BY <1>0, NoFrameType, FreshAudioAssumption DEF FreshTypeOK, Counters
<1>2. BusyInv'
  BY <1>0 DEF FreshInv, FreshTypeOK, BusyInv
<1>3. OrderInv'
  BY <1>0 DEF FreshInv, FreshTypeOK, OrderInv, BusyInv
<1>4. CallInv'
  BY <1>0 DEF FreshInv, FreshTypeOK, CallInv, OrderInv, NoFrame
<1>5. CountersInv'
  BY <1>0 DEF FreshInv, FreshTypeOK, CountersInv, BusyInv
<1>6. LoadedInv'
  BY <1>0 DEF FreshInv, FreshTypeOK, LoadedInv, Counters, CountersInv, BusyInv
<1>7. DeliveredFreshInOrder'
  BY <1>0 DEF FreshInv, DeliveredFreshInOrder
<1> QED
  BY <1>1, <1>2, <1>3, <1>4, <1>5, <1>6, <1>7 DEF FreshInv

LEMMA TakeStaleKeeps ==
  ASSUME FreshInv, TakeStale
  PROVE  FreshInv'
<1> USE DEF TakeStale, nativeVars, bridgeVars, NotPushing, NoCall, OwnerGoto
<1>0. FreshTypeOK
  BY DEF FreshInv
<1>n. Len(native_queue) \in Nat
  BY <1>0, LenProperties DEF FreshTypeOK
<1>c. /\ native_stats.received \in Nat /\ native_stats.dropped \in Nat /\ native_stats.stale \in Nat
      /\ native_stats.queued \in Nat /\ native_stats.taken \in Nat
  BY <1>0 DEF FreshTypeOK, NativeCounters
<1>p. fresh_at = "take" /\ pushing.at \notin {"evict", "append"} /\ busy = "take"
  BY <1>0 DEF FreshInv, FreshTypeOK, BusyInv
<1>q. native_queue \in Seq(NativeFrames) /\ native_queue # <<>> /\ consumed_sequence \in Nat
  BY <1>0 DEF FreshTypeOK
<1>h. PICK high : high = native_stats.received - (IF pushing.at = "no" THEN 0 ELSE 1)
  OBVIOUS
<1>i. high \in Int
  BY <1>c, <1>h
<1>o. consumed_sequence <= high /\ Ordered(native_queue, consumed_sequence, high)
  BY <1>h DEF FreshInv, OrderInv
<1>r. /\ native_queue' \in Seq(NativeFrames) /\ Len(native_queue') = Len(native_queue) - 1 /\ Len(native_queue) > 0
      /\ Head(native_queue) \in NativeFrames
  BY <1>q, TailFacts
<1>t. /\ Ordered(native_queue', consumed_sequence, high) /\ Ordered(native_queue', Head(native_queue).sequence, high)
      /\ Head(native_queue).sequence \in Nat /\ Head(native_queue).decoded \in Int
      /\ consumed_sequence < Head(native_queue).sequence /\ Head(native_queue).sequence <= high
  BY <1>i, <1>o, <1>q, OrderedTail
<1>s. /\ native_stats' \in NativeCounters
      /\ native_stats'.received = native_stats.received
      /\ native_stats'.dropped = native_stats.dropped
      /\ native_stats'.stale = native_stats.stale + 1
      /\ native_stats'.queued = Len(native_queue) - 1
      /\ native_stats'.taken = native_stats.taken
  <2>1. native_stats \in NativeCounters
    BY <1>0 DEF FreshTypeOK
  <2>2. Len(native_queue) - 1 \in Nat /\ native_stats.stale + 1 \in Nat
    BY <1>c, <1>n, <1>r
  <2>3. native_stats' = [native_stats EXCEPT !.queued = Len(native_queue) - 1, !.stale = native_stats.stale + 1]
    OBVIOUS
  <2>4. PICK x : x = Len(native_queue) - 1
    OBVIOUS
  <2>5. PICK y : y = native_stats.stale + 1
    OBVIOUS
  <2>6. native_stats' = [native_stats EXCEPT !.queued = x, !.stale = y] /\ x \in Nat /\ y \in Nat
    BY <2>2, <2>3, <2>4, <2>5
  <2> HIDE DEF TakeStale
  <2> QED
    <3>1. /\ native_stats' \in NativeCounters /\ native_stats'.queued = x /\ native_stats'.stale = y
          /\ native_stats'.received = native_stats.received /\ native_stats'.dropped = native_stats.dropped
          /\ native_stats'.taken = native_stats.taken
      <4>1. PICK n : n = native_stats
        OBVIOUS
      <4>2. PICK m : m = native_stats'
        OBVIOUS
      <4>3. m = [n EXCEPT !.queued = x, !.stale = y] /\ n \in NativeCounters /\ x \in Nat /\ y \in Nat
        BY <2>1, <2>6, <4>1, <4>2
      <4>4. /\ m \in NativeCounters /\ m.queued = x /\ m.stale = y
            /\ m.received = n.received /\ m.dropped = n.dropped /\ m.taken = n.taken
        BY <4>3 DEF NativeCounters
      <4> QED
        BY <4>1, <4>2, <4>4
    <3> QED
      BY <2>4, <2>5, <3>1
<1>1. FreshTypeOK'
  BY <1>0, <1>r, <1>s DEF FreshTypeOK
<1>2. BusyInv'
  BY <1>0 DEF FreshInv, FreshTypeOK, BusyInv
<1>3. OrderInv'
  BY <1>c, <1>h, <1>o, <1>s, <1>t DEF FreshInv, OrderInv
<1>4. CallInv'
  BY <1>0 DEF FreshInv, FreshTypeOK, CallInv, OrderInv, NoFrame
<1>5. CountersInv'
  <2> HIDE DEF TakeStale
  <2>1. /\ native_stats.received = native_stats.dropped + native_stats.stale + native_stats.taken + Len(native_queue)
                                   + (IF pushing.at = "no" THEN 0 ELSE 1)
        /\ pushing' = pushing
    BY DEF FreshInv, CountersInv, TakeStale
  <2>2. PICK k : k = (IF pushing.at = "no" THEN 0 ELSE 1)
    OBVIOUS
  <2>3. k \in Nat
    BY <2>2
  <2>4. native_stats'.received = native_stats'.dropped + native_stats'.stale + native_stats'.taken + Len(native_queue') + k
    <3>1. /\ native_stats'.received = native_stats.received /\ native_stats'.dropped = native_stats.dropped
          /\ native_stats'.stale = native_stats.stale + 1 /\ native_stats'.taken = native_stats.taken
      BY <1>s
    <3>2. Len(native_queue') = Len(native_queue) - 1
      BY <1>r
    <3>3. native_stats.received = native_stats.dropped + native_stats.stale + native_stats.taken + Len(native_queue) + k
      BY <2>1, <2>2
    <3> QED
      <4>1. PICK a : a = native_stats.dropped
        OBVIOUS
      <4>2. PICK b : b = native_stats.stale
        OBVIOUS
      <4>3. PICK c : c = native_stats.taken
        OBVIOUS
      <4>4. PICK l : l = Len(native_queue)
        OBVIOUS
      <4>5. PICK r : r = native_stats.received
        OBVIOUS
      <4>6. r \in Nat /\ a \in Nat /\ b \in Nat /\ c \in Nat /\ l \in Nat /\ l > 0 /\ k \in Nat /\ r = a + b + c + l + k
        BY <1>c, <1>n, <1>r, <2>3, <3>3, <4>1, <4>2, <4>3, <4>4, <4>5
      <4>7. r = a + (b + 1) + c + (l - 1) + k
        BY <4>6
      <4> QED
        BY <3>1, <3>2, <4>1, <4>2, <4>3, <4>4, <4>5, <4>7
  <2>5. native_stats'.queued = Len(native_queue')
    BY <1>r, <1>s
  <2> QED
    BY <2>1, <2>2, <2>4, <2>5 DEF CountersInv
<1>6. LoadedInv'
  BY <1>0 DEF FreshInv, FreshTypeOK, LoadedInv, Counters, CountersInv, BusyInv
<1>7. DeliveredFreshInOrder'
  BY <1>0 DEF FreshInv, DeliveredFreshInOrder
<1> QED
  BY <1>1, <1>2, <1>3, <1>4, <1>5, <1>6, <1>7 DEF FreshInv

LEMMA TakeFreshKeeps ==
  ASSUME FreshInv, TakeFresh
  PROVE  FreshInv'
<1> USE DEF TakeFresh, nativeVars, bridgeVars, NotPushing, NoCall, OwnerGoto
<1>0. FreshTypeOK
  BY DEF FreshInv
<1>n. Len(native_queue) \in Nat
  BY <1>0, LenProperties DEF FreshTypeOK
<1>c. /\ native_stats.received \in Nat /\ native_stats.dropped \in Nat /\ native_stats.stale \in Nat
      /\ native_stats.queued \in Nat /\ native_stats.taken \in Nat
  BY <1>0 DEF FreshTypeOK, NativeCounters
<1>p. fresh_at = "take" /\ pushing.at \notin {"evict", "append"} /\ busy = "take"
  BY <1>0 DEF FreshInv, FreshTypeOK, BusyInv
<1>q. native_queue \in Seq(NativeFrames) /\ native_queue # <<>> /\ consumed_sequence \in Nat
  BY <1>0 DEF FreshTypeOK
<1>h. PICK high : high = native_stats.received - (IF pushing.at = "no" THEN 0 ELSE 1)
  OBVIOUS
<1>i. high \in Int
  BY <1>c, <1>h
<1>o. consumed_sequence <= high /\ Ordered(native_queue, consumed_sequence, high)
  BY <1>h DEF FreshInv, OrderInv
<1>r. /\ native_queue' \in Seq(NativeFrames) /\ Len(native_queue') = Len(native_queue) - 1 /\ Len(native_queue) > 0
      /\ Head(native_queue) \in NativeFrames
  BY <1>q, TailFacts
<1>t. /\ Ordered(native_queue', consumed_sequence, high) /\ Ordered(native_queue', Head(native_queue).sequence, high)
      /\ Head(native_queue).sequence \in Nat /\ Head(native_queue).decoded \in Int
      /\ consumed_sequence < Head(native_queue).sequence /\ Head(native_queue).sequence <= high
  BY <1>i, <1>o, <1>q, OrderedTail
<1>s. /\ native_stats' \in NativeCounters
      /\ native_stats'.received = native_stats.received
      /\ native_stats'.dropped = native_stats.dropped
      /\ native_stats'.stale = native_stats.stale
      /\ native_stats'.queued = Len(native_queue) - 1
      /\ native_stats'.taken = native_stats.taken + 1
  <2>1. native_stats \in NativeCounters
    BY <1>0 DEF FreshTypeOK
  <2>2. Len(native_queue) - 1 \in Nat /\ native_stats.taken + 1 \in Nat
    BY <1>c, <1>n, <1>r
  <2>3. native_stats' = [native_stats EXCEPT !.queued = Len(native_queue) - 1, !.taken = native_stats.taken + 1]
    OBVIOUS
  <2>4. PICK x : x = Len(native_queue) - 1
    OBVIOUS
  <2>5. PICK y : y = native_stats.taken + 1
    OBVIOUS
  <2>6. native_stats' = [native_stats EXCEPT !.queued = x, !.taken = y] /\ x \in Nat /\ y \in Nat
    BY <2>2, <2>3, <2>4, <2>5
  <2> HIDE DEF TakeFresh
  <2> QED
    <3>1. /\ native_stats' \in NativeCounters /\ native_stats'.queued = x /\ native_stats'.taken = y
          /\ native_stats'.received = native_stats.received /\ native_stats'.dropped = native_stats.dropped
          /\ native_stats'.stale = native_stats.stale
      <4>1. PICK n : n = native_stats
        OBVIOUS
      <4>2. PICK m : m = native_stats'
        OBVIOUS
      <4>3. m = [n EXCEPT !.queued = x, !.taken = y] /\ n \in NativeCounters /\ x \in Nat /\ y \in Nat
        BY <2>1, <2>6, <4>1, <4>2
      <4>4. /\ m \in NativeCounters /\ m.queued = x /\ m.taken = y
            /\ m.received = n.received /\ m.dropped = n.dropped /\ m.stale = n.stale
        BY <4>3 DEF NativeCounters
      <4> QED
        BY <4>1, <4>2, <4>4
    <3> QED
      BY <2>4, <2>5, <3>1
<1>f. /\ fresh_call' \in ReadCalls
      /\ fresh_call'.frame.sequence = consumed_sequence' /\ fresh_call'.read_started = fresh_call.read_started
      /\ consumed_sequence' = Head(native_queue).sequence /\ consumed_sequence' \in Nat
  BY <1>0, <1>t DEF FreshTypeOK, ReadCalls
<1>1. FreshTypeOK'
  BY <1>0, <1>f, <1>r, <1>s DEF FreshTypeOK
<1>2. BusyInv'
  BY <1>0 DEF FreshInv, FreshTypeOK, BusyInv
<1>3. OrderInv'
  BY <1>c, <1>f, <1>h, <1>o, <1>s, <1>t DEF FreshInv, OrderInv
<1>4. CallInv'
  <2>1. delivered_sequence \in Nat /\ delivered_sequence <= consumed_sequence
    BY <1>0 DEF FreshInv, FreshTypeOK, CallInv
  <2>2. consumed_sequence' > delivered_sequence
    BY <1>f, <1>q, <1>t, <2>1
  <2> QED
    BY <1>f, <1>p, <2>1, <2>2 DEF FreshInv, CallInv
<1>5. CountersInv'
  <2> HIDE DEF TakeFresh
  <2>1. /\ native_stats.received = native_stats.dropped + native_stats.stale + native_stats.taken + Len(native_queue)
                                   + (IF pushing.at = "no" THEN 0 ELSE 1)
        /\ pushing' = pushing
    BY DEF FreshInv, CountersInv, TakeFresh
  <2>2. PICK k : k = (IF pushing.at = "no" THEN 0 ELSE 1)
    OBVIOUS
  <2>3. k \in Nat
    BY <2>2
  <2>4. native_stats'.received = native_stats'.dropped + native_stats'.stale + native_stats'.taken + Len(native_queue') + k
    <3>1. /\ native_stats'.received = native_stats.received /\ native_stats'.dropped = native_stats.dropped
          /\ native_stats'.taken = native_stats.taken + 1 /\ native_stats'.stale = native_stats.stale
      BY <1>s
    <3>2. Len(native_queue') = Len(native_queue) - 1
      BY <1>r
    <3>3. native_stats.received = native_stats.dropped + native_stats.stale + native_stats.taken + Len(native_queue) + k
      BY <2>1, <2>2
    <3> QED
      <4>1. PICK a : a = native_stats.dropped
        OBVIOUS
      <4>2. PICK b : b = native_stats.stale
        OBVIOUS
      <4>3. PICK c : c = native_stats.taken
        OBVIOUS
      <4>4. PICK l : l = Len(native_queue)
        OBVIOUS
      <4>5. PICK r : r = native_stats.received
        OBVIOUS
      <4>6. r \in Nat /\ a \in Nat /\ b \in Nat /\ c \in Nat /\ l \in Nat /\ l > 0 /\ k \in Nat /\ r = a + b + c + l + k
        BY <1>c, <1>n, <1>r, <2>3, <3>3, <4>1, <4>2, <4>3, <4>4, <4>5
      <4>7. r = a + b + (c + 1) + (l - 1) + k
        BY <4>6
      <4> QED
        BY <3>1, <3>2, <4>1, <4>2, <4>3, <4>4, <4>5, <4>7
  <2>5. native_stats'.queued = Len(native_queue')
    BY <1>r, <1>s
  <2> QED
    BY <2>1, <2>2, <2>4, <2>5 DEF CountersInv
<1>6. LoadedInv'
  BY <1>0 DEF FreshInv, FreshTypeOK, LoadedInv, Counters, CountersInv, BusyInv
<1>7. DeliveredFreshInOrder'
  BY <1>0 DEF FreshInv, DeliveredFreshInOrder
<1> QED
  BY <1>1, <1>2, <1>3, <1>4, <1>5, <1>6, <1>7 DEF FreshInv

LEMMA StatsReceivedKeeps ==
  ASSUME FreshInv, StatsReceived
  PROVE  FreshInv'
<1> USE DEF StatsReceived, nativeVars, bridgeVars, NotPushing, NoCall, OwnerGoto
<1>0. FreshTypeOK
  BY DEF FreshInv
<1>1. FreshTypeOK'
  <2>1. /\ native_stats.received \in Nat /\ native_stats.dropped \in Nat /\ native_stats.stale \in Nat
        /\ native_stats.queued \in Nat /\ fresh_call \in ReadCalls
    BY <1>0 DEF FreshTypeOK, NativeCounters
  <2>2. fresh_call' \in ReadCalls
    BY <2>1, CallUpdates
  <2> QED
    BY <1>0, <2>2 DEF FreshTypeOK
<1>2. BusyInv'
  BY <1>0 DEF FreshInv, FreshTypeOK, BusyInv
<1>3. OrderInv'
  BY <1>0 DEF FreshInv, FreshTypeOK, OrderInv, BusyInv
<1>4. CallInv'
  BY <1>0 DEF FreshInv, FreshTypeOK, CallInv, OrderInv, NoFrame
<1>5. CountersInv'
  BY <1>0 DEF FreshInv, FreshTypeOK, CountersInv, BusyInv
<1>6. LoadedInv'
  BY <1>0 DEF FreshInv, FreshTypeOK, LoadedInv, Counters, ReadCalls
<1>7. DeliveredFreshInOrder'
  BY <1>0 DEF FreshInv, DeliveredFreshInOrder
<1> QED
  BY <1>1, <1>2, <1>3, <1>4, <1>5, <1>6, <1>7 DEF FreshInv

LEMMA StatsDroppedKeeps ==
  ASSUME FreshInv, StatsDropped
  PROVE  FreshInv'
<1> USE DEF StatsDropped, nativeVars, bridgeVars, NotPushing, NoCall, OwnerGoto
<1>0. FreshTypeOK
  BY DEF FreshInv
<1>1. FreshTypeOK'
  <2>1. /\ native_stats.received \in Nat /\ native_stats.dropped \in Nat /\ native_stats.stale \in Nat
        /\ native_stats.queued \in Nat /\ fresh_call \in ReadCalls
    BY <1>0 DEF FreshTypeOK, NativeCounters
  <2>2. fresh_call' \in ReadCalls
    BY <2>1, CallUpdates
  <2> QED
    BY <1>0, <2>2 DEF FreshTypeOK
<1>2. BusyInv'
  BY <1>0 DEF FreshInv, FreshTypeOK, BusyInv
<1>3. OrderInv'
  BY <1>0 DEF FreshInv, FreshTypeOK, OrderInv, BusyInv
<1>4. CallInv'
  BY <1>0 DEF FreshInv, FreshTypeOK, CallInv, OrderInv, NoFrame
<1>5. CountersInv'
  BY <1>0 DEF FreshInv, FreshTypeOK, CountersInv, BusyInv
<1>6. LoadedInv'
  BY <1>0 DEF FreshInv, FreshTypeOK, LoadedInv, Counters, ReadCalls
<1>7. DeliveredFreshInOrder'
  BY <1>0 DEF FreshInv, DeliveredFreshInOrder
<1> QED
  BY <1>1, <1>2, <1>3, <1>4, <1>5, <1>6, <1>7 DEF FreshInv

LEMMA StatsQueuedKeeps ==
  ASSUME FreshInv, StatsQueued
  PROVE  FreshInv'
<1> USE DEF StatsQueued, nativeVars, bridgeVars, NotPushing, NoCall, OwnerGoto
<1>0. FreshTypeOK
  BY DEF FreshInv
<1>1. FreshTypeOK'
  <2>1. /\ native_stats.received \in Nat /\ native_stats.dropped \in Nat /\ native_stats.stale \in Nat
        /\ native_stats.queued \in Nat /\ fresh_call \in ReadCalls
    BY <1>0 DEF FreshTypeOK, NativeCounters
  <2>2. fresh_call' \in ReadCalls
    BY <2>1, CallUpdates
  <2> QED
    BY <1>0, <2>2 DEF FreshTypeOK
<1>2. BusyInv'
  BY <1>0 DEF FreshInv, FreshTypeOK, BusyInv
<1>3. OrderInv'
  BY <1>0 DEF FreshInv, FreshTypeOK, OrderInv, BusyInv
<1>4. CallInv'
  BY <1>0 DEF FreshInv, FreshTypeOK, CallInv, OrderInv, NoFrame
<1>5. CountersInv'
  BY <1>0 DEF FreshInv, FreshTypeOK, CountersInv, BusyInv
<1>6. LoadedInv'
  BY <1>0 DEF FreshInv, FreshTypeOK, LoadedInv, Counters, ReadCalls
<1>7. DeliveredFreshInOrder'
  BY <1>0 DEF FreshInv, DeliveredFreshInOrder
<1> QED
  BY <1>1, <1>2, <1>3, <1>4, <1>5, <1>6, <1>7 DEF FreshInv

LEMMA NativeReturnKeeps ==
  ASSUME FreshInv, NativeReturn
  PROVE  FreshInv'
<1> USE DEF NativeReturn, nativeVars, bridgeVars, NotPushing, NoCall, OwnerGoto
<1>0. FreshTypeOK
  BY DEF FreshInv
<1>n. Len(native_queue) \in Nat
  BY <1>0, LenProperties DEF FreshTypeOK
<1>c. /\ native_stats.received \in Nat /\ native_stats.dropped \in Nat /\ native_stats.stale \in Nat
      /\ native_stats.queued \in Nat /\ native_stats.taken \in Nat
  BY <1>0 DEF FreshTypeOK, NativeCounters
<1>l. fresh_call.stats \in Counters
  BY <1>0 DEF FreshTypeOK, ReadCalls
<1>b. bridge_stale \in Nat /\ steady_clock \in Nat
  BY <1>0 DEF FreshTypeOK
<1>s. /\ fresh_stats' \in Counters
      /\ fresh_stats'.received = fresh_call.stats.received /\ fresh_stats'.dropped = fresh_call.stats.dropped
      /\ fresh_stats'.stale = fresh_call.stats.stale + bridge_stale
      /\ fresh_stats'.queued = fresh_call.stats.queued
  BY <1>b, <1>l DEF Counters
<1>f. \/ fresh_call.frame = NoFrame /\ fresh_at' = "idle" /\ fresh_call' = NoCall
      \/ /\ fresh_call.frame # NoFrame /\ fresh_at' = "bridge" /\ fresh_call'.frame = fresh_call.frame
         /\ fresh_call'.read_started = fresh_call.read_started
         /\ fresh_call'.age = steady_clock - fresh_call.frame.decoded
  BY <1>0 DEF FreshTypeOK, ReadCalls
<1>d. fresh_call.frame.decoded \in Int /\ fresh_call.read_started \in Nat
  BY <1>0 DEF FreshTypeOK, ReadCalls
<1>t. fresh_call' \in ReadCalls
  <2>1. steady_clock - fresh_call.frame.decoded \in Int /\ fresh_call \in ReadCalls
    BY <1>0, <1>b, <1>d DEF FreshTypeOK
  <2>2. [fresh_call EXCEPT !.age = steady_clock - fresh_call.frame.decoded] \in ReadCalls
    BY <2>1, AgeStored
  <2> QED
    BY <2>2, NoCallType
<1>1. FreshTypeOK'
  BY <1>0, <1>f, <1>s, <1>t DEF FreshTypeOK
<1>2. BusyInv'
  BY <1>0 DEF FreshInv, FreshTypeOK, BusyInv
<1>3. OrderInv'
  BY <1>0 DEF FreshInv, FreshTypeOK, OrderInv, BusyInv
<1>4. CallInv'
  <2>1. fresh_call.read_started <= steady_clock
    BY DEF FreshInv, CallInv
  <2>2. CASE fresh_call.frame = NoFrame
    BY <1>f, <2>2 DEF FreshInv, CallInv
  <2>3. CASE fresh_call.frame # NoFrame
    BY <1>b, <1>d, <1>f, <2>1, <2>3 DEF FreshInv, CallInv
  <2> QED
    BY <2>2, <2>3
<1>5. CountersInv'
  BY <1>0 DEF FreshInv, FreshTypeOK, CountersInv, BusyInv
<1>6. LoadedInv'
  <2> SUFFICES ASSUME quiet PROVE LoadedInv'
    BY DEF LoadedInv
  <2>1. /\ pushing.at = "no"
        /\ fresh_call.stats.received = native_stats.received /\ fresh_call.stats.dropped = native_stats.dropped
        /\ fresh_call.stats.stale = native_stats.stale /\ fresh_call.stats.queued = native_stats.queued
    BY DEF FreshInv, LoadedInv
  <2>2. native_stats.received = native_stats.dropped + native_stats.stale + native_stats.taken + native_stats.queued
    BY <1>c, <1>n, <2>1 DEF FreshInv, CountersInv
  <2>3. fresh_stats'.received = fresh_stats'.dropped + fresh_stats'.stale + fresh_stats'.queued
                                + (native_stats.taken - bridge_stale)
    BY <1>b, <1>c, <1>s, <2>1, <2>2
  <2> QED
    BY <1>f, <2>1, <2>3 DEF LoadedInv
<1>7. DeliveredFreshInOrder'
  BY <1>0 DEF FreshInv, DeliveredFreshInOrder
<1> QED
  BY <1>1, <1>2, <1>3, <1>4, <1>5, <1>6, <1>7 DEF FreshInv

LEMMA DropInBridgeKeeps ==
  ASSUME FreshInv, DropInBridge
  PROVE  FreshInv'
<1> USE DEF DropInBridge, nativeVars, bridgeVars, NotPushing, NoCall, OwnerGoto
<1>0. FreshTypeOK
  BY DEF FreshInv
<1>s. /\ fresh_stats' \in Counters
      /\ fresh_stats'.received = fresh_stats.received /\ fresh_stats'.dropped = fresh_stats.dropped
      /\ fresh_stats'.stale = fresh_stats.stale + 1 /\ fresh_stats'.queued = fresh_stats.queued
  <2>1. fresh_stats \in Counters /\ fresh_stats.stale + 1 \in Nat
    BY <1>0 DEF FreshTypeOK, Counters
  <2> QED
    BY <2>1, StaleAdded
<1>l. /\ fresh_stats.received \in Nat /\ fresh_stats.dropped \in Nat /\ fresh_stats.stale \in Nat
      /\ fresh_stats.queued \in Nat /\ native_stats.taken \in Nat /\ bridge_stale \in Nat
  BY <1>0 DEF FreshTypeOK, Counters, NativeCounters
<1>t. fresh_call' \in ReadCalls
  BY NoCallType
<1>1. FreshTypeOK'
  BY <1>0, <1>l, <1>s, <1>t DEF FreshTypeOK
<1>2. BusyInv'
  BY <1>0 DEF FreshInv, FreshTypeOK, BusyInv
<1>3. OrderInv'
  BY <1>0 DEF FreshInv, FreshTypeOK, OrderInv, BusyInv
<1>4. CallInv'
  BY <1>0 DEF FreshInv, FreshTypeOK, CallInv, OrderInv, NoFrame
<1>5. CountersInv'
  BY <1>0 DEF FreshInv, FreshTypeOK, CountersInv, BusyInv
<1>6. LoadedInv'
  BY <1>l, <1>s DEF FreshInv, LoadedInv
<1>7. DeliveredFreshInOrder'
  BY <1>0 DEF FreshInv, DeliveredFreshInOrder
<1> QED
  BY <1>1, <1>2, <1>3, <1>4, <1>5, <1>6, <1>7 DEF FreshInv

LEMMA DeliverFreshKeeps ==
  ASSUME FreshInv, DeliverFresh
  PROVE  FreshInv'
<1> USE DEF DeliverFresh, nativeVars, bridgeVars, NotPushing, NoCall, OwnerGoto
<1>0. FreshTypeOK
  BY DEF FreshInv
<1>1. FreshTypeOK'
  BY <1>0, NoCallType DEF FreshTypeOK, ReadCalls
<1>2. BusyInv'
  BY <1>0 DEF FreshInv, FreshTypeOK, BusyInv
<1>3. OrderInv'
  BY <1>0 DEF FreshInv, FreshTypeOK, OrderInv, BusyInv
<1>4. CallInv'
  BY <1>0 DEF FreshInv, FreshTypeOK, CallInv, OrderInv, NoFrame
<1>5. CountersInv'
  BY <1>0 DEF FreshInv, FreshTypeOK, CountersInv, BusyInv
<1>6. LoadedInv'
  BY <1>0 DEF FreshInv, FreshTypeOK, LoadedInv, Counters, CountersInv, BusyInv
<1>7. DeliveredFreshInOrder'
  <2>1. /\ fresh_call.frame # NoFrame /\ fresh_call.age + fresh_call.frame.decoded >= fresh_call.read_started
        /\ fresh_call.frame.sequence > delivered_sequence
    BY DEF FreshInv, CallInv
  <2>2. /\ fresh_call.age \in Int /\ fresh_call.frame.decoded \in Int /\ fresh_call.read_started \in Nat
        /\ steady_clock \in Nat /\ fresh_call.maximum_age \in Nat
        /\ fresh_call.frame \in [sequence : Nat, decoded : Int, discontinuity : BOOLEAN]
        /\ fresh_call.frame.sequence \in Nat /\ delivered_sequence \in Nat
    BY <1>0 DEF FreshTypeOK, ReadCalls
  <2>3. /\ output'.decoded = fresh_call.frame.decoded /\ output'.sequence = fresh_call.frame.sequence
        /\ output'.discontinuity = Discontinuity(fresh_call.frame)
        /\ output_at'.at = steady_clock /\ output_at'.after = delivered_sequence
        /\ output_at'.maximum_age = fresh_call.maximum_age
    BY <2>2
  <2>4. steady_clock - fresh_call.frame.decoded <= fresh_call.maximum_age
    BY <2>1, <2>2 DEF AgeInBridge
  <2>5. output'.sequence > output_at'.after + 1 => output'.discontinuity
    <3> SUFFICES ASSUME output'.sequence > output_at'.after + 1 PROVE output'.discontinuity
      OBVIOUS
    <3>1. fresh_call.frame.sequence # delivered_sequence + 1
      BY <2>2, <2>3
    <3>2. Discontinuity(fresh_call.frame)
      BY <3>1 DEF Discontinuity
    <3> QED
      BY <2>3, <3>2
  <2> QED
    BY <2>1, <2>2, <2>3, <2>4, <2>5 DEF DeliveredFreshInOrder
<1> QED
  BY <1>1, <1>2, <1>3, <1>4, <1>5, <1>6, <1>7 DEF FreshInv

\* An idle step changes nothing the invariant speaks of.
LEMMA FreshIdleKeeps ==
  ASSUME FreshInv, UNCHANGED freshVars
  PROVE  FreshInv'
  BY DEF FreshInv, freshVars, nativeVars, bridgeVars, FreshTypeOK, BusyInv, OrderInv, CallInv, CountersInv, LoadedInv,
         DeliveredFreshInOrder

\* A frame is delivered while it is fresh, in order and with every gap flagged, whatever push() and take() lose to each
\* other; and statistics that were read while nothing was pushed account for every frame.
THEOREM ReadsAreFresh == FreshSpec => []FreshReads
<1>1. FreshInv /\ [FreshNext]_freshVars => FreshInv'
  BY FreshIdleKeeps, FreshTickKeeps, PushReceivedKeeps, PushContendedKeeps, PushLockedKeeps, PushEvictKeeps, PushAppendKeeps,
     TryReadKeeps, NativeTryReadKeeps, TakeContendedKeeps, TakeLockedKeeps, TakeEmptyKeeps, TakeStaleKeeps,
     TakeFreshKeeps, StatsReceivedKeeps, StatsDroppedKeeps, StatsQueuedKeeps, NativeReturnKeeps, DropInBridgeKeeps,
     DeliverFreshKeeps
  DEF FreshNext
<1>2. FreshInv => FreshReads
  BY DEF FreshInv, FreshReads, StatsAccountForFrames, LoadedInv
<1> QED
  BY <1>1, <1>2, FreshInitInv, PTL DEF FreshSpec

-----------------------------------------------------------------------------
(* VideoFrames *)

\* The data of a frame that has any is as large as the picture needs.
FramesInv ==
  /\ vframe.width \in Int /\ vframe.height \in Int /\ vframe.size \in Int
  /\ vframe.type \in BufferTypes \cup {Unsupported}
  /\ vframe.size # 0 /\ HasBufferSize(vframe.width, vframe.height, vframe.type) =>
       vframe.size >= ComputeBufferSize(vframe.width, vframe.height, vframe.type)

LEMMA WordFacts == \A a \in Nat : a % Word \in Nat /\ a % Word <= a /\ (a < Word => a % Word = a)
  BY VideoFramesAssumption

LEMMA HalfFacts == ASSUME NEW a \in Int, a > 0 PROVE Half(a) \in Nat
  BY DEF Half

\* The offsets of up to four planes.
LEMMA Offsets ==
  ASSUME NEW n \in 1 .. 4, NEW p, DOMAIN p = 1 .. n, \A i \in 1 .. n : p[i].size \in Nat
  PROVE  LET planes == BackToBack(p) IN
         /\ DOMAIN planes = 1 .. n
         /\ \A i \in 1 .. n : planes[i].stride = p[i].stride
         /\ \A i \in 1 .. n : planes[i].size = p[i].size
         /\ planes[1].offset = 0
         /\ n >= 2 => planes[2].offset = p[1].size
         /\ n >= 3 => planes[3].offset = p[1].size + p[2].size
         /\ n = 4 => planes[4].offset = p[1].size + p[2].size + p[3].size
<1> DEFINE sizes == [i \in DOMAIN p |-> p[i].size]
           planes == BackToBack(p)
<1>1. /\ DOMAIN planes = 1 .. n
      /\ \A i \in 1 .. n : planes[i].stride = p[i].stride
      /\ \A i \in 1 .. n : planes[i].size = p[i].size
      /\ \A i \in 1 .. n : planes[i].offset = Offset(sizes, i)
  BY DEF BackToBack
<1>2. \A i \in 1 .. n : sizes[i] = p[i].size /\ sizes[i] \in Nat
  OBVIOUS
<1> HIDE DEF planes, sizes
<1>3. planes[1].offset = 0
  BY <1>1 DEF Offset
<1>4. n >= 2 => planes[2].offset = p[1].size
  BY <1>1, <1>2 DEF Offset
<1>5. n >= 3 => planes[3].offset = p[1].size + p[2].size
  BY <1>1, <1>2 DEF Offset
<1>6. n = 4 => planes[4].offset = p[1].size + p[2].size + p[3].size
  BY <1>1, <1>2 DEF Offset
<1> QED
  BY <1>1, <1>3, <1>4, <1>5, <1>6 DEF planes

\* Planes back to back do not overlap, and end together with the sum of their sizes.
LEMMA PlanesFill ==
  ASSUME NEW n \in 1 .. 4, NEW p, DOMAIN p = 1 .. n, \A i \in 1 .. n : p[i].size \in Nat
  PROVE  LET planes == BackToBack(p)
             total == p[1].size + (IF n >= 2 THEN p[2].size ELSE 0) + (IF n >= 3 THEN p[3].size ELSE 0)
                        + (IF n = 4 THEN p[4].size ELSE 0) IN
         /\ \A i \in 1 .. n : planes[i].offset + planes[i].size <= total
         /\ \A i, j \in 1 .. n : i < j => planes[i].offset + planes[i].size <= planes[j].offset
         /\ planes[n].offset + planes[n].size = total
         /\ total \in Nat
<1> DEFINE planes == BackToBack(p)
<1>1. /\ \A i \in 1 .. n : planes[i].size = p[i].size
      /\ planes[1].offset = 0
      /\ n >= 2 => planes[2].offset = p[1].size
      /\ n >= 3 => planes[3].offset = p[1].size + p[2].size
      /\ n = 4 => planes[4].offset = p[1].size + p[2].size + p[3].size
  BY Offsets
<1> HIDE DEF planes
<1>2. CASE n = 1
  BY <1>1, <1>2 DEF planes
<1>3. CASE n = 2
  <2>1. 1 .. n = {1, 2}
    BY <1>3
  <2> QED
    BY <1>1, <1>3, <2>1 DEF planes
<1>4. CASE n = 3
  <2>1. 1 .. n = {1, 2, 3}
    BY <1>4
  <2> QED
    BY <1>1, <1>4, <2>1 DEF planes
<1>5. CASE n = 4
  <2>1. 1 .. n = {1, 2, 3, 4}
    BY <1>5
  <2> QED
    BY <1>1, <1>5, <2>1 DEF planes
<1> QED
  BY <1>2, <1>3, <1>4, <1>5

\* The planes of a picture, and what computeBufferSize() makes of them.
LEMMA Shapes ==
  ASSUME NEW w \in Int, NEW h \in Int, NEW t \in BufferTypes, w > 0, h > 0
  PROVE  \E n \in 1 .. 4 :
           LET p == PlaneShapes(w, h, t)
               Bytes(i) == IF i <= n THEN p[i].bytes * p[i].rows ELSE 0 IN
           /\ Len(p) = n /\ DOMAIN p = 1 .. n
           /\ \A i \in 1 .. n : p[i].bytes \in Nat /\ p[i].rows \in Nat /\ p[i].bytes * p[i].rows \in Nat
           /\ ComputeBufferSize(w, h, t) = Bytes(1) + Bytes(2) + Bytes(3) + Bytes(4)
           /\ t = "RGBA" => p[1].bytes = w * 4
           /\ t = "RGB24" => p[1].bytes = w * 3
<1>1. PICK c \in Nat, d \in Nat : c = Half(w) /\ d = Half(h)
  BY HalfFacts
<1>2. /\ w \in Nat /\ h \in Nat /\ w * h \in Nat /\ c * d \in Nat /\ c * h \in Nat
      /\ w * 4 \in Nat /\ w * 3 \in Nat /\ w * 2 \in Nat /\ c * 2 \in Nat
  OBVIOUS
<1>3. /\ (w * 4) * h = w * h * 4 /\ (w * 3) * h = w * h * 3 /\ (w * 2) * h = w * h * 2
      /\ (c * 2) * d = c * d * 2
  OBVIOUS
<1>11. CASE t = "RGBA"
  BY <1>1, <1>2, <1>3, <1>11 DEF PlaneShapes, ComputeBufferSize
<1>12. CASE t = "RGB24"
  BY <1>1, <1>2, <1>3, <1>12 DEF PlaneShapes, ComputeBufferSize
<1>13. CASE t = "I420"
  BY <1>1, <1>2, <1>3, <1>13 DEF PlaneShapes, ComputeBufferSize
<1>14. CASE t = "I420A"
  BY <1>1, <1>2, <1>3, <1>14 DEF PlaneShapes, ComputeBufferSize
<1>15. CASE t = "I422"
  BY <1>1, <1>2, <1>3, <1>15 DEF PlaneShapes, ComputeBufferSize
<1>16. CASE t = "I444"
  BY <1>1, <1>2, <1>3, <1>16 DEF PlaneShapes, ComputeBufferSize
<1>17. CASE t = "I010"
  BY <1>1, <1>2, <1>3, <1>17 DEF PlaneShapes, ComputeBufferSize
<1>18. CASE t = "NV12"
  BY <1>1, <1>2, <1>3, <1>18 DEF PlaneShapes, ComputeBufferSize
<1> QED
  BY <1>11, <1>12, <1>13, <1>14, <1>15, <1>16, <1>17, <1>18 DEF BufferTypes, PackedTypes, PlanarTypes

\* What planeInfos() says of a picture: the planes lie one after the other within the bytes that computeBufferSize()
\* asks for, also where their own arithmetic wraps around, and fill them where it does not.
LEMMA PlanesOfPicture ==
  ASSUME NEW w \in Int, NEW h \in Int, NEW t \in BufferTypes, w > 0, h > 0
  PROVE  \E n \in 1 .. 4 :
           LET planes == ComputePlaneInfos(w, h, t)
               needed == ComputeBufferSize(w, h, t) IN
           /\ DOMAIN planes = 1 .. n /\ Len(planes) = n
           /\ \A i \in 1 .. n : planes[i].offset + planes[i].size \in Int
           /\ \A i \in 1 .. n : planes[i].offset + planes[i].size <= needed
           /\ \A i, j \in 1 .. n : i < j => planes[i].offset + planes[i].size <= planes[j].offset
           /\ needed < Word => planes[n].offset + planes[n].size = needed
           /\ needed \in Nat
           /\ t = "RGBA" => planes[1].stride = (w * 4) % Word
           /\ t = "RGB24" => planes[1].stride = (w * 3) % Word
<1> DEFINE s == PlaneShapes(w, h, t)
           p == [i \in DOMAIN s |-> [stride |-> s[i].bytes % Word, size |-> (s[i].bytes * s[i].rows) % Word]]
           planes == ComputePlaneInfos(w, h, t)
           needed == ComputeBufferSize(w, h, t)
           Bytes(n, i) == IF i <= n THEN s[i].bytes * s[i].rows ELSE 0
<1>1. PICK n \in 1 .. 4 :
        /\ DOMAIN s = 1 .. n
        /\ \A i \in 1 .. n : s[i].bytes \in Nat /\ s[i].rows \in Nat /\ s[i].bytes * s[i].rows \in Nat
        /\ needed = Bytes(n, 1) + Bytes(n, 2) + Bytes(n, 3) + Bytes(n, 4)
        /\ t = "RGBA" => s[1].bytes = w * 4
        /\ t = "RGB24" => s[1].bytes = w * 3
  BY Shapes
<1>2. planes = BackToBack(p)
  BY DEF ComputePlaneInfos
<1> HIDE DEF s, planes, needed
<1>3. DOMAIN p = 1 .. n
  BY <1>1
<1>4. \A i \in 1 .. n : p[i].size = (s[i].bytes * s[i].rows) % Word /\ p[i].stride = s[i].bytes % Word
  BY <1>1
<1> HIDE DEF p
<1>5. \A i \in 1 .. n : /\ p[i].size \in Nat
                        /\ p[i].size <= s[i].bytes * s[i].rows
                        /\ s[i].bytes * s[i].rows < Word => p[i].size = s[i].bytes * s[i].rows
  <2> SUFFICES ASSUME NEW i \in 1 .. n
               PROVE  /\ p[i].size \in Nat
                      /\ p[i].size <= s[i].bytes * s[i].rows
                      /\ s[i].bytes * s[i].rows < Word => p[i].size = s[i].bytes * s[i].rows
    OBVIOUS
  <2>1. PICK b \in Nat : b = s[i].bytes * s[i].rows
    BY <1>1
  <2> QED
    BY <1>4, <2>1, WordFacts
<1> DEFINE total == p[1].size + (IF n >= 2 THEN p[2].size ELSE 0) + (IF n >= 3 THEN p[3].size ELSE 0)
                      + (IF n = 4 THEN p[4].size ELSE 0)
<1>6. \A i \in 1 .. n : p[i].size \in Nat
  BY <1>5
<1>7. /\ DOMAIN planes = 1 .. n
      /\ \A i \in 1 .. n : planes[i].stride = p[i].stride
      /\ \A i \in 1 .. n : planes[i].size = p[i].size
      /\ planes[1].offset = 0
      /\ n >= 2 => planes[2].offset = p[1].size
      /\ n >= 3 => planes[3].offset = p[1].size + p[2].size
      /\ n = 4 => planes[4].offset = p[1].size + p[2].size + p[3].size
  BY <1>2, <1>3, <1>6, Offsets
<1>8. /\ \A i \in 1 .. n : planes[i].offset + planes[i].size <= total
      /\ \A i, j \in 1 .. n : i < j => planes[i].offset + planes[i].size <= planes[j].offset
      /\ planes[n].offset + planes[n].size = total
      /\ total \in Nat
  BY <1>2, <1>3, <1>6, PlanesFill
<1>9. \A i \in 1 .. n : planes[i].offset + planes[i].size \in Int
  <2> SUFFICES ASSUME NEW i \in 1 .. n PROVE planes[i].offset \in Int /\ planes[i].size \in Int
    OBVIOUS
  <2>1. i = 1 \/ i = 2 \/ i = 3 \/ i = 4
    OBVIOUS
  <2> QED
    BY <1>6, <1>7, <2>1
<1>10. /\ needed \in Nat /\ total <= needed
       /\ needed < Word => total = needed
  <2>1. \A i \in 1 .. 4 : Bytes(n, i) \in Nat
    <3> SUFFICES ASSUME NEW i \in 1 .. 4 PROVE Bytes(n, i) \in Nat
      OBVIOUS
    <3>1. CASE i <= n
      <4>1. Bytes(n, i) = s[i].bytes * s[i].rows
        BY <3>1
      <4>2. i \in 1 .. n
        BY <3>1
      <4> HIDE DEF Bytes
      <4> QED
        BY <1>1, <4>1, <4>2
    <3>2. CASE ~(i <= n)
      BY <3>2
    <3> QED
      BY <3>1, <3>2
  <2>2. \A i \in 1 .. n : Bytes(n, i) = s[i].bytes * s[i].rows
    OBVIOUS
  <2>3. \A i \in 1 .. 4 : i > n => Bytes(n, i) = 0
    OBVIOUS
  <2> HIDE DEF Bytes
  <2>4. \A i \in 1 .. n : p[i].size <= Bytes(n, i) /\ (Bytes(n, i) < Word => p[i].size = Bytes(n, i))
    BY <1>5, <2>2
  <2>5. Word \in Nat
    BY VideoFramesAssumption
  <2>6. needed \in Nat /\ \A i \in 1 .. 4 : Bytes(n, i) <= needed
    <3>1. /\ Bytes(n, 1) \in Nat /\ Bytes(n, 2) \in Nat /\ Bytes(n, 3) \in Nat /\ Bytes(n, 4) \in Nat
      BY <2>1
    <3> QED
      BY <1>1, <3>1
  <2>7. CASE n = 1
    BY <1>1, <1>6, <2>1, <2>3, <2>4, <2>5, <2>6, <2>7
  <2>8. CASE n = 2
    BY <1>1, <1>6, <2>1, <2>3, <2>4, <2>5, <2>6, <2>8
  <2>9. CASE n = 3
    BY <1>1, <1>6, <2>1, <2>3, <2>4, <2>5, <2>6, <2>9
  <2>10. CASE n = 4
    BY <1>1, <1>6, <2>1, <2>3, <2>4, <2>5, <2>6, <2>10
  <2> QED
    BY <2>7, <2>8, <2>9, <2>10
<1>11. \A i \in 1 .. n : planes[i].offset + planes[i].size <= needed
  BY <1>8, <1>9, <1>10
<1>12. Len(planes) = n
  BY <1>2, <1>7 DEF BackToBack
<1>13. /\ t = "RGBA" => planes[1].stride = (w * 4) % Word
       /\ t = "RGB24" => planes[1].stride = (w * 3) % Word
  BY <1>1, <1>4, <1>7
<1> HIDE DEF total
<1> QED
  BY <1>7, <1>8, <1>9, <1>10, <1>11, <1>12, <1>13 DEF planes, needed

\* Components that are packed with padding add up to some number of bytes.
LEMMA ComponentsHaveSize ==
  ASSUME NEW w \in Int, NEW h \in Int, NEW t \in BufferTypes, w > 0, h > 0, NEW padding \in Nat
  PROVE  LET shapes == PlaneShapes(w, h, t)
             planes == BackToBack([i \in DOMAIN shapes |-> [stride |-> shapes[i].bytes + padding,
                                                            size |-> (shapes[i].bytes + padding) * shapes[i].rows]])
             last == planes[Len(planes)] IN
         last.offset + last.size \in Int
<1> DEFINE s == PlaneShapes(w, h, t)
           p == [i \in DOMAIN s |-> [stride |-> s[i].bytes + padding, size |-> (s[i].bytes + padding) * s[i].rows]]
           planes == BackToBack(p)
<1>1. PICK n \in 1 .. 4 : /\ DOMAIN s = 1 .. n
                          /\ \A i \in 1 .. n : s[i].bytes \in Nat /\ s[i].rows \in Nat
  BY Shapes
<1> HIDE DEF s
<1>2. DOMAIN p = 1 .. n
  BY <1>1
<1>3. \A i \in 1 .. n : p[i].size = (s[i].bytes + padding) * s[i].rows
  BY <1>1
<1> HIDE DEF p
<1>4. \A i \in 1 .. n : p[i].size \in Nat
  <2> SUFFICES ASSUME NEW i \in 1 .. n PROVE p[i].size \in Nat
    OBVIOUS
  <2>1. PICK a \in Nat, b \in Nat : a = s[i].bytes + padding /\ b = s[i].rows
    BY <1>1
  <2>2. a * b \in Nat
    OBVIOUS
  <2> QED
    BY <1>3, <2>1, <2>2
<1> DEFINE total == p[1].size + (IF n >= 2 THEN p[2].size ELSE 0) + (IF n >= 3 THEN p[3].size ELSE 0)
                      + (IF n = 4 THEN p[4].size ELSE 0)
<1>5. planes[n].offset + planes[n].size = total /\ total \in Nat
  BY <1>2, <1>4, PlanesFill
<1>6. DOMAIN planes = 1 .. n
  BY <1>2, <1>4, Offsets
<1>7. Len(planes) = n
  BY <1>6 DEF BackToBack
<1> HIDE DEF total, planes
<1>8. planes[Len(planes)].offset + planes[Len(planes)].size \in Int
  BY <1>5, <1>7
<1> QED
  BY <1>8 DEF planes, p, s

LEMMA BufferSizeIsNat ==
  ASSUME NEW w \in Int, NEW h \in Int, NEW t \in BufferTypes, w > 0, h > 0
  PROVE  ComputeBufferSize(w, h, t) \in Nat
  BY PlanesOfPicture

\* Whatever a frame is made from, the constructor lets no buffer pass that is too small.
LEMMA VideoFrameKeeps ==
  ASSUME FramesInv, NEW w \in Int, NEW h \in Int, NEW t \in BufferTypes \cup {Unsupported}, NEW size \in Int, NEW planes,
         VideoFrame(w, h, t, size, planes)
  PROVE  FramesInv'
<1>1. CASE HasBufferSize(w, h, t) /\ size >= ComputeBufferSize(w, h, t)
  <2>1. /\ vframe'.width = w /\ vframe'.height = h /\ vframe'.type = t /\ vframe'.size = size
    BY <1>1 DEF VideoFrame
  <2> QED
    BY <1>1, <2>1 DEF FramesInv
<1>2. CASE ~(HasBufferSize(w, h, t) /\ size >= ComputeBufferSize(w, h, t))
  <2>1. vframe' = vframe
    BY <1>2 DEF VideoFrame
  <2> QED
    BY <2>1 DEF FramesInv
<1> QED
  BY <1>1, <1>2

LEMMA CreateFrameKeeps ==
  ASSUME FramesInv, NEW w \in Int, NEW h \in Int, NEW t \in BufferTypes \cup {Unsupported}, CreateFrame(w, h, t)
  PROVE  FramesInv'
<1>1. CASE HasBufferSize(w, h, t)
  <2>1. ComputeBufferSize(w, h, t) \in Int
    BY <1>1, BufferSizeIsNat DEF HasBufferSize
  <2> QED
    BY <1>1, <2>1, VideoFrameKeeps DEF CreateFrame, ConstructFrame
<1>2. CASE ~HasBufferSize(w, h, t)
  <2>1. vframe' = vframe
    BY <1>2 DEF CreateFrame
  <2> QED
    BY <2>1 DEF FramesInv
<1> QED
  BY <1>1, <1>2

LEMMA FramesStep ==
  ASSUME FramesInv, [FramesNext]_frameVars
  PROVE  FramesInv'
<1>1. ASSUME NEW w \in Widths, NEW h \in Heights, NEW t \in BufferTypes \cup {Unsupported}, CreateFrame(w, h, t)
      PROVE  FramesInv'
  BY <1>1, CreateFrameKeeps, VideoFramesAssumption
<1>2. ASSUME NEW w \in Widths, NEW h \in Heights, NEW t \in BufferTypes \cup {Unsupported}, NEW extra \in {-1, 1},
             HasBufferSize(w, h, t), ConstructFrame(w, h, t, ComputeBufferSize(w, h, t) + extra)
      PROVE  FramesInv'
  <2>1. w \in Int /\ h \in Int /\ extra \in Int
    BY VideoFramesAssumption
  <2>2. ComputeBufferSize(w, h, t) \in Int
    BY <1>2, <2>1, BufferSizeIsNat DEF HasBufferSize
  <2>3. ComputeBufferSize(w, h, t) + extra \in Int
    BY <2>1, <2>2
  <2> QED
    BY <1>2, <2>1, <2>3, VideoFrameKeeps DEF ConstructFrame
<1>3. ASSUME NEW w \in Widths, NEW h \in Heights, FromOwnedExternal(w, h)
      PROVE  FramesInv'
  <2>1. w \in Int /\ h \in Int
    BY VideoFramesAssumption
  <2>2. vframe'.width = w /\ vframe'.height = h /\ vframe'.type = Unsupported /\ vframe'.size = 0
    BY <1>3 DEF FromOwnedExternal, NoVideoFrame
  <2> QED
    BY <2>1, <2>2 DEF FramesInv
<1>4. ASSUME NEW w \in Widths, NEW h \in Heights, NEW t \in BufferTypes \cup {Unsupported}, NEW padding \in Paddings,
             FromOwnedComponents(w, h, t, padding)
      PROVE  FramesInv'
  <2>1. w \in Int /\ h \in Int /\ padding \in Nat
    BY VideoFramesAssumption
  <2>2. HasBufferSize(w, h, t)
    BY <1>4 DEF FromOwnedComponents
  <2>3. PICK size \in Int : \E planes : VideoFrame(w, h, t, size, planes)
    BY <1>4, <2>1, <2>2, ComponentsHaveSize DEF FromOwnedComponents, HasBufferSize
  <2>4. PICK planes : VideoFrame(w, h, t, size, planes)
    BY <2>3
  <2> QED
    BY <2>1, <2>4, VideoFrameKeeps
<1>5. ASSUME NEW w \in Widths, NEW h \in Heights, NEW t \in BufferTypes \cup {Unsupported}, NEW padding \in Paddings,
             NEW b \in BOOLEAN, FromOwnedPacked(w, h, t, padding, b)
      PROVE  FramesInv'
  <2> DEFINE row == PlaneShapes(w, h, t)[1].bytes + (IF b THEN padding ELSE 0)
  <2>1. w \in Int /\ h \in Int /\ padding \in Nat
    BY VideoFramesAssumption
  <2>2. HasBufferSize(w, h, t) /\ t \in BufferTypes
    BY <1>5 DEF FromOwnedPacked, HasBufferSize
  <2>3. PlaneShapes(w, h, t)[1].bytes \in Nat
    <3>1. w > 0 /\ h > 0
      BY <2>2 DEF HasBufferSize
    <3>2. PICK n \in 1 .. 4 : \A i \in 1 .. n : PlaneShapes(w, h, t)[i].bytes \in Nat
      BY <2>1, <2>2, <3>1, Shapes
    <3> QED
      BY <3>2
  <2>4. row \in Nat
    BY <2>1, <2>3
  <2>5. VideoFrame(w, h, t, IF b THEN row * h ELSE ComputeBufferSize(w, h, t),
                   <<[offset |-> 0, stride |-> row,
                      size |-> IF b THEN row * h ELSE ComputeBufferSize(w, h, t)]>>)
    BY <1>5 DEF FromOwnedPacked
  <2> HIDE DEF row
  <2>6. row * h \in Int
    BY <2>1, <2>4
  <2>7. ComputeBufferSize(w, h, t) \in Int
    BY <2>1, <2>2, BufferSizeIsNat DEF HasBufferSize
  <2>8. (IF b THEN row * h ELSE ComputeBufferSize(w, h, t)) \in Int
    BY <2>6, <2>7
  <2> QED
    BY <2>1, <2>5, <2>8, VideoFrameKeeps
<1>6. ASSUME NEW t \in BufferTypes, NEW flip \in BOOLEAN, NEW answer \in {"ok", "no_data", "error", "missing"},
             Convert(t, flip, answer)
      PROVE  FramesInv'
  <2>1. vframe.width \in Int /\ vframe.height \in Int /\ vframe.size \in Int
    BY DEF FramesInv
  <2>2. CASE t = vframe.type /\ ~flip
    BY <1>6, <2>1, <2>2, VideoFrameKeeps DEF Convert
  <2>3. CASE ~(t = vframe.type /\ ~flip)
    <3>1. ConvertViaFfi(t, answer)
      BY <1>6, <2>3 DEF Convert
    <3>2. vframe' = vframe \/ CreateFrame(vframe.width, vframe.height, t)
      BY <3>1 DEF ConvertViaFfi, FromOwnedProto
    <3>3. CASE vframe' = vframe
      BY <3>3 DEF FramesInv
    <3>4. CASE CreateFrame(vframe.width, vframe.height, t)
      BY <3>4, <2>1, CreateFrameKeeps
    <3> QED
      BY <3>2, <3>3, <3>4
  <2> QED
    BY <2>2, <2>3
<1>7. CASE UNCHANGED frameVars
  <2>1. vframe' = vframe
    BY <1>7 DEF frameVars
  <2> QED
    BY <2>1 DEF FramesInv
<1> QED
  BY <1>1, <1>2, <1>3, <1>4, <1>5, <1>6, <1>7 DEF FramesNext

\* A buffer that is large enough holds what planeInfos() describes.
LEMMA PlanesWithinData ==
  ASSUME FramesInv
  PROVE  PlanesInBuffer
<1> DEFINE w == vframe.width
           h == vframe.height
           t == vframe.type
           planes == PlaneInfos(vframe)
<1>1. CASE vframe.size = 0 \/ ~HasBufferSize(w, h, t)
  <2>1. ToProto(vframe).components = <<>>
    BY <1>1 DEF ToProto, PlaneInfos
  <2>2. DOMAIN <<>> = {}
    OBVIOUS
  <2> QED
    BY <2>1, <2>2 DEF PlanesInBuffer
<1>2. CASE ~(vframe.size = 0 \/ ~HasBufferSize(w, h, t))
  <2>1. /\ w \in Int /\ h \in Int /\ t \in BufferTypes /\ w > 0 /\ h > 0
        /\ vframe.size \in Int /\ vframe.size >= ComputeBufferSize(w, h, t)
    BY <1>2 DEF FramesInv, HasBufferSize
  <2>2. ToProto(vframe).components = ComputePlaneInfos(w, h, t)
    BY <1>2 DEF ToProto, PlaneInfos
  <2>3. /\ t = "RGBA" => ToProto(vframe).stride = (w * 4) % Word
        /\ t = "RGB24" => ToProto(vframe).stride = (w * 3) % Word
    BY DEF ToProto
  <2> DEFINE c == ToProto(vframe).components
             needed == ComputeBufferSize(w, h, t)
  <2>4. PICK n \in 1 .. 4 :
          /\ DOMAIN c = 1 .. n /\ Len(c) = n
          /\ \A i \in 1 .. n : c[i].offset + c[i].size \in Int
          /\ \A i \in 1 .. n : c[i].offset + c[i].size <= needed
          /\ \A i, j \in 1 .. n : i < j => c[i].offset + c[i].size <= c[j].offset
          /\ needed < Word => c[n].offset + c[n].size = needed
          /\ needed \in Nat
          /\ t = "RGBA" => c[1].stride = (w * 4) % Word
          /\ t = "RGB24" => c[1].stride = (w * 3) % Word
    BY <2>1, <2>2, PlanesOfPicture
  <2> HIDE DEF c, needed, w, h, t
  <2>5. c # <<>>
    <3>1. 1 \in DOMAIN c
      BY <2>4
    <3> QED
      BY <3>1
  <2>6. \A i \in DOMAIN c : c[i].offset + c[i].size <= vframe.size
    BY <2>1, <2>4 DEF needed
  <2>7. \A i, j \in DOMAIN c : i < j => c[i].offset + c[i].size <= c[j].offset
    BY <2>4
  <2>8. t \in PackedTypes => ToProto(vframe).stride = c[1].stride
    BY <2>3, <2>4 DEF PackedTypes
  <2>9. needed < Word => c[Len(c)].offset + c[Len(c)].size = needed
    BY <2>4
  <2> QED
    BY <2>5, <2>6, <2>7, <2>8, <2>9, Zenon DEF PlanesInBuffer, c, needed, w, h, t
<1> QED
  BY <1>1, <1>2

\* Whatever frame is created, received or converted, planeInfos() and toProto() describe planes that follow one another
\* within the frame's data, for every width, height and padding, and however wide uint32_t is.
THEOREM PlanesFit == FramesSpec => []PlanesInBuffer
<1>1. FramesInit => FramesInv
  <2> SUFFICES ASSUME FramesInit PROVE FramesInv
    OBVIOUS
  <2>1. vframe.width = 0 /\ vframe.height = 0 /\ vframe.size = 0 /\ vframe.type = "RGBA"
    BY DEF FramesInit, NoVideoFrame
  <2> QED
    BY <2>1 DEF FramesInv, BufferTypes, PackedTypes
<1>2. FramesInv /\ [FramesNext]_frameVars => FramesInv'
  BY FramesStep
<1>3. FramesInv => PlanesInBuffer
  BY PlanesWithinData
<1> QED
  BY <1>1, <1>2, <1>3, PTL DEF FramesSpec

=============================================================================
