-------------------- MODULE SubscriptionThreadDispatcher --------------------
(***************************************************************************)
(* livekit::SubscriptionThreadDispatcher                                   *)
(* (src/src/subscription_thread_dispatcher.cpp): the registry of frame     *)
(* callbacks of a Room and the owner of the threads that read the streams  *)
(* of subscribed tracks and run those callbacks.                           *)
(*                                                                         *)
(* Every method works under lock_, hands the threads it has taken out of   *)
(* the maps to its caller's stack and joins them after the unlock.  A      *)
(* method is therefore one step for its locked region, after which its     *)
(* caller is joining, and one step per joined thread.  A reader thread     *)
(* subscribes (data tracks only), attaches its stream where the methods    *)
(* can close it, and then reads frames until the stream ends or is closed. *)
(***************************************************************************)
EXTENDS Integers, FiniteSets

CONSTANTS
  Callers,            \* the threads that call the dispatcher (application, FFI events)
  Keys,               \* the (participant_identity, track_name) pairs
  DataIds,            \* the values of DataFrameCallbackId
  Sids,               \* the sids of remote data tracks
  Kinds,              \* the kinds of the other tracks: "audio", "video"
  kMaxActiveReaders,
  MaxStarts           \* bound on the readers ever started per key or callback id

\* What a reader is started for: a key (audio, video) or a data callback's id.
Slots == Keys \cup DataIds

\* The reader threads; n counts the readers started for the same slot.
Readers == Slots \X (1 .. MaxStarts)

ASSUME CallersAssumption == IsFiniteSet(Callers)

ASSUME SlotsAssumption ==
  /\ IsFiniteSet(Keys) /\ IsFiniteSet(Sids)
  /\ DataIds = 0 .. Cardinality(DataIds) - 1
  /\ Keys \cap DataIds = {}
  /\ Kinds \subseteq {"audio", "video"}
  /\ Sids \cap {"audio", "video"} = {}

ASSUME LimitsAssumption == kMaxActiveReaders \in Nat \ {0} /\ MaxStarts \in Nat

VARIABLES
  audio_callbacks,        \* the keys of audio_callbacks_
  video_callbacks,        \* the keys of video_callbacks_
  next_data_callback_id,
  data_callbacks,         \* the ids in data_callbacks_
  data_key,               \* per id, the key it is registered for
  remote_data_tracks,     \* the sids in remote_data_tracks_
  track_key,              \* per sid, the key of the track
  active_readers,         \* the readers in active_readers_
  active_data_readers,    \* the readers in active_data_readers_
  starts,                 \* per slot, the readers started so far
  pc,                     \* per reader, where its thread is
  reads,                  \* per reader, the kind of track or the data track it reads
  attached,               \* the readers whose stream the methods can reach
  closed,                 \* the readers whose stream is closed, or has no reader any more
  joining,                \* per caller, the threads it still has to join
  unwound,                \* the readers whose joinable std::thread an exception has destroyed
  limit_hit,              \* history: a reader was refused because of the limit
  stopped                 \* history: stopAll() has run and nothing was registered since

registryVars == <<audio_callbacks, video_callbacks, next_data_callback_id, data_callbacks, data_key,
                  remote_data_tracks, track_key>>
readerVars == <<active_readers, active_data_readers, starts, pc, reads, attached, closed>>
historyVars == <<limit_hit, stopped>>

vars == <<registryVars, readerVars, joining, unwound, historyVars>>

Init ==
  /\ audio_callbacks = {} /\ video_callbacks = {}
  /\ next_data_callback_id = 0
  /\ data_callbacks = {}
  /\ data_key \in [DataIds -> Keys]
  /\ remote_data_tracks = {}
  /\ track_key \in [Sids -> Keys]
  /\ active_readers = {} /\ active_data_readers = {}
  /\ starts = [s \in Slots |-> 0]
  /\ pc = [r \in Readers |-> "unborn"]
  /\ reads = [r \in Readers |-> "audio"]
  /\ attached = {} /\ closed = {}
  /\ joining = [t \in Callers |-> {}]
  /\ unwound = {}
  /\ limit_hit = FALSE
  /\ stopped = FALSE

-----------------------------------------------------------------------------
\* The destructor of a joinable std::thread ends the process.
std_terminate == unwound # {}

MayCall(t) == ~std_terminate /\ joining[t] = {}

Of(readers, slots) == {r \in readers : r[1] \in slots}

\* Mutants of Extract: the threads are not handed over to be joined; the streams of the
\* readers are not closed.
ExtractForgets(t, old) ==
  /\ closed' = closed \cup (old \cap attached)
  /\ UNCHANGED joining

ExtractLeavesOpen(t, old) ==
  /\ joining' = [joining EXCEPT ![t] = old]
  /\ UNCHANGED closed

\* extractReaderThreadLocked, extractDataReaderThreadLocked: the streams of the readers taken
\* out of the maps are closed, those that are there to be closed, and caller t is left with
\* the threads.
Extract(t, old) ==
  /\ closed' = closed \cup (old \cap attached)
  /\ joining' = [joining EXCEPT ![t] = old]

\* The threads created for the given slots.  An audio or video reader gets its stream before
\* its thread; a data reader makes its own.
Created(slots) == {<<s, starts[s] + 1>> : s \in slots}

StartThreads(new, first, what) ==
  /\ starts' = [s \in Slots |-> IF \E r \in new : r[1] = s THEN starts[s] + 1 ELSE starts[s]]
  /\ pc' = [r \in Readers |-> IF r \in new THEN first ELSE pc[r]]
  /\ reads' = [r \in Readers |-> IF r \in new THEN what ELSE reads[r]]

NoThreads == UNCHANGED <<starts, pc, reads>>

-----------------------------------------------------------------------------
(* Audio and video callbacks *)

SetOnAudioFrameCallback(t, k) ==
  /\ MayCall(t)
  /\ "audio" \in Kinds
  /\ audio_callbacks' = audio_callbacks \cup {k}
  /\ stopped' = FALSE
  /\ UNCHANGED <<video_callbacks, next_data_callback_id, data_callbacks, data_key, remote_data_tracks, track_key,
                 readerVars, joining, unwound, limit_hit>>

\* setOnVideoFrameCallback and setOnVideoFrameEventCallback write the same map.
SetOnVideoFrameCallback(t, k) ==
  /\ MayCall(t)
  /\ "video" \in Kinds
  /\ video_callbacks' = video_callbacks \cup {k}
  /\ stopped' = FALSE
  /\ UNCHANGED <<audio_callbacks, next_data_callback_id, data_callbacks, data_key, remote_data_tracks, track_key,
                 readerVars, joining, unwound, limit_hit>>

\* The readers of both kinds share active_readers_: clearing one kind stops the key's reader
\* whatever it reads.
StopReader(t, k) ==
  /\ MayCall(t)
  /\ active_readers' = active_readers \ Of(active_readers, {k})
  /\ Extract(t, Of(active_readers, {k}))
  /\ NoThreads
  /\ UNCHANGED <<next_data_callback_id, data_callbacks, data_key, remote_data_tracks, track_key, active_data_readers,
                 attached, unwound, historyVars>>

ClearOnAudioFrameCallback(t, k) ==
  /\ StopReader(t, k)
  /\ audio_callbacks' = audio_callbacks \ {k}
  /\ UNCHANGED video_callbacks

ClearOnVideoFrameCallback(t, k) ==
  /\ StopReader(t, k)
  /\ video_callbacks' = video_callbacks \ {k}
  /\ UNCHANGED audio_callbacks

HandleTrackUnsubscribed(t, k) ==
  /\ StopReader(t, k)
  /\ UNCHANGED <<audio_callbacks, video_callbacks>>

\* startReaderLocked: without a callback for the track's kind (or with an unknown kind) the
\* subscription changes nothing, an earlier reader of the key included.
HasCallback(k, kind) == k \in (IF kind = "audio" THEN audio_callbacks ELSE video_callbacks)

LimitReached(old) == Cardinality(active_readers \ old) >= kMaxActiveReaders

\* startAudioReaderLocked and startVideoReaderLocked: the old reader is replaced ...
HandleTrackSubscribedStart(t, k, kind) ==
  LET old == Of(active_readers, {k})
      new == Created({k})
  IN
  /\ MayCall(t)
  /\ HasCallback(k, kind)
  /\ ~LimitReached(old)
  /\ starts[k] < MaxStarts
  /\ active_readers' = (active_readers \ old) \cup new
  /\ attached' = attached \cup new
  /\ Extract(t, old)
  /\ StartThreads(new, "read", kind)
  /\ UNCHANGED <<registryVars, active_data_readers, unwound, historyVars>>

\* ... or only stopped, because of the limit.
HandleTrackSubscribedRefused(t, k, kind) ==
  LET old == Of(active_readers, {k}) IN
  /\ MayCall(t)
  /\ HasCallback(k, kind)
  /\ LimitReached(old)
  /\ active_readers' = active_readers \ old
  /\ Extract(t, old)
  /\ limit_hit' = TRUE
  /\ NoThreads
  /\ UNCHANGED <<registryVars, active_data_readers, attached, unwound, stopped>>

\* The creation of the stream throws (sendRequest() does, when the client is not initialized
\* or the request fails).  The old reader's std::thread is then a local of a frame that is
\* unwound: if there is one, its destructor ends the process.
HandleTrackSubscribedThrows(t, k, kind) ==
  LET old == Of(active_readers, {k}) IN
  /\ MayCall(t)
  /\ HasCallback(k, kind)
  /\ ~LimitReached(old)
  /\ old # {}
  /\ active_readers' = active_readers \ old
  /\ closed' = closed \cup old
  /\ unwound' = old
  /\ NoThreads
  /\ UNCHANGED <<registryVars, active_data_readers, attached, joining, historyVars>>

-----------------------------------------------------------------------------
(* Data callbacks *)

\* startDataReaderLocked for the callbacks ids, one after the other in the order of an
\* unordered_map: each first gives up its old reader and starts a new one if the audio, video
\* and data readers of that moment are fewer than the limit.  Of the callbacks that do not
\* all find room, those are served that come first.
Served(ids) ==
  LET old == {i \in ids : Of(active_data_readers, {i}) # {}}
      room == kMaxActiveReaders - (Cardinality(active_readers) + Cardinality(active_data_readers) - Cardinality(old))
  IN
  { S \in SUBSET ids :
      /\ S \subseteq old \/ old \subseteq S
      /\ Cardinality(S) = IF room < 0 THEN 0 ELSE IF room > Cardinality(ids) THEN Cardinality(ids) ELSE room }

StartDataReaders(t, ids, sid, S) ==
  LET old == Of(active_data_readers, ids)
      new == Created(S)
  IN
  /\ \A i \in S : starts[i] < MaxStarts
  /\ active_data_readers' = (active_data_readers \ old) \cup new
  /\ Extract(t, old)
  /\ StartThreads(new, "subscribe", sid)
  /\ limit_hit' = (limit_hit \/ S # ids)
  /\ UNCHANGED <<active_readers, attached, unwound>>

Register(t) ==
  /\ MayCall(t)
  /\ next_data_callback_id \in DataIds
  /\ data_callbacks' = data_callbacks \cup {next_data_callback_id}
  /\ next_data_callback_id' = next_data_callback_id + 1
  /\ stopped' = FALSE
  /\ UNCHANGED <<audio_callbacks, video_callbacks, data_key, remote_data_tracks, track_key>>

AddOnDataFrameCallback(t) ==
  /\ Register(t)
  /\ \A sid \in remote_data_tracks : track_key[sid] # data_key[next_data_callback_id]
  /\ UNCHANGED <<readerVars, joining, unwound, limit_hit>>

AddOnDataFrameCallbackStart(t, sid) ==
  /\ Register(t)
  /\ sid \in remote_data_tracks
  /\ track_key[sid] = data_key[next_data_callback_id]
  /\ \E S \in Served({next_data_callback_id}) : StartDataReaders(t, {next_data_callback_id}, sid, S)

\* Any id that has been handed out may be given; one that is not registered any more has no
\* reader either.
RemoveOnDataFrameCallback(t, id) ==
  /\ MayCall(t)
  /\ id < next_data_callback_id
  /\ data_callbacks' = data_callbacks \ {id}
  /\ active_data_readers' = active_data_readers \ Of(active_data_readers, {id})
  /\ Extract(t, Of(active_data_readers, {id}))
  /\ NoThreads
  /\ UNCHANGED <<audio_callbacks, video_callbacks, next_data_callback_id, data_key, remote_data_tracks, track_key,
                 active_readers, attached, unwound, historyVars>>

HandleDataTrackPublished(t, sid) ==
  LET ids == {i \in data_callbacks : data_key[i] = track_key[sid]} IN
  /\ MayCall(t)
  /\ remote_data_tracks' = {s \in remote_data_tracks : track_key[s] # track_key[sid]} \cup {sid}
  /\ \E S \in Served(ids) : StartDataReaders(t, ids, sid, S)
  /\ UNCHANGED <<audio_callbacks, video_callbacks, next_data_callback_id, data_callbacks, data_key, track_key, stopped>>

\* Mutant of HandleDataTrackUnpublished: the track is forgotten, its readers are not stopped.
DataTrackUnpublishedKept(t, sid) ==
  /\ MayCall(t)
  /\ remote_data_tracks' = remote_data_tracks \ {sid}
  /\ UNCHANGED <<audio_callbacks, video_callbacks, next_data_callback_id, data_callbacks, data_key, track_key,
                 readerVars, joining, unwound, historyVars>>

HandleDataTrackUnpublished(t, sid) ==
  LET old == {r \in active_data_readers : reads[r] = sid} IN
  /\ MayCall(t)
  /\ active_data_readers' = active_data_readers \ old
  /\ Extract(t, old)
  /\ remote_data_tracks' = remote_data_tracks \ {sid}
  /\ NoThreads
  /\ UNCHANGED <<audio_callbacks, video_callbacks, next_data_callback_id, data_callbacks, data_key, track_key,
                 active_readers, attached, unwound, historyVars>>

\* Mutant of StopAll: the readers are stopped, the callbacks stay registered.
StopAllKeepsCallbacks(t) ==
  /\ MayCall(t)
  /\ Extract(t, active_readers \cup active_data_readers)
  /\ active_readers' = {} /\ active_data_readers' = {}
  /\ stopped' = TRUE
  /\ NoThreads
  /\ UNCHANGED <<registryVars, attached, unwound, limit_hit>>

StopAll(t) ==
  /\ MayCall(t)
  /\ Extract(t, active_readers \cup active_data_readers)
  /\ active_readers' = {} /\ active_data_readers' = {}
  /\ audio_callbacks' = {} /\ video_callbacks' = {} /\ data_callbacks' = {}
  /\ remote_data_tracks' = {}
  /\ stopped' = TRUE
  /\ NoThreads
  /\ UNCHANGED <<next_data_callback_id, data_key, track_key, attached, unwound, limit_hit>>

\* The joins after the unlock.
Join(t, r) ==
  /\ ~std_terminate
  /\ r \in joining[t]
  /\ pc[r] = "exited"
  /\ joining' = [joining EXCEPT ![t] = @ \ {r}]
  /\ UNCHANGED <<registryVars, readerVars, unwound, historyVars>>

-----------------------------------------------------------------------------
(* The threads of the readers *)

Move(r, from, to) ==
  /\ ~std_terminate
  /\ pc[r] = from
  /\ pc' = [pc EXCEPT ![r] = to]
  /\ UNCHANGED <<registryVars, active_readers, active_data_readers, starts, reads, joining, unwound,
                 historyVars>>

\* RemoteDataTrack::subscribe, which waits for an answer of Rust.
Subscribe(r) == Move(r, "subscribe", "attach") /\ UNCHANGED <<attached, closed>>
SubscribeFails(r) == Move(r, "subscribe", "exited") /\ UNCHANGED <<attached, closed>>

\* reader->stream = stream, under sub_mutex.
Attach(r) == Move(r, "attach", "read") /\ attached' = attached \cup {r} /\ UNCHANGED closed

\* stream->read(): a frame, the end of a closed stream, or the end Rust gives a stream.
ReadFrame(r) == r \notin closed /\ Move(r, "read", "callback") /\ UNCHANGED <<attached, closed>>
ReadClosed(r) == r \in closed /\ Move(r, "read", "exited") /\ UNCHANGED <<attached, closed>>
ReadEos(r) == r \notin closed /\ Move(r, "read", "exited") /\ closed' = closed \cup {r} /\ UNCHANGED attached

\* The callback returns, or throws and is caught.
CallbackReturns(r) == Move(r, "callback", "read") /\ UNCHANGED <<attached, closed>>

-----------------------------------------------------------------------------
\* The calls about audio and video tracks, and the ones about data tracks.
MediaStep(t) ==
  \E k \in Keys :
       \/ SetOnAudioFrameCallback(t, k) \/ SetOnVideoFrameCallback(t, k)
       \/ ClearOnAudioFrameCallback(t, k) \/ ClearOnVideoFrameCallback(t, k)
       \/ HandleTrackUnsubscribed(t, k)
       \/ \E kind \in Kinds :
            \/ HandleTrackSubscribedStart(t, k, kind)
            \/ HandleTrackSubscribedRefused(t, k, kind)
            \/ HandleTrackSubscribedThrows(t, k, kind)

DataStep(t) ==
  \/ AddOnDataFrameCallback(t)
  \/ \E sid \in Sids :
       \/ AddOnDataFrameCallbackStart(t, sid)
       \/ HandleDataTrackPublished(t, sid) \/ HandleDataTrackUnpublished(t, sid)
  \/ \E id \in DataIds : RemoveOnDataFrameCallback(t, id)

CallerStep(t) == MediaStep(t) \/ DataStep(t) \/ StopAll(t)

\* What a reader does by itself: everything but to wait for a frame or for the end of the
\* stream.
ReaderStep(r) ==
  Subscribe(r) \/ SubscribeFails(r) \/ Attach(r) \/ ReadClosed(r) \/ CallbackReturns(r)

JoinStep(t) == \E r \in Readers : Join(t, r)

Next ==
  \/ \E t \in Callers : CallerStep(t) \/ JoinStep(t)
  \/ \E r \in Readers : ReaderStep(r) \/ ReadFrame(r) \/ ReadEos(r)

\* Rust ends the stream of a data track that is not published any more.
UnpublishedEos(r) == reads[r] \in Sids \ remote_data_tracks /\ ReadEos(r)

(***************************************************************************)
(* Fairness.  Threads are scheduled, callbacks return, Rust answers a      *)
(* subscription and ends the stream of a track that has been unpublished.  *)
(* Nobody promises that a frame, or the end of another stream, ever comes. *)
(***************************************************************************)
Fairness ==
  /\ \A t \in Callers : WF_vars(JoinStep(t))
  /\ \A r \in Readers : WF_vars(ReaderStep(r))
  /\ \A r \in DataIds \X (1 .. MaxStarts) : SF_vars(UnpublishedEos(r))

Safe == Init /\ [][Next]_vars
Spec == Safe /\ Fairness

-----------------------------------------------------------------------------
(***************************************************************************)
(* Properties                                                              *)
(***************************************************************************)
Running(r) == pc[r] \notin {"unborn", "exited"}

Active == active_readers \cup active_data_readers

\* No reader thread is owned twice, whatever the methods of several threads do to the maps: a
\* running one is either in a map or being joined, by one caller, and a key or callback has
\* one reader at most.  One case is excepted, and it is the only one in which a thread is lost: the
\* reader that was being replaced when the creation of the new stream threw.  Its thread, which
\* should have been joined, is destroyed as the exception leaves the method: the process terminates.
ReaderOwnedOnce ==
  /\ \A r \in Readers : Running(r) => r \in Active \/ r \in unwound \/ \E t \in Callers : r \in joining[t]
  /\ \A r, q \in Active : r[1] = q[1] => r = q
  /\ \A t \in Callers : joining[t] \cap Active = {}
  /\ \A t, u \in Callers : t # u => joining[t] \cap joining[u] = {}
  /\ unwound \cap Active = {} /\ \A t \in Callers : unwound \cap joining[t] = {}
  /\ \A r, q \in unwound : r = q

\* A reader in the maps serves a callback that is registered for its track and, for data, the
\* track that is published now under the callback's key, also after a republication and a
\* late unpublication of the earlier track; and every data callback whose track is published has
\* a reader for it, in whichever order callback and track came ("auto-wired when the track
\* appears"), unless the limit on readers was met.
ReadersServeCallbacks ==
  /\ \A r \in active_readers : HasCallback(r[1], reads[r])
  /\ \A r \in active_data_readers :
       /\ r[1] \in data_callbacks
       /\ reads[r] \in remote_data_tracks
       /\ track_key[reads[r]] = data_key[r[1]]
  /\ ~limit_hit =>
       \A i \in data_callbacks, sid \in remote_data_tracks :
         track_key[sid] = data_key[i] => \E r \in active_data_readers : r[1] = i /\ reads[r] = sid

\* After stopAll(), and until a callback is registered again, subscriptions and publications
\* start no reader: every thread that still runs is being joined.
StopAllQuiescent ==
  stopped => \A r \in Readers : Running(r) => \E t \in Callers : r \in joining[t]

\* Every method returns: the threads it joins exit.  ("Stops and joins the active reader
\* thread for this subscription.")
CallsReturn == \A t \in Callers : joining[t] # {} ~> joining[t] = {} \/ std_terminate

\* A method that joins readers of audio and video only does return: their streams exist before their
\* threads, and are closed before the threads are joined.
MediaCallsReturn ==
  \A t \in Callers :
    joining[t] # {} /\ joining[t] \subseteq Keys \X (1 .. MaxStarts) ~> joining[t] = {} \/ std_terminate
=============================================================================
