# Verification of the LiveKit C++ client SDK

The SDK (`src/`) is a C++ layer over the LiveKit Rust library, which it reaches through a C interface: requests
go down as protobuf messages, and answers and events come back on threads of the Rust runtime, which call one
callback. Nearly everything that can go wrong in the C++ code comes from there: application threads, Rust
threads and the SDK's own reader threads share maps, promises, queues and raw pointers, and every object may be
closed or destroyed while an event for it is under way. This directory models that layer in TLA+, checks it with
TLC on small instances and, with TLAPS, proves nearly all of the safety properties for instances of any size.

## 1. Inventory

| Part | State | Operations | Interacts with |
|---|---|---|---|
| `FfiClient` (`ffi_client.cpp`) | lifecycle state, listeners with their running callbacks, pending operations by id | initialize, shutdown, add/removeListener, 17 asynchronous methods, sendRequest, pushEvent | Rust; everybody below is a listener or a caller |
| `Room`: lifecycle (`room.cpp`) | connection state, room handle, listener id, local participant | connect, disconnect, destructor; kDisconnected, EOS, RPC invocations | FfiClient, delegate, dispatcher |
| `Room`: participants and tracks | remote participants, their publications, tracks, mute states, room info | the event handlers of `onEvent()` | delegate (raw pointers), dispatcher |
| Data streams (`data_stream.cpp`, `room.cpp`) | writer: closed, header sent, next index; Room: handlers and readers; reader: queue, closed | write, close; header, chunk and trailer events; readNext, readAll; register/unregister handlers | FfiClient, application threads |
| `SubscriptionThreadDispatcher` | callbacks by key or id, active readers, published data tracks | set/clear/add/remove callbacks, track (un)subscribed, data track (un)published, stopAll; reader threads | Room, streams, application callbacks |
| `AudioStream`, `VideoStream` | bounded queue, eof, closed, handle, listener | creation, move, read, close, frame and EOS events | FfiClient |
| `DataTrackStream` | one-frame slot, eof, closed, terminal error, handle | creation, read (asks for one frame), close, frame and EOS events | FfiClient |
| `LocalParticipant`: RPC | handlers by method, count of invocations under way, shutdown flag | register, unregister, invocations, shutdown with a timeout | Room, Rust threads, application handlers |
| `LocalParticipant`: tracks | weak references by sid, publication of each track, mute states | publish, unpublish, mute, unmute, trackPublications; the local track events | Room, FfiClient |
| Token sources (`token_source*.cpp`) | cached response with its options, mutex | fetch, invalidate, cachedResponse; HTTP answer, timeout | the token server |
| Event tracer (`trace/`) | enabled categories, queue, writer thread, file, pointers cached by call sites | start, stop, trace macro; writer loop | all threads |
| `AudioSource` | estimate of queued time, time of the last capture | captureFrame, queuedDuration, clearQueue | FfiClient |
| `FreshAudioStream` and its native queue (`patches/client-sdk-rust`) | queue, sequence numbers, counters | push by the decoding thread, tryRead and stats by the owner | WebRTC, Rust |
| `RemoteTrackPublication`, `E2EEManager` | subscribed, enabled, quality, dimensions; enabled | the setters | Room, Rust |
| Owners of FFI handles (`ffi_handle.cpp` and what uses it) | a handle of their own, a shared one | construction, move, destruction, requests that name the handle | Rust |
| Video frames (`video_frame.cpp`, `video_utils.cpp`) | type, size, buffer, layout of planes | create, fromOwnedInfo, planeInfos, toProto, convert | streams, sources |
| Converters, statistics, errors, schemas, logging, `RealtimeAudioProcessing` | values | conversions, forwarding | not modelled, section 7 |

What is hard in them:

* **Handshakes between threads.** `removeListener()` must not return while another thread is in the listener,
  but must not wait for its own thread; `shutdown()` does the same for all listeners and satisfies the promises
  that nobody will answer any more; `stopAll()` and its relatives take threads out under a lock and join them
  outside it; `LocalParticipant::shutdown()` waits for the invocations of RPC handlers, for a limited time.
* **State read under a lock and used after it.** `Room::onEvent()` releases `lock_` before every delegate call and
  hands out raw pointers; `disconnect()` may empty the room at that moment. A data reader attaches its stream long
  after it was started. A trace macro keeps for ever the pointer it got first.
* **Answers and events of the same change on two threads.** `publishTrack()` waits for its answer and only then stores
  the publication, which the event of the same publication looks up; the setters of a remote publication assign
  after their request, while the Room handles the event that the request has caused.
* **Several ends.** A session ends by disconnect, server disconnect, EOS or destruction, a stream by EOS, a failed
  request, a protocol error or close; each pair may overlap, and the end must be reported once.
* **Failure.** A request fails after its operation was registered, or after half of an object has been built; a stream cannot
  be created after the old reader was taken out; a delegate throws between the change of a map and the call of the
  dispatcher; one send of a data stream fails; a token server is silent or answers nonsense.
* **Limits and numbers.** `kMaxActiveReaders`, the capacity of media queues, the single slot of a data track stream,
  `kStreamChunkSize`, ages of audio on two sides of a call, strides and sizes of 32 bits for buffers of 64, frames
  with odd sizes.

The properties of section 4 are about these; `hazards` in `PROJECT.json` lists each at its line with the
properties that would catch it going wrong, or the reason why none does.

## 2. Modules

| Module | Models | Extends / uses |
|---|---|---|
| `FfiAsyncApi` | the asynchronous methods and the answers `ExtractAsyncId()` knows | |
| `FfiClient` | the client | `FfiAsyncApi`; instance of `AsyncOperations` |
| `AsyncOperations` | abstract specification: an operation starts once and is satisfied once | |
| `FfiClientProofs` | theorems about `FfiClient` | `FfiClient`, TLAPS |
| `Room` | lifecycle of a room over several sessions | |
| `RoomEvents` | the steps in which `onEvent()` handles any other event, and those of a concurrent `disconnect()` | |
| `RoomParticipants` | participants, publications, tracks, room info, delegate, dispatcher calls | `RoomEvents` |
| `DataStreamWriter` | writers of data streams and the wire | |
| `RoomDataStreams` | composition: writer, wire, the Room's handlers, readers | `RoomEvents`, `DataStreamWriter` |
| `SubscriptionThreadDispatcher` | the dispatcher and its reader threads | |
| `MediaStream` | `AudioStream` and `VideoStream`, which have the same structure | |
| `DataTrackStream` | the stream of a data track | |
| `LocalRpc` | RPC handlers of the local participant and its `shutdown()` | |
| `LocalTracks` | the local participant's tracks, with the Room's events about them | |
| `TokenSource` | `CachingTokenSource` over `EndpointTokenSource` | |
| `EventTracer` | the tracer and its macros | |
| `AudioSource` | the time accounting of captures | |
| `FreshAudioStream` | reading audio no older than asked for, with the native queue behind it | |
| `RemoteSettings` | a remote publication's settings and the E2EE switch, against Rust's | |
| `FfiObjects` | `FfiHandle` and the objects that own or share handles | |
| `VideoFrames` | sizes and layouts of video frames | |
| `RoomProofs` | theorems about `Room` | `Room`, TLAPS |
| `RoomParticipantsProofs` | theorems about `RoomParticipants` | `RoomParticipants`, TLAPS |
| `DataStreamsProofs` | theorems about data streams, from the writer to the reader | `RoomDataStreams`, TLAPS |
| `DispatcherProofs` | theorems about the dispatcher | `SubscriptionThreadDispatcher`, TLAPS |
| `ServicesProofs` | theorems about data track streams, RPC, token sources, local tracks and the tracer | `DataTrackStream`, `LocalRpc`, `TokenSource`, `LocalTracks`, `EventTracer`, TLAPS |
| `MediaEndpointsProofs` | theorems about media streams, audio, settings and video frames | `MediaStream`, `FreshAudioStream`, `AudioSource`, `RemoteSettings`, `VideoFrames`, TLAPS |
| `FfiObjectsProofs` | the theorem about the owners of handles | `FfiObjects`, TLAPS |
| `MCFfiClient`, `MCRoom` | instances for TLC: values of constants | the module they name |
| `MCSubscriptionThreadDispatcher` | instance for TLC of the dispatcher, for media and for data tracks | `SubscriptionThreadDispatcher` |
| `MCRoomEvents` | instance for TLC of the two modules built on `RoomEvents` | `RoomParticipants`, `RoomDataStreams` |
| `MCMediaEndpoints` | instance for TLC of the objects through which media pass | `MediaStream`, `FreshAudioStream`, `AudioSource`, `RemoteSettings`, `FfiObjects`, `VideoFrames` |
| `MCServices` | instance for TLC of the parts beside the media path | `DataTrackStream`, `TokenSource`, `EventTracer`, `LocalRpc`, `LocalTracks` |

The last three put several components into one instance. The components do not share state, and a behaviour is one
of one of them (`part`, chosen in `MCInit`): the state space is the sum of theirs, not the product. The others stay in
an initial state in which none of their fair actions is enabled, so that the conjunction of the fairness conditions
says no more than each component's own. `MCSubscriptionThreadDispatcher` does the same with the two halves of the
dispatcher: a behaviour has calls about audio and video tracks from all callers, or about data tracks from one. The halves
keep their readers in different maps and meet in `stopAll()` and in the limit on readers, which both of them reach.

Conventions. A step is what the code does without giving up a lock or waiting: a method that locks twice is two
actions. Names follow the source (`listeners_` is `listeners`, `ConnectPublish` is the last block of
`connectImpl()`); `map` in `PROJECT.json` gives the lines of every definition. A thread's place in a method is in
a variable of its own (`call`, `step`, `at`). Definitions called "Mutant of ..." are deliberate errors, used to
show that a property can fail; no specification uses them. Logging, formatting and the contents of messages are
left out.

How state and actions correspond to the code:

* **FfiClient.** `lifecycle_state`, `listeners`, `removed`, `active_threads`, `active_callbacks`,
  `pending_by_id` and `next_async_id` are the members; `promise` is the state of each `std::promise`. A Rust
  thread takes an event (`PushNotification`, `PushAnswer`, `PushDropped`), completes the operation it answers, and
  walks through its snapshot of listeners (`EnterCallback`, `LeaveCallback`, `SkipRemoved`). An asynchronous
  method is `RegisterAsync`, `SendRequestCheck`, then `SendRequestAccepted` or `SendRequestFailed` and the
  cancellation. `shutdown()` is `ShutdownClaim`, `Drain`, `Cancel` (one step per operation), `Wait` (one per
  listener), `Dispose`, `Store`. Callbacks may call any of these methods.
* **Room.** `ConnectClaim` to `ConnectReady` are the blocks of `connectImpl()`, `ConnectCatch...` its error path;
  `Shutdown...` is `shutdown()`, which `disconnect()`, the destructor and EOS share; `On...` are handlers. Each
  session is a number; `rust[n]` says how far Rust is with it. Participants count as part of the room handle.
  `ConnectClaim` has the guard of the code and no other (the state is Disconnected and nothing is being destroyed). What the
  application may be asked to wait for before it calls `connect()` again, `AtRest`, stands in `StartCall`, and the constant
  `DirtyReconnect` says whether it is asked.
* **RoomParticipants.** Every RemoteParticipant object is a number; publications, subscriptions and mute states
  are sets of pairs of an object and a sid. `rust_...` is the truth the events tell about. A handler is the test
  (`OnEventChecked`), the change (`On...`), the delegate (`DelegateReturns`, `DelegateThrows`) and the
  dispatcher (`Dispatch`). `rust_news` has the participants whose metadata, name or attributes have changed and
  were not yet stored; a failed subscription and a change of the E2EE state change nothing but reach the delegate.
* **DataStreamWriter, RoomDataStreams.** One stream. A text is a sequence of bytes that begin or continue a code
  point, so that `Cut` is `splitUtf8()`; `wire` is what Rust accepted, and the receiving Room gets it in order.
  `stream_readers` is the entry of `text_stream_readers_` or `byte_stream_readers_`.
* **SubscriptionThreadDispatcher.** A reader is a pair of what it was started for and a count; `Extract` moves it
  from the maps to the thread that has to join it. `Subscribe`, `Attach`, `ReadFrame`, `ReadEos` are the steps of
  its thread.
* **MediaStream, DataTrackStream.** Condition variables are modelled with the set of sleeping threads, so that a lost
  wake-up would be seen. `InitRequest`, `InitStoreHandle` and what follows are the steps of `initFromTrack()`, between
  which Rust already emits events. After `Move` the registered listener goes on calling the object
  it was created for, which the model keeps alive.
* **LocalRpc.** An invocation is a number with a Rust thread of its own; `at` is its place in
  `handleRpcMethodInvocation()`. A handler is the number of the registration that stored it. Several application threads
  register and unregister, also while `shutdown()` walks over the methods. `rpc_handlers_` has no lock; the model takes each access
  as a step, so that it has the orders in which accesses follow one another and not what a data race does beyond them.
  `torn` has the methods for which two calls overlapped or a request failed. `shutdown()` waits for
  `active_rpc_invocations_` or gives up after its five seconds, which may pass at any moment.
* **LocalTracks.** A publication is its sid; Rust's answer and its event of the same change travel separately, so that either
  may come first. The application may drop a track at any time (`published_tracks_by_sid_` is weak). It makes one call at a
  time, and `PublishAgain` says whether it may publish a track that is published.
* **TokenSource.** Every `fetch()` is a thread, which holds the mutex of the cache while it asks the server; the
  server answers well, badly or not at all. A token is the request it was issued for, its claims and a number. Optional strings
  are absent, empty or given, since JSON treats the first two alike and the comparison of options may not.
* **EventTracer.** An event has the session in which its timestamp was taken; `Adding` is a call site between the
  test of its category and the push, `Writer` the loop of the thread, `Stopping` the steps of `stopTracing()`. A call site that
  has no pointer yet reads `g_tracing_enabled` without the lock and looks its category up under it, in two steps.
* **AudioSource.** Time is counted in whole units. What is really queued in Rust, nothing if the source has no queue, is kept next to
  the estimate.
* **FreshAudioStream.** The native half is translated from the patch of the Rust SDK: the decoding thread counts and numbers a frame,
  tries the queue and drops the frame if the owner has it (`PushReceived` to `PushAppend`); the owner looks at the clock, tries
  the queue, returns empty-handed if the producer has it, skips stale frames and returns the first fresh one (`TryRead` to
  `TakeFresh`); the counters are read one after the other outside the queue (`Stats...`). The relaxed atomics are modelled as
  steps that follow one another. `NativeReturn`, `DropInBridge` and `DeliverFresh` are the C++ half.
* **RemoteSettings.** `rust_settings` is what Rust was told, `subscribed_` and the other members what the object says.
* **FfiObjects.** `handle_` and `shared` are what an object owns and shares, `rust_handles` what Rust holds;
  `Ask` is any request that names a handle, and `bad_handle` records one that names, or drops, a handle that is gone.
  Rust answers with what was asked, an error, a message of another kind, or the request throws; a `PlatformAudio`, which can be
  copied and assigned, is also built around the handle 0.
* **VideoFrames.** A buffer is its length, a plane its offset, stride and rows. Sizes of planes wrap at `Word`, those
  of buffers do not.

Outside the repository, and modelled from how the code uses them: the Rust library and its threads
(`RustCloses`, `RustFrame`, `Emit`, ...), the data channel (reliable and ordered), the token server, the application's
delegates, handlers and callbacks (they return, or throw where the code catches).

## 3. Runs

`tlc -workers 2 -config X.cfg M` for each.

| Run | Module | Instance | Shows |
|---|---|---|---|
| `FfiClient` | `MCFfiClient` | 2 application threads, 1 Rust thread, 1 listener, 1 operation of either style, 2 sessions, fairness | handshake of callbacks with removal and shutdown, ownership of promises, the refinement, liveness |
| `Dispatcher` | `MCSubscriptionThreadDispatcher` | 2 callers, 2 keys, audio and video; 1 caller, 2 data callbacks, 2 sids under one name or two; limit 1, 2 starts of a reader; fairness | ownership of reader threads, which readers there are, `stopAll()`, and that joins of media readers end |
| `Dispatcher_data_calls` | `MCSubscriptionThreadDispatcher` | 1 data callback, 1 track, fairness | violation: finding 1 |
| `Room_lifecycle` | `MCRoom` | 2 + 1 threads, 2 sessions, fairness | listeners, notifications and pointers over a Room's life, and that calls return |
| `Room_dirty_reconnect` | `MCRoom` | 1 + 1 threads, 2 sessions | violation: finding 2 |
| `Room_eos_destructor` | `MCRoom` | 2 + 1 threads, 2 sessions | violation: finding 3 |
| `RoomEvents` | `MCRoomEvents` | a remote participant that joins twice, 2 sids of which one has no source; 2 writing threads, 2 writes of texts cut at the end and in the middle, chunks of 3 bytes; fairness | the Room's copy of Rust's view; a data stream from end to end |
| `RoomEvents_split` | `MCRoomEvents` | 1 thread, 1 write of those texts | violation: finding 5 |
| `MediaEndpoints` | `MCMediaEndpoints` | 2 readers, 2 closers, capacity 2; a fresh audio queue of 2, 3 frames, ages up to 2; 3 captures into sources with and without a queue; 3 objects and 2 handles; frames of 1 to 3 pixels a side, words of 5 bits; fairness | queue, freshness, time accounting, settings, handles, layouts |
| `MediaStream_eos` | `MCMediaEndpoints` | the streams of the previous run | violation: finding 4 |
| `Services` | `MCServices` | 2 closers besides the reader; 2 fetches with options absent, empty and given; 2 tracing sessions; 2 application threads that register one method and unregister it at will, 2 invocations; 2 publications of one track; fairness | data track streams, token cache, tracer, RPC, local tracks |
| `EventTracer_categories` | `MCServices` | the tracer of the previous run | violation: finding 6 |

Why these bounds are enough for what they are used for: the races are between two parties, or two and the one they
race about, and each run has both of each kind that matters (two removers, two callers, two readers, two closers, two
fetches). `FfiClient` and `Room_lifecycle` have one Rust thread: it is the second party for the two application
threads, and the handshake between several Rust threads is proved for any number of them (section 5). Capacities and limits are
small enough to be reached and passed, and `Word` is small enough that planes of three pixels wrap. Two sessions of
a Room or of the tracer, two joins of a participant, two starts of a reader per key, two writers and two publications make everything happen
that needs leftovers of an earlier round; one remote identity is enough for the Room's maps, since its handlers treat
identities apart, and joining twice gives two objects with the same identity. Three objects and two handles suffice for a
platform, its source and the target of a move. At most two kinds of objects exist at a time
(`TwoKinds`; the theorem about them has no such bound). Symmetry of threads
is used in `Room_eos_destructor`, which has no temporal property;
in the dispatcher the key of the first data callback is fixed, since the keys of data tracks are interchangeable, and one key has
callbacks for audio and video, the other for audio only.
`CHECK_DEADLOCK FALSE` is everywhere, since an application may stop calling, and each bound ends the
behaviours of its counter.

Restrictions that are part of a question, and not of the code:

* `CrossRemoval = FALSE` in `FfiClient`: two callbacks that remove each other's listeners wait for each other (section 6).
* `DirtyReconnect = FALSE` in `Room_lifecycle` and `Room_eos_destructor`: `connect()` is called again only when the Room is at
  rest, that is when no call of the application is under way and the listener, the room handle and every registration of the
  earlier session are gone. The code looks at `connection_state_` only, which is Disconnected earlier than that; what can
  happen then is finding 2.
* `PublishAgain = FALSE` in `Services`: a track is published again only after it was unpublished (section 6).
* In `RoomDataStreams` nothing is sent after the receiving Room has disconnected.

Every property of a passing run has a mutant in `PROJECT.json`: a plausible error in one definition with which the
same run fails.

## 4. Properties

* **FfiClient.** `NoCallbackAfterRemove`, `DisposeAfterCallbacks`: the two waits do what they are for.
  `NoListenerDuringShutdown`. `PromiseOwnedOnce`: at any time exactly one of the table, an answer in progress, a
  cancellation or a shutdown is responsible for a promise that is not satisfied. `ImplementsAsyncOperations`:
  refinement of `AsyncOperations`. `FuturesResolve`, `CallsReturn`: liveness.
* **Dispatcher.** `ReaderOwnedOnce`: a reader thread is in the maps, or with the one caller that joins it, or over; the one
  exception is the reader that was being replaced when the creation of the new stream threw, whose thread is lost (section 6).
  `ReadersServeCallbacks`: which readers there are for which callbacks and tracks. `StopAllQuiescent`. `MediaCallsReturn`: a call that
  joins readers of audio and video returns. `CallsReturn` says it of every call, and is refuted for data (finding 1).
* **Room.** `ListenersOwned`: every listener is the Room's or somebody's to remove, and a connected Room has one unless
  `disconnect()` overtook its `connect()`. `NotifiedOnce` and `RpcPointerValid` (the participant an RPC invocation uses exists) have
  the same exception. `OnlyEosOutlivesRoom`: when the destructor has returned, nothing of the Room is registered or runs, except
  the thread that handles EOS; `DestructorWaitsForEvents` has no exception and is refuted (finding 3). `DestructorUnregisters` is refuted
  without `AtRest` (finding 2). `CallsReturn`.
* **RoomParticipants.** `RoomMirrorsRust` relates the Room's maps to Rust's view after every event;
  `PointersValid` relates what the delegate may look at to what is alive while `disconnect()` runs;
  `DispatcherInformed` says how far the dispatcher may be wrong, and why.
* **Data streams.** `StreamWellFormed` on the wire. `PiecesWellCut`: the pieces of a text are not empty and fit in a chunk, and break
  no code point if more than a chunk of the text follows their start or the text ends with a code point of one byte;
  `CodePointsWhole` says it of every text, and is refuted (finding 5). `StreamsComplete` and `StreamsEnd` for the reader at the
  other end.
* **Streams.** `QueueHoldsNewest`: the queue has the newest frames in order, and drops only the oldest;
  `ReadsEnd` (in `EndpointsReturn`). `OneFrameInFlight`, `TerminalErrorKept`, `ReadReturns` (in `ServicesReturn`).
* **LocalRpc.** `ShutdownQuiescent`: after a shutdown that did not run into its timeout nothing runs a handler or
  responds. `HandlersServe`: Rust offers the methods that have a handler and only a method that was missing meanwhile is
  answered as unsupported, but for calls under way and `torn` methods; that a handler outlives its invocations is not claimed,
  and not so (section 6). `InvocationsAnswered` (a response that Rust does not get counts as given), `ShutdownReturns`.
* **LocalTracks.** `LocalTracksAgree`: the map, the events of publications and the mute states agree with Rust, up to the events
  that have overtaken the call they belong to. It says nothing of the events that end a publication, which may be dropped
  (section 6).
* **TokenSource.** `TokensMatchRequests`: a token is returned for the request it was issued for, and a cached one is
  still valid for the buffer; `InvalidateForcesFetch`; `FetchesEnd`.
* **EventTracer.** `TraceComplete`: a file that `stopTracing()` has finished holds every event pushed before the stop
  began, once and in order; `TracingStops`.
* **AudioSource.** `QueuedDurationClose` bounds the error of `queuedDuration()` against what is queued, for sources with a queue;
  `TimedCapturesReturn`. **FreshAudioStream.** `FreshReads`: delivered audio is no older than asked for at the moment it is
  returned, in order, with a discontinuity wherever one is; and the statistics account for every frame if none was being
  pushed since they were read (`quiet`), since they are not a snapshot.
* **RemoteSettings.** `SettingsAgree`: between calls the copies agree with Rust's settings, and Rust wants the subscription the
  application asked for last; when it has that one and no call and no event is on its way, `subscribed()` says so.
* **FfiObjects.** `HandlesSafe`: no handle is dropped twice or used after it was dropped, whichever step of a construction
  fails, none that an object took is lost (there are handles that no object takes, section 6), and a platform outlives its sources
  until the destruction of the source begins.
* **VideoFrames.** `PlanesInBuffer`: planes lie in the buffer and do not overlap, wrapped or not, and fill it if nothing
  wraps.

Fairness. Weak fairness for the steps of a thread inside a method (the scheduler runs every thread; a condition
variable whose predicate holds is notified by whoever made it true, which the code does after every such change), and
for a timeout to pass; none for starting a method, for the creation of a stream, nor for Rust to emit a frame or to end
a stream or for a token server to answer (its silence ends with the timeout of the HTTP request, which is fair); a data
track stream that has ended or failed in Rust is reported, and its reader then closes it. Two assumptions are stronger:
in `FfiClient` Rust answers each request it has accepted (strong fairness, as its threads may always be found
busy), and in the dispatcher the stream of an unpublished track ends. `RoomDataStreams` also assumes that Rust
delivers what is on the wire and that the application goes on reading. Nothing is assumed of RPC handlers: an invocation whose
handler never returns is never answered, and `shutdown()` gives up waiting for it.

## 5. Proofs

`tlapm M.tla` checks the proofs of module `M`. The theorems hold for every value of the constants that the named
assumptions allow: any number of threads, calls, objects, frames, tracks and rounds, of which the runs have two or
three of each.

| Module | Theorem | Statement |
|---|---|---|
| `FfiClientProofs` | `TypeCorrect` | `Safe => []TypeOK` |
| | `CallbackHandshake`, `DisposeQuiescent` | `Safe => [](NoCallbackAfterRemove /\ DisposeAfterCallbacks)`, and the second alone |
| | `PromisesOwned` | `Safe => []PromiseOwnedOnce` |
| | `AsyncRefinement` | `Safe => ImplementsAsyncOperations` |
| | `ShutdownExclusive` | `Safe => []NoListenerDuringShutdown` |
| `RoomProofs` | `RoomListenersOwned` | `DirtyReconnect = FALSE /\ Safe => []ListenersOwned` |
| | `DisconnectReportedOnce` | `DirtyReconnect = FALSE /\ Safe => []NotifiedOnce` |
| | `RpcParticipantAlive` | `DirtyReconnect = FALSE /\ Safe => []RpcPointerValid` |
| | `DestructorWaits` | `DirtyReconnect = FALSE /\ Safe => []OnlyEosOutlivesRoom` |
| `RoomParticipantsProofs` | `RoomAgreesWithRust` | `Spec => []RoomMirrorsRust` |
| | `ParticipantsOutliveEvents` | `Spec => []PointersValid` |
| | `DispatcherKnowsTracks` | `Spec => []DispatcherInformed` |
| `DataStreamsProofs` | `WireWellFormed` | `WriterSpec => []StreamWellFormed` |
| | `TextsWellCut` | `WriterSpec => []PiecesWellCut` |
| | `StreamsReadAsWritten` | `StreamsSpec => []StreamsComplete` |
| `DispatcherProofs` | `ReadersOwned` | `Safe => []ReaderOwnedOnce` |
| | `ReadersServe` | `Safe => []ReadersServeCallbacks` |
| | `StoppedQuiescent` | `Safe => []StopAllQuiescent` |
| `ServicesProofs` | `FramesOneAtATime`, `EndDecidedOnce` | `Safe => []OneFrameInFlight`, `Safe => TerminalErrorKept` |
| | `RpcShutdownQuiescent`, `RpcHandlersServe` | `RpcSpec => []ShutdownQuiescent`, `RpcSpec => []HandlersServe` |
| | `TokenMatches`, `InvalidateEffective` | `TokenSpec => []TokensMatchRequests`, `TokenSpec => []InvalidateForcesFetch` |
| | `LocalTracksPublished` | `PublishAgain = FALSE /\ TracksSpec => []LocalTracksAgree` |
| | `TracesWritten` | `TracerSpec => []TraceComplete` |
| `MediaEndpointsProofs` | `NewestFramesQueued` | `Safe => []QueueHoldsNewest` |
| | `EstimateClose` | `AudioSpec => []QueuedDurationClose` |
| | `SettingsSettle` | `SettingsSpec => []SettingsAgree` |
| | `ReadsAreFresh` | `FreshSpec => []FreshReads` |
| | `PlanesFit` | `FramesSpec => []PlanesInBuffer` |
| `FfiObjectsProofs` | `HandlesOwned` | `ObjectsSpec => []HandlesSafe` |

Each proof has the same outline: an inductive invariant, a lemma that it holds initially, one lemma per action (or per kind
of action) that it is kept, and the property as a consequence. Hardly any of the properties is inductive as it
stands; what has to be added says how the code achieves it:

* **FfiClient.** `removeListener()` waits on the counter `active_callbacks`, whereas the property
  speaks of threads; `HandshakeInv` says that the counter is the number of threads in `active_threads` and that these
  are the threads inside the callback (`CallbackInv`, with lemmas on cardinality), that a slot which was found and
  waited for is marked `removed` and left (`RemovalInv`), and that `shutdown()` has waited for a subset of
  the marked slots it drains, all of them when it disposes (`DrainInv`). `PromiseInv` says who holds an unsatisfied
  promise (`HeldAlways`), that nobody holds one that is satisfied or not started (`HeldStarted`) and that no two do
  (`HeldOnce`); with it every step maps to `Start`, `Satisfy` or a stutter of `AsyncOperations`. `LifecycleInv` says
  that the state is `ShuttingDown` exactly for the thread that claimed it.
* **Room.** `RoomInv` says that everything there is (the listener, the room handle, the local participant, the events) belongs
  to the last connection, except what a thread that handles EOS has still in its hands; who owns a listener and a
  published room at each place of `connect()`, `disconnect()`, the destructor and EOS (`ListenerInv`, `HandleInv`), and that
  the disconnection to be reported has been claimed by one of them (`ClaimInv`). Its hypothesis `DirtyReconnect = FALSE`
  is the restriction of the run `Room_lifecycle`: `connect()` is called only `AtRest`. Without it the statements are false
  (finding 2).
* **RoomParticipants.** Rust's view changes when it emits an event, the Room's when the handler comes to it.
  `EventTells` says what holds of an event on its way, `Mirror` that the two views differ meanwhile in what that
  event is about and in nothing else, `Pointers` that an event keeps its participant alive, `Informed` the same for the
  dispatcher's belief, and `Leftovers` what an event overtaken by `disconnect()` may still put into the maps.
* **Data streams.** `WriterInv` says what a call of `write()` or `close()` has put on the wire at each of its steps, and that only the call
  that holds `write_mutex` adds to it (`MutexInv`, `HeaderInv`): the last piece on the wire is the one before the next of that call
  (`LastPiece`), and the writes that are over are there with all their bytes (`WritesKept`). The loop that looks for the end of a
  piece finds one because a code point fits in a chunk, unless it looks at the last byte of the text (finding 5); where it stops is a greatest element, whose existence comes from the
  well-foundedness of the natural numbers (`GreatestElement`, `CutFacts`). `ReceiverInv` says that what a reader has, with what
  is on its way to it, are the chunks of the wire up to the last event taken (`ReaderInv`); they are counted by cardinality,
  one message at a time, instead of by an operator on subsequences.
* **Dispatcher.** What a method does to reader threads is the same for all of them: it takes some out of the maps, for its
  caller to join, and starts new ones; `TakeAndStart` proves once that this keeps the ownership. Added to the
  properties, which already have the set of threads lost to an exception (`unwound`): threads not in use were never started (`Born`), a key has one published track at a time (`OneTrackPerKey`), and
  after `stopAll()` the maps are empty (`Stopped`).
* **DataTrackStream.** A frame is owed by Rust, with the FFI thread or in the slot, one of them at most, and then the
  reader does not ask for another (`FramePlaces`). **LocalRpc.** The counter is the cardinality of the
  invocations under way (`ShutdownInv`); for `HandlersServe`, a method that is not torn has one call about it at a time
  (`OneCall`), so that the map and Rust differ in what that call has still to do (`RegistryAgrees`). **TokenSource.** Who holds the mutex, and what the cache and a fetch on its way know
  about the request, the time and the last `invalidate()` (`CacheInv`, `FetchInv`). **LocalTracks.** For the tracks the
  application still has, Rust, the map and the track agree on the publication, except for what the call under way has still to store or
  erase (`TaskInv`, `MapInv`); a publication has been reported, will be, or its event came too early (`NewsInv`); and the last
  event on its way says whether it is muted (`MuteInv`). **EventTracer.** The file, the batch of the writer thread and the queue
  are one flow, in which the events pushed so far already stand as the file must have them (`FlowInv`); an event that a thread has
  not pushed is in no one else's hands (`ThreadInv`); the writer ends only with an empty queue and an empty batch (`FileInv`).
* **MediaStream.** The queue holds the last frames pushed, consecutive, and the FFI thread has the next one (`DeliveryInv`,
  `QueueInv`). **AudioSource.** The estimate before it is cut off at zero never exceeds what is queued and refused
  (`EstimateInv`). **FreshAudioStream.** Who has the queue and at which step (`BusyInv`); frames are numbered as they came, and what a
  call has taken is younger than what was delivered (`OrderInv`, `CallInv`); every frame received is dropped, stale, taken,
  queued or in the hands of the producer (`CountersInv`), and counters that were read without a producer under way still add up
  (`LoadedInv`). **RemoteSettings.** A copy differs from Rust's setting only
  while a call or an event about it is on its way (`CopyInv`, `SubscriptionInv`). **VideoFrames.** The constructor lets no data
  pass that is smaller than the picture needs (`FramesInv`), and what it needs is the sum of at most four planes, none of
  which is larger modulo the word than it really is (`Shapes`, `PlanesFill`, `PlanesOfPicture`).
* **FfiObjects.** A handle that Rust keeps is held by an object or was lost by none (`RustKeeps`), two objects hold no handle
  in common except a shared one (`OwnOnce`), and what an object that is being destroyed may still hold (`Remains`).

Assumptions on constants beyond types and finiteness, each evaluated by TLC in the runs: threads of the application are not threads
of Rust; `AudioSource` has a longest frame (the code's frames have at most 2^31 samples); `NoCaller` is no caller; texts begin
with a code point, and a code point (at most 4 bytes) fits in a chunk (15000 bytes in the code); there are
enough objects for every identity to join once (`Cardinality(Identities) <= MaxJoins`) and enough readers for the headers that
racing calls may send (`Cardinality(Callers) <= MaxHeaders`), without which the model's bounds, and not the code, would refuse
a participant or a stream.

Only model-checked: liveness (`FuturesResolve`, `CallsReturn`, `MediaCallsReturn`, `StreamsEnd`, `EndpointsReturn`, `ServicesReturn`), for which the
prover has no fairness. The other properties of the passing runs are all stated by a theorem.

## 6. Findings and known limits of the code

1. `Dispatcher_data_calls`: a data reader taken out between `subscribe()` and the attachment of its stream is never
   closed, and the join in `removeOnDataFrameCallback()` waits for as long as the track stays published.
2. `Room_dirty_reconnect`: `connect()` between a server's disconnect and EOS overwrites `listener_id_` (`room.cpp:118`); the
   listener of the first session, which captures the Room, is never removed. The same guard (`room.cpp:105-111`) lets a second
   `connect()` run while a first one, which `disconnect()` interrupted, has not returned: line 118 then overwrites the listener of the
   first, and what the first publishes (187) or its catch block (205) frees the participant of the second, which an RPC
   invocation may be using. With `DirtyReconnect = TRUE` and two application threads TLC finds `RpcPointerValid` violated that way.
3. `Room_eos_destructor`: EOS takes the Room's state on a Rust thread; a destructor that comes then finds nothing to do and
   returns while that thread is still in `onEvent()` of the Room.
4. `MediaStream_eos`: an end of stream that is reported before `initFromTrack()` has stored the handle, or after the stream
   object has been moved, is taken for that of another stream and dropped; `read()` then waits until `close()`.
5. `RoomEvents_split`: `splitUtf8()` cuts the last byte off every text that ends with a code point of several bytes,
   although the comment above it says that it breaks none. Reading the whole stream gives the same bytes.
6. `EventTracer_categories`: a trace macro that ran once while its category was disabled keeps the pointer to a byte that
   never changes and records nothing in later sessions.

Known limits that the models show and their properties except, each with what the repository says of it:

* A reader is replaced and the creation of the new stream throws (`subscription_thread_dispatcher.cpp:400-410`, and the same for
  video): the thread of the old reader, already out of the map, is destroyed while it is joinable, which terminates the process.
  `subscription_thread_dispatcher.h:312-313` says that the returned thread must be joined. It is `HandleTrackSubscribedThrows`,
  the lost thread is in `unwound`, and `ReaderOwnedOnce` excepts that one.
* A `disconnect()` that comes while `connect()` waits for Rust takes the listener down, and `connect()` publishes its room
  all the same (`room.cpp:190`): the Room is connected and hears nothing, although `connect()` promises events to the delegate.
  The next `disconnect()` has no listener to wait for, and frees the participant under an RPC invocation that had begun
  before the listener was removed. `ListenersOwned`, `NotifiedOnce` and `RpcPointerValid` except such connections (`overtaken`).
* `registerRpcMethod()` and `unregisterRpcMethod()` (`local_participant.cpp:359`, `373`), and `shutdown()` after its timeout
  (`408`), destroy the `std::function` that an invocation may be running (`451`). In `LocalRpc` the handler of a running invocation is then
  no longer the one stored for its method; no property claims that it is.
* The event of an unpublished local track that is handled after `unpublishTrack()` has erased the publication is dropped
  (`room.cpp:609-613`), although `room_event_types.h:418` says "Fired when a local track is unpublished."
* The event of a published local track has no track (`room.cpp:592`): nobody calls `setTrack()` on a local publication, although
  `room_event_types.h:414` says "The published local track." (`AttachedTrack`).
* A track that is published twice has one `publication()` and two entries, so that `trackPublications()` has the second publication under
  the sid of the first (`local_participant.cpp:257`), although `local_participant.h:79` says "keyed by publication SID".
* `queuedDuration()` of a source without a queue counts audio that has been consumed (`audio_source.cpp:109`), although it is the
  "current duration of queued audio" (`audio_source.h:85`) and such a source has no buffering (`audio_source.h:46`).
* An unsubscription by the server between the request and the assignment of `setSubscribed(true)`
  (`remote_track_publication.cpp:48`) is overwritten: `subscribed()` then says that there is a subscription. `SettingsAgree` is
  about subscriptions that are as the application asked.
* The statistics of `FreshAudioStream` are read counter by counter while the producer runs; `FreshReads` says nothing of
  numbers read at such a moment.
* The handles of a user packet (`room_proto_converter.cpp:602`) and of an audio buffer without data (`audio_frame.cpp:76`) are wrapped by no
  object and never dropped (`leaked` in `FfiObjects`).
* `close()` of a writer does not take `write_mutex_`; overlapping with a write it may send a second header or put the
  trailer before chunks. `StreamWellFormed`, `StreamsComplete` and `StreamsEnd` are for streams without such an
  overlap. A `close()` whose send fails cannot be repeated.
* `disconnect()` leaves the readers of open data streams unclosed; `StreamsEnd` is up to that point.
* A track without a source, or whose delegate call throws, leaves the dispatcher with a wrong belief
  (`DispatcherInformed` names both).
* Two listeners that remove each other from their callbacks deadlock; so do `Room::disconnect()` in a delegate
  (documented) and a frame callback that clears itself (it joins its own thread). The models have no such calls.
* `removeListener()` returns at once for a listener that `shutdown()` has taken, though its callback may still run.
* The EOS of a session that has been replaced tears down its successor; `Room` models it, and its properties count it
  as an end.
* `LocalParticipant::shutdown()` that runs into its timeout leaves invocations behind, which then use a participant
  that is going away; `ShutdownQuiescent` is about the other case.
* An event about a local track that overtakes the answer of `publishTrack()` finds no publication and is dropped, and with it
  a change of the mute state; `LocalTracksAgree` names these.
* The estimate of `AudioSource` loses part of a frame that follows an empty queue, and counts frames that are refused;
  `QueuedDurationClose` bounds both.
* `frameCryptors()` sends a request in which no message is set.

## 7. Not modelled, and the plan

Not modelled:

* Protobuf converters and statistics: field by field copies. The one handle copied without being owned is in
  `FfiObjects`.
* `RealtimeAudioProcessing`: checks of arguments in front of Rust functions that are not in the repository.
* Remote tracks, data track frames, schemas and errors: values.
* `KeyProvider` and `FrameCryptor`: each method is one request and nothing is kept; other requests of
  `LocalParticipant` are modelled as far as they use a handle.
* Logging; `livekit::initialize()` and `shutdown()`, which forward to `FfiClient`; tests, benchmarks, build files; the
  patches of the Rust SDK, except the queue of fresh audio.

Left out of modelled parts: nested events on the thread of a callback, the contents of messages, the attributes of data
streams, the metadata of frames, frames of fresh audio in another format and the end of that stream, JSON, base64 and curl behind the token sources, the arguments of trace events, exceptions of
`std::thread` and allocation; the destruction of a moved-from stream whose listener is still registered; planes with
padded rows in the layout that `planeInfos()` reports (received frames may have them, but streams ask Rust for packed ones); in `RoomParticipants` the events of data tracks,
which are the dispatcher's.

Order of work. Done: `FfiClient` with its abstract specification and proofs (everything else relies on it), the
dispatcher, the Room's lifecycle, the streams, the Room's events, data streams from end to end, the local participant,
token sources, the tracer, audio sources, settings, handles and frames. Next:

1. Abstract specifications, with proofs of the refinement: a lossy sequence of frames, implemented by `MediaStream`; a
   reliable stream, implemented by `RoomDataStreams`.
