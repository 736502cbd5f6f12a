-------------------------------- MODULE Room --------------------------------
(***************************************************************************)
(* The lifecycle of livekit::Room (src/src/room.cpp): connect(),           *)
(* disconnect(), the destructor, and onEvent() for the events that bear on *)
(* the lifecycle.  connect() and disconnect() run on threads of the        *)
(* application, onEvent() on the threads of the Rust runtime; they share   *)
(* the members of the Room under lock_, which none of them holds while it  *)
(* waits.                                                                  *)
(*                                                                         *)
(* One step is one region under lock_, or one call of another object       *)
(* (FfiClient, the delegate) between two such regions.  The call number n  *)
(* of connect() stands for the listener it adds and for the room handle,   *)
(* participants and E2EE manager it gets from Rust.                        *)
(***************************************************************************)
EXTENDS Integers, FiniteSets

CONSTANTS
  AppThreads,
  FfiThreads,
  DirtyReconnect,    \* may connect() be called whenever the Room lets it, or only once the Room is AtRest?
  MaxConnects        \* bound on the calls of connect() that get past its test

Threads == AppThreads \cup FfiThreads

ASSUME RoomAssumption ==
  /\ IsFiniteSet(AppThreads) /\ IsFiniteSet(FfiThreads)
  /\ AppThreads \cap FfiThreads = {}
  /\ DirtyReconnect \in BOOLEAN
  /\ MaxConnects \in Nat

Connects == 1 .. MaxConnects
None == 0

VARIABLES
  connection_state,
  listener_id,        \* the connect() whose listener is in listener_id_
  room_handle,        \* the connect() whose room_handle_, local_participant_, ... are published
  connects,           \* how many calls of connect() got past the test of the state
  registered,         \* the listeners of this Room that FfiClient knows
  rust,               \* per connect(), what Rust is doing with its room
  freed,              \* the LocalParticipants that have been destroyed
  at,                 \* per thread, its next step
  mine,               \* per thread, the connect() it executes
  handle,             \* per thread, the published state that shutdown() has moved out
  listener_to_remove, \* per thread
  claimed,            \* per thread, the connect() whose disconnection it has to report
  destroying,         \* ~Room() is running, or has run
  destroyed,          \* ~Room() has run
  inside,             \* per FFI thread, the listener whose callback it is in
  event,              \* per FFI thread, the event it is handling
  delivered,          \* history: the lifecycle events given to each listener
  notified,           \* history: per connect(), the calls of onDisconnected()
  eos_reported,       \* history: the connect()s for which onRoomEos() was called
  after_eos,          \* history: those for which the delegate was called again after that
  overtaken           \* history: those during which disconnect() was called

stateVars == <<connection_state, listener_id, room_handle>>
ffiVars == <<inside, event, delivered>>
delegateVars == <<notified, eos_reported, after_eos, overtaken>>
callVars == <<mine, handle, listener_to_remove, claimed>>
lifeVars == <<destroying, destroyed>>

vars == <<stateVars, connects, registered, rust, freed, at, callVars, lifeVars, ffiVars, delegateVars>>

ConnectSteps == {"add", "store", "request", "publish", "ready", "catch", "catch_remove", "catch_wait"}
ShutdownSteps == {"ffi_disconnect", "remove", "wait", "notify"}
EventSteps == {"check", "handle", "server_notify", "eos_notify", "rpc"}
EventKinds == {"other", "disconnected", "eos", "rpc"}
NoEvent == [room |-> None, kind |-> "other"]

Init ==
  /\ connection_state = "Disconnected"
  /\ listener_id = None /\ room_handle = None
  /\ connects = 0
  /\ registered = {}
  /\ rust = [n \in Connects |-> "none"]
  /\ freed = {}
  /\ at = [t \in Threads |-> "idle"]
  /\ mine = [t \in Threads |-> None]
  /\ handle = [t \in Threads |-> None]
  /\ listener_to_remove = [t \in Threads |-> None]
  /\ claimed = [t \in Threads |-> None]
  /\ destroying = FALSE /\ destroyed = FALSE
  /\ inside = [t \in FfiThreads |-> None]
  /\ event = [t \in FfiThreads |-> NoEvent]
  /\ delivered = {}
  /\ notified = [n \in Connects |-> 0]
  /\ eos_reported = {} /\ after_eos = {} /\ overtaken = {}

-----------------------------------------------------------------------------
Goto(t, step) == at' = [at EXCEPT ![t] = step]

\* Mutant of RemoveListener: the listener stays registered while the call waits.
RemoveListenerLate(t, wait) == Goto(t, wait) /\ UNCHANGED registered

\* FfiClient::removeListener(listener_to_remove), called if there is one: from here on no
\* event is delivered to the listener ...
RemoveListener(t, wait) ==
  /\ registered' = registered \ {listener_to_remove[t]}
  /\ Goto(t, wait)

\* Mutant of NoOtherCallback: removeListener() does not wait.
NoWait(t) == TRUE

\* ... and the call returns when no other thread is in the listener's callback.
NoOtherCallback(t) ==
  listener_to_remove[t] # None => \A u \in FfiThreads \ {t} : inside[u] # listener_to_remove[t]

\* A call of the delegate about connect() n: after onRoomEos() there should be none.
Report(n) == after_eos' = IF n \in eos_reported THEN after_eos \cup {n} ELSE after_eos

-----------------------------------------------------------------------------
(* connect() *)

Connecting == \E t \in AppThreads : at[t] \in ConnectSteps
InCall == \E t \in AppThreads : at[t] # "idle"

ConnectClaim(t) ==
  /\ at[t] = "idle" /\ ~destroying
  /\ connects < MaxConnects
  /\ connection_state = "Disconnected"
  /\ connection_state' = "Reconnecting"
  /\ connects' = connects + 1
  /\ mine' = [mine EXCEPT ![t] = connects + 1]
  /\ Goto(t, "add")
  /\ UNCHANGED <<listener_id, room_handle, registered, rust, freed, handle, listener_to_remove, claimed, lifeVars,
                 ffiVars, delegateVars>>

ConnectAddListener(t) ==
  /\ at[t] = "add"
  /\ registered' = registered \cup {mine[t]}
  /\ Goto(t, "store")
  /\ UNCHANGED <<stateVars, connects, rust, freed, callVars, lifeVars, ffiVars, delegateVars>>

ConnectStoreListener(t) ==
  /\ at[t] = "store"
  /\ listener_id' = mine[t]
  /\ Goto(t, "request")
  /\ UNCHANGED <<connection_state, room_handle, connects, registered, rust, freed, callVars, lifeVars, ffiVars,
                 delegateVars>>

\* connectAsync(...).get() returns the room ...
ConnectAnswered(t) ==
  /\ at[t] = "request"
  /\ rust' = [rust EXCEPT ![mine[t]] = "connected"]
  /\ Goto(t, "publish")
  /\ UNCHANGED <<stateVars, connects, registered, freed, callVars, lifeVars, ffiVars, delegateVars>>

\* ... or throws; so may addListener(), the E2EE manager and readyForRoomEvent().
ConnectThrows(t) ==
  /\ at[t] \in {"add", "request", "publish", "ready"}
  /\ Goto(t, "catch")
  /\ UNCHANGED <<stateVars, connects, registered, rust, freed, callVars, lifeVars, ffiVars, delegateVars>>

\* "Publish all state atomically under lock": whatever happened to the Room in the meantime.
ConnectPublish(t) ==
  /\ at[t] = "publish"
  /\ connection_state' = "Connected"
  /\ room_handle' = mine[t]
  /\ freed' = freed \cup ({room_handle} \ {None})
  /\ Goto(t, "ready")
  /\ UNCHANGED <<listener_id, connects, registered, rust, callVars, lifeVars, ffiVars, delegateVars>>

ConnectReady(t) ==
  /\ at[t] = "ready"
  /\ rust' = [rust EXCEPT ![mine[t]] = IF @ = "connected" THEN "ready" ELSE @]
  /\ mine' = [mine EXCEPT ![t] = None]
  /\ Goto(t, "idle")
  /\ UNCHANGED <<stateVars, connects, registered, freed, handle, listener_to_remove, claimed, lifeVars, ffiVars,
                 delegateVars>>

\* The catch block's region under lock_ ...
ConnectCatch(t) ==
  LET own == listener_id = mine[t] IN
  /\ at[t] = "catch"
  /\ connection_state' = "Disconnected"
  /\ listener_to_remove' = [listener_to_remove EXCEPT ![t] = IF own THEN mine[t] ELSE None]
  /\ listener_id' = IF own THEN None ELSE listener_id
  /\ handle' = [handle EXCEPT ![t] = room_handle]
  /\ room_handle' = None
  /\ Goto(t, "catch_remove")
  /\ UNCHANGED <<connects, registered, rust, freed, mine, claimed, lifeVars, ffiVars, delegateVars>>

\* ... LocalParticipant::shutdown() and removeListener() after it ...
ConnectCatchRemove(t) ==
  /\ at[t] = "catch_remove"
  /\ RemoveListener(t, "catch_wait")
  /\ UNCHANGED <<stateVars, connects, rust, freed, callVars, lifeVars, ffiVars, delegateVars>>

\* ... and the participant is released when the block is left.
ConnectCatchLeave(t) ==
  /\ at[t] = "catch_wait"
  /\ NoOtherCallback(t)
  /\ freed' = freed \cup ({handle[t]} \ {None})
  /\ handle' = [handle EXCEPT ![t] = None]
  /\ listener_to_remove' = [listener_to_remove EXCEPT ![t] = None]
  /\ mine' = [mine EXCEPT ![t] = None]
  /\ Goto(t, "idle")
  /\ UNCHANGED <<stateVars, connects, registered, rust, claimed, lifeVars, ffiVars, delegateVars>>

-----------------------------------------------------------------------------
(* shutdown(), from disconnect() and ~Room() or from the EOS event *)

HasRoomState == connection_state # "Disconnected" \/ listener_id # None \/ room_handle # None

\* Mutant of ShutdownClaim: listener_id_ is reset without having been copied.
ShutdownClaimLosesListener(t) ==
  /\ HasRoomState
  /\ claimed' = [claimed EXCEPT ![t] = IF connection_state # "Disconnected" THEN connects ELSE None]
  /\ handle' = [handle EXCEPT ![t] = room_handle]
  /\ room_handle' = None
  /\ listener_id' = None
  /\ connection_state' = "Disconnected"
  /\ UNCHANGED <<mine, listener_to_remove>>

ShutdownClaim(t) ==
  /\ HasRoomState
  /\ claimed' = [claimed EXCEPT ![t] = IF connection_state # "Disconnected" THEN connects ELSE None]
  /\ handle' = [handle EXCEPT ![t] = room_handle]
  /\ room_handle' = None
  /\ listener_to_remove' = [listener_to_remove EXCEPT ![t] = listener_id]
  /\ listener_id' = None
  /\ connection_state' = "Disconnected"
  /\ UNCHANGED mine

DisconnectClaim(t) ==
  /\ at[t] = "idle" /\ ~destroying
  /\ ShutdownClaim(t)
  /\ Goto(t, "ffi_disconnect")
  /\ overtaken' = IF Connecting THEN overtaken \cup {connects} ELSE overtaken
  /\ UNCHANGED <<connects, registered, rust, freed, lifeVars, ffiVars, notified, eos_reported, after_eos>>

\* ~Room(): the application has no other call running.
DestroyClaim(t) ==
  /\ ~InCall /\ ~destroying
  /\ ShutdownClaim(t)
  /\ destroying' = TRUE
  /\ Goto(t, "ffi_disconnect")
  /\ UNCHANGED <<connects, registered, rust, freed, destroyed, ffiVars, delegateVars>>

\* ~Room() of a Room without state: disconnect() does nothing.
DestroyNothing(t) ==
  /\ ~InCall /\ ~destroying
  /\ ~HasRoomState
  /\ destroying' = TRUE /\ destroyed' = TRUE
  /\ UNCHANGED <<stateVars, connects, registered, rust, freed, at, callVars, ffiVars, delegateVars>>

\* LocalParticipant::shutdown(), then disconnectAsync(...).get() if there is a room to leave;
\* a failure is logged and the shutdown goes on.
ShutdownFfi(t) ==
  /\ at[t] = "ffi_disconnect"
  /\ rust' = IF handle[t] # None /\ claimed[t] # None THEN [rust EXCEPT ![handle[t]] = "closing"] ELSE rust
  /\ Goto(t, "remove")
  /\ UNCHANGED <<stateVars, connects, registered, freed, callVars, lifeVars, ffiVars, delegateVars>>

\* subscription_thread_dispatcher_->stopAll() and removeListener() ...
ShutdownRemove(t) ==
  /\ at[t] = "remove"
  /\ RemoveListener(t, "wait")
  /\ UNCHANGED <<stateVars, connects, rust, freed, callVars, lifeVars, ffiVars, delegateVars>>

\* ... and the release of what was moved out.
ShutdownRelease(t) ==
  /\ at[t] = "wait"
  /\ NoOtherCallback(t)
  /\ freed' = freed \cup ({handle[t]} \ {None})
  /\ handle' = [handle EXCEPT ![t] = None]
  /\ listener_to_remove' = [listener_to_remove EXCEPT ![t] = None]
  /\ claimed' = [claimed EXCEPT ![t] = IF t \in FfiThreads THEN None ELSE @]
  /\ Goto(t, IF t \in FfiThreads THEN "eos_notify" ELSE "notify")
  /\ UNCHANGED <<stateVars, connects, registered, rust, mine, lifeVars, ffiVars, delegateVars>>

\* onDisconnected(), by the call that made the state Disconnected.
ShutdownNotify(t) ==
  /\ at[t] = "notify"
  /\ IF claimed[t] # None
       THEN notified' = [notified EXCEPT ![claimed[t]] = @ + 1] /\ Report(claimed[t])
       ELSE UNCHANGED <<notified, after_eos>>
  /\ claimed' = [claimed EXCEPT ![t] = None]
  /\ destroyed' = destroying
  /\ Goto(t, "idle")
  /\ UNCHANGED <<stateVars, connects, registered, rust, freed, mine, handle, listener_to_remove, destroying, ffiVars,
                 eos_reported, overtaken>>

-----------------------------------------------------------------------------
(* Rust and the server (external) *)

\* The server, or the answer to disconnect, closes the room; at last the stream of its
\* events ends.
RustCloses(n) ==
  /\ rust[n] \in {"ready", "closing"}
  /\ rust' = [rust EXCEPT ![n] = IF @ = "ready" THEN "closing" ELSE "eos"]
  /\ UNCHANGED <<stateVars, connects, registered, freed, at, callVars, lifeVars, ffiVars, delegateVars>>

Emitted(n, kind) ==
  CASE kind \in {"other", "rpc"} -> rust[n] \in {"ready", "closing"}
    [] kind = "disconnected" -> rust[n] \in {"closing", "eos"}
    [] kind = "eos" -> rust[n] = "eos"

\* FfiClient calls listener l with an event.  Rust sends the events of a room one after the
\* other, the lifecycle events once and in order, RPC invocations independently of them.
OnEvent(t, l, n, kind) ==
  /\ inside[t] = None /\ at[t] = "idle"
  /\ l \in registered
  /\ Emitted(n, kind)
  /\ kind # "rpc" => /\ \A u \in FfiThreads : inside[u] # None /\ event[u].room = n => event[u].kind = "rpc"
                     /\ <<l, n, kind>> \notin delivered
                     /\ <<l, n, "eos">> \notin delivered
  /\ kind = "eos" => <<l, n, "disconnected">> \in delivered
  /\ delivered' = IF kind \in {"disconnected", "eos"} THEN delivered \cup {<<l, n, kind>>} ELSE delivered
  /\ inside' = [inside EXCEPT ![t] = l]
  /\ event' = [event EXCEPT ![t] = [room |-> n, kind |-> kind]]
  /\ Goto(t, "check")
  /\ UNCHANGED <<stateVars, connects, registered, rust, freed, callVars, lifeVars, delegateVars>>

-----------------------------------------------------------------------------
(* onEvent() *)

Leave(t) ==
  /\ inside' = [inside EXCEPT ![t] = None]
  /\ event' = [event EXCEPT ![t] = NoEvent]
  /\ Goto(t, "idle")
  /\ UNCHANGED delivered

\* The event is for another room, or there is none (any more).
OnEventIgnored(t) ==
  /\ at[t] = "check"
  /\ event[t].room # room_handle
  /\ Leave(t)
  /\ UNCHANGED <<stateVars, connects, registered, rust, freed, callVars, lifeVars, delegateVars>>

\* It is for this room; an RPC invocation keeps a plain pointer to its LocalParticipant.
OnEventChecked(t) ==
  /\ at[t] = "check"
  /\ event[t].room = room_handle
  /\ Goto(t, IF event[t].kind = "rpc" THEN "rpc" ELSE "handle")
  /\ UNCHANGED <<stateVars, connects, registered, rust, freed, callVars, lifeVars, ffiVars, delegateVars>>

OnRpcMethodInvocation(t) ==
  /\ at[t] = "rpc"
  /\ Leave(t)
  /\ UNCHANGED <<stateVars, connects, registered, rust, freed, callVars, lifeVars, delegateVars>>

\* The other events of a room: some change of its participants, and a call of the delegate.
OnOtherEvent(t) ==
  /\ at[t] = "handle" /\ event[t].kind = "other"
  /\ Report(event[t].room)
  /\ Leave(t)
  /\ UNCHANGED <<stateVars, connects, registered, rust, freed, callVars, lifeVars, notified, eos_reported, overtaken>>

\* Mutant of OnDisconnected: the delegate is told whatever the state was.
OnDisconnectedAlways(t) ==
  /\ at[t] = "handle" /\ event[t].kind = "disconnected"
  /\ connection_state' = "Disconnected"
  /\ claimed' = [claimed EXCEPT ![t] = connects]
  /\ Goto(t, "server_notify")
  /\ UNCHANGED <<listener_id, room_handle, connects, registered, rust, freed, mine, handle, listener_to_remove,
                 lifeVars, ffiVars, delegateVars>>

\* kDisconnected: the state first ...
OnDisconnected(t) ==
  /\ at[t] = "handle" /\ event[t].kind = "disconnected"
  /\ connection_state' = "Disconnected"
  /\ claimed' = [claimed EXCEPT ![t] = IF connection_state # "Disconnected" THEN connects ELSE None]
  /\ Goto(t, "server_notify")
  /\ UNCHANGED <<listener_id, room_handle, connects, registered, rust, freed, mine, handle, listener_to_remove,
                 lifeVars, ffiVars, delegateVars>>

\* ... and the delegate unless the Room was already disconnected.
OnDisconnectedNotify(t) ==
  /\ at[t] = "server_notify"
  /\ IF claimed[t] # None
       THEN notified' = [notified EXCEPT ![claimed[t]] = @ + 1] /\ Report(claimed[t])
       ELSE UNCHANGED <<notified, after_eos>>
  /\ claimed' = [claimed EXCEPT ![t] = None]
  /\ Leave(t)
  /\ UNCHANGED <<stateVars, connects, registered, rust, freed, mine, handle, listener_to_remove, lifeVars,
                 eos_reported, overtaken>>

\* kEos: shutdown(false, Unknown, false), without an FFI request and without onDisconnected() ...
OnEosClaim(t) ==
  /\ at[t] = "handle" /\ event[t].kind = "eos"
  /\ ShutdownClaim(t)
  /\ Goto(t, "remove")
  /\ UNCHANGED <<connects, registered, rust, freed, lifeVars, ffiVars, delegateVars>>

OnEosNothing(t) ==
  /\ at[t] = "handle" /\ event[t].kind = "eos"
  /\ ~HasRoomState
  /\ Goto(t, "eos_notify")
  /\ UNCHANGED <<stateVars, connects, registered, rust, freed, callVars, lifeVars, ffiVars, delegateVars>>

\* ... and onRoomEos().
OnEosNotify(t) ==
  /\ at[t] = "eos_notify"
  /\ eos_reported' = eos_reported \cup {event[t].room}
  /\ Report(event[t].room)
  /\ Leave(t)
  /\ UNCHANGED <<stateVars, connects, registered, rust, freed, callVars, lifeVars, notified, overtaken>>

-----------------------------------------------------------------------------
\* What the application waits for before it calls connect() again, unless DirtyReconnect: its calls of connect() and
\* disconnect() have returned, and disconnect(), or the end of the room's events, has taken down what connect() had
\* set up.  It is a discipline of the application; the Room looks at connection_state only.
AtRest == ~InCall /\ listener_id = None /\ room_handle = None /\ registered = {}

\* A thread of the application starts a call.
StartCall(t) ==
  \/ (DirtyReconnect \/ AtRest) /\ ConnectClaim(t)
  \/ DisconnectClaim(t) \/ DestroyClaim(t) \/ DestroyNothing(t)

\* A thread goes on with the call or the event it is in.
ContinueCall(t) ==
  \/ ConnectAddListener(t) \/ ConnectStoreListener(t)
  \/ ConnectAnswered(t) \/ ConnectThrows(t)
  \/ ConnectPublish(t) \/ ConnectReady(t)
  \/ ConnectCatch(t) \/ ConnectCatchRemove(t) \/ ConnectCatchLeave(t)
  \/ ShutdownFfi(t) \/ ShutdownRemove(t) \/ ShutdownRelease(t) \/ ShutdownNotify(t)

ContinueEvent(t) ==
  \/ OnEventIgnored(t) \/ OnEventChecked(t) \/ OnRpcMethodInvocation(t) \/ OnOtherEvent(t)
  \/ OnDisconnected(t) \/ OnDisconnectedNotify(t)
  \/ OnEosClaim(t) \/ OnEosNothing(t) \/ OnEosNotify(t)

Rust ==
  \/ \E n \in Connects : RustCloses(n)
  \/ \E t \in FfiThreads, l, n \in Connects, kind \in EventKinds : OnEvent(t, l, n, kind)

Next ==
  \/ \E t \in AppThreads : StartCall(t)
  \/ \E t \in Threads : ContinueCall(t)
  \/ \E t \in FfiThreads : ContinueEvent(t)
  \/ Rust

(***************************************************************************)
(* Fairness: threads are scheduled, delegates and RPC handlers return, and *)
(* Rust answers connect and disconnect (FfiClient!FuturesResolve).         *)
(***************************************************************************)
Fairness ==
  /\ \A t \in Threads : WF_vars(ContinueCall(t))
  /\ \A t \in FfiThreads : WF_vars(ContinueEvent(t))

Safe == Init /\ [][Next]_vars
Spec == Safe /\ Fairness

-----------------------------------------------------------------------------
(***************************************************************************)
(* Properties                                                              *)
(***************************************************************************)
\* A disconnect() that is called while connect() waits for Rust takes the listener down, and
\* connect() then publishes its room all the same: a connected Room without a listener, in which
\* the next disconnect() has no listener to wait for.  Where the properties except such
\* overtaken connections, they say what the code ensures of every other one.

\* Every listener the Room has registered is known to the Room, or to a thread that will store or remove it: none can
\* outlive the Room.  And a connected Room hears the events of its room ("Emits room/participant/track events to the
\* delegate"), unless disconnect() has overtaken connect().
ListenersOwned ==
  /\ \A l \in registered :
       \/ l = listener_id
       \/ \E t \in Threads : listener_to_remove[t] = l \/ (at[t] = "store" /\ mine[t] = l)
  /\ connection_state = "Connected" /\ room_handle \notin overtaken => listener_id \in registered

\* onDisconnected() is called at most once for a connect(), whichever of disconnect(), the
\* destructor and the server's event come first ("onDisconnected must not fire twice"), and onRoomEos() is the last event of its room
\* ("will not emit further events").
NotifiedOnce ==
  /\ \A n \in Connects \ overtaken : notified[n] <= 1
  /\ after_eos \subseteq overtaken

\* The LocalParticipant that an RPC invocation uses through a plain pointer, after the lock has been released, still
\* exists, unless disconnect() has overtaken the connect() that made it.
RpcPointerValid ==
  \A t \in FfiThreads : at[t] = "rpc" /\ event[t].room \notin overtaken => event[t].room \notin freed

\* Once the destructor has returned no thread is in onEvent() and no event gets in, except while a thread handles
\* EOS: that thread has taken the listener from the destructor, which then waits for nobody (DestructorWaitsForEvents).
OnlyEosOutlivesRoom ==
  destroyed /\ (\A t \in FfiThreads : event[t].kind # "eos") =>
    registered = {} /\ \A t \in FfiThreads : inside[t] = None

\* No thread is in onEvent() of a Room that has been destroyed ("disconnect() handles all destruction/graceful
\* teardown functionality").
DestructorWaitsForEvents == destroyed => \A t \in FfiThreads : inside[t] = None

\* The destructor leaves no listener behind ("disconnect() handles all destruction/graceful
\* teardown functionality").
DestructorUnregisters ==
  destroyed /\ (\A t \in FfiThreads : inside[t] = None) => registered = {}

\* connect(), disconnect() and ~Room() return.
CallsReturn == \A t \in AppThreads : at[t] # "idle" ~> at[t] = "idle"
=============================================================================
