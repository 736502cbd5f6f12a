----------------------------- MODULE FfiClient -----------------------------
(***************************************************************************)
(* livekit::FfiClient (src/src/ffi_client.cpp, src/src/ffi_client.h): the  *)
(* singleton through which every object of the SDK talks to the Rust FFI.  *)
(* It owns the lifecycle of the FFI, the registry of event listeners and   *)
(* the table of pending asynchronous operations, and it is entered by two  *)
(* kinds of threads: application threads, which call its methods, and the  *)
(* threads of the Rust runtime, which push events into it and run the      *)
(* listeners.  A listener may itself call the methods.                     *)
(*                                                                         *)
(* A step is one region that the code makes atomic: the code under lock_,  *)
(* the code under one slot's mutex, one atomic operation on                *)
(* lifecycle_state_, or one call into the FFI.                             *)
(***************************************************************************)
EXTENDS FfiAsyncApi, Integers, FiniteSets

CONSTANTS
  AppThreads,    \* threads of the application
  FfiThreads,    \* threads of the Rust runtime, which call ffiEventCallback
  Apis,          \* the asynchronous requests the application makes
  CrossRemoval,  \* may a listener's callback remove another listener?
  MaxListeners,  \* bound on the listeners ever added
  MaxOps,        \* bound on the asynchronous operations ever started
  MaxSessions    \* bound on the calls of initialize() that get past its test

Threads == AppThreads \cup FfiThreads

ASSUME ThreadsAssumption ==
  /\ IsFiniteSet(AppThreads)
  /\ IsFiniteSet(FfiThreads)
  /\ AppThreads \cap FfiThreads = {}

ASSUME ApisAssumption == Apis \subseteq AsyncApis

ASSUME BoundsAssumption ==
  /\ CrossRemoval \in BOOLEAN
  /\ MaxListeners \in Nat
  /\ MaxOps \in Nat
  /\ MaxSessions \in Nat

ListenerIds == 1 .. MaxListeners
AsyncIds == 1 .. MaxOps
None == 0

VARIABLES
  lifecycle_state,   \* the atomic lifecycle_state_
  sessions,          \* how often initialize() has claimed the client (for its bound)
  listeners,         \* the keys of listeners_
  next_listener_id,
  removed,           \* the slots whose flag removed is set
  active_callbacks,  \* per slot
  active_threads,    \* per slot, the threads inside its callback
  pending_by_id,     \* the keys of pending_by_id_
  next_async_id,
  api,               \* per operation, the method that started it
  promise,           \* per operation, what its promise holds
  in_flight,         \* the operations whose request Rust accepted and has not answered
  frame,             \* per thread, where it is in pushEvent
  listeners_copy,    \* per thread, the part of pushEvent's snapshot still to be notified
  slot,              \* per thread, the slot whose callback it runs
  to_complete,       \* per thread, the operation pushEvent has taken out of the table
  answer,            \* per thread, what the event says of that operation
  call,              \* per thread, where it is in a method of the client
  arg,               \* per thread, the listener or operation that method is about
  to_drain,          \* per thread, shutdown()'s listeners_to_drain
  waited,            \* per thread, the part of them shutdown() has waited for
  to_cancel,         \* per thread, shutdown()'s pending_to_cancel
  removals           \* history: the calls of removeListener() that have returned

lifecycleVars == <<lifecycle_state, sessions>>
listenerVars == <<listeners, next_listener_id, removed, active_callbacks, active_threads, removals>>
asyncVars == <<pending_by_id, next_async_id, api, promise, in_flight>>
frameVars == <<frame, listeners_copy, slot, to_complete, answer>>
callVars == <<call, arg, to_drain, waited, to_cancel>>

vars == <<lifecycleVars, listenerVars, asyncVars, frameVars, callVars>>

LifecycleStates == {"Uninitialized", "Initializing", "Initialized", "ShuttingDown"}
Frames == {"idle", "complete", "notify", "callback"}
AsyncCalls == {"check", "send", "cancel", "set_cancelled"}
ShutdownCalls == {"drain", "cancel_all", "wait", "dispose", "store"}
Calls == {"none", "initialize", "remove"} \cup AsyncCalls \cup ShutdownCalls
Promises == {"unset", "value", "failure", "exception", "cancelled"}

Init ==
  /\ lifecycle_state = "Uninitialized"
  /\ sessions = 0
  /\ listeners = {}
  /\ next_listener_id = 1
  /\ removed = {}
  /\ active_callbacks = [s \in ListenerIds |-> 0]
  /\ active_threads = [s \in ListenerIds |-> {}]
  /\ pending_by_id = {}
  /\ next_async_id = 1
  /\ api \in [AsyncIds -> Apis]
  /\ promise = [o \in AsyncIds |-> "unset"]
  /\ in_flight = {}
  /\ frame = [t \in Threads |-> "idle"]
  /\ listeners_copy = [t \in Threads |-> {}]
  /\ slot = [t \in Threads |-> None]
  /\ to_complete = [t \in Threads |-> None]
  /\ answer = [t \in Threads |-> "nothing"]
  /\ call = [t \in Threads |-> "none"]
  /\ arg = [t \in Threads |-> None]
  /\ to_drain = [t \in Threads |-> {}]
  /\ waited = [t \in Threads |-> {}]
  /\ to_cancel = [t \in Threads |-> {}]
  /\ removals = {}

-----------------------------------------------------------------------------
(***************************************************************************)
(* Calling a method: an application thread calls at any time, a thread of  *)
(* the Rust runtime only from inside a listener.                           *)
(***************************************************************************)
MayCall(t) ==
  /\ call[t] = "none"
  /\ t \in AppThreads \/ frame[t] = "callback"

Goto(t, c) == call' = [call EXCEPT ![t] = c]

Return(t) ==
  /\ Goto(t, "none")
  /\ arg' = [arg EXCEPT ![t] = None]

-----------------------------------------------------------------------------
(* initialize() *)

InitializeClaim(t) ==
  /\ MayCall(t)
  /\ sessions < MaxSessions
  /\ lifecycle_state = "Uninitialized"
  /\ lifecycle_state' = "Initializing"
  /\ sessions' = sessions + 1
  /\ Goto(t, "initialize")
  /\ UNCHANGED <<listenerVars, asyncVars, frameVars, arg, to_drain, waited, to_cancel>>

\* livekit_ffi_initialize either returns or throws; a throw puts the state back.
InitializeStore(t) ==
  /\ call[t] = "initialize"
  /\ lifecycle_state' \in {"Initialized", "Uninitialized"}
  /\ Return(t)
  /\ UNCHANGED <<sessions, listenerVars, asyncVars, frameVars, to_drain, waited, to_cancel>>

-----------------------------------------------------------------------------
(* addListener() and removeListener() *)

\* Mutant of AddListener: the test for a shutdown in progress is missing.
AddListenerUnchecked(t) ==
  /\ MayCall(t)
  /\ next_listener_id <= MaxListeners
  /\ listeners' = listeners \cup {next_listener_id}
  /\ next_listener_id' = next_listener_id + 1
  /\ UNCHANGED <<lifecycleVars, removed, active_callbacks, active_threads, removals, asyncVars, frameVars, callVars>>

AddListener(t) ==
  /\ MayCall(t)
  /\ next_listener_id <= MaxListeners
  /\ lifecycle_state # "ShuttingDown"
  /\ listeners' = listeners \cup {next_listener_id}
  /\ next_listener_id' = next_listener_id + 1
  /\ UNCHANGED <<lifecycleVars, removed, active_callbacks, active_threads, removals, asyncVars, frameVars, callVars>>

\* The listeners a call made by thread t may name: ids that have been handed out.  Without
\* CrossRemoval a callback only removes the listener it belongs to.
Removable(t) ==
  {s \in 1 .. next_listener_id - 1 : frame[t] = "callback" => CrossRemoval \/ s = slot[t]}

\* The id is not in the map (any more): the call returns without waiting for anything.
RemoveListenerMissing(t, s) ==
  /\ MayCall(t)
  /\ s \in Removable(t) \ listeners
  /\ removals' = removals \cup {[thread |-> t, id |-> s, found |-> FALSE]}
  /\ UNCHANGED <<lifecycleVars, listeners, next_listener_id, removed, active_callbacks, active_threads, asyncVars,
                 frameVars, callVars>>

RemoveListenerTake(t, s) ==
  /\ MayCall(t)
  /\ s \in Removable(t) \cap listeners
  /\ listeners' = listeners \ {s}
  /\ Goto(t, "remove")
  /\ arg' = [arg EXCEPT ![t] = s]
  /\ UNCHANGED <<lifecycleVars, next_listener_id, removed, active_callbacks, active_threads, removals, asyncVars,
                 frameVars, to_drain, waited, to_cancel>>

\* Mutants of NoOtherCallback: the wait does not ask whose callback is running; the wait
\* does not allow for the caller's own callback.
OneCallbackTolerated(s, t) == active_callbacks[s] <= 1
OwnCallbackCounted(s, t) == active_callbacks[s] = 0

\* The predicate of removeListener()'s wait.
NoOtherCallback(s, t) ==
  \/ active_callbacks[s] = 0
  \/ t \in active_threads[s] /\ active_callbacks[s] = 1

RemoveListenerFinish(t) ==
  LET s == arg[t] IN
  /\ call[t] = "remove"
  /\ NoOtherCallback(s, t)
  /\ removed' = removed \cup {s}
  /\ removals' = removals \cup {[thread |-> t, id |-> s, found |-> TRUE]}
  /\ Return(t)
  /\ UNCHANGED <<lifecycleVars, listeners, next_listener_id, active_callbacks, active_threads, asyncVars, frameVars,
                 to_drain, waited, to_cancel>>

-----------------------------------------------------------------------------
(* An xxxAsync method: register the operation, check, send, or cancel. *)

\* Mutant of RegisterAsync: generateAsyncId() does not advance its counter.
RegisterAsyncSameId(t) ==
  /\ MayCall(t)
  /\ next_async_id <= MaxOps
  /\ pending_by_id' = pending_by_id \cup {next_async_id}
  /\ Goto(t, "check")
  /\ arg' = [arg EXCEPT ![t] = next_async_id]
  /\ UNCHANGED <<lifecycleVars, listenerVars, next_async_id, api, promise, in_flight, frameVars, to_drain, waited,
                 to_cancel>>

RegisterAsync(t) ==
  /\ MayCall(t)
  /\ next_async_id <= MaxOps
  /\ pending_by_id' = pending_by_id \cup {next_async_id}
  /\ next_async_id' = next_async_id + 1
  /\ Goto(t, "check")
  /\ arg' = [arg EXCEPT ![t] = next_async_id]
  /\ UNCHANGED <<lifecycleVars, listenerVars, api, promise, in_flight, frameVars, to_drain, waited, to_cancel>>

\* sendRequest() throws unless the client is initialized when it looks.
SendRequestCheck(t) ==
  /\ call[t] = "check"
  /\ Goto(t, IF lifecycle_state = "Initialized" THEN "send" ELSE "cancel")
  /\ UNCHANGED <<lifecycleVars, listenerVars, asyncVars, frameVars, arg, to_drain, waited, to_cancel>>

\* livekit_ffi_request: the method returns its future to the caller ...
SendRequestAccepted(t) ==
  /\ call[t] = "send"
  /\ in_flight' = in_flight \cup {arg[t]}
  /\ Return(t)
  /\ UNCHANGED <<lifecycleVars, listenerVars, pending_by_id, next_async_id, api, promise, frameVars, to_drain,
                 waited, to_cancel>>

\* ... or fails (invalid handle, empty or unparsable response, response of another kind),
\* and in the last cases Rust may still have accepted the request.
SendRequestFailed(t) ==
  /\ call[t] = "send"
  /\ in_flight' \in {in_flight, in_flight \cup {arg[t]}}
  /\ Goto(t, "cancel")
  /\ UNCHANGED <<lifecycleVars, listenerVars, pending_by_id, next_async_id, api, promise, frameVars, arg, to_drain,
                 waited, to_cancel>>

\* Mutant of CancelPendingTake: the operation is not erased from the table.
CancelPendingKept(t) ==
  /\ call[t] = "cancel"
  /\ arg[t] \in pending_by_id
  /\ Goto(t, "set_cancelled")
  /\ UNCHANGED <<lifecycleVars, listenerVars, asyncVars, frameVars, arg, to_drain, waited, to_cancel>>

\* cancelPendingByAsyncId: take the operation out of the table, if it is still there ...
CancelPendingTake(t) ==
  /\ call[t] = "cancel"
  /\ arg[t] \in pending_by_id
  /\ pending_by_id' = pending_by_id \ {arg[t]}
  /\ Goto(t, "set_cancelled")
  /\ UNCHANGED <<lifecycleVars, listenerVars, next_async_id, api, promise, in_flight, frameVars, arg, to_drain,
                 waited, to_cancel>>

CancelPendingMissing(t) ==
  /\ call[t] = "cancel"
  /\ arg[t] \notin pending_by_id
  /\ Return(t)
  /\ UNCHANGED <<lifecycleVars, listenerVars, asyncVars, frameVars, to_drain, waited, to_cancel>>

\* Pending::cancel: a promise that is already satisfied is left as it is.
Cancel(o) == IF promise[o] = "unset" THEN [promise EXCEPT ![o] = "cancelled"] ELSE promise

\* ... and cancel it outside the lock.
CancelPendingSet(t) ==
  /\ call[t] = "set_cancelled"
  /\ promise' = Cancel(arg[t])
  /\ Return(t)
  /\ UNCHANGED <<lifecycleVars, listenerVars, pending_by_id, next_async_id, api, in_flight, frameVars, to_drain,
                 waited, to_cancel>>

-----------------------------------------------------------------------------
(* shutdown() *)

ShutdownClaim(t) ==
  /\ MayCall(t)
  /\ lifecycle_state = "Initialized"
  /\ lifecycle_state' = "ShuttingDown"
  /\ Goto(t, "drain")
  /\ UNCHANGED <<sessions, listenerVars, asyncVars, frameVars, arg, to_drain, waited, to_cancel>>

ShutdownDrain(t) ==
  /\ call[t] = "drain"
  /\ removed' = removed \cup listeners
  /\ to_drain' = [to_drain EXCEPT ![t] = listeners]
  /\ listeners' = {}
  /\ to_cancel' = [to_cancel EXCEPT ![t] = pending_by_id]
  /\ pending_by_id' = {}
  /\ Goto(t, "cancel_all")
  /\ UNCHANGED <<lifecycleVars, next_listener_id, active_callbacks, active_threads, removals, next_async_id, api,
                 promise, in_flight, frameVars, arg, waited>>

ShutdownCancel(t, o) ==
  /\ call[t] = "cancel_all"
  /\ o \in to_cancel[t]
  /\ promise' = Cancel(o)
  /\ to_cancel' = [to_cancel EXCEPT ![t] = @ \ {o}]
  /\ UNCHANGED <<lifecycleVars, listenerVars, pending_by_id, next_async_id, api, in_flight, frameVars, call, arg,
                 to_drain, waited>>

ShutdownCancelled(t) ==
  /\ call[t] = "cancel_all"
  /\ to_cancel[t] = {}
  /\ Goto(t, "wait")
  /\ UNCHANGED <<lifecycleVars, listenerVars, asyncVars, frameVars, arg, to_drain, waited, to_cancel>>

\* Mutant of OnlySelfActive: any one callback is taken for shutdown's own.
OneActiveTolerated(s, t) == active_callbacks[s] <= 1

\* The predicate of shutdown()'s wait.
OnlySelfActive(s, t) == active_callbacks[s] = IF t \in active_threads[s] THEN 1 ELSE 0

ShutdownWait(t, s) ==
  /\ call[t] = "wait"
  /\ s \in to_drain[t] \ waited[t]
  /\ OnlySelfActive(s, t)
  /\ waited' = [waited EXCEPT ![t] = @ \cup {s}]
  /\ UNCHANGED <<lifecycleVars, listenerVars, asyncVars, frameVars, call, arg, to_drain, to_cancel>>

ShutdownDrained(t) ==
  /\ call[t] = "wait"
  /\ waited[t] = to_drain[t]
  /\ Goto(t, "dispose")
  /\ UNCHANGED <<lifecycleVars, listenerVars, asyncVars, frameVars, arg, to_drain, waited, to_cancel>>

\* livekit_ffi_dispose.  What Rust does with requests it has accepted is its own affair: it
\* may or may not still answer them.
ShutdownDispose(t) ==
  /\ call[t] = "dispose"
  /\ Goto(t, "store")
  /\ UNCHANGED <<lifecycleVars, listenerVars, asyncVars, frameVars, arg, to_drain, waited, to_cancel>>

ShutdownStore(t) ==
  /\ call[t] = "store"
  /\ lifecycle_state' = "Uninitialized"
  /\ to_drain' = [to_drain EXCEPT ![t] = {}]
  /\ waited' = [waited EXCEPT ![t] = {}]
  /\ Return(t)
  /\ UNCHANGED <<sessions, listenerVars, asyncVars, frameVars, to_cancel>>

-----------------------------------------------------------------------------
(* pushEvent() *)

MayPush(t) == t \in FfiThreads /\ frame[t] = "idle"

\* An event that answers no operation (a room, track or stream event, a log record).
PushNotification(t) ==
  /\ MayPush(t)
  /\ lifecycle_state = "Initialized"
  /\ listeners_copy' = [listeners_copy EXCEPT ![t] = listeners]
  /\ frame' = [frame EXCEPT ![t] = "notify"]
  /\ UNCHANGED <<lifecycleVars, listenerVars, asyncVars, slot, to_complete, answer, callVars>>

\* Mutant of PushAnswer: the operation is completed but stays in the table.
PushAnswerKept(t, o, a) ==
  LET found == api[o].callback \in ExtractAsyncId /\ o \in pending_by_id IN
  /\ MayPush(t)
  /\ o \in in_flight
  /\ lifecycle_state = "Initialized"
  /\ in_flight' = in_flight \ {o}
  /\ to_complete' = [to_complete EXCEPT ![t] = IF found THEN o ELSE None]
  /\ answer' = [answer EXCEPT ![t] = a]
  /\ listeners_copy' = [listeners_copy EXCEPT ![t] = listeners]
  /\ frame' = [frame EXCEPT ![t] = IF found THEN "complete" ELSE "notify"]
  /\ UNCHANGED <<lifecycleVars, listenerVars, pending_by_id, next_async_id, api, promise, slot, callVars>>

\* The event that answers operation o, of the case that belongs to o's request.
PushAnswer(t, o, a) ==
  LET found == api[o].callback \in ExtractAsyncId /\ o \in pending_by_id IN
  /\ MayPush(t)
  /\ o \in in_flight
  /\ lifecycle_state = "Initialized"
  /\ in_flight' = in_flight \ {o}
  /\ pending_by_id' = IF found THEN pending_by_id \ {o} ELSE pending_by_id
  /\ to_complete' = [to_complete EXCEPT ![t] = IF found THEN o ELSE None]
  /\ answer' = [answer EXCEPT ![t] = a]
  /\ listeners_copy' = [listeners_copy EXCEPT ![t] = listeners]
  /\ frame' = [frame EXCEPT ![t] = IF found THEN "complete" ELSE "notify"]
  /\ UNCHANGED <<lifecycleVars, listenerVars, next_async_id, api, promise, slot, callVars>>

\* An answer that arrives while the client is not initialized is dropped.
PushDropped(t, o) ==
  /\ MayPush(t)
  /\ o \in in_flight
  /\ lifecycle_state # "Initialized"
  /\ in_flight' = in_flight \ {o}
  /\ UNCHANGED <<lifecycleVars, listenerVars, pending_by_id, next_async_id, api, promise, frameVars, callVars>>

\* Pending::complete, the handler lambda of the operation's request.
HandlerResult(o, a) ==
  IF a \notin api[o].rejected THEN "value" ELSE IF api[o].style = "result" THEN "failure" ELSE "exception"

CompletePending(t) ==
  LET o == to_complete[t] IN
  /\ frame[t] = "complete"
  /\ promise' = [promise EXCEPT ![o] = HandlerResult(o, answer[t])]
  /\ to_complete' = [to_complete EXCEPT ![t] = None]
  /\ frame' = [frame EXCEPT ![t] = "notify"]
  /\ UNCHANGED <<lifecycleVars, listenerVars, pending_by_id, next_async_id, api, in_flight, listeners_copy, slot,
                 answer, callVars>>

SkipRemoved(t, s) ==
  /\ frame[t] = "notify"
  /\ s \in listeners_copy[t] \cap removed
  /\ listeners_copy' = [listeners_copy EXCEPT ![t] = @ \ {s}]
  /\ UNCHANGED <<lifecycleVars, listenerVars, asyncVars, frame, slot, to_complete, answer, callVars>>

EnterCallback(t, s) ==
  /\ frame[t] = "notify"
  /\ s \in listeners_copy[t] \ removed
  /\ listeners_copy' = [listeners_copy EXCEPT ![t] = @ \ {s}]
  /\ active_callbacks' = [active_callbacks EXCEPT ![s] = @ + 1]
  /\ active_threads' = [active_threads EXCEPT ![s] = @ \cup {t}]
  /\ slot' = [slot EXCEPT ![t] = s]
  /\ frame' = [frame EXCEPT ![t] = "callback"]
  /\ UNCHANGED <<lifecycleVars, listeners, next_listener_id, removed, removals, asyncVars, to_complete, answer,
                 callVars>>

\* The listener has returned or thrown; the waiters on the slot are notified.
LeaveCallback(t) ==
  LET s == slot[t] IN
  /\ frame[t] = "callback"
  /\ call[t] = "none"
  /\ active_callbacks' = [active_callbacks EXCEPT ![s] = @ - 1]
  /\ active_threads' = [active_threads EXCEPT ![s] = @ \ {t}]
  /\ slot' = [slot EXCEPT ![t] = None]
  /\ frame' = [frame EXCEPT ![t] = "notify"]
  /\ UNCHANGED <<lifecycleVars, listeners, next_listener_id, removed, removals, asyncVars, listeners_copy, to_complete,
                 answer, callVars>>

PushReturn(t) ==
  /\ frame[t] = "notify"
  /\ listeners_copy[t] = {}
  /\ frame' = [frame EXCEPT ![t] = "idle"]
  /\ answer' = [answer EXCEPT ![t] = "nothing"]
  /\ UNCHANGED <<lifecycleVars, listenerVars, asyncVars, listeners_copy, slot, to_complete, callVars>>

-----------------------------------------------------------------------------
\* A thread starts a method of the client.
StartCall(t) ==
  \/ InitializeClaim(t)
  \/ AddListener(t)
  \/ RegisterAsync(t)
  \/ ShutdownClaim(t)
  \/ \E s \in ListenerIds : RemoveListenerMissing(t, s) \/ RemoveListenerTake(t, s)

\* A thread goes on with the method it is in.
ContinueCall(t) ==
  \/ InitializeStore(t)
  \/ RemoveListenerFinish(t)
  \/ SendRequestCheck(t) \/ SendRequestAccepted(t) \/ SendRequestFailed(t)
  \/ CancelPendingTake(t) \/ CancelPendingMissing(t) \/ CancelPendingSet(t)
  \/ ShutdownDrain(t) \/ ShutdownCancelled(t) \/ ShutdownDrained(t) \/ ShutdownDispose(t) \/ ShutdownStore(t)
  \/ \E o \in AsyncIds : ShutdownCancel(t, o)
  \/ \E s \in ListenerIds : ShutdownWait(t, s)

\* Rust answers operation o, on any of its threads.
Answer(o) == \E t \in FfiThreads : PushDropped(t, o) \/ \E a \in Answers : PushAnswer(t, o, a)

\* A thread of the Rust runtime goes on with the event it has pushed.
ContinuePush(t) ==
  \/ CompletePending(t)
  \/ LeaveCallback(t)
  \/ PushReturn(t)
  \/ \E s \in ListenerIds : SkipRemoved(t, s) \/ EnterCallback(t, s)

Next ==
  \/ \E t \in Threads : StartCall(t) \/ ContinueCall(t) \/ ContinuePush(t)
  \/ \E t \in FfiThreads : PushNotification(t)
  \/ \E o \in AsyncIds : Answer(o)

(***************************************************************************)
(* Fairness.  The operating system schedules every thread, listeners       *)
(* return, and a wait whose condition stays true is woken (pushEvent       *)
(* notifies after every callback).  Rust answers every request it has      *)
(* accepted; strong fairness, because its threads may be busy with other   *)
(* events every time we look.                                              *)
(***************************************************************************)
Fairness ==
  /\ \A t \in Threads : WF_vars(ContinueCall(t)) /\ WF_vars(ContinuePush(t))
  /\ \A o \in AsyncIds : SF_vars(Answer(o))

Safe == Init /\ [][Next]_vars
Spec == Safe /\ Fairness

-----------------------------------------------------------------------------
(***************************************************************************)
(* Properties                                                              *)
(***************************************************************************)

\* The values of the variables, and the listener or operation each thread is working on.
LifecycleOK ==
  /\ lifecycle_state \in LifecycleStates
  /\ sessions \in 0 .. MaxSessions

ListenersOK ==
  /\ next_listener_id \in 1 .. MaxListeners + 1
  /\ listeners \subseteq 1 .. next_listener_id - 1
  /\ removed \subseteq 1 .. next_listener_id - 1
  /\ active_callbacks \in [ListenerIds -> Int]
  /\ active_threads \in [ListenerIds -> SUBSET Threads]
  /\ removals \subseteq [thread : Threads, id : ListenerIds, found : BOOLEAN]

AsyncOK ==
  /\ next_async_id \in 1 .. MaxOps + 1
  /\ pending_by_id \subseteq 1 .. next_async_id - 1
  /\ api \in [AsyncIds -> Apis]
  /\ promise \in [AsyncIds -> Promises]
  /\ in_flight \subseteq 1 .. next_async_id - 1

FramesOK ==
  /\ frame \in [Threads -> Frames]
  /\ listeners_copy \in [Threads -> SUBSET ListenerIds]
  /\ slot \in [Threads -> ListenerIds \cup {None}]
  /\ to_complete \in [Threads -> AsyncIds \cup {None}]
  /\ answer \in [Threads -> Answers]
  /\ \A t \in Threads : frame[t] = "callback" <=> slot[t] # None
  /\ \A t \in Threads : frame[t] = "complete" <=> to_complete[t] # None

CallsOK ==
  /\ call \in [Threads -> Calls]
  /\ arg \in [Threads -> Nat]
  /\ to_drain \in [Threads -> SUBSET ListenerIds]
  /\ waited \in [Threads -> SUBSET ListenerIds]
  /\ to_cancel \in [Threads -> SUBSET AsyncIds]
  /\ \A t \in Threads : call[t] = "remove" => arg[t] \in ListenerIds /\ arg[t] < next_listener_id
  /\ \A t \in Threads : call[t] \in AsyncCalls => arg[t] \in AsyncIds /\ arg[t] < next_async_id

TypeOK == LifecycleOK /\ ListenersOK /\ AsyncOK /\ FramesOK /\ CallsOK

\* removeListener(), when it found the slot, returns only when no other thread is inside the
\* listener's callback, and from then on none enters it, not even from a snapshot taken
\* before: the owner of the listener may be destroyed.
NoCallbackAfterRemove ==
  \A r \in removals : r.found => \A t \in Threads : slot[t] = r.id => t = r.thread

\* When shutdown() disposes of the FFI, no other thread is inside the callback of a listener
\* that shutdown took out of the registry (only shutdown's own callback may be running).
DisposeAfterCallbacks ==
  \A t, u \in Threads :
    call[t] \in {"dispose", "store"} /\ slot[u] \in to_drain[t] => u = t

\* Who still has to satisfy the promise of operation o: the table of pending operations, a
\* thread completing it, one cancelling it after a failed request, or one shutting down.
Holders(o) ==
  { <<"table", t>> : t \in {t \in {None} : o \in pending_by_id} }
    \cup { <<"complete", t>> : t \in {t \in Threads : to_complete[t] = o} }
    \cup { <<"cancel", t>> : t \in {t \in Threads : call[t] = "set_cancelled" /\ arg[t] = o} }
    \cup { <<"shutdown", t>> : t \in {t \in Threads : o \in to_cancel[t]} }

\* No promise is satisfied twice and none is broken: whatever the order of answer, failed
\* request and shutdown, an operation whose promise is satisfied is held by nobody, and one
\* whose promise is not satisfied by exactly one party.
PromiseOwnedOnce ==
  \A o \in 1 .. next_async_id - 1 :
    /\ promise[o] # "unset" <=> Holders(o) = {}
    /\ \A h, k \in Holders(o) : h = k

\* The refinement mapping to the abstract view of the operations.
OperationStatus ==
  [o \in AsyncIds |->
     IF o >= next_async_id THEN "unused" ELSE IF promise[o] = "unset" THEN "waiting" ELSE promise[o]]

Abstract ==
  INSTANCE AsyncOperations
    WITH Operations <- AsyncIds, Outcomes <- Promises \ {"unset"}, status <- OperationStatus

\* The client implements the abstract operations: every future goes from waiting to one
\* outcome and keeps it.
ImplementsAsyncOperations == Abstract!Spec

\* While a shutdown is between draining the client and making it usable again, no listener is
\* registered, so none of the next session's listeners can be lost or left undrained.
NoListenerDuringShutdown ==
  (\E t \in Threads : call[t] \in {"cancel_all", "wait", "dispose", "store"}) =>
    listeners = {} /\ lifecycle_state = "ShuttingDown"

\* Every operation that was started has its future satisfied, by its answer, by a failed
\* request or by a shutdown.
FuturesResolve ==
  \A o \in AsyncIds : (next_async_id > o) ~> (promise[o] # "unset")

\* Every call of removeListener() and of shutdown() returns.
CallsReturn ==
  \A t \in Threads : (call[t] # "none") ~> (call[t] = "none")
=============================================================================
