------------------------------ MODULE LocalRpc ------------------------------
(***************************************************************************)
(* The RPC side of livekit::LocalParticipant (local_participant.cpp):      *)
(* handlers are registered and unregistered by the application, invocations*)
(* arrive on Rust threads and run them, and shutdown(), called when the    *)
(* Room is torn down, waits for the invocations under way, but not for     *)
(* longer than five seconds.                                               *)
(*                                                                         *)
(* Every invocation has a Rust thread of its own, so that any number run at*)
(* once, and the application registers from several threads.               *)
(* rpc_handlers_ has no lock: a step of the model is one access to it, and *)
(* accesses that overlap follow one another in some order (in C++ they race*)
(* and may do worse).  A handler is the number of the registration that    *)
(* stored it.                                                              *)
(***************************************************************************)
EXTENDS Naturals, FiniteSets

CONSTANTS
  Methods,            \* the names of RPC methods
  RpcCallers,         \* the application's threads that call registerRpcMethod() and unregisterRpcMethod()
  MaxInvocations,     \* bound on the invocations that Rust starts
  MaxRegistrations    \* bound on the calls of registerRpcMethod()

ASSUME LocalRpcAssumption ==
  IsFiniteSet(Methods) /\ MaxInvocations \in Nat /\ MaxRegistrations \in Nat

Invocations == 1 .. MaxInvocations
NoHandler == 0

VARIABLES
  rpc_handlers,       \* per method, the handler stored for it
  shutting_down,
  active_invocations,
  registrations,      \* how many handlers have been registered
  rust_methods,       \* the methods Rust knows of
  registering,        \* per application thread, its call of registerRpcMethod() or unregisterRpcMethod()
  shutdown_at,            \* how far shutdown() is
  to_unregister,      \* the methods its loop has still to visit
  timed_out,          \* did it stop waiting?
  at,                 \* per invocation, its next step
  method,             \* per invocation, the method it calls
  handler,            \* per invocation, the handler it runs
  answer,             \* per invocation, the response Rust has got
  missed,             \* history: the invocations whose method was unregistered while they were under way
  torn                \* history: the methods for which two calls overlapped or a request failed

rpcMaps == <<rpc_handlers, registrations, rust_methods, registering, missed, torn>>
rpcShutdown == <<shutdown_at, to_unregister, timed_out>>
rpcInvocation == <<at, method, handler, answer>>
rpcVars == <<rpcMaps, shutting_down, active_invocations, rpcShutdown, rpcInvocation>>

Answers == {"payload", "rpc_error", "application_error", "unsupported_method", "lost"}
Steps == {"unused", "sent", "find", "handler", "recheck", "respond", "leave", "done"}
Idle == [op |-> "none", method |-> CHOOSE m \in Methods : TRUE]

RpcInit ==
  /\ rpc_handlers = [m \in Methods |-> NoHandler]
  /\ shutting_down = FALSE
  /\ active_invocations = 0
  /\ registrations = 0
  /\ rust_methods = {}
  /\ registering = [t \in RpcCallers |-> Idle]
  /\ shutdown_at = "no" /\ to_unregister = {} /\ timed_out = FALSE
  /\ at = [i \in Invocations |-> "unused"]
  /\ method = [i \in Invocations |-> Idle.method]
  /\ handler = [i \in Invocations |-> NoHandler]
  /\ answer = [i \in Invocations |-> "none"]
  /\ missed = {} /\ torn = {}

-----------------------------------------------------------------------------
(* registerRpcMethod() and unregisterRpcMethod() *)

UnderWay(m) == {i \in Invocations : method[i] = m /\ at[i] \notin {"unused", "done"}}

Call(op, m) == [op |-> op, method |-> m]
Calling(m) == {t \in RpcCallers : registering[t] # Idle /\ registering[t].method = m}

\* A thread enters a call, whose first step is its access to the map.
EnterCall(t, op, m) ==
  /\ registering[t] = Idle
  /\ registering' = [registering EXCEPT ![t] = Call(op, m)]
  /\ torn' = IF Calling(m) # {} THEN torn \cup {m} ELSE torn

\* While shutdown() walks over the map, a change of the map leaves open which of these
\* methods the walk still visits.
WalkDisturbed(methods) ==
  to_unregister' \in IF shutdown_at = "unregister" THEN SUBSET methods ELSE {to_unregister}

RegisterRpcMethod(t, m) ==
  /\ EnterCall(t, "register", m)
  /\ registrations < MaxRegistrations
  /\ registrations' = registrations + 1
  /\ rpc_handlers' = [rpc_handlers EXCEPT ![m] = registrations + 1]
  /\ WalkDisturbed({n \in Methods : n = m \/ rpc_handlers[n] # NoHandler})
  /\ UNCHANGED <<rust_methods, missed, shutting_down, active_invocations, shutdown_at, timed_out, rpcInvocation>>

\* Mutant of UnregisterRpcMethod: the handler stays in the map.
UnregisterInRustOnly(t, m) ==
  /\ EnterCall(t, "unregister", m)
  /\ UNCHANGED <<rpc_handlers, missed, registrations, rust_methods, shutting_down, active_invocations, rpcShutdown,
                 rpcInvocation>>

UnregisterRpcMethod(t, m) ==
  /\ EnterCall(t, "unregister", m)
  /\ rpc_handlers' = [rpc_handlers EXCEPT ![m] = NoHandler]
  /\ missed' = missed \cup UnderWay(m)
  /\ WalkDisturbed(to_unregister \ {m})
  /\ UNCHANGED <<registrations, rust_methods, shutting_down, active_invocations, shutdown_at, timed_out, rpcInvocation>>

\* The request that follows; if it fails the exception leaves the map as it is by then.
SendRegistration(t, sent) ==
  LET call == registering[t] IN
  /\ call # Idle
  /\ rust_methods' = CASE ~sent                 -> rust_methods
                       [] call.op = "register"  -> rust_methods \cup {call.method}
                       [] OTHER                 -> rust_methods \ {call.method}
  /\ torn' = IF sent THEN torn ELSE torn \cup {call.method}
  /\ registering' = [registering EXCEPT ![t] = Idle]
  /\ UNCHANGED <<rpc_handlers, registrations, missed, shutting_down, active_invocations, rpcShutdown, rpcInvocation>>

-----------------------------------------------------------------------------
(* handleRpcMethodInvocation() *)

InvocationAt(i, step) == at[i] = step
Go(i, step) == at' = [at EXCEPT ![i] = step]

\* Rust has received a request for a registered method; the event is on its way.  An unused
\* method may have been unregistered by the time it arrives.
RustInvokes(i, m) ==
  /\ InvocationAt(i, "unused") /\ \A j \in 1 .. i - 1 : ~InvocationAt(j, "unused")
  /\ m \in rust_methods
  /\ method' = [method EXCEPT ![i] = m]
  /\ missed' = IF rpc_handlers[m] = NoHandler THEN missed \cup {i} ELSE missed
  /\ Go(i, "sent")
  /\ UNCHANGED <<rpc_handlers, registrations, rust_methods, registering, torn, shutting_down,
                 active_invocations, rpcShutdown, handler, answer>>

TrackInvocation(i) ==
  /\ InvocationAt(i, "sent")
  /\ IF shutting_down
     THEN Go(i, "done") /\ UNCHANGED active_invocations
     ELSE Go(i, "find") /\ active_invocations' = active_invocations + 1
  /\ UNCHANGED <<rpcMaps, shutting_down, rpcShutdown, method, handler, answer>>

FindHandler(i) ==
  /\ InvocationAt(i, "find")
  /\ handler' = [handler EXCEPT ![i] = rpc_handlers[method[i]]]
  /\ Go(i, IF rpc_handlers[method[i]] = NoHandler THEN "recheck" ELSE "handler")
  /\ UNCHANGED <<rpcMaps, shutting_down, active_invocations, rpcShutdown, method, answer>>

\* The handler returns, with or without a payload, or throws.
RunHandler(i) ==
  /\ InvocationAt(i, "handler")
  /\ Go(i, "recheck")
  /\ UNCHANGED <<rpcMaps, shutting_down, active_invocations, rpcShutdown, method, handler, answer>>

Recheck(i) ==
  /\ InvocationAt(i, "recheck")
  /\ Go(i, IF shutting_down THEN "leave" ELSE "respond")
  /\ UNCHANGED <<rpcMaps, shutting_down, active_invocations, rpcShutdown, method, handler, answer>>

\* What is sent: RpcError::builtIn(UNSUPPORTED_METHOD) without a handler, else what the handler
\* returned, the RpcError it threw, or APPLICATION_ERROR for any other exception.  The request
\* may fail; then the caller gets no answer from here ("lost").
Respond(i, a) ==
  /\ InvocationAt(i, "respond")
  /\ handler[i] = NoHandler => a \in {"unsupported_method", "lost"}
  /\ handler[i] # NoHandler => a # "unsupported_method"
  /\ answer' = [answer EXCEPT ![i] = a]
  /\ Go(i, "leave")
  /\ UNCHANGED <<rpcMaps, shutting_down, active_invocations, rpcShutdown, method, handler>>

\* InvocationGuard
LeaveInvocation(i) ==
  /\ InvocationAt(i, "leave")
  /\ active_invocations' = active_invocations - 1
  /\ Go(i, "done")
  /\ UNCHANGED <<rpcMaps, shutting_down, rpcShutdown, method, handler, answer>>

-----------------------------------------------------------------------------
(* shutdown() *)

ShutdownStart ==
  /\ shutdown_at = "no"
  /\ shutting_down' = TRUE
  /\ shutdown_at' = "wait"
  /\ UNCHANGED <<rpcMaps, active_invocations, to_unregister, timed_out, rpcInvocation>>

\* Mutant of NoActiveInvocations: the wait tolerates the last invocation.
OneInvocationTolerated == active_invocations <= 1

NoActiveInvocations == active_invocations = 0

ShutdownUnregisterFrom ==
  /\ shutdown_at = "wait"
  /\ shutdown_at' = "unregister"
  /\ to_unregister' = {m \in Methods : rpc_handlers[m] # NoHandler}
  /\ UNCHANGED <<rpcMaps, shutting_down, active_invocations, rpcInvocation>>

\* wait_for() returns because the predicate holds ...
ShutdownWait == NoActiveInvocations /\ ShutdownUnregisterFrom /\ UNCHANGED timed_out

\* ... or because five seconds are over.
ShutdownTimeout == ~NoActiveInvocations /\ ShutdownUnregisterFrom /\ timed_out' = TRUE

\* One round of the loop; a request that fails throws, and the map is not cleared.
ShutdownUnregister(m, sent) ==
  /\ shutdown_at = "unregister" /\ m \in to_unregister
  /\ IF sent THEN rust_methods' = rust_methods \ {m} /\ to_unregister' = to_unregister \ {m} /\ UNCHANGED shutdown_at
             ELSE shutdown_at' = "done" /\ to_unregister' = {} /\ UNCHANGED rust_methods
  /\ UNCHANGED <<rpc_handlers, registrations, registering, missed, torn, shutting_down, active_invocations,
                 timed_out, rpcInvocation>>

ShutdownClear ==
  /\ shutdown_at = "unregister" /\ to_unregister = {}
  /\ rpc_handlers' = [m \in Methods |-> NoHandler]
  /\ missed' = missed \cup {i \in Invocations : at[i] \notin {"unused", "done"}}
  /\ shutdown_at' = "done"
  /\ UNCHANGED <<registrations, rust_methods, registering, torn, shutting_down, active_invocations,
                 to_unregister, timed_out, rpcInvocation>>

-----------------------------------------------------------------------------
Invocation(i) ==
  \/ TrackInvocation(i) \/ FindHandler(i) \/ Recheck(i) \/ LeaveInvocation(i)
  \/ \E a \in Answers : Respond(i, a)

Shutdown ==
  \/ ShutdownWait \/ ShutdownTimeout \/ ShutdownClear
  \/ \E m \in Methods, sent \in BOOLEAN : ShutdownUnregister(m, sent)

RpcNext ==
  \/ \E t \in RpcCallers, m \in Methods : RegisterRpcMethod(t, m) \/ UnregisterRpcMethod(t, m)
  \/ \E t \in RpcCallers, sent \in BOOLEAN : SendRegistration(t, sent)
  \/ \E i \in Invocations : Invocation(i) \/ RunHandler(i) \/ \E m \in Methods : RustInvokes(i, m)
  \/ ShutdownStart \/ Shutdown

\* The Rust threads and the threads in the SDK's methods run on; nothing is assumed of handlers.
RpcFairness ==
  /\ \A i \in Invocations : WF_rpcVars(Invocation(i))
  /\ \A t \in RpcCallers : WF_rpcVars(\E sent \in BOOLEAN : SendRegistration(t, sent))
  /\ WF_rpcVars(Shutdown)

RpcSpec == RpcInit /\ [][RpcNext]_rpcVars

-----------------------------------------------------------------------------
(* Properties *)

\* Once shutdown() has returned without running into its timeout, no invocation is under way in
\* handleRpcMethodInvocation() beyond the test that refuses it: no handler runs, and no response
\* is sent with a handle that is about to be dropped.
ShutdownQuiescent ==
  shutdown_at \in {"unregister", "done"} /\ ~timed_out =>
    \A i \in Invocations : at[i] \in {"unused", "sent", "done"}

\* UNSUPPORTED_METHOD is answered only if the method was not registered at some moment while the
\* invocation was under way.
UnsupportedOnlyIfRemoved ==
  \A i \in Invocations : answer[i] = "unsupported_method" => i \in missed

\* Rust offers a method only while there is a handler for it, or it is just being unregistered, and
\* every handler is known to Rust or just being registered: until shutdown() walks over the
\* methods, and except for methods torn between calls that overlapped or by a failed request.
MethodsKnown ==
  shutdown_at \in {"no", "wait"} =>
    \A m \in Methods \ torn :
      /\ m \in rust_methods => \/ rpc_handlers[m] # NoHandler
                              \/ \E t \in RpcCallers : registering[t] = Call("unregister", m)
      /\ rpc_handlers[m] # NoHandler => \/ m \in rust_methods
                                       \/ \E t \in RpcCallers : registering[t] = Call("register", m)

\* The remote participants find the methods that have a handler: registerRpcMethod() stores it before
\* Rust hears of the method, unregisterRpcMethod() takes it out again, and whoever is told
\* UNSUPPORTED_METHOD met a method without one.  It does not say that a handler lives as long as it
\* runs: registerRpcMethod(), unregisterRpcMethod() and shutdown() destroy it regardless.
HandlersServe == UnsupportedOnlyIfRemoved /\ MethodsKnown

\* An invocation is answered, if only with an error, unless its handler never returns or the
\* participant is shut down meanwhile.
InvocationsAnswered ==
  \A i \in Invocations :
    at[i] = "sent" ~> (answer[i] # "none" \/ shutting_down \/ [](at[i] = "handler"))

\* shutdown() returns, whatever the handlers do.
ShutdownReturns == shutdown_at = "wait" ~> shutdown_at = "done"
=============================================================================
