--------------------------- MODULE ServicesProofs ---------------------------
(***************************************************************************)
(* Proofs about the parts of the SDK around a room, each for any number of *)
(* threads, frames, calls and invocations: data track streams              *)
(* (DataTrackStream), the RPC methods of the local participant (LocalRpc), *)
(* the caching token source (TokenSource), the tracks of the local         *)
(* participant (LocalTracks) and the event tracer (EventTracer).           *)
(***************************************************************************)
EXTENDS DataTrackStream, LocalRpc, TokenSource, LocalTracks, EventTracer, SequenceTheorems, FiniteSetTheorems, TLAPS

-----------------------------------------------------------------------------
(* DataTrackStream *)

ReadSteps == {"init", "idle", "wait", "asleep", "response", "threw", "missing", "fail", "ended"}

StreamTypeOK ==
  /\ frame \in Nat /\ sent \in Nat /\ last_read \in Nat
  /\ eof \in BOOLEAN /\ closed \in BOOLEAN /\ demand \in BOOLEAN /\ overwritten \in BOOLEAN
  /\ reading \in ReadSteps
  /\ ffi \in [frame : Nat, error : Ends \cup {"open"}]
  /\ end \in Ends \cup {"open"}

\* A frame is in one place: owed by Rust, with the FFI thread, or in the slot.  As long as it is in
\* one of them, the reader is in its wait or has left for good, and so does not ask for another.
FramePlaces ==
  /\ ~overwritten
  /\ last_read <= sent
  /\ demand => frame = 0 /\ ffi.frame = 0
  /\ ffi.frame # 0 => frame = 0 /\ ffi.frame = sent /\ last_read < sent
  /\ frame # 0 => frame = sent /\ last_read < sent
  /\ demand \/ ffi.frame # 0 \/ frame # 0 => reading \in {"wait", "asleep", "ended"}

StreamInv == StreamTypeOK /\ FramePlaces

\* A stream that has just been created has no frame anywhere.
LEMMA StreamInit == Init => StreamInv
<1> SUFFICES ASSUME Init PROVE StreamInv
  OBVIOUS
<1>1. ffi = [frame |-> 0, error |-> "none"] /\ "none" \in Ends
  BY DEF Init, Nothing, NoError, Ends
<1>2. StreamTypeOK
  <2>1. ffi \in [frame : Nat, error : Ends \cup {"open"}]
    BY <1>1
  <2> QED
    BY <2>1 DEF Init, StreamTypeOK, ReadSteps
<1>3. FramePlaces
  BY <1>1 DEF Init, FramePlaces
<1> QED
  BY <1>2, <1>3 DEF StreamInv

\* Every step of the reader, of a thread that closes, of the FFI thread and of Rust keeps it so.
LEMMA StreamStep == StreamInv /\ [Next]_vars => StreamInv'
<1> SUFFICES ASSUME StreamInv, [Next]_vars PROVE StreamInv'
  OBVIOUS
<1> USE DEF StreamInv, StreamTypeOK, FramePlaces, ReadSteps, slotVars, rustVars, ffiVars, Ends, Nothing, NoError, Woken
<1>0. CASE UNCHANGED vars
  BY <1>0 DEF vars
<1>1. CASE InitAddListener
  BY <1>1 DEF InitAddListener
<1>2. CASE ReadOver
  BY <1>2 DEF ReadOver
<1>3. CASE ReadRequest
  BY <1>3 DEF ReadRequest
<1>4. CASE ReadResponseEos
  BY <1>4 DEF ReadResponseEos, PushEos
<1>5. CASE ReadRequestThrows
  BY <1>5 DEF ReadRequestThrows
<1>6. CASE FailProtocolError
  BY <1>6 DEF FailProtocolError, PushEos
<1>7. CASE ReadFailed
  BY <1>7 DEF ReadFailed
<1>8. CASE ReadSleeps
  BY <1>8 DEF ReadSleeps
<1>9. CASE ReadFrame
  BY <1>9 DEF ReadFrame
<1>10. CASE ReadEnds
  BY <1>10 DEF ReadEnds
<1>11. CASE OnFfiEventFilter
  BY <1>11 DEF OnFfiEventFilter
<1>12. CASE PushFrame
  BY <1>12 DEF PushFrame
<1>13. CASE PushEosEvent
  BY <1>13 DEF PushEosEvent, PushEos
<1>14. CASE RustFrame
  <2>1. [frame |-> sent + 1, error |-> "none"] \in [frame : Nat, error : Ends \cup {"open"}]
    OBVIOUS
  <2>2. [frame |-> 0, error |-> "none"] \in [frame : Nat, error : Ends \cup {"open"}]
    OBVIOUS
  <2>3. StreamTypeOK'
    BY <1>14, <2>1, <2>2 DEF RustFrame, RustDeliver
  <2>4. reading \in {"wait", "asleep", "ended"} /\ frame = 0
    BY <1>14 DEF RustFrame
  <2>5. ffi'.frame \in {0, sent + 1} /\ sent' = sent + 1 /\ ~demand'
    BY <1>14 DEF RustFrame, RustDeliver
  <2>6. UNCHANGED <<frame, last_read, reading, overwritten>>
    BY <1>14 DEF RustFrame
  <2> QED
    BY <2>3, <2>4, <2>5, <2>6
<1>15. CASE RustEos
  BY <1>15 DEF RustEos, RustDeliver
<1>16. ASSUME NEW error \in Ends, RustEnds(error)
       PROVE  StreamInv'
  BY <1>16 DEF RustEnds
<1>17. ASSUME NEW t \in ClosingThreads, CloseClaim(t) \/ CloseAgain(t)
       PROVE  StreamInv'
  <2>1. UNCHANGED <<frame, eof, reading, last_read, rustVars, ffiVars, overwritten>>
    BY <1>17 DEF CloseClaim, CloseAgain
  <2>2. closed' = TRUE
    BY <1>17 DEF CloseClaim, CloseAgain
  <2> QED
    BY <2>1, <2>2
<1>18. ASSUME NEW t \in ClosingThreads, CloseRemoveListener(t) \/ CloseNotify(t)
       PROVE  StreamInv'
  BY <1>18 DEF CloseRemoveListener, CloseNotify
<1> QED
  BY <1>0, <1>1, <1>2, <1>3, <1>4, <1>5, <1>6, <1>7, <1>8, <1>9, <1>10, <1>11, <1>12, <1>13, <1>14, <1>15,
     <1>16, <1>17, <1>18 DEF Next, Read, Close, ContinueClose, Deliver, Rust

\* The assertion in pushFrame() holds: no frame is overwritten before it is read, and the frames
\* reach the reader in order.
THEOREM FramesOneAtATime == Safe => []OneFrameInFlight
<1>1. StreamInv => OneFrameInFlight
  BY DEF StreamInv, StreamTypeOK, FramePlaces, OneFrameInFlight
<1> QED
  BY <1>1, StreamInit, StreamStep, PTL DEF Safe

\* How a stream ended is decided once: pushEos() and close() change the error only of a stream that
\* has neither ended nor been closed.
THEOREM EndDecidedOnce == Safe => TerminalErrorKept
<1>1. [Next]_vars => (eof \/ closed => eof' = eof /\ terminal_error' = terminal_error)
  <2> SUFFICES ASSUME [Next]_vars, eof \/ closed PROVE eof' = eof /\ terminal_error' = terminal_error
    OBVIOUS
  <2> USE DEF slotVars
  <2>0. CASE UNCHANGED vars
    BY <2>0 DEF vars
  <2>1. CASE InitAddListener
    BY <2>1 DEF InitAddListener
  <2>2. CASE Read
    BY <2>2 DEF Read, ReadOver, ReadRequest, ReadResponseEos, ReadRequestThrows, FailProtocolError, ReadFailed,
       ReadSleeps, ReadFrame, ReadEnds, PushEos
  <2>3. CASE Deliver
    BY <2>3 DEF Deliver, OnFfiEventFilter, PushFrame, PushEosEvent, PushEos
  <2>4. CASE Rust
    BY <2>4 DEF Rust, RustFrame, RustEos, RustEnds
  <2>5. ASSUME NEW t \in ClosingThreads, Close(t) \/ ContinueClose(t)
        PROVE  eof' = eof /\ terminal_error' = terminal_error
    BY <2>5 DEF Close, ContinueClose, CloseClaim, CloseAgain, CloseRemoveListener, CloseNotify
  <2> QED
    BY <2>0, <2>1, <2>2, <2>3, <2>4, <2>5 DEF Next
<1> QED
  BY <1>1, PTL DEF Safe, TerminalErrorKept

-----------------------------------------------------------------------------
(* LocalRpc *)

\* The invocations that InvocationGuard counts.
Counted == {i \in Invocations : at[i] \in {"find", "handler", "recheck", "respond", "leave"}}

RpcTypeOK ==
  /\ rpc_handlers \in [Methods -> Nat] /\ registrations \in Nat
  /\ shutting_down \in BOOLEAN /\ timed_out \in BOOLEAN
  /\ shutdown_at \in {"no", "wait", "unregister", "done"}
  /\ at \in [Invocations -> Steps]
  /\ handler \in [Invocations -> Nat]
  /\ method = [i \in Invocations |-> method[i]]
  /\ answer \in [Invocations -> Answers \cup {"none"}]
  /\ \A i \in Invocations : at[i] # "unused" => method[i] \in Methods

\* shutdown() sets shutting_down_ before it looks at the counter, so that nobody joins the
\* invocations that it waits for.
ShutdownInv ==
  /\ active_invocations = Cardinality(Counted)
  /\ shutdown_at # "no" => shutting_down
  /\ shutdown_at \in {"unregister", "done"} /\ ~timed_out => Counted = {}

\* What an invocation knows of its handler, before it looks for it and after.
HandlersInv ==
  \A i \in Invocations :
    /\ at[i] \in {"sent", "find"} /\ rpc_handlers[method[i]] = NoHandler => i \in missed
    /\ at[i] \in {"recheck", "respond"} /\ handler[i] = NoHandler => i \in missed
    /\ at[i] = "handler" => handler[i] # NoHandler
    /\ answer[i] = "unsupported_method" => i \in missed

RpcInv == RpcTypeOK /\ ShutdownInv /\ HandlersInv

\* There are finitely many invocations, and so finitely many counted ones.
LEMMA CountedFinite == IsFiniteSet(Counted)
<1>1. IsFiniteSet(Invocations)
  BY FS_Interval, LocalRpcAssumption DEF Invocations
<1> QED
  BY <1>1, FS_Subset DEF Counted

\* A participant without methods and invocations.
LEMMA RpcInitInv == RpcInit => RpcInv
<1> SUFFICES ASSUME RpcInit PROVE RpcInv
  OBVIOUS
<1>1. RpcTypeOK
  BY DEF RpcInit, RpcTypeOK, Steps, NoHandler
<1>2. Counted = {}
  BY DEF RpcInit, Counted
<1>3. ShutdownInv
  BY <1>2, FS_EmptySet DEF RpcInit, ShutdownInv
<1>4. HandlersInv
  BY DEF RpcInit, HandlersInv
<1> QED
  BY <1>1, <1>3, <1>4 DEF RpcInv

\* A step that leaves the counted invocations and what shutdown() did alone keeps ShutdownInv.
LEMMA ShutdownKept ==
  ASSUME ShutdownInv, Counted' = Counted, UNCHANGED <<shutting_down, active_invocations, shutdown_at, timed_out>>
  PROVE  ShutdownInv'
  BY DEF ShutdownInv

\* Every step of the application, of an invocation and of shutdown() keeps the invariant.
LEMMA RpcStep == RpcInv /\ [RpcNext]_rpcVars => RpcInv'
<1> SUFFICES ASSUME RpcInv, [RpcNext]_rpcVars PROVE RpcInv'
  OBVIOUS
<1> USE DEF RpcInv, rpcMaps, rpcShutdown, rpcInvocation, InvocationAt, Go, NoHandler
<1>0. CASE UNCHANGED rpcVars
  <2>1. Counted' = Counted
    BY <1>0 DEF Counted, rpcVars
  <2> QED
    BY <1>0, <2>1, ShutdownKept DEF rpcVars, RpcTypeOK, HandlersInv
<1>1. ASSUME NEW t \in RpcCallers, NEW m \in Methods, RegisterRpcMethod(t, m)
      PROVE  RpcInv'
  <2>1. RpcTypeOK'
    BY <1>1 DEF RegisterRpcMethod, RpcTypeOK
  <2>2. Counted' = Counted
    BY <1>1 DEF RegisterRpcMethod, Counted
  <2>3. ShutdownInv'
    BY <1>1, <2>2, ShutdownKept DEF RegisterRpcMethod
  <2>4. HandlersInv'
    BY <1>1 DEF RegisterRpcMethod, HandlersInv, RpcTypeOK
  <2> QED
    BY <2>1, <2>3, <2>4
<1>2. ASSUME NEW t \in RpcCallers, NEW m \in Methods, UnregisterRpcMethod(t, m)
      PROVE  RpcInv'
  <2>1. RpcTypeOK'
    BY <1>2 DEF UnregisterRpcMethod, RpcTypeOK
  <2>2. Counted' = Counted
    BY <1>2 DEF UnregisterRpcMethod, Counted
  <2>3. ShutdownInv'
    BY <1>2, <2>2, ShutdownKept DEF UnregisterRpcMethod
  <2>4. HandlersInv'
    BY <1>2 DEF UnregisterRpcMethod, UnderWay, HandlersInv, RpcTypeOK
  <2> QED
    BY <2>1, <2>3, <2>4
<1>3. ASSUME NEW t \in RpcCallers, NEW s \in BOOLEAN, SendRegistration(t, s)
      PROVE  RpcInv'
  <2>1. Counted' = Counted
    BY <1>3 DEF SendRegistration, Counted
  <2>2. ShutdownInv'
    BY <1>3, <2>1, ShutdownKept DEF SendRegistration
  <2> QED
    BY <1>3, <2>2 DEF SendRegistration, RpcTypeOK, HandlersInv
<1>4. ASSUME NEW i \in Invocations, NEW m \in Methods, RustInvokes(i, m)
      PROVE  RpcInv'
  <2>1. RpcTypeOK'
    BY <1>4 DEF RustInvokes, RpcTypeOK, Steps
  <2>2. Counted' = Counted
    BY <1>4 DEF RustInvokes, Counted, RpcTypeOK
  <2>3. ShutdownInv'
    BY <1>4, <2>2, ShutdownKept DEF RustInvokes
  <2>4. HandlersInv'
    BY <1>4 DEF RustInvokes, HandlersInv, RpcTypeOK
  <2> QED
    BY <2>1, <2>3, <2>4
<1>5. ASSUME NEW i \in Invocations, TrackInvocation(i)
      PROVE  RpcInv'
  <2>1. RpcTypeOK'
    BY <1>5 DEF TrackInvocation, RpcTypeOK, Steps
  <2>2. CASE shutting_down
    <3>1. Counted' = Counted
      BY <1>5, <2>2 DEF TrackInvocation, Counted, RpcTypeOK
    <3> QED
      BY <1>5, <2>2, <3>1, ShutdownKept, <2>1 DEF TrackInvocation, HandlersInv, RpcTypeOK
  <2>3. CASE ~shutting_down
    <3>1. Counted' = Counted \cup {i} /\ i \notin Counted
      BY <1>5, <2>3 DEF TrackInvocation, Counted, RpcTypeOK
    <3>2. Cardinality(Counted') = Cardinality(Counted) + 1
      BY <3>1, CountedFinite, FS_AddElement
    <3>3. ShutdownInv'
      BY <1>5, <2>3, <3>2 DEF TrackInvocation, ShutdownInv
    <3> QED
      BY <1>5, <2>3, <3>3, <2>1 DEF TrackInvocation, HandlersInv, RpcTypeOK
  <2> QED
    BY <2>2, <2>3
<1>6. ASSUME NEW i \in Invocations, FindHandler(i)
      PROVE  RpcInv'
  <2>1. RpcTypeOK'
    BY <1>6 DEF FindHandler, RpcTypeOK, Steps
  <2>2. Counted' = Counted
    BY <1>6 DEF FindHandler, Counted, RpcTypeOK
  <2>3. ShutdownInv'
    BY <1>6, <2>2, ShutdownKept DEF FindHandler
  <2>4. HandlersInv'
    BY <1>6 DEF FindHandler, HandlersInv, RpcTypeOK
  <2> QED
    BY <2>1, <2>3, <2>4
<1>7. ASSUME NEW i \in Invocations, RunHandler(i) \/ Recheck(i)
      PROVE  RpcInv'
  <2>1. RpcTypeOK'
    BY <1>7 DEF RunHandler, Recheck, RpcTypeOK, Steps
  <2>2. Counted' = Counted
    BY <1>7 DEF RunHandler, Recheck, Counted, RpcTypeOK
  <2>3. ShutdownInv'
    BY <1>7, <2>2, ShutdownKept DEF RunHandler, Recheck
  <2>4. HandlersInv'
    BY <1>7 DEF RunHandler, Recheck, HandlersInv, RpcTypeOK
  <2> QED
    BY <2>1, <2>3, <2>4
<1>8. ASSUME NEW i \in Invocations, NEW a \in Answers, Respond(i, a)
      PROVE  RpcInv'
  <2>1. RpcTypeOK'
    BY <1>8 DEF Respond, RpcTypeOK, Steps
  <2>2. Counted' = Counted
    BY <1>8 DEF Respond, Counted, RpcTypeOK
  <2>3. ShutdownInv'
    BY <1>8, <2>2, ShutdownKept DEF Respond
  <2>4. HandlersInv'
    BY <1>8 DEF Respond, HandlersInv, RpcTypeOK
  <2> QED
    BY <2>1, <2>3, <2>4
<1>9. ASSUME NEW i \in Invocations, LeaveInvocation(i)
      PROVE  RpcInv'
  <2>1. RpcTypeOK'
    BY <1>9 DEF LeaveInvocation, RpcTypeOK, Steps
  <2>2. Counted' = Counted \ {i} /\ i \in Counted
    BY <1>9 DEF LeaveInvocation, Counted, RpcTypeOK
  <2>3. Cardinality(Counted') = Cardinality(Counted) - 1
    BY <2>2, CountedFinite, FS_RemoveElement
  <2>4. ShutdownInv'
    BY <1>9, <2>2, <2>3 DEF LeaveInvocation, ShutdownInv
  <2>5. HandlersInv'
    BY <1>9 DEF LeaveInvocation, HandlersInv, RpcTypeOK
  <2> QED
    BY <2>1, <2>4, <2>5
<1>10. CASE ShutdownStart
  <2>1. Counted' = Counted
    BY <1>10 DEF ShutdownStart, Counted
  <2>2. ShutdownInv'
    BY <1>10, <2>1 DEF ShutdownStart, ShutdownInv
  <2> QED
    BY <1>10, <2>2 DEF ShutdownStart, RpcTypeOK, HandlersInv
<1>11. CASE ShutdownWait \/ ShutdownTimeout
  <2>1. Counted' = Counted
    BY <1>11 DEF ShutdownWait, ShutdownTimeout, ShutdownUnregisterFrom, Counted
  <2>2. ShutdownWait => Counted = {}
    BY CountedFinite, FS_EmptySet DEF ShutdownWait, NoActiveInvocations, ShutdownInv
  <2>3. ShutdownInv'
    BY <1>11, <2>1, <2>2 DEF ShutdownWait, ShutdownTimeout, ShutdownUnregisterFrom, ShutdownInv
  <2> QED
    BY <1>11, <2>3 DEF ShutdownWait, ShutdownTimeout, ShutdownUnregisterFrom, RpcTypeOK, HandlersInv
<1>12. ASSUME NEW m \in Methods, NEW s \in BOOLEAN, ShutdownUnregister(m, s)
       PROVE  RpcInv'
  <2>1. Counted' = Counted
    BY <1>12 DEF ShutdownUnregister, Counted
  <2>2. ShutdownInv'
    BY <1>12, <2>1 DEF ShutdownUnregister, ShutdownInv
  <2> QED
    BY <1>12, <2>2 DEF ShutdownUnregister, RpcTypeOK, HandlersInv
<1>13. CASE ShutdownClear
  <2>1. RpcTypeOK'
    BY <1>13 DEF ShutdownClear, RpcTypeOK
  <2>2. Counted' = Counted
    BY <1>13 DEF ShutdownClear, Counted
  <2>3. ShutdownInv'
    BY <1>13, <2>2 DEF ShutdownClear, ShutdownInv
  <2>4. HandlersInv'
    BY <1>13 DEF ShutdownClear, HandlersInv, RpcTypeOK
  <2> QED
    BY <2>1, <2>3, <2>4
<1> QED
  BY <1>0, <1>1, <1>2, <1>3, <1>4, <1>5, <1>6, <1>7, <1>8, <1>9, <1>10, <1>11, <1>12, <1>13
  DEF RpcNext, Invocation, Shutdown

\* After shutdown() has returned, unless it ran into its timeout, no handler runs and no response is
\* sent: no invocation is between the test of shutting_down_ and its end.
THEOREM RpcShutdownQuiescent == RpcSpec => []ShutdownQuiescent
<1>1. RpcInv => ShutdownQuiescent
  BY DEF RpcInv, RpcTypeOK, ShutdownInv, Counted, ShutdownQuiescent, Steps
<1> QED
  BY <1>1, RpcInitInv, RpcStep, PTL DEF RpcSpec

\* What the application's calls have done to the map and to Rust: a method that is not torn is in one call
\* at most, which has changed the map and not yet Rust, and otherwise Rust knows it if it has a handler.
Calls == [op : {"register", "unregister"}, method : Methods]
RegistryTypeOK == registering \in [RpcCallers -> Calls \cup {Idle}]
OneCall == \A m \in Methods \ torn : \A t, u \in Calling(m) : t = u
RegistryAgrees ==
  shutdown_at \in {"no", "wait"} =>
    \A m \in Methods \ torn :
      /\ \A t \in Calling(m) : registering[t].op = "register" <=> rpc_handlers[m] # NoHandler
      /\ Calling(m) = {} => (m \in rust_methods <=> rpc_handlers[m] # NoHandler)
RegistryInv == RegistryTypeOK /\ OneCall /\ RegistryAgrees

LEMMA RegistryInitInv == RpcInit => RegistryInv
<1> SUFFICES ASSUME RpcInit PROVE RegistryInv
  OBVIOUS
<1>1. \A m \in Methods : Calling(m) = {}
  BY DEF RpcInit, Calling
<1> QED
  BY <1>1 DEF RpcInit, RegistryInv, RegistryTypeOK, OneCall, RegistryAgrees

\* A call enters: it is the only one of its method, or the method is torn.
LEMMA EnterKeeps ==
  ASSUME RegistryInv, NEW t \in RpcCallers, NEW op \in {"register", "unregister"}, NEW m \in Methods,
         EnterCall(t, op, m), UNCHANGED <<rust_methods, shutdown_at>>,
         op = "register" <=> rpc_handlers'[m] # NoHandler,
         \A n \in Methods \ {m} : rpc_handlers'[n] = rpc_handlers[n]
  PROVE  RegistryInv'
<1>1. /\ registering[t] = Idle /\ registering' = [registering EXCEPT ![t] = Call(op, m)]
      /\ torn' = IF Calling(m) # {} THEN torn \cup {m} ELSE torn
  BY DEF EnterCall
<1>2. registering \in [RpcCallers -> Calls \cup {Idle}]
  BY DEF RegistryInv, RegistryTypeOK
<1>3. Call(op, m) \in Calls /\ Call(op, m) # Idle /\ Call(op, m).op = op /\ Call(op, m).method = m
  BY DEF Call, Calls, Idle
<1>4. RegistryTypeOK'
  BY <1>1, <1>2, <1>3 DEF RegistryTypeOK
<1>5. registering'[t] = Call(op, m) /\ \A u \in RpcCallers \ {t} : registering'[u] = registering[u]
  BY <1>1, <1>2
<1>6. Calling(m)' = Calling(m) \cup {t} /\ \A n \in Methods \ {m} : Calling(n)' = Calling(n)
  BY <1>1, <1>3, <1>5 DEF Calling
<1>7. \A n \in Methods \ torn' : n \notin torn /\ (n = m => Calling(m)' = {t})
  BY <1>1, <1>6
<1>8. OneCall'
  BY <1>6, <1>7 DEF RegistryInv, OneCall
<1>9. RegistryAgrees'
  <2> SUFFICES ASSUME shutdown_at' \in {"no", "wait"}, NEW n \in Methods \ torn'
               PROVE  /\ \A u \in Calling(n)' : registering'[u].op = "register" <=> rpc_handlers'[n] # NoHandler
                      /\ Calling(n)' = {} => (n \in rust_methods' <=> rpc_handlers'[n] # NoHandler)
    BY DEF RegistryAgrees
  <2>1. CASE n = m
    BY <1>3, <1>5, <1>7, <2>1
  <2>2. CASE n # m
    <3>1. Calling(n)' = Calling(n) /\ n \notin torn /\ rpc_handlers'[n] = rpc_handlers[n]
      BY <1>6, <1>7, <2>2
    <3>2. \A u \in Calling(n) : registering'[u] = registering[u]
      BY <1>1, <1>5 DEF Calling
    <3> QED
      BY <3>1, <3>2 DEF RegistryInv, RegistryAgrees
  <2> QED
    BY <2>1, <2>2
<1> QED
  BY <1>4, <1>8, <1>9 DEF RegistryInv

\* A call sends its request and returns.
LEMMA SendKeeps ==
  ASSUME RegistryInv, NEW t \in RpcCallers, NEW ok \in BOOLEAN, SendRegistration(t, ok)
  PROVE  RegistryInv'
<1>1. registering \in [RpcCallers -> Calls \cup {Idle}]
  BY DEF RegistryInv, RegistryTypeOK
<1>2. /\ registering[t] # Idle /\ registering' = [registering EXCEPT ![t] = Idle]
      /\ torn' = IF ok THEN torn ELSE torn \cup {registering[t].method}
      /\ UNCHANGED <<rpc_handlers, shutdown_at>>
  BY DEF SendRegistration, rpcShutdown
<1>3. PICK m \in Methods, op \in {"register", "unregister"} : registering[t].method = m /\ registering[t].op = op
  BY <1>1, <1>2 DEF Calls
<1>4. rust_methods' = CASE ~ok            -> rust_methods
                        [] op = "register"  -> rust_methods \cup {m}
                        [] OTHER            -> rust_methods \ {m}
  BY <1>3 DEF SendRegistration
<1>5. registering'[t] = Idle /\ \A u \in RpcCallers \ {t} : registering'[u] = registering[u]
  BY <1>1, <1>2
<1>6. t \in Calling(m) /\ Calling(m)' = Calling(m) \ {t} /\ \A n \in Methods \ {m} : Calling(n)' = Calling(n)
  BY <1>2, <1>3, <1>5 DEF Calling
<1>7. RegistryTypeOK'
  BY <1>1, <1>2 DEF RegistryTypeOK
<1>8. OneCall'
  BY <1>2, <1>6 DEF RegistryInv, OneCall
<1>9. RegistryAgrees'
  <2> SUFFICES ASSUME shutdown_at' \in {"no", "wait"}, NEW n \in Methods \ torn'
               PROVE  /\ \A u \in Calling(n)' : registering'[u].op = "register" <=> rpc_handlers'[n] # NoHandler
                      /\ Calling(n)' = {} => (n \in rust_methods' <=> rpc_handlers'[n] # NoHandler)
    BY DEF RegistryAgrees
  <2>1. n \notin torn /\ (n = m => ok)
    BY <1>2, <1>3
  <2>2. CASE n = m
    <3>1. Calling(m) = {t} /\ (op = "register" <=> rpc_handlers[m] # NoHandler)
      BY <1>2, <1>3, <1>6, <2>1, <2>2 DEF RegistryInv, OneCall, RegistryAgrees
    <3>2. m \in rust_methods' <=> op = "register"
      BY <1>4, <2>1, <2>2
    <3> QED
      BY <1>2, <1>6, <2>2, <3>1, <3>2
  <2>3. CASE n # m
    <3>1. Calling(n)' = Calling(n) /\ (n \in rust_methods' <=> n \in rust_methods)
      BY <1>4, <1>6, <2>3
    <3>2. \A u \in Calling(n) : registering'[u] = registering[u]
      BY <1>3, <1>5, <2>3 DEF Calling
    <3> QED
      BY <1>2, <2>1, <3>1, <3>2 DEF RegistryInv, RegistryAgrees
  <2> QED
    BY <2>2, <2>3
<1> QED
  BY <1>7, <1>8, <1>9 DEF RegistryInv

LEMMA RegistryStep == RpcInv /\ RegistryInv /\ [RpcNext]_rpcVars => RegistryInv'
<1> SUFFICES ASSUME RpcInv, RegistryInv, [RpcNext]_rpcVars PROVE RegistryInv'
  OBVIOUS
<1>1. ASSUME NEW t \in RpcCallers, NEW m \in Methods, RegisterRpcMethod(t, m) PROVE RegistryInv'
  <2>1. EnterCall(t, "register", m) /\ UNCHANGED <<rust_methods, shutdown_at>>
    BY <1>1 DEF RegisterRpcMethod
  <2>2. rpc_handlers' = [rpc_handlers EXCEPT ![m] = registrations + 1]
    BY <1>1 DEF RegisterRpcMethod
  <2>3. rpc_handlers'[m] # NoHandler /\ \A n \in Methods \ {m} : rpc_handlers'[n] = rpc_handlers[n]
    BY <2>2 DEF RpcInv, RpcTypeOK, NoHandler
  <2> QED
    BY <2>1, <2>3, EnterKeeps
<1>2. ASSUME NEW t \in RpcCallers, NEW m \in Methods, UnregisterRpcMethod(t, m) PROVE RegistryInv'
  <2>1. EnterCall(t, "unregister", m) /\ UNCHANGED <<rust_methods, shutdown_at>>
    BY <1>2 DEF UnregisterRpcMethod
  <2>2. rpc_handlers' = [rpc_handlers EXCEPT ![m] = NoHandler]
    BY <1>2 DEF UnregisterRpcMethod
  <2>3. rpc_handlers'[m] = NoHandler /\ \A n \in Methods \ {m} : rpc_handlers'[n] = rpc_handlers[n]
    BY <2>2 DEF RpcInv, RpcTypeOK
  <2> QED
    BY <2>1, <2>3, EnterKeeps
<1>3. ASSUME NEW t \in RpcCallers, NEW s \in BOOLEAN, SendRegistration(t, s) PROVE RegistryInv'
  BY <1>3, SendKeeps
<1>4. ASSUME UNCHANGED <<registering, torn>>,
             \/ shutdown_at' \notin {"no", "wait"}
             \/ shutdown_at \in {"no", "wait"} /\ UNCHANGED <<rpc_handlers, rust_methods>>
      PROVE  RegistryInv'
  <2>1. RegistryTypeOK' /\ \A m \in Methods : Calling(m)' = Calling(m)
    BY <1>4 DEF RegistryInv, RegistryTypeOK, Calling
  <2>2. OneCall'
    BY <1>4, <2>1 DEF RegistryInv, OneCall
  <2>3. RegistryAgrees'
    BY <1>4, <2>1 DEF RegistryInv, RegistryAgrees
  <2> QED
    BY <2>1, <2>2, <2>3 DEF RegistryInv
<1>5. ASSUME NEW i \in Invocations,
             \/ (\E m \in Methods : RustInvokes(i, m)) \/ TrackInvocation(i) \/ FindHandler(i) \/ RunHandler(i) \/ Recheck(i)
             \/ (\E a \in Answers : Respond(i, a)) \/ LeaveInvocation(i)
      PROVE  RegistryInv'
  <2>1. UNCHANGED <<rpc_handlers, rust_methods, registering, torn, shutdown_at>>
    BY <1>5 DEF RustInvokes, TrackInvocation, FindHandler, RunHandler, Recheck, Respond, LeaveInvocation, rpcMaps, rpcShutdown
  <2> QED
    BY <1>4, <2>1
<1>6. ASSUME \/ ShutdownStart \/ ShutdownWait \/ ShutdownTimeout \/ ShutdownClear
             \/ \E m \in Methods, s \in BOOLEAN : ShutdownUnregister(m, s)
      PROVE  RegistryInv'
  BY <1>4, <1>6 DEF ShutdownStart, ShutdownWait, ShutdownTimeout, ShutdownUnregisterFrom, ShutdownClear,
                    ShutdownUnregister, rpcMaps
<1>7. CASE UNCHANGED rpcVars
  BY <1>4, <1>7 DEF rpcVars, rpcMaps, rpcShutdown
<1> QED
  BY <1>1, <1>2, <1>3, <1>5, <1>6, <1>7 DEF RpcNext, Invocation, Shutdown

\* UNSUPPORTED_METHOD is answered only for a method that was not registered at some moment of the invocation,
\* and until shutdown() walks over the methods Rust knows those with a handler, up to calls under way
\* and methods whose calls overlapped or failed.
THEOREM RpcHandlersServe == RpcSpec => []HandlersServe
<1>1. RpcInv => UnsupportedOnlyIfRemoved
  BY DEF RpcInv, HandlersInv, UnsupportedOnlyIfRemoved
<1>2. RegistryInv => MethodsKnown
  <2> SUFFICES ASSUME RegistryInv, shutdown_at \in {"no", "wait"}, NEW m \in Methods \ torn
               PROVE  /\ m \in rust_methods => \/ rpc_handlers[m] # NoHandler
                                              \/ \E t \in RpcCallers : registering[t] = Call("unregister", m)
                      /\ rpc_handlers[m] # NoHandler => \/ m \in rust_methods
                                                       \/ \E t \in RpcCallers : registering[t] = Call("register", m)
    BY DEF MethodsKnown
  <2>1. CASE Calling(m) = {}
    BY <2>1 DEF RegistryInv, RegistryAgrees
  <2>2. CASE Calling(m) # {}
    <3>1. PICK t \in Calling(m) : TRUE
      BY <2>2
    <3>2. t \in RpcCallers /\ registering[t] \in Calls /\ registering[t].method = m
      BY <3>1 DEF RegistryInv, RegistryTypeOK, Calling
    <3>3. registering[t].op \in {"register", "unregister"} /\ registering[t] = Call(registering[t].op, m)
      BY <3>2 DEF Calls, Call
    <3>4. registering[t].op = "register" <=> rpc_handlers[m] # NoHandler
      BY <3>1 DEF RegistryInv, RegistryAgrees
    <3> QED
      BY <3>2, <3>3, <3>4
  <2> QED
    BY <2>1, <2>2
<1> QED
  BY <1>1, <1>2, RpcInitInv, RpcStep, RegistryInitInv, RegistryStep, PTL DEF RpcSpec, HandlersServe

-----------------------------------------------------------------------------
(* TokenSource *)

TokenTypeOK ==
  /\ tokens \in Nat
  /\ fetching \in [FetchCalls -> {"no", "lock", "inner", "store", "done"}]
  /\ asked = [c \in FetchCalls |-> asked[c]]
  /\ outcome = [c \in FetchCalls |-> outcome[c]]
  /\ stale \in [FetchCalls -> Nat]
  /\ served_at = [c \in FetchCalls |-> served_at[c]]

\* The mutex of the cache is held from the look into the cache to the storing of the answer.
MutexInv == \A c \in FetchCalls : fetching[c] \in {"inner", "store"} <=> cache_mutex = c

\* A cached token was issued for the options it is stored with, and after every invalidate().
CacheInv ==
  \A e \in cached :
    /\ e.token.request = BuildTokenSourceRequestJson(e.options)
    /\ \A c \in FetchCalls : e.token.id > stale[c]

\* What a call has got before it has returned: nothing, or an answer newer than any invalidate(),
\* because none can take place between the answer and its storing.
FetchInv ==
  \A c \in FetchCalls :
    /\ stale[c] <= tokens
    /\ fetching[c] \in {"no", "lock", "inner"} => outcome[c].kind = "none"
    /\ fetching[c] # "done" => served_at[c] = -1
    /\ fetching[c] = "store" /\ outcome[c].kind = "success" =>
         \A d \in FetchCalls : outcome[c].token.id > stale[d]

TokenInv == TokenTypeOK /\ MutexInv /\ CacheInv /\ FetchInv /\ TokensMatchRequests /\ InvalidateForcesFetch

\* Options that are equal field by field make the same request.
LEMMA SameRequest ==
  ASSUME NEW a, NEW b, TokenRequestOptionsEqual(a, b)
  PROVE  BuildTokenSourceRequestJson(a) = BuildTokenSourceRequestJson(b)
<1>1. \A f \in OptionFields : a[f] = b[f]
  BY DEF TokenRequestOptionsEqual
<1>2. {<<f, a[f]>> : f \in {g \in OptionFields : Given(a[g])}} = {<<f, b[f]>> : f \in {g \in OptionFields : Given(b[g])}}
  BY <1>1
<1>3. (\E f \in AgentFields : a[f] # "absent") = (\E f \in AgentFields : b[f] # "absent")
  BY <1>1 DEF AgentFields, OptionFields
<1> QED
  BY <1>2, <1>3 DEF BuildTokenSourceRequestJson

\* Nothing has been fetched.
LEMMA TokenInitInv == TokenInit => TokenInv
<1> SUFFICES ASSUME TokenInit PROVE TokenInv
  OBVIOUS
<1>1. \A c \in FetchCalls : outcome[c].kind = "none"
  BY DEF TokenInit, NoOutcome
<1>2. TokenTypeOK
  BY DEF TokenInit, TokenTypeOK
<1>3. MutexInv /\ CacheInv
  BY TokenSourceAssumption DEF TokenInit, MutexInv, CacheInv
<1>4. FetchInv /\ TokensMatchRequests /\ InvalidateForcesFetch
  BY <1>1 DEF TokenInit, FetchInv, TokensMatchRequests, InvalidateForcesFetch
<1> QED
  BY <1>2, <1>3, <1>4 DEF TokenInv

\* Every step of a fetch(), of the server and of invalidate() keeps the invariant.
LEMMA TokenStep == TokenInv /\ [TokenNext]_tokenVars => TokenInv'
<1> SUFFICES ASSUME TokenInv, [TokenNext]_tokenVars PROVE TokenInv'
  OBVIOUS
<1> USE DEF TokenInv, tokenCache, fetchVars
<1>0. CASE UNCHANGED tokenVars
  BY <1>0 DEF tokenVars, TokenTypeOK, MutexInv, CacheInv, FetchInv, TokensMatchRequests, InvalidateForcesFetch
<1>1. ASSUME NEW c \in FetchCalls, NEW o \in OptionsSet, Fetch(c, o)
      PROVE  TokenInv'
  <2>1. TokenTypeOK'
    BY <1>1 DEF Fetch, TokenTypeOK
  <2>2. MutexInv' /\ CacheInv' /\ FetchInv'
    BY <1>1 DEF Fetch, TokenTypeOK, MutexInv, CacheInv, FetchInv
  <2>3. TokensMatchRequests' /\ InvalidateForcesFetch'
    BY <1>1 DEF Fetch, TokenTypeOK, FetchInv, TokensMatchRequests, InvalidateForcesFetch
  <2> QED
    BY <2>1, <2>2, <2>3
<1>2. ASSUME NEW c \in FetchCalls, FetchNotStarted(c)
      PROVE  TokenInv'
  <2>1. TokenTypeOK'
    BY <1>2 DEF FetchNotStarted, TokenTypeOK
  <2>2. outcome'[c].kind = "failure" /\ \A d \in FetchCalls \ {c} : outcome'[d] = outcome[d]
    BY <1>2 DEF FetchNotStarted, TokenTypeOK
  <2>3. MutexInv' /\ CacheInv' /\ FetchInv'
    BY <1>2, <2>2 DEF FetchNotStarted, TokenTypeOK, MutexInv, CacheInv, FetchInv
  <2>4. TokensMatchRequests' /\ InvalidateForcesFetch'
    BY <1>2, <2>2 DEF FetchNotStarted, TokensMatchRequests, InvalidateForcesFetch
  <2> QED
    BY <2>1, <2>3, <2>4
<1>3. ASSUME NEW c \in FetchCalls, FetchCached(c)
      PROVE  TokenInv'
  <2> PICK e \in cached : CacheServes(c, e) /\ outcome' = [outcome EXCEPT ![c] = [kind |-> "success", token |-> e.token]]
    BY <1>3 DEF FetchCached
  <2>1. TokenTypeOK'
    BY <1>3 DEF FetchCached, TokenTypeOK
  <2>2. outcome'[c] = [kind |-> "success", token |-> e.token] /\ \A d \in FetchCalls \ {c} : outcome'[d] = outcome[d]
    BY DEF TokenTypeOK
  <2>3. e.token.request = BuildTokenSourceRequestJson(asked[c])
    BY SameRequest DEF CacheServes, CacheInv
  <2>4. MutexInv' /\ CacheInv' /\ FetchInv'
    BY <1>3, <2>2 DEF FetchCached, TokenTypeOK, MutexInv, CacheInv, FetchInv
  <2>5. e.token.exp # NoClaim => e.token.exp > system_clock + 1
    BY DEF CacheServes, IsParticipantTokenValid, kExpiryBuffer
  <2>6. served_at'[c] = system_clock /\ \A d \in FetchCalls \ {c} : served_at'[d] = served_at[d]
    BY <1>3 DEF FetchCached, TokenTypeOK
  <2>7. TokensMatchRequests'
    BY <1>3, <2>2, <2>3, <2>5, <2>6 DEF FetchCached, TokensMatchRequests
  <2>8. InvalidateForcesFetch'
    BY <1>3, <2>2 DEF FetchCached, CacheInv, InvalidateForcesFetch
  <2> QED
    BY <2>1, <2>4, <2>7, <2>8
<1>4. ASSUME NEW c \in FetchCalls, FetchInner(c)
      PROVE  TokenInv'
  <2>1. TokenTypeOK'
    BY <1>4 DEF FetchInner, TokenTypeOK
  <2>2. MutexInv'
    BY <1>4, TokenSourceAssumption DEF FetchInner, TokenTypeOK, MutexInv
  <2>3. CacheInv' /\ FetchInv'
    BY <1>4 DEF FetchInner, TokenTypeOK, CacheInv, FetchInv
  <2>4. TokensMatchRequests' /\ InvalidateForcesFetch'
    BY <1>4 DEF FetchInner, TokensMatchRequests, InvalidateForcesFetch
  <2> QED
    BY <2>1, <2>2, <2>3, <2>4
<1>5. ASSUME NEW c \in FetchCalls, NEW k \in {"success", "failure"}, NEW token, InnerResult(c, k, token),
             tokens' \in Nat, tokens' >= tokens,
             k = "success" => token.request = BuildTokenSourceRequestJson(asked[c]) /\ token.id = tokens + 1
      PROVE  TokenInv'
  <2>1. TokenTypeOK'
    BY <1>5 DEF InnerResult, TokenTypeOK
  <2>2. outcome'[c] = [kind |-> k, token |-> token] /\ \A d \in FetchCalls \ {c} : outcome'[d] = outcome[d]
    BY <1>5 DEF InnerResult, TokenTypeOK
  <2>3. MutexInv' /\ CacheInv'
    BY <1>5 DEF InnerResult, TokenTypeOK, MutexInv, CacheInv
  <2>4. k = "success" => \A d \in FetchCalls : token.id > stale[d]
    BY <1>5 DEF TokenTypeOK, FetchInv
  <2>5. FetchInv'
    BY <1>5, <2>2, <2>4 DEF InnerResult, TokenTypeOK, FetchInv
  <2>6. TokensMatchRequests' /\ InvalidateForcesFetch'
    BY <1>5, <2>2, <2>4 DEF InnerResult, TokenTypeOK, FetchInv, TokensMatchRequests, InvalidateForcesFetch
  <2> QED
    BY <2>1, <2>3, <2>5, <2>6
<1>6. ASSUME NEW c \in FetchCalls, NEW a \in HttpAnswers, ServerAnswers(c, a)
      PROVE  TokenInv'
  <2>1. CASE FetchSyncSucceeds(a)
    <3> DEFINE Issued(claims) == [id |-> tokens + 1, request |-> BuildTokenSourceRequestJson(asked[c]),
                                  decodable |-> claims.decodable, nbf |-> claims.nbf, exp |-> claims.exp]
    <3>1. PICK claims \in Claims : InnerResult(c, "success", Issued(claims))
      BY <1>6, <2>1 DEF ServerAnswers
    <3>2. tokens' \in Nat /\ tokens' >= tokens
      BY <1>6, <2>1 DEF ServerAnswers, TokenTypeOK
    <3>3. Issued(claims).request = BuildTokenSourceRequestJson(asked[c]) /\ Issued(claims).id = tokens + 1
      OBVIOUS
    <3> HIDE DEF Issued
    <3> QED
      BY <1>5, <3>1, <3>2, <3>3
  <2>2. CASE ~FetchSyncSucceeds(a)
    BY <1>5, <1>6, <2>2 DEF ServerAnswers, TokenTypeOK
  <2> QED
    BY <2>1, <2>2
<1>7. ASSUME NEW c \in FetchCalls, ServerSilent(c)
      PROVE  TokenInv'
  BY <1>5, <1>7 DEF ServerSilent, TokenTypeOK
<1>8. ASSUME NEW c \in FetchCalls, FetchStore(c)
      PROVE  TokenInv'
  <2>1. TokenTypeOK'
    BY <1>8 DEF FetchStore, TokenTypeOK
  <2>2. MutexInv'
    BY <1>8, TokenSourceAssumption DEF FetchStore, TokenTypeOK, MutexInv
  <2>3. CacheInv'
    BY <1>8 DEF FetchStore, CacheInv, FetchInv, TokensMatchRequests
  <2>4. FetchInv'
    BY <1>8 DEF FetchStore, TokenTypeOK, FetchInv
  <2>5. TokensMatchRequests' /\ InvalidateForcesFetch'
    BY <1>8 DEF FetchStore, TokensMatchRequests, InvalidateForcesFetch
  <2> QED
    BY <2>1, <2>2, <2>3, <2>4, <2>5
<1>9. CASE InvalidateCalled \/ Tick
  BY <1>9 DEF InvalidateCalled, Tick, TokenTypeOK, MutexInv, CacheInv, FetchInv, TokensMatchRequests,
     InvalidateForcesFetch
<1>10. CASE Invalidate
  <2>1. TokenTypeOK'
    BY <1>10 DEF Invalidate, TokenTypeOK
  <2>2. \A c \in FetchCalls : fetching[c] \notin {"inner", "store"}
    BY <1>10, TokenSourceAssumption DEF Invalidate, MutexInv
  <2>3. \A c \in FetchCalls : stale'[c] \in {stale[c], tokens} /\ (fetching[c] # "no" => stale'[c] = stale[c])
    BY <1>10 DEF Invalidate
  <2>4. MutexInv' /\ CacheInv'
    BY <1>10 DEF Invalidate, MutexInv, CacheInv
  <2>5. FetchInv'
    BY <1>10, <2>2, <2>3 DEF Invalidate, TokenTypeOK, FetchInv
  <2>6. TokensMatchRequests' /\ InvalidateForcesFetch'
    BY <1>10, <2>3 DEF Invalidate, TokenTypeOK, FetchInv, TokensMatchRequests, InvalidateForcesFetch
  <2> QED
    BY <2>1, <2>4, <2>5, <2>6
<1> QED
  BY <1>0, <1>1, <1>2, <1>3, <1>4, <1>6, <1>7, <1>8, <1>9, <1>10 DEF TokenNext, Locking

\* A token is returned for the request it was issued for, and one out of the cache is valid.
THEOREM TokenMatches == TokenSpec => []TokensMatchRequests
<1>1. TokenInv => TokensMatchRequests
  BY DEF TokenInv
<1> QED
  BY <1>1, TokenInitInv, TokenStep, PTL DEF TokenSpec

\* A fetch() that begins after invalidate() has returned gets a token that was issued after it.
THEOREM InvalidateEffective == TokenSpec => []InvalidateForcesFetch
<1>1. TokenInv => InvalidateForcesFetch
  BY DEF TokenInv
<1> QED
  BY <1>1, TokenInitInv, TokenStep, PTL DEF TokenSpec

-----------------------------------------------------------------------------
(* LocalTracks *)

EventKinds == {"published", "unpublished", "subscribed", "muted", "unmuted"}
TaskOps == {"none", "publish", "attach", "unpublish", "erase"}

IsMute(e, s) == e.kind \in {"muted", "unmuted"} /\ e.sid = s

TracksTypeOK ==
  /\ published_tracks_by_sid \in [Sids -> LocalTrackSet \cup {NoTrack}]
  /\ local_publication \in [LocalTrackSet -> Sids \cup {NoSid}]
  /\ track_muted \in [LocalTrackSet -> BOOLEAN] /\ rust_muted \in [LocalTrackSet -> BOOLEAN]
  /\ publication_muted \in [Sids -> BOOLEAN]
  /\ held \in SUBSET LocalTrackSet
  /\ task \in [op : TaskOps, track : LocalTrackSet \cup {NoTrack}, sid : Sids \cup {NoSid}]
  /\ rust_publications \in [Sids -> LocalTrackSet \cup {NoTrack}]
  /\ rust_sids \in 0 .. MaxPublications
  /\ room_events \in Seq([kind : EventKinds, sid : Sids])

\* publishTrack() has the publication s of the track t, but not yet stored it in both places.
BeingPublished(t, s) == task.op \in {"publish", "attach"} /\ task.track = t /\ task.sid = s

\* What the call under way has done.
TaskInv ==
  /\ task.op = "none" => task = NoTask
  /\ task.op \in {"publish", "attach"} => task.track \in held
  /\ task.op \in {"publish", "attach"} => local_publication[task.track] = NoSid
  /\ task.op \in {"publish", "attach"} /\ task.sid # NoSid => rust_publications[task.sid] = task.track
  /\ task.op = "publish" /\ task.sid # NoSid => published_tracks_by_sid[task.sid] = NoTrack
  /\ task.op = "attach" => task.sid # NoSid /\ published_tracks_by_sid[task.sid] = task.track
  /\ task.op \in {"unpublish", "erase"} => task.track = NoTrack /\ task.sid # NoSid
  /\ task.op = "erase" => rust_publications[task.sid] = NoTrack
  /\ task.sid # NoSid => task.sid <= rust_sids

\* For the tracks the application still has, Rust, the map and the track agree on the
\* publication, except for what the call under way has still to store or to erase.
MapInv ==
  /\ \A s \in Sids : rust_publications[s] # NoTrack => s <= rust_sids
  /\ \A s \in Sids : published_tracks_by_sid[s] # NoTrack => s <= rust_sids
  /\ \A s \in Sids : rust_publications[s] \in held =>
       \/ BeingPublished(rust_publications[s], s)
       \/ published_tracks_by_sid[s] = rust_publications[s] /\ local_publication[rust_publications[s]] = s
  /\ \A s \in Sids : published_tracks_by_sid[s] \in held =>
       \/ local_publication[published_tracks_by_sid[s]] = s
       \/ task.op = "attach" /\ BeingPublished(published_tracks_by_sid[s], s)
  /\ \A t \in held : local_publication[t] # NoSid => published_tracks_by_sid[local_publication[t]] = t
  /\ \A t \in held : local_publication[t] # NoSid =>
       rust_publications[local_publication[t]] = t \/ (task.op = "erase" /\ task.sid = local_publication[t])

PublishedPending(s) == \E k \in DOMAIN room_events : room_events[k] = Event("published", s)
MutePending(s) == \E k \in DOMAIN room_events : IsMute(room_events[k], s)
LastMute(k, s) == IsMute(room_events[k], s) /\ \A j \in k + 1 .. Len(room_events) : ~IsMute(room_events[j], s)
MuteOvertaken(s) == Event("muted", s) \in overtaken \/ Event("unmuted", s) \in overtaken

\* Every publication is reported, or will be, or its event came too early.
NewsInv ==
  /\ \A k \in DOMAIN room_events : room_events[k].sid <= rust_sids
  /\ \A e \in reported : e.publication = e.sid
  /\ \A s \in Sids : rust_publications[s] \in held =>
       \/ PublishedPending(s) \/ Event("published", s) \in overtaken
       \/ \E e \in reported : e.kind = "published" /\ e.sid = s

\* The last event on its way says whether a publication is muted; if there is none, it knows.
MuteInv ==
  /\ \A t \in held : t \notin server_muted => track_muted[t] = rust_muted[t]
  /\ \A s \in Sids : rust_publications[s] \in held =>
       \A k \in DOMAIN room_events : LastMute(k, s) =>
         (room_events[k].kind = "muted" <=> rust_muted[rust_publications[s]])
  /\ \A s \in Sids : rust_publications[s] \in held =>
       MutePending(s) \/ MuteOvertaken(s) \/ publication_muted[s] = rust_muted[rust_publications[s]]

TracksInv == TracksTypeOK /\ TaskInv /\ MapInv /\ NewsInv /\ MuteInv

LEMMA EventAppended ==
  ASSUME NEW E, NEW q \in Seq(E), NEW e \in E
  PROVE  /\ Append(q, e) \in Seq(E) /\ Len(q) \in Nat /\ Len(Append(q, e)) = Len(q) + 1
         /\ DOMAIN q = 1 .. Len(q) /\ DOMAIN Append(q, e) = 1 .. Len(q) + 1
         /\ \A k \in DOMAIN q : Append(q, e)[k] = q[k]
         /\ Append(q, e)[Len(q) + 1] = e
  OBVIOUS

LEMMA EventTyped == \A E : \A q \in Seq(E) : \A k \in DOMAIN q : q[k] \in E
  OBVIOUS

LEMMA EventTaken ==
  ASSUME NEW E, NEW q \in Seq(E), q # << >>
  PROVE  /\ Tail(q) \in Seq(E) /\ Len(q) \in Nat /\ Len(q) > 0 /\ Len(Tail(q)) = Len(q) - 1
         /\ DOMAIN q = 1 .. Len(q) /\ DOMAIN Tail(q) = 1 .. Len(q) - 1
         /\ \A k \in DOMAIN Tail(q) : Tail(q)[k] = q[k + 1]
         /\ Head(q) = q[1] /\ Head(q) \in E
  OBVIOUS

LEMMA TrackFacts == NoTrack \notin LocalTrackSet /\ NoSid \notin Sids /\ Sids \subseteq Nat /\ MaxPublications \in Nat
  BY LocalTracksAssumption DEF NoTrack, NoSid, Sids

LEMMA EventIs ==
  ASSUME NEW e \in [kind : EventKinds, sid : Sids]
  PROVE  e = Event(e.kind, e.sid)
  BY DEF Event

\* A track that the application has is published under one sid at most.
LEMMA OnePublication ==
  ASSUME TracksInv, NEW s \in Sids, NEW u \in Sids, rust_publications[s] \in held, rust_publications[u] = rust_publications[s]
  PROVE  s = u
<1>1. \A v \in {s, u} : \/ BeingPublished(rust_publications[v], v)
                        \/ local_publication[rust_publications[v]] = v
  BY DEF TracksInv, MapInv
<1>2. \A v \in {s, u} : BeingPublished(rust_publications[v], v) => task.sid = v /\ local_publication[rust_publications[v]] = NoSid
  BY DEF TracksInv, TaskInv, BeingPublished
<1> QED
  BY <1>1, <1>2, TrackFacts

\* trackPublications() gives a publication under its own sid, and all those of tracks the application has
\* that publishTrack() has stored.
LEMMA KnownSid ==
  ASSUME TracksInv, NEW s \in Sids
  PROVE  /\ s \in DOMAIN TrackPublications => TrackPublications[s] = s
         /\ rust_publications[s] \in held =>
              s \in DOMAIN TrackPublications \/ (task.op \in {"publish", "attach"} /\ task.sid = s)
<1> DEFINE t == published_tracks_by_sid[s]
<1>1. s \in DOMAIN TrackPublications <=> t # NoTrack /\ Alive(t) /\ local_publication[t] # NoSid
  BY DEF TrackPublications
<1>2. s \in DOMAIN TrackPublications => TrackPublications[s] = local_publication[t]
  BY DEF TrackPublications
<1>3. t # NoTrack /\ Alive(t) => t \in held
  <2>1. task.track # NoTrack => task.op \in {"publish", "attach"}
    BY DEF TracksInv, TracksTypeOK, TaskInv, TaskOps, NoTask
  <2> QED
    BY <2>1 DEF TracksInv, TaskInv, Alive
<1>4. t \in held => local_publication[t] \in {s, NoSid}
  BY DEF TracksInv, MapInv, TaskInv, BeingPublished
<1>5. rust_publications[s] \in held => \/ task.op \in {"publish", "attach"} /\ task.sid = s
                                       \/ t = rust_publications[s] /\ local_publication[t] = s
  BY DEF TracksInv, MapInv, BeingPublished
<1>6. \A u \in held : u # NoTrack /\ Alive(u)
  BY TrackFacts DEF TracksInv, TracksTypeOK, Alive
<1> QED
  BY <1>1, <1>2, <1>3, <1>4, <1>5, <1>6, TrackFacts

\* A step without events.
LEMMA TracksQuiet ==
  ASSUME TracksInv, rust_publications' = rust_publications, rust_sids' = rust_sids, room_events' = room_events,
         reported' = reported, overtaken' = overtaken, publication_muted' = publication_muted,
         track_muted' = track_muted, rust_muted' = rust_muted, server_muted' = server_muted, held' \subseteq held
  PROVE  NewsInv' /\ MuteInv'
<1>1. \A s : PublishedPending(s)' <=> PublishedPending(s)
  BY DEF PublishedPending
<1>2. NewsInv'
  BY <1>1 DEF TracksInv, NewsInv
<1>3. \A s : (MutePending(s)' <=> MutePending(s)) /\ (MuteOvertaken(s)' <=> MuteOvertaken(s))
  BY DEF MutePending, MuteOvertaken
<1>4. \A s, k : LastMute(k, s)' <=> LastMute(k, s)
  BY DEF LastMute
<1>5. MuteInv'
  BY <1>3, <1>4 DEF TracksInv, MuteInv
<1> QED
  BY <1>2, <1>5

LEMMA PublishTrackKeeps ==
  ASSUME TracksInv, NEW t \in LocalTrackSet, Unpublished(t), PublishTrack(t)
  PROVE  TracksInv'
<1> USE DEF TracksInv
<1>1. /\ task = NoTask /\ t \in held /\ local_publication[t] = NoSid
      /\ task' = [op |-> "publish", track |-> t, sid |-> NoSid]
  BY DEF PublishTrack, Unpublished
<1>2. NewsInv' /\ MuteInv'
  BY TracksQuiet DEF PublishTrack, muteVars, rustTrackVars
<1>3. UNCHANGED <<published_tracks_by_sid, local_publication, held, rust_publications, rust_sids>>
  BY DEF PublishTrack, trackMap, rustTrackVars
<1>4. TracksTypeOK'
  BY <1>1, <1>3 DEF PublishTrack, muteVars, TracksTypeOK, TaskOps
<1>5. TaskInv'
  BY <1>1, <1>3, TrackFacts DEF TaskInv
<1>6. \A u, s : ~BeingPublished(u, s)
  BY <1>1 DEF BeingPublished, NoTask
<1>7. MapInv'
  BY <1>1, <1>3, <1>6 DEF MapInv, NoTask
<1> QED
  BY <1>2, <1>4, <1>5, <1>7

LEMMA DropTrackKeeps ==
  ASSUME TracksInv, NEW t \in LocalTrackSet, DropTrack(t)
  PROVE  TracksInv'
<1> USE DEF TracksInv
<1>1. task = NoTask /\ held' = held \ {t} /\ task' = task
  BY DEF DropTrack
<1>2. NewsInv' /\ MuteInv'
  BY <1>1, TracksQuiet DEF DropTrack, muteVars, rustTrackVars
<1>3. UNCHANGED <<published_tracks_by_sid, local_publication, rust_publications, rust_sids>>
  BY DEF DropTrack, trackMap, rustTrackVars
<1>4. TracksTypeOK'
  BY <1>1, <1>3 DEF DropTrack, muteVars, TracksTypeOK
<1>5. TaskInv'
  BY <1>1, <1>3 DEF TaskInv, NoTask
<1>6. \A u, s : BeingPublished(u, s)' <=> BeingPublished(u, s)
  BY <1>1 DEF BeingPublished
<1>7. MapInv'
  BY <1>1, <1>3, <1>6 DEF MapInv
<1> QED
  BY <1>2, <1>4, <1>5, <1>7

\* publishTrack() or unpublishTrack() fails.
LEMMA FailsKeeps ==
  ASSUME TracksInv, PublishFails \/ UnpublishFails
  PROVE  TracksInv'
<1> USE DEF TracksInv
<1>1. task.op = "unpublish" \/ (task.op = "publish" /\ task.sid = NoSid)
  BY DEF PublishFails, UnpublishFails
<1>2. task' = NoTask
  BY DEF PublishFails, UnpublishFails
<1>3. UNCHANGED <<published_tracks_by_sid, local_publication, rust_publications, rust_sids, held>>
  BY DEF PublishFails, UnpublishFails, trackMap, rustTrackVars
<1>4. UNCHANGED <<track_muted, publication_muted, rust_muted, server_muted, room_events, reported, overtaken>>
  BY DEF PublishFails, UnpublishFails, muteVars
<1>5. NewsInv' /\ MuteInv'
  BY <1>3, <1>4, TracksQuiet
<1>6. TracksTypeOK'
  BY <1>2, <1>3, <1>4 DEF TracksTypeOK, NoTask, TaskOps
<1>7. TaskInv'
  BY <1>2 DEF TaskInv, NoTask
<1>8. \A u : \A s \in Sids : ~BeingPublished(u, s)
  BY <1>1, TrackFacts DEF BeingPublished
<1>9. MapInv'
  BY <1>1, <1>3, <1>8 DEF MapInv
<1> QED
  BY <1>5, <1>6, <1>7, <1>9

LEMMA PublishStoreKeeps ==
  ASSUME TracksInv, PublishStore
  PROVE  TracksInv'
<1> USE DEF TracksInv
<1> DEFINE t == task.track
           s == task.sid
<1>1. task.op = "publish" /\ s # NoSid /\ s \in Sids /\ t \in held /\ t \in LocalTrackSet
  BY DEF PublishStore, TracksTypeOK, TaskInv
<1>2. rust_publications[s] = t /\ local_publication[t] = NoSid /\ published_tracks_by_sid[s] = NoTrack
  BY <1>1 DEF TaskInv
<1>3. /\ published_tracks_by_sid' \in [Sids -> LocalTrackSet \cup {NoTrack}] /\ published_tracks_by_sid'[s] = t
      /\ \A u \in Sids : u # s => published_tracks_by_sid'[u] = published_tracks_by_sid[u]
  BY <1>1 DEF PublishStore, TracksTypeOK
<1>4. /\ task' \in [op : TaskOps, track : LocalTrackSet \cup {NoTrack}, sid : Sids \cup {NoSid}]
      /\ task'.op = "attach" /\ task'.track = t /\ task'.sid = s
  BY DEF PublishStore, TracksTypeOK, TaskOps
<1>5. UNCHANGED <<local_publication, rust_publications, rust_sids, held>>
  BY DEF PublishStore, rustTrackVars
<1>6. UNCHANGED <<track_muted, publication_muted, rust_muted, server_muted, room_events, reported, overtaken>>
  BY DEF PublishStore, muteVars
<1>7. NewsInv' /\ MuteInv'
  BY <1>5, <1>6, TracksQuiet
<1>8. TracksTypeOK'
  BY <1>3, <1>4, <1>5, <1>6 DEF TracksTypeOK
<1>9. TaskInv'
  BY <1>1, <1>2, <1>3, <1>4, <1>5 DEF TaskInv
<1>10. \A x, u : BeingPublished(x, u)' <=> BeingPublished(x, u)
  BY <1>1, <1>4 DEF BeingPublished
<1>11. BeingPublished(t, s)
  BY <1>1 DEF BeingPublished
<1>12. MapInv'
  <2>1. \A u \in Sids : published_tracks_by_sid'[u] # NoTrack => u <= rust_sids
    BY <1>1, <1>2, <1>3, TrackFacts DEF MapInv
  <2>2. \A u \in Sids : rust_publications[u] \in held =>
          \/ BeingPublished(rust_publications[u], u)
          \/ published_tracks_by_sid'[u] = rust_publications[u] /\ local_publication[rust_publications[u]] = u
    BY <1>2, <1>3, <1>11 DEF MapInv
  <2>3. \A u \in Sids : published_tracks_by_sid'[u] \in held =>
          local_publication[published_tracks_by_sid'[u]] = u \/ BeingPublished(published_tracks_by_sid'[u], u)
    BY <1>2, <1>3, <1>11 DEF MapInv
  <2>4. \A x \in held : local_publication[x] # NoSid => published_tracks_by_sid'[local_publication[x]] = x
    <3> SUFFICES ASSUME NEW x \in held, local_publication[x] # NoSid
                 PROVE  published_tracks_by_sid'[local_publication[x]] = x
      OBVIOUS
    <3>1. x \in LocalTrackSet /\ local_publication[x] \in Sids /\ published_tracks_by_sid[local_publication[x]] = x
      BY DEF MapInv, TracksTypeOK
    <3>2. local_publication[x] # s
      BY <1>2, <3>1, TrackFacts
    <3> QED
      BY <1>3, <3>1, <3>2
  <2>5. \A x \in held : local_publication[x] # NoSid => rust_publications[local_publication[x]] = x
    BY <1>1 DEF MapInv
  <2> QED
    BY <1>4, <1>5, <1>10, <2>1, <2>2, <2>3, <2>4, <2>5 DEF MapInv
<1> QED
  BY <1>7, <1>8, <1>9, <1>12

LEMMA SetPublicationKeeps ==
  ASSUME TracksInv, SetPublication
  PROVE  TracksInv'
<1> USE DEF TracksInv
<1> DEFINE t == task.track
           s == task.sid
<1>1. task.op = "attach" /\ s # NoSid /\ s \in Sids /\ t \in held /\ t \in LocalTrackSet
  BY DEF SetPublication, TracksTypeOK, TaskInv
<1>2. rust_publications[s] = t /\ local_publication[t] = NoSid /\ published_tracks_by_sid[s] = t
  BY <1>1 DEF TaskInv
<1>3. /\ local_publication' \in [LocalTrackSet -> Sids \cup {NoSid}] /\ local_publication'[t] = s
      /\ \A x \in LocalTrackSet : x # t => local_publication'[x] = local_publication[x]
  BY <1>1 DEF SetPublication, TracksTypeOK
<1>4. task' = NoTask
  BY DEF SetPublication
<1>5. UNCHANGED <<published_tracks_by_sid, rust_publications, rust_sids, held>>
  BY DEF SetPublication, rustTrackVars
<1>6. UNCHANGED <<track_muted, publication_muted, rust_muted, server_muted, room_events, reported, overtaken>>
  BY DEF SetPublication, muteVars
<1>7. NewsInv' /\ MuteInv'
  BY <1>5, <1>6, TracksQuiet
<1>8. TracksTypeOK'
  BY <1>3, <1>4, <1>5, <1>6 DEF TracksTypeOK, NoTask, TaskOps
<1>9. TaskInv'
  BY <1>4 DEF TaskInv, NoTask
<1>10. \A x : \A u \in Sids : BeingPublished(x, u) => x = t /\ u = s
  BY DEF BeingPublished
<1>11. MapInv'
  <2>1. held \subseteq LocalTrackSet
    BY DEF TracksTypeOK
  <2>2. \A u \in Sids : rust_publications[u] \in held =>
          published_tracks_by_sid[u] = rust_publications[u] /\ local_publication'[rust_publications[u]] = u
    <3> SUFFICES ASSUME NEW u \in Sids, rust_publications[u] \in held
                 PROVE  published_tracks_by_sid[u] = rust_publications[u] /\ local_publication'[rust_publications[u]] = u
      OBVIOUS
    <3>1. CASE u = s
      BY <1>2, <1>3, <3>1
    <3>2. CASE u # s
      BY <1>1, <1>2, <1>3, <1>10, <2>1, <3>2, TrackFacts DEF MapInv
    <3> QED
      BY <3>1, <3>2
  <2>3. \A u \in Sids : published_tracks_by_sid[u] \in held => local_publication'[published_tracks_by_sid[u]] = u
    <3> SUFFICES ASSUME NEW u \in Sids, published_tracks_by_sid[u] \in held
                 PROVE  local_publication'[published_tracks_by_sid[u]] = u
      OBVIOUS
    <3>1. CASE u = s
      BY <1>2, <1>3, <3>1
    <3>2. CASE u # s
      BY <1>1, <1>2, <1>3, <1>10, <2>1, <3>2, TrackFacts DEF MapInv
    <3> QED
      BY <3>1, <3>2
  <2>4. \A x \in held : local_publication'[x] # NoSid => published_tracks_by_sid[local_publication'[x]] = x
    BY <1>2, <1>3, <2>1 DEF MapInv
  <2>5. \A x \in held : local_publication'[x] # NoSid => rust_publications[local_publication'[x]] = x
    BY <1>1, <1>2, <1>3, <2>1 DEF MapInv
  <2> QED
    BY <1>5, <2>2, <2>3, <2>4, <2>5 DEF MapInv
<1> QED
  BY <1>7, <1>8, <1>9, <1>11

LEMMA UnpublishTrackKeeps ==
  ASSUME TracksInv, NEW s \in Sids, UnpublishTrack(s)
  PROVE  TracksInv'
<1> USE DEF TracksInv
<1>1. task = NoTask /\ task' = [op |-> "unpublish", track |-> NoTrack, sid |-> s]
  BY DEF UnpublishTrack
<1>2. UNCHANGED <<published_tracks_by_sid, local_publication, held, rust_publications, rust_sids>>
  BY DEF UnpublishTrack, trackMap, rustTrackVars
<1>3. NewsInv' /\ MuteInv'
  BY TracksQuiet DEF UnpublishTrack, muteVars, rustTrackVars
<1>4. TracksTypeOK'
  BY <1>1, <1>2 DEF UnpublishTrack, muteVars, TracksTypeOK, TaskOps
<1>8. s <= rust_sids
  BY DEF UnpublishTrack, MapInv
<1>5. TaskInv'
  BY <1>1, <1>2, <1>8, TrackFacts DEF TaskInv
<1>6. \A x, u : ~BeingPublished(x, u) /\ ~BeingPublished(x, u)'
  BY <1>1 DEF BeingPublished, NoTask
<1>7. MapInv'
  BY <1>1, <1>2, <1>6 DEF MapInv, NoTask
<1> QED
  BY <1>3, <1>4, <1>5, <1>7

LEMMA UnpublishEraseKeeps ==
  ASSUME TracksInv, UnpublishErase
  PROVE  TracksInv'
<1> USE DEF TracksInv
<1> DEFINE s == task.sid
           t == published_tracks_by_sid[s]
<1>1. task.op = "erase" /\ s \in Sids /\ rust_publications[s] = NoTrack /\ t \in LocalTrackSet \cup {NoTrack}
  BY DEF UnpublishErase, TracksTypeOK, TaskInv
<1>2. held \subseteq LocalTrackSet /\ \A x \in held : Alive(x)
  BY DEF TracksTypeOK, Alive
<1>3. /\ local_publication' \in [LocalTrackSet -> Sids \cup {NoSid}]
      /\ \A x \in held : local_publication'[x] = IF x = t THEN NoSid ELSE local_publication[x]
  BY <1>2 DEF UnpublishErase, TracksTypeOK
<1>4. /\ published_tracks_by_sid' \in [Sids -> LocalTrackSet \cup {NoTrack}] /\ published_tracks_by_sid'[s] = NoTrack
      /\ \A u \in Sids : u # s => published_tracks_by_sid'[u] = published_tracks_by_sid[u]
  BY <1>1 DEF UnpublishErase, TracksTypeOK
<1>5. task' = NoTask
  BY DEF UnpublishErase
<1>6. UNCHANGED <<rust_publications, rust_sids, held>>
  BY DEF UnpublishErase, rustTrackVars
<1>7. UNCHANGED <<track_muted, publication_muted, rust_muted, server_muted, room_events, reported, overtaken>>
  BY DEF UnpublishErase, muteVars
<1>8. NewsInv' /\ MuteInv'
  BY <1>6, <1>7, TracksQuiet
<1>9. TracksTypeOK'
  BY <1>3, <1>4, <1>5, <1>6, <1>7 DEF TracksTypeOK, NoTask, TaskOps
<1>10. TaskInv'
  BY <1>5 DEF TaskInv, NoTask
<1>11. \A x, u : ~BeingPublished(x, u)
  BY <1>1 DEF BeingPublished
<1>12. t \in held => local_publication[t] = s
  BY <1>1, <1>11 DEF MapInv
<1>13. MapInv'
  <2>1. \A u \in Sids : published_tracks_by_sid'[u] # NoTrack => u <= rust_sids
    BY <1>4 DEF MapInv
  <2>2. \A u \in Sids : rust_publications[u] \in held =>
          published_tracks_by_sid'[u] = rust_publications[u] /\ local_publication'[rust_publications[u]] = u
    <3> SUFFICES ASSUME NEW u \in Sids, rust_publications[u] \in held
                 PROVE  published_tracks_by_sid'[u] = rust_publications[u] /\ local_publication'[rust_publications[u]] = u
      OBVIOUS
    <3>1. u # s
      BY <1>1, <1>2, TrackFacts
    <3>2. published_tracks_by_sid[u] = rust_publications[u] /\ local_publication[rust_publications[u]] = u
      BY <1>11 DEF MapInv
    <3>3. rust_publications[u] # t
      BY <1>12, <3>1, <3>2
    <3> QED
      BY <1>3, <1>4, <3>1, <3>2, <3>3
  <2>3. \A u \in Sids : published_tracks_by_sid'[u] \in held => local_publication'[published_tracks_by_sid'[u]] = u
    <3> SUFFICES ASSUME NEW u \in Sids, published_tracks_by_sid'[u] \in held
                 PROVE  local_publication'[published_tracks_by_sid'[u]] = u
      OBVIOUS
    <3>1. u # s
      BY <1>2, <1>4, TrackFacts
    <3>2. published_tracks_by_sid'[u] = published_tracks_by_sid[u] /\ local_publication[published_tracks_by_sid[u]] = u
      BY <1>4, <1>11, <3>1 DEF MapInv
    <3> QED
      BY <1>3, <1>12, <3>1, <3>2
  <2>4. ASSUME NEW x \in held, local_publication'[x] # NoSid
        PROVE  /\ published_tracks_by_sid'[local_publication'[x]] = x
               /\ rust_publications[local_publication'[x]] = x
    <3>1. x # t /\ local_publication'[x] = local_publication[x]
      BY <1>3, <2>4
    <3>2. published_tracks_by_sid[local_publication[x]] = x /\ local_publication[x] \in Sids
      BY <1>2, <2>4, <3>1 DEF MapInv, TracksTypeOK
    <3>3. local_publication[x] # s
      BY <3>1, <3>2
    <3> QED
      BY <1>4, <2>4, <3>1, <3>2, <3>3 DEF MapInv
  <2> QED
    BY <1>6, <2>1, <2>2, <2>3, <2>4 DEF MapInv
<1> QED
  BY <1>8, <1>9, <1>10, <1>13

-----------------------------------------------------------------------------
\* An event that is added comes after those on their way.
LEMMA EventAdded ==
  ASSUME TracksTypeOK, NEW e \in [kind : EventKinds, sid : Sids], room_events' = Append(room_events, e)
  PROVE  /\ room_events' \in Seq([kind : EventKinds, sid : Sids])
         /\ \A k \in DOMAIN room_events' : (k \in DOMAIN room_events /\ room_events'[k] = room_events[k]) \/ room_events'[k] = e
         /\ \A s : PublishedPending(s) \/ e = Event("published", s) => PublishedPending(s)'
         /\ \A s : MutePending(s) \/ IsMute(e, s) => MutePending(s)'
         /\ \A s : \A k \in DOMAIN room_events' :
              LastMute(k, s)' => \/ IsMute(e, s) /\ room_events'[k] = e
                                 \/ ~IsMute(e, s) /\ k \in DOMAIN room_events /\ LastMute(k, s) /\ room_events'[k] = room_events[k]
<1> DEFINE E == [kind : EventKinds, sid : Sids]
<1>1. room_events \in Seq(E)
  BY DEF TracksTypeOK
<1>2. /\ room_events' \in Seq(E) /\ Len(room_events) \in Nat /\ Len(room_events') = Len(room_events) + 1
      /\ DOMAIN room_events = 1 .. Len(room_events) /\ DOMAIN room_events' = 1 .. Len(room_events) + 1
      /\ \A k \in DOMAIN room_events : room_events'[k] = room_events[k]
      /\ room_events'[Len(room_events) + 1] = e
  BY <1>1, EventAppended
<1> HIDE DEF E
<1>3. \A k \in DOMAIN room_events' : k = Len(room_events) + 1 \/ k \in DOMAIN room_events
  BY <1>2
<1>4. Len(room_events) + 1 \in DOMAIN room_events' /\ \A k \in DOMAIN room_events : k \in DOMAIN room_events'
  BY <1>2
<1>5. \A s : PublishedPending(s) \/ e = Event("published", s) => PublishedPending(s)'
  BY <1>2, <1>4 DEF PublishedPending
<1>6. \A s : MutePending(s) \/ IsMute(e, s) => MutePending(s)'
  BY <1>2, <1>4 DEF MutePending
<1>7. ASSUME NEW s, NEW k \in DOMAIN room_events', LastMute(k, s)'
      PROVE  \/ IsMute(e, s) /\ room_events'[k] = e
             \/ ~IsMute(e, s) /\ k \in DOMAIN room_events /\ LastMute(k, s) /\ room_events'[k] = room_events[k]
  <2>1. IsMute(room_events'[k], s) /\ \A j \in k + 1 .. Len(room_events') : ~IsMute(room_events'[j], s)
    BY <1>7 DEF LastMute
  <2>2. CASE k = Len(room_events) + 1
    BY <1>2, <2>1, <2>2
  <2>3. CASE k \in DOMAIN room_events
    <3>1. \A j \in k + 1 .. Len(room_events) : j \in DOMAIN room_events /\ j \in k + 1 .. Len(room_events')
      BY <1>2, <2>3
    <3>2. \A j \in k + 1 .. Len(room_events) : ~IsMute(room_events[j], s)
      BY <1>2, <2>1, <3>1
    <3>3. ~IsMute(e, s)
      BY <1>2, <2>1, <2>3
    <3> QED
      BY <1>2, <2>1, <2>3, <3>2, <3>3 DEF LastMute
  <2> QED
    BY <1>3, <2>2, <2>3
<1> QED
  BY <1>2, <1>3, <1>5, <1>6, <1>7 DEF E

LEMMA RustPublishesKeeps ==
  ASSUME TracksInv, RustPublishes
  PROVE  TracksInv'
<1> USE DEF TracksInv
<1>1. PICK n : n = rust_sids + 1
  OBVIOUS
<1>2. PICK t : t = task.track
  OBVIOUS
<1>3. n \in Sids /\ n \in Nat /\ rust_sids \in Nat /\ n > rust_sids /\ rust_sids' = n /\ n \in 0 .. MaxPublications
  BY <1>1, TrackFacts DEF RustPublishes, TracksTypeOK, Sids
<1>4. task.op = "publish" /\ task.sid = NoSid /\ t \in held /\ t \in LocalTrackSet /\ local_publication[t] = NoSid
  BY <1>2 DEF RustPublishes, TaskInv, TracksTypeOK
<1>5. /\ rust_publications' \in [Sids -> LocalTrackSet \cup {NoTrack}] /\ rust_publications'[n] = t
      /\ \A s \in Sids : s # n => rust_publications'[s] = rust_publications[s]
  BY <1>1, <1>2, <1>3, <1>4 DEF RustPublishes, TracksTypeOK
<1>6. /\ publication_muted' \in [Sids -> BOOLEAN] /\ publication_muted'[n] = rust_muted[t]
      /\ \A s \in Sids : s # n => publication_muted'[s] = publication_muted[s]
  BY <1>1, <1>2, <1>3, <1>4 DEF RustPublishes, TracksTypeOK
<1>7. /\ task' \in [op : TaskOps, track : LocalTrackSet \cup {NoTrack}, sid : Sids \cup {NoSid}]
      /\ task'.op = "publish" /\ task'.track = t /\ task'.sid = n
  BY <1>1, <1>2, <1>3, <1>4 DEF RustPublishes, TracksTypeOK
<1>8. PICK e \in [kind : EventKinds, sid : Sids] : e = Event("published", n)
  BY <1>3 DEF Event, EventKinds
<1>9. room_events' = Append(room_events, e) /\ e.kind = "published" /\ e.sid = n
  BY <1>1, <1>8 DEF RustPublishes, Event
<1>10. UNCHANGED <<published_tracks_by_sid, local_publication, held>>
  BY DEF RustPublishes, trackMap
<1>11. UNCHANGED <<track_muted, rust_muted, server_muted, reported, overtaken>>
  BY DEF RustPublishes
<1>12. /\ room_events' \in Seq([kind : EventKinds, sid : Sids])
       /\ \A k \in DOMAIN room_events' : (k \in DOMAIN room_events /\ room_events'[k] = room_events[k]) \/ room_events'[k] = e
       /\ \A s : PublishedPending(s) \/ e = Event("published", s) => PublishedPending(s)'
       /\ \A s : MutePending(s) \/ IsMute(e, s) => MutePending(s)'
       /\ \A s : \A k \in DOMAIN room_events' :
            LastMute(k, s)' => \/ IsMute(e, s) /\ room_events'[k] = e
                               \/ ~IsMute(e, s) /\ k \in DOMAIN room_events /\ LastMute(k, s) /\ room_events'[k] = room_events[k]
  BY <1>8, <1>9, EventAdded
<1>13. published_tracks_by_sid[n] = NoTrack /\ rust_publications[n] = NoTrack
  BY <1>3 DEF MapInv
<1>14. TracksTypeOK'
  BY <1>3, <1>5, <1>6, <1>7, <1>10, <1>11, <1>12 DEF TracksTypeOK
<1>15. TaskInv'
  BY <1>3, <1>4, <1>5, <1>7, <1>10, <1>13, TrackFacts DEF TaskInv
<1>16. \A x : \A s \in Sids : ~BeingPublished(x, s)
  BY <1>4, TrackFacts DEF BeingPublished
<1>17. MapInv'
  <2>0. \A s \in Sids : s <= rust_sids \/ s = n => s <= n
    BY <1>3, TrackFacts
  <2>1. \A s \in Sids : rust_publications'[s] # NoTrack => s <= n
    BY <1>5, <2>0 DEF MapInv
  <2>2. \A s \in Sids : published_tracks_by_sid[s] # NoTrack => s <= n
    BY <2>0 DEF MapInv
  <2>3. BeingPublished(t, n)'
    BY <1>7 DEF BeingPublished
  <2>4. \A s \in Sids : rust_publications'[s] \in held =>
          \/ BeingPublished(rust_publications[s], s)'
          \/ published_tracks_by_sid[s] = rust_publications'[s] /\ local_publication[rust_publications'[s]] = s
    <3> SUFFICES ASSUME NEW s \in Sids, rust_publications'[s] \in held
                 PROVE  \/ BeingPublished(rust_publications[s], s)'
                        \/ published_tracks_by_sid[s] = rust_publications'[s] /\ local_publication[rust_publications'[s]] = s
      OBVIOUS
    <3>1. CASE s = n
      BY <1>5, <1>7, <3>1 DEF BeingPublished
    <3>2. CASE s # n
      BY <1>5, <1>16, <3>2 DEF MapInv
    <3> QED
      BY <3>1, <3>2
  <2>5. \A s \in Sids : published_tracks_by_sid[s] \in held => local_publication[published_tracks_by_sid[s]] = s
    BY <1>16 DEF MapInv
  <2>6. \A x \in held : local_publication[x] # NoSid =>
          published_tracks_by_sid[local_publication[x]] = x /\ rust_publications[local_publication[x]] = x
    BY <1>4 DEF MapInv
  <2>7. \A x \in held : local_publication[x] # NoSid => rust_publications'[local_publication[x]] = x
    <3> SUFFICES ASSUME NEW x \in held, local_publication[x] # NoSid PROVE rust_publications'[local_publication[x]] = x
      OBVIOUS
    <3>1. local_publication[x] \in Sids /\ x # NoTrack
      BY TrackFacts DEF TracksTypeOK
    <3>2. local_publication[x] # n
      BY <1>13, <2>6, <3>1
    <3> QED
      BY <1>5, <2>6, <3>1, <3>2
  <2> QED
    BY <1>3, <1>10, <2>1, <2>2, <2>4, <2>5, <2>6, <2>7 DEF MapInv
<1>18. NewsInv'
  <2>1. \A k \in DOMAIN room_events' : room_events'[k].sid <= n
    <3> SUFFICES ASSUME NEW k \in DOMAIN room_events' PROVE room_events'[k].sid <= n
      OBVIOUS
    <3>1. CASE room_events'[k] = e
      BY <1>3, <1>9, <3>1
    <3>2. CASE k \in DOMAIN room_events /\ room_events'[k] = room_events[k]
      <4>1. room_events[k] \in [kind : EventKinds, sid : Sids]
        BY <3>2, EventTyped DEF TracksTypeOK
      <4>2. room_events[k].sid <= rust_sids /\ room_events[k].sid \in Nat
        BY <3>2, <4>1, TrackFacts DEF NewsInv
      <4> QED
        BY <1>3, <3>2, <4>2
    <3> QED
      BY <1>12, <3>1, <3>2
  <2>2. \A s \in Sids : rust_publications'[s] \in held =>
          \/ PublishedPending(s)' \/ Event("published", s) \in overtaken
          \/ \E r \in reported : r.kind = "published" /\ r.sid = s
    <3> SUFFICES ASSUME NEW s \in Sids, rust_publications'[s] \in held
                 PROVE  \/ PublishedPending(s)' \/ Event("published", s) \in overtaken
                        \/ \E r \in reported : r.kind = "published" /\ r.sid = s
      OBVIOUS
    <3>1. CASE s = n
      BY <1>8, <1>12, <3>1
    <3>2. CASE s # n
      BY <1>5, <1>12, <3>2 DEF NewsInv
    <3> QED
      BY <3>1, <3>2
  <2> QED
    BY <1>3, <1>10, <1>11, <2>1, <2>2 DEF NewsInv
<1>19. MuteInv'
  <2>1. \A s : ~IsMute(e, s)
    BY <1>9 DEF IsMute
  <2>2. \A k \in DOMAIN room_events : ~IsMute(room_events[k], n)
    BY <1>3 DEF NewsInv, IsMute
  <2>3. ASSUME NEW s \in Sids, rust_publications'[s] \in held, NEW k \in DOMAIN room_events', LastMute(k, s)'
        PROVE  room_events'[k].kind = "muted" <=> rust_muted[rust_publications'[s]]
    <3>1. k \in DOMAIN room_events /\ LastMute(k, s) /\ room_events'[k] = room_events[k]
      BY <1>12, <2>1, <2>3
    <3>2. s # n
      BY <2>2, <3>1 DEF LastMute
    <3> QED
      BY <1>5, <2>3, <3>1, <3>2 DEF MuteInv
  <2>4. ASSUME NEW s \in Sids, rust_publications'[s] \in held
        PROVE  MutePending(s)' \/ MuteOvertaken(s) \/ publication_muted'[s] = rust_muted[rust_publications'[s]]
    <3>1. CASE s = n
      BY <1>5, <1>6, <3>1
    <3>2. CASE s # n
      BY <1>5, <1>6, <1>12, <2>4, <3>2 DEF MuteInv
    <3> QED
      BY <3>1, <3>2
  <2>5. \A s : MuteOvertaken(s)' <=> MuteOvertaken(s)
    BY <1>11 DEF MuteOvertaken
  <2> QED
    BY <1>10, <1>11, <2>3, <2>4, <2>5 DEF MuteInv
<1> QED
  BY <1>14, <1>15, <1>17, <1>18, <1>19

\* An event that is neither about a new publication nor about a mute state.
LEMMA OtherEventKeeps ==
  ASSUME TracksInv, NEW e \in [kind : EventKinds, sid : Sids], room_events' = Append(room_events, e),
         e.kind \notin {"muted", "unmuted"}, e.sid <= rust_sids,
         \A s \in Sids : rust_publications'[s] \in held => rust_publications'[s] = rust_publications[s],
         UNCHANGED <<held, rust_sids, publication_muted, track_muted, rust_muted, server_muted, reported, overtaken>>
  PROVE  NewsInv' /\ MuteInv' /\ room_events' \in Seq([kind : EventKinds, sid : Sids])
<1> USE DEF TracksInv
<1>1. /\ room_events' \in Seq([kind : EventKinds, sid : Sids])
      /\ \A k \in DOMAIN room_events' : (k \in DOMAIN room_events /\ room_events'[k] = room_events[k]) \/ room_events'[k] = e
      /\ \A s : PublishedPending(s) \/ e = Event("published", s) => PublishedPending(s)'
      /\ \A s : MutePending(s) \/ IsMute(e, s) => MutePending(s)'
      /\ \A s : \A k \in DOMAIN room_events' :
           LastMute(k, s)' => \/ IsMute(e, s) /\ room_events'[k] = e
                              \/ ~IsMute(e, s) /\ k \in DOMAIN room_events /\ LastMute(k, s) /\ room_events'[k] = room_events[k]
  BY EventAdded
<1>2. \A s : ~IsMute(e, s)
  BY DEF IsMute
<1>3. \A k \in DOMAIN room_events' : room_events'[k].sid <= rust_sids
  BY <1>1 DEF NewsInv
<1>4. NewsInv'
  BY <1>1, <1>3 DEF NewsInv
<1>5. \A s : MuteOvertaken(s)' <=> MuteOvertaken(s)
  BY DEF MuteOvertaken
<1>6. MuteInv'
  BY <1>1, <1>2, <1>5 DEF MuteInv
<1> QED
  BY <1>1, <1>4, <1>6

LEMMA RustUnpublishesKeeps ==
  ASSUME TracksInv, RustUnpublishes
  PROVE  TracksInv'
<1> USE DEF TracksInv
<1>1. PICK n : n = task.sid
  OBVIOUS
<1>2. task.op = "unpublish" /\ task.track = NoTrack /\ n \in Sids
  BY <1>1 DEF RustUnpublishes, TaskInv, TracksTypeOK
<1>3. /\ rust_publications' \in [Sids -> LocalTrackSet \cup {NoTrack}] /\ rust_publications'[n] = NoTrack
      /\ \A s \in Sids : s # n => rust_publications'[s] = rust_publications[s]
  BY <1>1, <1>2 DEF RustUnpublishes, TracksTypeOK
<1>4. /\ task' \in [op : TaskOps, track : LocalTrackSet \cup {NoTrack}, sid : Sids \cup {NoSid}]
      /\ task'.op = "erase" /\ task'.track = NoTrack /\ task'.sid = n
  BY <1>1, <1>2 DEF RustUnpublishes, TracksTypeOK, TaskOps
<1>5. PICK e \in [kind : EventKinds, sid : Sids] : e = Event("unpublished", n)
  BY <1>2 DEF Event, EventKinds
<1>6. room_events' = Append(room_events, e) /\ e.kind = "unpublished" /\ e.sid = n
  BY <1>1, <1>5 DEF RustUnpublishes, Event
<1>7. UNCHANGED <<published_tracks_by_sid, local_publication, held, rust_sids>>
  BY DEF RustUnpublishes, trackMap
<1>8. UNCHANGED <<track_muted, publication_muted, rust_muted, server_muted, reported, overtaken>>
  BY DEF RustUnpublishes, muteVars
<1>9. NoTrack \notin held
  BY TrackFacts DEF TracksTypeOK
<1>10. n <= rust_sids
  BY <1>1, <1>2, TrackFacts DEF TaskInv
<1>11. NewsInv' /\ MuteInv' /\ room_events' \in Seq([kind : EventKinds, sid : Sids])
  <2>1. \A s \in Sids : rust_publications'[s] \in held => rust_publications'[s] = rust_publications[s]
    BY <1>3, <1>9
  <2>2. e.kind \notin {"muted", "unmuted"} /\ e.sid <= rust_sids
    BY <1>6, <1>10
  <2> QED
    BY <1>5, <1>6, <1>7, <1>8, <2>1, <2>2, OtherEventKeeps
<1>12. TracksTypeOK'
  BY <1>3, <1>4, <1>7, <1>8, <1>11 DEF TracksTypeOK
<1>13. TaskInv'
  BY <1>2, <1>3, <1>4, <1>7, <1>10, TrackFacts DEF TaskInv
<1>14. \A x, s : ~BeingPublished(x, s)
  BY <1>2 DEF BeingPublished
<1>15. MapInv'
  <2>1. \A s \in Sids : rust_publications'[s] # NoTrack => s <= rust_sids
    BY <1>3 DEF MapInv
  <2>2. \A s \in Sids : rust_publications'[s] \in held =>
          published_tracks_by_sid[s] = rust_publications'[s] /\ local_publication[rust_publications'[s]] = s
    BY <1>3, <1>9, <1>14 DEF MapInv
  <2>3. \A s \in Sids : published_tracks_by_sid[s] \in held => local_publication[published_tracks_by_sid[s]] = s
    BY <1>14 DEF MapInv
  <2>4. \A x \in held : local_publication[x] # NoSid => rust_publications[local_publication[x]] = x
    BY <1>2 DEF MapInv
  <2>5. \A x \in held : local_publication[x] # NoSid => rust_publications'[local_publication[x]] = x \/ local_publication[x] = n
    BY <1>3, <2>4 DEF TracksTypeOK
  <2> QED
    BY <1>4, <1>7, <2>1, <2>2, <2>3, <2>5 DEF MapInv
<1> QED
  BY <1>11, <1>12, <1>13, <1>15

LEMMA RustSubscribedKeeps ==
  ASSUME TracksInv, NEW n \in Sids, RustSubscribed(n)
  PROVE  TracksInv'
<1> USE DEF TracksInv
<1>1. PICK e \in [kind : EventKinds, sid : Sids] : e = Event("subscribed", n)
  BY DEF Event, EventKinds
<1>2. room_events' = Append(room_events, e) /\ e.kind \notin {"muted", "unmuted"} /\ e.sid = n
  BY <1>1 DEF RustSubscribed, Event
<1>3. n <= rust_sids
  BY DEF RustSubscribed, MapInv
<1>4. UNCHANGED <<published_tracks_by_sid, local_publication, held, task, rust_publications, rust_sids>>
  BY DEF RustSubscribed, trackMap, rustTrackVars
<1>5. UNCHANGED <<track_muted, publication_muted, rust_muted, server_muted, reported, overtaken>>
  BY DEF RustSubscribed, muteVars
<1>6. NewsInv' /\ MuteInv' /\ room_events' \in Seq([kind : EventKinds, sid : Sids])
  BY <1>1, <1>2, <1>3, <1>4, <1>5, OtherEventKeeps
<1>7. TracksTypeOK' /\ TaskInv'
  BY <1>4, <1>5, <1>6 DEF TracksTypeOK, TaskInv
<1>8. MapInv'
  BY <1>4 DEF MapInv, BeingPublished
<1> QED
  BY <1>6, <1>7, <1>8

\* Rust changes the state of a track, and sends the event for its publication.
LEMMA MuteEventsKeep ==
  ASSUME TracksInv, NEW t \in LocalTrackSet, NEW muted \in BOOLEAN, MuteEvents(t, muted),
         rust_muted' = [rust_muted EXCEPT ![t] = muted],
         \A x \in held : x \notin server_muted' => track_muted'[x] = rust_muted'[x],
         UNCHANGED <<held, rust_publications, rust_sids, publication_muted, reported, overtaken>>
  PROVE  NewsInv' /\ MuteInv' /\ room_events' \in Seq([kind : EventKinds, sid : Sids])
<1> USE DEF TracksInv
<1>1. \A x \in LocalTrackSet : rust_muted'[x] = IF x = t THEN muted ELSE rust_muted[x]
  BY DEF TracksTypeOK
<1>2. held \subseteq LocalTrackSet
  BY DEF TracksTypeOK
<1>3. \A s : MuteOvertaken(s)' <=> MuteOvertaken(s)
  BY DEF MuteOvertaken
<1>4. CASE /\ room_events' = room_events
           /\ \A s \in Sids : rust_publications[s] \in held => rust_muted'[rust_publications[s]] = rust_muted[rust_publications[s]]
  <2>1. \A s : (PublishedPending(s)' <=> PublishedPending(s)) /\ (MutePending(s)' <=> MutePending(s))
    BY <1>4 DEF PublishedPending, MutePending
  <2>2. \A s, k : LastMute(k, s)' <=> LastMute(k, s)
    BY <1>4 DEF LastMute
  <2>3. NewsInv'
    BY <1>4, <2>1 DEF NewsInv
  <2>4. MuteInv'
    BY <1>3, <1>4, <2>1, <2>2 DEF MuteInv
  <2> QED
    BY <1>4, <2>3, <2>4 DEF TracksTypeOK
<1>5. CASE \A s \in Sids : rust_publications[s] # t
  <2>1. room_events' = room_events
    BY <1>5 DEF MuteEvents
  <2> QED
    BY <1>1, <1>2, <1>4, <1>5, <2>1
<1>6. CASE rust_muted[t] = muted
  <2>1. room_events' = room_events
    BY <1>6 DEF MuteEvents
  <2> QED
    BY <1>1, <1>2, <1>4, <1>6, <2>1
<1>7. CASE rust_muted[t] # muted /\ \E s \in Sids : rust_publications[s] = t
  <2>1. PICK n : n = CHOOSE s \in {u \in Sids : rust_publications[u] = t} : TRUE
    OBVIOUS
  <2>2. n \in Sids /\ rust_publications[n] = t
    BY <1>7, <2>1
  <2>3. n <= rust_sids
    BY <2>2, TrackFacts DEF MapInv
  <2>4. PICK e \in [kind : EventKinds, sid : Sids] : e = Event(IF muted THEN "muted" ELSE "unmuted", n)
    BY <2>2 DEF Event, EventKinds
  <2>5. (e.kind = "muted" <=> muted) /\ e.sid = n /\ e.kind \in {"muted", "unmuted"}
    BY <2>4 DEF Event
  <2>6. room_events' = Append(room_events, e)
    BY <1>7, <2>1, <2>4 DEF MuteEvents
  <2>7. /\ room_events' \in Seq([kind : EventKinds, sid : Sids])
        /\ \A k \in DOMAIN room_events' : (k \in DOMAIN room_events /\ room_events'[k] = room_events[k]) \/ room_events'[k] = e
        /\ \A s : PublishedPending(s) \/ e = Event("published", s) => PublishedPending(s)'
        /\ \A s : MutePending(s) \/ IsMute(e, s) => MutePending(s)'
        /\ \A s : \A k \in DOMAIN room_events' :
             LastMute(k, s)' => \/ IsMute(e, s) /\ room_events'[k] = e
                                \/ ~IsMute(e, s) /\ k \in DOMAIN room_events /\ LastMute(k, s) /\ room_events'[k] = room_events[k]
    BY <2>4, <2>6, EventAdded
  <2>8. \A s : IsMute(e, s) <=> s = n
    BY <2>5 DEF IsMute
  <2>9. \A s \in Sids : rust_publications[s] \in held /\ s # n => rust_publications[s] # t
    BY <2>2, OnePublication
  <2>10. \A k \in DOMAIN room_events' : room_events'[k].sid <= rust_sids
    BY <2>3, <2>5, <2>7 DEF NewsInv
  <2>11. NewsInv'
    BY <2>7, <2>10 DEF NewsInv
  <2>12. ASSUME NEW s \in Sids, rust_publications[s] \in held, NEW k \in DOMAIN room_events', LastMute(k, s)'
         PROVE  room_events'[k].kind = "muted" <=> rust_muted'[rust_publications[s]]
    <3>1. CASE s = n
      BY <1>1, <2>2, <2>5, <2>7, <2>8, <2>12, <3>1
    <3>2. CASE s # n
      <4>1. k \in DOMAIN room_events /\ LastMute(k, s) /\ room_events'[k] = room_events[k]
        BY <2>7, <2>8, <2>12, <3>2
      <4> QED
        BY <1>1, <1>2, <2>9, <2>12, <3>2, <4>1 DEF MuteInv
    <3> QED
      BY <3>1, <3>2
  <2>13. ASSUME NEW s \in Sids, rust_publications[s] \in held
         PROVE  MutePending(s)' \/ MuteOvertaken(s) \/ publication_muted[s] = rust_muted'[rust_publications[s]]
    <3>1. CASE s = n
      BY <2>7, <2>8, <3>1
    <3>2. CASE s # n
      BY <1>1, <1>2, <2>7, <2>9, <2>13, <3>2 DEF MuteInv
    <3> QED
      BY <3>1, <3>2
  <2>14. MuteInv'
    BY <1>3, <2>12, <2>13 DEF MuteInv
  <2> QED
    BY <2>7, <2>11, <2>14
<1> QED
  BY <1>5, <1>6, <1>7

LEMMA MuteTrackKeeps ==
  ASSUME TracksInv, NEW t \in LocalTrackSet, NEW muted \in BOOLEAN, NEW requested \in BOOLEAN, MuteTrack(t, muted, requested)
  PROVE  TracksInv'
<1> USE DEF TracksInv
<1>1. UNCHANGED <<published_tracks_by_sid, local_publication, held, task, rust_publications, rust_sids>>
  BY DEF MuteTrack, trackMap, rustTrackVars
<1>2. UNCHANGED <<publication_muted, reported, overtaken>>
  BY DEF MuteTrack
<1>3. /\ NewsInv' /\ MuteInv' /\ room_events' \in Seq([kind : EventKinds, sid : Sids])
      /\ track_muted' \in [LocalTrackSet -> BOOLEAN] /\ rust_muted' \in [LocalTrackSet -> BOOLEAN]
  <2>1. CASE requested
    <3>1. track_muted' = [track_muted EXCEPT ![t] = muted] /\ rust_muted' = [rust_muted EXCEPT ![t] = muted]
      BY <2>1 DEF MuteTrack
    <3>2. server_muted' = server_muted \ {t} /\ MuteEvents(t, muted)
      BY <2>1 DEF MuteTrack
    <3>3. held \subseteq LocalTrackSet
      BY DEF TracksTypeOK
    <3>4. /\ \A x \in LocalTrackSet : track_muted'[x] = IF x = t THEN muted ELSE track_muted[x]
          /\ \A x \in LocalTrackSet : rust_muted'[x] = IF x = t THEN muted ELSE rust_muted[x]
      BY <3>1 DEF TracksTypeOK
    <3>5. \A x \in held : x \notin server_muted' => track_muted'[x] = rust_muted'[x]
      BY <3>2, <3>3, <3>4 DEF MuteInv
    <3>6. track_muted' \in [LocalTrackSet -> BOOLEAN] /\ rust_muted' \in [LocalTrackSet -> BOOLEAN]
      BY <3>1 DEF TracksTypeOK
    <3> QED
      BY <1>1, <1>2, <3>1, <3>2, <3>5, <3>6, MuteEventsKeep
  <2>2. CASE ~requested
    <3>1. UNCHANGED <<track_muted, rust_muted, server_muted, room_events>>
      BY <2>2 DEF MuteTrack
    <3> QED
      BY <1>1, <1>2, <3>1, TracksQuiet DEF TracksTypeOK
  <2> QED
    BY <2>1, <2>2
<1>4. TracksTypeOK' /\ TaskInv'
  BY <1>1, <1>2, <1>3 DEF TracksTypeOK, TaskInv
<1>5. MapInv'
  BY <1>1 DEF MapInv, BeingPublished
<1> QED
  BY <1>3, <1>4, <1>5

LEMMA ServerMutesKeeps ==
  ASSUME TracksInv, NEW t \in LocalTrackSet, ServerMutes(t)
  PROVE  TracksInv'
<1> USE DEF TracksInv
<1>1. UNCHANGED <<published_tracks_by_sid, local_publication, held, task, rust_publications, rust_sids>>
  BY DEF ServerMutes, trackMap, rustTrackVars
<1>2. UNCHANGED <<track_muted, publication_muted, reported, overtaken>>
  BY DEF ServerMutes
<1>3. PICK muted \in BOOLEAN : muted = ~rust_muted[t]
  BY DEF TracksTypeOK
<1>4. rust_muted' = [rust_muted EXCEPT ![t] = muted] /\ MuteEvents(t, muted)
  <2>1. rust_muted' = [rust_muted EXCEPT ![t] = ~rust_muted[t]] /\ MuteEvents(t, ~rust_muted[t])
    BY DEF ServerMutes
  <2>2. rust_muted' = [rust_muted EXCEPT ![t] = muted]
    BY <1>3, <2>1
  <2>3. MuteEvents(t, muted)
    BY <1>3, <2>1
  <2> QED
    BY <2>2, <2>3
<1>5. server_muted' = server_muted \cup {t}
  BY DEF ServerMutes
<1>6. held \subseteq LocalTrackSet /\ rust_muted' \in [LocalTrackSet -> BOOLEAN]
  BY <1>4 DEF TracksTypeOK
<1>7. \A x \in LocalTrackSet : rust_muted'[x] = IF x = t THEN muted ELSE rust_muted[x]
  BY <1>4 DEF TracksTypeOK
<1>8. \A x \in held : x \notin server_muted' => track_muted'[x] = rust_muted'[x]
  BY <1>2, <1>5, <1>6, <1>7 DEF MuteInv
<1>9. NewsInv' /\ MuteInv' /\ room_events' \in Seq([kind : EventKinds, sid : Sids])
  BY <1>1, <1>2, <1>4, <1>8, MuteEventsKeep
<1>10. TracksTypeOK' /\ TaskInv'
  BY <1>1, <1>2, <1>6, <1>9 DEF TracksTypeOK, TaskInv
<1>11. MapInv'
  BY <1>1 DEF MapInv, BeingPublished
<1> QED
  BY <1>9, <1>10, <1>11

-----------------------------------------------------------------------------
\* An event is taken from the front.
LEMMA EventRemoved ==
  ASSUME TracksTypeOK, room_events # << >>, room_events' = Tail(room_events)
  PROVE  /\ room_events' \in Seq([kind : EventKinds, sid : Sids])
         /\ Head(room_events) \in [kind : EventKinds, sid : Sids]
         /\ 1 \in DOMAIN room_events /\ room_events[1] = Head(room_events)
         /\ \A k \in DOMAIN room_events' : k + 1 \in DOMAIN room_events /\ room_events'[k] = room_events[k + 1]
         /\ \A s : PublishedPending(s) => Head(room_events) = Event("published", s) \/ PublishedPending(s)'
         /\ \A s : MutePending(s) => IsMute(Head(room_events), s) \/ MutePending(s)'
         /\ \A s : \A k \in DOMAIN room_events' : LastMute(k, s)' => LastMute(k + 1, s)
         /\ \A s : IsMute(Head(room_events), s) => MutePending(s)' \/ LastMute(1, s)
<1> DEFINE E == [kind : EventKinds, sid : Sids]
<1>1. room_events \in Seq(E)
  BY DEF TracksTypeOK
<1>2. /\ room_events' \in Seq(E) /\ Len(room_events) \in Nat /\ Len(room_events) > 0
      /\ Len(room_events') = Len(room_events) - 1
      /\ DOMAIN room_events = 1 .. Len(room_events) /\ DOMAIN room_events' = 1 .. Len(room_events) - 1
      /\ \A k \in DOMAIN room_events' : room_events'[k] = room_events[k + 1]
      /\ Head(room_events) = room_events[1] /\ Head(room_events) \in E
  BY <1>1, EventTaken
<1> HIDE DEF E
<1>3. \A k \in DOMAIN room_events' : k + 1 \in DOMAIN room_events /\ room_events'[k] = room_events[k + 1]
  BY <1>2
<1>4. \A k \in DOMAIN room_events : k = 1 \/ (k - 1 \in DOMAIN room_events' /\ room_events'[k - 1] = room_events[k])
  BY <1>2
<1>5. 1 \in DOMAIN room_events
  BY <1>2
<1>6. \A s : PublishedPending(s) => Head(room_events) = Event("published", s) \/ PublishedPending(s)'
  BY <1>2, <1>4 DEF PublishedPending
<1>7. \A s : MutePending(s) => IsMute(Head(room_events), s) \/ MutePending(s)'
  BY <1>2, <1>4 DEF MutePending
<1>8. ASSUME NEW s, NEW k \in DOMAIN room_events', LastMute(k, s)'
      PROVE  LastMute(k + 1, s)
  <2>1. IsMute(room_events'[k], s) /\ \A j \in k + 1 .. Len(room_events') : ~IsMute(room_events'[j], s)
    BY <1>8 DEF LastMute
  <2>2. \A j \in (k + 1) + 1 .. Len(room_events) : j - 1 \in k + 1 .. Len(room_events') /\ room_events'[j - 1] = room_events[j]
    BY <1>2, <1>8
  <2>3. \A j \in (k + 1) + 1 .. Len(room_events) : ~IsMute(room_events[j], s)
    BY <2>1, <2>2
  <2> QED
    BY <1>3, <2>1, <2>3 DEF LastMute
<1>9. ASSUME NEW s, IsMute(Head(room_events), s), ~MutePending(s)'
      PROVE  LastMute(1, s)
  <2>1. \A j \in 1 + 1 .. Len(room_events) : j \in DOMAIN room_events /\ j # 1
    BY <1>2
  <2>2. \A j \in 1 + 1 .. Len(room_events) : ~IsMute(room_events[j], s)
    BY <1>4, <1>9, <2>1 DEF MutePending
  <2> QED
    BY <1>2, <1>9, <2>2 DEF LastMute
<1> QED
  BY <1>2, <1>3, <1>5, <1>6, <1>7, <1>8, <1>9 DEF E

\* The lookups forget the entries of tracks that are gone, and only those.
LEMMA PruneKeeps ==
  ASSUME TracksInv,
         \A s \in Sids : published_tracks_by_sid'[s] \in {published_tracks_by_sid[s], NoTrack},
         \A s \in Sids : Alive(published_tracks_by_sid[s]) => published_tracks_by_sid'[s] = published_tracks_by_sid[s],
         UNCHANGED <<local_publication, held, task, rust_publications, rust_sids>>
  PROVE  TaskInv' /\ MapInv'
<1> USE DEF TracksInv
<1>1. NoTrack \notin held /\ \A x \in held : Alive(x)
  BY TrackFacts DEF TracksTypeOK, Alive
<1>2. \A s \in Sids : published_tracks_by_sid[s] \in held \/ published_tracks_by_sid'[s] \in held =>
        published_tracks_by_sid'[s] = published_tracks_by_sid[s]
  BY <1>1
<1>3. TaskInv'
  <2>1. task.op \in {"publish", "attach"} /\ task.sid # NoSid => task.sid \in Sids /\ task.track \in held
    BY DEF TracksTypeOK, TaskInv
  <2>2. task.op = "publish" /\ task.sid # NoSid => published_tracks_by_sid'[task.sid] = NoTrack
    BY <2>1 DEF TaskInv
  <2>3. task.op = "attach" => task.sid # NoSid /\ published_tracks_by_sid'[task.sid] = task.track
    BY <1>2, <2>1 DEF TaskInv
  <2> QED
    BY <2>2, <2>3 DEF TaskInv
<1>4. \A x, s : BeingPublished(x, s)' <=> BeingPublished(x, s)
  BY DEF BeingPublished
<1>5. MapInv'
  <2>1. \A s \in Sids : published_tracks_by_sid'[s] # NoTrack => s <= rust_sids
    BY DEF MapInv
  <2>2. \A s \in Sids : rust_publications[s] \in held =>
          \/ BeingPublished(rust_publications[s], s)
          \/ published_tracks_by_sid'[s] = rust_publications[s] /\ local_publication[rust_publications[s]] = s
    BY <1>2 DEF MapInv
  <2>3. \A s \in Sids : published_tracks_by_sid'[s] \in held =>
          \/ local_publication[published_tracks_by_sid'[s]] = s
          \/ task.op = "attach" /\ BeingPublished(published_tracks_by_sid'[s], s)
    BY <1>2 DEF MapInv
  <2>4. \A x \in held : local_publication[x] # NoSid => local_publication[x] \in Sids
    BY DEF TracksTypeOK
  <2>5. \A x \in held : local_publication[x] # NoSid => published_tracks_by_sid'[local_publication[x]] = x
    BY <1>2, <2>4 DEF MapInv
  <2> QED
    BY <1>4, <2>1, <2>2, <2>3, <2>5 DEF MapInv
<1> QED
  BY <1>3, <1>5

\* Taking an event keeps NewsInv if a publication that is reported is told of, or noted as overtaken ...
LEMMA NewsTaken ==
  ASSUME TracksInv, room_events # << >>, room_events' = Tail(room_events),
         UNCHANGED <<held, rust_publications, rust_sids>>,
         reported \subseteq reported', overtaken \subseteq overtaken', \A r \in reported' : r.publication = r.sid,
         \A s \in Sids : rust_publications[s] \in held /\ Head(room_events) = Event("published", s) =>
           Event("published", s) \in overtaken' \/ \E r \in reported' : r.kind = "published" /\ r.sid = s
  PROVE  NewsInv'
<1> USE DEF TracksInv
<1>1. /\ \A k \in DOMAIN room_events' : k + 1 \in DOMAIN room_events /\ room_events'[k] = room_events[k + 1]
      /\ \A s : PublishedPending(s) => Head(room_events) = Event("published", s) \/ PublishedPending(s)'
  BY EventRemoved
<1>2. \A k \in DOMAIN room_events' : room_events'[k].sid <= rust_sids
  BY <1>1 DEF NewsInv
<1>3. \A s \in Sids : rust_publications[s] \in held =>
        \/ PublishedPending(s)' \/ Event("published", s) \in overtaken'
        \/ \E r \in reported' : r.kind = "published" /\ r.sid = s
  BY <1>1 DEF NewsInv
<1> QED
  BY <1>2, <1>3 DEF NewsInv

\* ... and MuteInv if the publication an event about a mute state names gets that state, or the event is noted.
LEMMA MuteTaken ==
  ASSUME TracksInv, room_events # << >>, room_events' = Tail(room_events),
         UNCHANGED <<held, rust_publications, track_muted, rust_muted, server_muted>>, overtaken \subseteq overtaken',
         \A s \in Sids : ~IsMute(Head(room_events), s) => publication_muted'[s] = publication_muted[s],
         \A s \in Sids : IsMute(Head(room_events), s) /\ rust_publications[s] \in held =>
           MuteOvertaken(s)' \/ publication_muted'[s] = (Head(room_events).kind = "muted")
  PROVE  MuteInv'
<1> USE DEF TracksInv
<1>1. /\ 1 \in DOMAIN room_events /\ room_events[1] = Head(room_events)
      /\ \A k \in DOMAIN room_events' : k + 1 \in DOMAIN room_events /\ room_events'[k] = room_events[k + 1]
      /\ \A s : MutePending(s) => IsMute(Head(room_events), s) \/ MutePending(s)'
      /\ \A s : \A k \in DOMAIN room_events' : LastMute(k, s)' => LastMute(k + 1, s)
      /\ \A s : IsMute(Head(room_events), s) => MutePending(s)' \/ LastMute(1, s)
  BY EventRemoved
<1>2. \A s : MuteOvertaken(s) => MuteOvertaken(s)'
  BY DEF MuteOvertaken
<1>3. ASSUME NEW s \in Sids, rust_publications[s] \in held, NEW k \in DOMAIN room_events', LastMute(k, s)'
      PROVE  room_events'[k].kind = "muted" <=> rust_muted[rust_publications[s]]
  BY <1>1, <1>3 DEF MuteInv
<1>4. ASSUME NEW s \in Sids, rust_publications[s] \in held
      PROVE  MutePending(s)' \/ MuteOvertaken(s)' \/ publication_muted'[s] = rust_muted[rust_publications[s]]
  <2>1. rust_muted[rust_publications[s]] \in BOOLEAN
    BY <1>4 DEF TracksTypeOK
  <2>2. CASE IsMute(Head(room_events), s) /\ LastMute(1, s)
    <3>1. Head(room_events).kind = "muted" <=> rust_muted[rust_publications[s]]
      BY <1>1, <1>4, <2>2 DEF MuteInv
    <3> QED
      BY <1>4, <2>1, <2>2, <3>1
  <2>3. CASE ~IsMute(Head(room_events), s)
    BY <1>1, <1>2, <1>4, <2>3 DEF MuteInv
  <2> QED
    BY <1>1, <2>2, <2>3
<1> QED
  BY <1>3, <1>4 DEF MuteInv

\* trackPublications() drops entries of dead tracks.
LEMMA PruneExpiredKeeps ==
  ASSUME TracksInv, PruneExpired, UNCHANGED <<local_publication, held, task, rust_publications, rust_sids>>
  PROVE  TaskInv' /\ MapInv' /\ published_tracks_by_sid' \in [Sids -> LocalTrackSet \cup {NoTrack}]
<1>1. \A s \in Sids : published_tracks_by_sid'[s] = IF Alive(published_tracks_by_sid[s]) THEN published_tracks_by_sid[s] ELSE NoTrack
  BY DEF PruneExpired
<1>2. published_tracks_by_sid' \in [Sids -> LocalTrackSet \cup {NoTrack}]
  BY DEF PruneExpired, TracksInv, TracksTypeOK
<1> QED
  BY <1>1, <1>2, PruneKeeps

\* The delegate is told of a publication under its sid.
LEMMA ReportFacts ==
  ASSUME TracksInv, room_events # << >>, NEW kind, NEW track, Report(kind, track)
  PROVE  /\ reported \subseteq reported' /\ \A r \in reported' : r.publication = r.sid
         /\ EventSid \in DOMAIN TrackPublications => \E r \in reported' : r.kind = kind /\ r.sid = EventSid
<1>1. EventSid \in Sids
  <2>1. room_events \in Seq([kind : EventKinds, sid : Sids])
    BY DEF TracksInv, TracksTypeOK
  <2>2. Head(room_events) \in [kind : EventKinds, sid : Sids]
    BY <2>1, EventTaken
  <2> QED
    BY <2>2 DEF EventSid
<1>2. PICK r : r = [kind |-> kind, sid |-> EventSid, track |-> track, publication |-> TrackPublications[EventSid]]
  OBVIOUS
<1>3. r.kind = kind /\ r.sid = EventSid /\ r.publication = TrackPublications[EventSid]
  BY <1>2
<1>4. CASE EventSid \in DOMAIN TrackPublications
  <2>1. reported' = reported \cup {r}
    BY <1>2, <1>4 DEF Report
  <2>2. TrackPublications[EventSid] = EventSid
    BY <1>1, <1>4, KnownSid
  <2> QED
    BY <1>3, <2>1, <2>2 DEF TracksInv, NewsInv
<1>5. CASE EventSid \notin DOMAIN TrackPublications
  <2>1. reported' = reported
    BY <1>5 DEF Report
  <2> QED
    BY <1>5, <2>1 DEF TracksInv, NewsInv
<1> QED
  BY <1>4, <1>5

\* The handler of an event that is not about a mute state.
LEMMA OnLocalTrackKeeps ==
  ASSUME TracksInv, OnLocalTrackPublished \/ OnLocalTrackUnpublished \/ OnLocalTrackSubscribed
  PROVE  TracksInv'
<1> USE DEF TracksInv
<1>1. room_events # << >> /\ room_events' = Tail(room_events)
  BY DEF OnLocalTrackPublished, OnLocalTrackUnpublished, OnLocalTrackSubscribed, Take
<1>2. Head(room_events).kind \in {"published", "unpublished", "subscribed"}
  BY DEF OnLocalTrackPublished, OnLocalTrackUnpublished, OnLocalTrackSubscribed, Take
<1>3. UNCHANGED <<local_publication, held, task, rust_publications, rust_sids>>
  BY DEF OnLocalTrackPublished, OnLocalTrackUnpublished, OnLocalTrackSubscribed, rustTrackVars
<1>4. UNCHANGED <<track_muted, publication_muted, rust_muted, server_muted>>
  BY DEF OnLocalTrackPublished, OnLocalTrackUnpublished, OnLocalTrackSubscribed, muteVars
<1>5. TaskInv' /\ MapInv' /\ published_tracks_by_sid' \in [Sids -> LocalTrackSet \cup {NoTrack}]
  BY <1>3, PruneExpiredKeeps DEF OnLocalTrackPublished, OnLocalTrackUnpublished, OnLocalTrackSubscribed
<1>6. overtaken \subseteq overtaken'
  BY DEF OnLocalTrackPublished, OnLocalTrackUnpublished, OnLocalTrackSubscribed, Overtakes
<1>7. reported \subseteq reported' /\ \A r \in reported' : r.publication = r.sid
  BY <1>1, ReportFacts DEF OnLocalTrackPublished, OnLocalTrackUnpublished, OnLocalTrackSubscribed
<1>8. ASSUME NEW s \in Sids, rust_publications[s] \in held, Head(room_events) = Event("published", s)
      PROVE  Event("published", s) \in overtaken' \/ \E r \in reported' : r.kind = "published" /\ r.sid = s
  <2>1. EventSid = s /\ Head(room_events).kind = "published"
    BY <1>8 DEF EventSid, Event
  <2>2. OnLocalTrackPublished
    BY <2>1 DEF OnLocalTrackUnpublished, OnLocalTrackSubscribed, Take
  <2>3. Report("published", AttachedTrack(s)) /\ Overtakes
    BY <2>1, <2>2 DEF OnLocalTrackPublished
  <2>4. s \in DOMAIN TrackPublications => \E r \in reported' : r.kind = "published" /\ r.sid = s
    BY <1>1, <2>1, <2>3, ReportFacts
  <2>5. s \in DOMAIN TrackPublications \/ (task.op \in {"publish", "attach"} /\ task.sid = s)
    BY <1>8, KnownSid
  <2>6. task.op \in {"publish", "attach"} /\ task.sid = s => Event("published", s) \in overtaken'
    BY <1>8, <2>1, <2>3 DEF Overtakes
  <2> QED
    BY <2>4, <2>5, <2>6
<1>9. NewsInv'
  BY <1>1, <1>3, <1>6, <1>7, <1>8, NewsTaken
<1>10. \A s : ~IsMute(Head(room_events), s)
  BY <1>2 DEF IsMute
<1>11. MuteInv'
  BY <1>1, <1>3, <1>4, <1>6, <1>10, MuteTaken
<1>12. room_events' \in Seq([kind : EventKinds, sid : Sids])
  BY <1>1, EventRemoved
<1>13. TracksTypeOK'
  BY <1>3, <1>4, <1>5, <1>12 DEF TracksTypeOK
<1> QED
  BY <1>5, <1>9, <1>11, <1>13

LEMMA OnTrackMutedKeeps ==
  ASSUME TracksInv, NEW muted \in BOOLEAN, OnTrackMuted(muted)
  PROVE  TracksInv'
<1> USE DEF TracksInv
<1>1. room_events # << >> /\ room_events' = Tail(room_events)
  BY DEF OnTrackMuted, Take
<1>2. Head(room_events).kind = IF muted THEN "muted" ELSE "unmuted"
  BY DEF OnTrackMuted, Take
<1>3. UNCHANGED <<local_publication, held, task, rust_publications, rust_sids>>
  BY DEF OnTrackMuted, rustTrackVars
<1>4. UNCHANGED <<track_muted, rust_muted, server_muted, reported>>
  BY DEF OnTrackMuted
<1>5. PICK n : n = EventSid
  OBVIOUS
<1>6. room_events' \in Seq([kind : EventKinds, sid : Sids]) /\ Head(room_events) \in [kind : EventKinds, sid : Sids]
  BY <1>1, EventRemoved
<1>7. n \in Sids /\ n = Head(room_events).sid /\ Head(room_events) = Event(IF muted THEN "muted" ELSE "unmuted", n)
  BY <1>2, <1>5, <1>6, EventIs DEF EventSid
<1>8. overtaken \subseteq overtaken'
  BY DEF OnTrackMuted, Overtakes
<1>9. \A s : IsMute(Head(room_events), s) <=> s = n
  BY <1>2, <1>7 DEF IsMute
<1>10. \A s \in Sids : published_tracks_by_sid'[s] =
         IF s = n /\ n \notin DOMAIN TrackPublications /\ ~Alive(published_tracks_by_sid[s])
         THEN NoTrack ELSE published_tracks_by_sid[s]
  BY <1>5, <1>7 DEF OnTrackMuted, TracksTypeOK
<1>11. published_tracks_by_sid' \in [Sids -> LocalTrackSet \cup {NoTrack}]
  BY <1>5, <1>7 DEF OnTrackMuted, TracksTypeOK
<1>12. TaskInv' /\ MapInv'
  BY <1>3, <1>10, PruneKeeps
<1>13. n \in DOMAIN TrackPublications => publication_muted' = [publication_muted EXCEPT ![n] = muted]
  <2>1. n \in DOMAIN TrackPublications => TrackPublications[n] = n
    BY <1>7, KnownSid
  <2> QED
    BY <1>5, <2>1 DEF OnTrackMuted
<1>14. n \notin DOMAIN TrackPublications => publication_muted' = publication_muted
  BY <1>5 DEF OnTrackMuted
<1>15. publication_muted' \in [Sids -> BOOLEAN]
  BY <1>7, <1>13, <1>14 DEF TracksTypeOK
<1>16. \A s \in Sids : ~IsMute(Head(room_events), s) => publication_muted'[s] = publication_muted[s]
  BY <1>7, <1>9, <1>13, <1>14 DEF TracksTypeOK
<1>17. rust_publications[n] \in held => MuteOvertaken(n)' \/ publication_muted'[n] = (Head(room_events).kind = "muted")
  <2>1. n \in DOMAIN TrackPublications => publication_muted'[n] = muted
    BY <1>7, <1>13 DEF TracksTypeOK
  <2>2. muted = (Head(room_events).kind = "muted")
    BY <1>2
  <2>3. task.op \in {"publish", "attach"} /\ task.sid = n => MuteOvertaken(n)'
    <3>1. task.op \in {"publish", "attach"} /\ task.sid = n => Head(room_events) \in overtaken'
      BY <1>5 DEF OnTrackMuted, Overtakes
    <3> QED
      BY <1>7, <3>1 DEF MuteOvertaken
  <2> QED
    BY <1>7, <2>1, <2>2, <2>3, KnownSid
<1>18. MuteInv'
  <2>1. \A s \in Sids : IsMute(Head(room_events), s) /\ rust_publications[s] \in held =>
          MuteOvertaken(s)' \/ publication_muted'[s] = (Head(room_events).kind = "muted")
    BY <1>9, <1>17
  <2> QED
    BY <1>1, <1>3, <1>4, <1>8, <1>16, <2>1, MuteTaken
<1>19. NewsInv'
  <2>1. \A s : Head(room_events) # Event("published", s)
    BY <1>2 DEF Event
  <2>2. \A r \in reported' : r.publication = r.sid
    BY <1>4 DEF NewsInv
  <2> QED
    BY <1>1, <1>3, <1>4, <1>8, <2>1, <2>2, NewsTaken
<1>20. TracksTypeOK'
  BY <1>3, <1>4, <1>6, <1>11, <1>15 DEF TracksTypeOK
<1> QED
  BY <1>12, <1>18, <1>19, <1>20

-----------------------------------------------------------------------------
LEMMA TracksInitially == TracksInit => TracksInv
<1> SUFFICES ASSUME TracksInit PROVE TracksInv
  OBVIOUS
<1>1. TracksTypeOK
  BY TrackFacts DEF TracksInit, TracksTypeOK, NoTask, TaskOps
<1>2. TaskInv
  BY DEF TracksInit, TaskInv, NoTask
<1>3. NoTrack \notin held
  BY TrackFacts DEF TracksInit
<1>4. MapInv
  BY <1>3 DEF TracksInit, MapInv
<1>5. NewsInv
  BY <1>3 DEF TracksInit, NewsInv
<1>6. MuteInv
  BY <1>3 DEF TracksInit, MuteInv
<1> QED
  BY <1>1, <1>2, <1>4, <1>5, <1>6 DEF TracksInv

LEMMA TracksStep == PublishAgain = FALSE /\ TracksInv /\ [TracksNext]_trackVars => TracksInv'
<1> SUFFICES ASSUME PublishAgain = FALSE, TracksInv, [TracksNext]_trackVars PROVE TracksInv'
  OBVIOUS
<1>1. CASE UNCHANGED trackVars
  <2>1. UNCHANGED <<published_tracks_by_sid, local_publication, held, task, rust_publications, rust_sids>>
    BY <1>1 DEF trackVars, trackMap, rustTrackVars
  <2>2. UNCHANGED <<track_muted, publication_muted, rust_muted, server_muted, room_events, reported, overtaken>>
    BY <1>1 DEF trackVars, muteVars
  <2>3. NewsInv' /\ MuteInv'
    BY <2>1, <2>2, TracksQuiet
  <2>4. TracksTypeOK' /\ TaskInv'
    BY <2>1, <2>2 DEF TracksInv, TracksTypeOK, TaskInv
  <2>5. MapInv'
    BY <2>1 DEF TracksInv, MapInv, BeingPublished
  <2> QED
    BY <2>3, <2>4, <2>5 DEF TracksInv
<1>2. CASE \E t \in LocalTrackSet : (Unpublished(t) /\ PublishTrack(t)) \/ DropTrack(t) \/ ServerMutes(t)
  BY <1>2, PublishTrackKeeps, DropTrackKeeps, ServerMutesKeeps
<1>3. CASE \E t \in LocalTrackSet, muted, requested \in BOOLEAN : MuteTrack(t, muted, requested)
  BY <1>3, MuteTrackKeeps
<1>4. CASE \E s \in Sids : UnpublishTrack(s) \/ RustSubscribed(s)
  BY <1>4, UnpublishTrackKeeps, RustSubscribedKeeps
<1>5. CASE Answer
  BY <1>5, RustPublishesKeeps, FailsKeeps, RustUnpublishesKeeps DEF Answer
<1>6. CASE Store
  BY <1>6, PublishStoreKeeps, SetPublicationKeeps, UnpublishEraseKeeps DEF Store
<1>7. CASE OnEvent
  BY <1>7, OnLocalTrackKeeps, OnTrackMutedKeeps DEF OnEvent
<1> QED
  BY <1>1, <1>2, <1>3, <1>4, <1>5, <1>6, <1>7 DEF TracksNext

LEMMA TracksAgree == TracksInv => LocalTracksAgree
<1> SUFFICES ASSUME TracksInv PROVE LocalTracksAgree
  OBVIOUS
<1> USE DEF TracksInv
<1>1. held \subseteq LocalTrackSet /\ NoTrack \notin held
  BY TrackFacts DEF TracksTypeOK
<1>2. ASSUME task = NoTask PROVE \A x, s : ~BeingPublished(x, s)
  BY <1>2 DEF BeingPublished, NoTask
<1>3. PublicationsMirrorRust
  <2> SUFFICES ASSUME task = NoTask
               PROVE  TrackPublications = [s \in {r \in Sids : rust_publications[r] \in held} |-> s]
    BY DEF PublicationsMirrorRust
  <2>1. \A t : t # NoTrack /\ Alive(t) <=> t \in held
    BY <1>1 DEF Alive, NoTask
  <2>2. \A s \in Sids : rust_publications[s] \in held =>
          published_tracks_by_sid[s] = rust_publications[s] /\ local_publication[rust_publications[s]] = s
    BY <1>2 DEF MapInv
  <2>3. \A s \in Sids : published_tracks_by_sid[s] \in held => local_publication[published_tracks_by_sid[s]] = s
    BY <1>2 DEF MapInv
  <2>4. \A t \in held : local_publication[t] # NoSid => rust_publications[local_publication[t]] = t
    BY DEF MapInv, NoTask
  <2>5. \A s \in Sids : s # NoSid
    BY TrackFacts
  <2>6. \A s \in Sids : (/\ published_tracks_by_sid[s] # NoTrack /\ Alive(published_tracks_by_sid[s])
                         /\ local_publication[published_tracks_by_sid[s]] # NoSid) <=> rust_publications[s] \in held
    BY <2>1, <2>2, <2>3, <2>4, <2>5
  <2>7. \A s \in Sids : rust_publications[s] \in held => local_publication[published_tracks_by_sid[s]] = s
    BY <2>2
  <2> QED
    BY <2>6, <2>7 DEF TrackPublications
<1>4. EventsMatchPublications
  BY DEF EventsMatchPublications, NewsInv, PublishedPending
<1>5. MuteStatesAgree
  <2> SUFFICES ASSUME task = NoTask, room_events = << >>, NEW t \in held
               PROVE  /\ t \notin server_muted => track_muted[t] = rust_muted[t]
                      /\ LET s == local_publication[t] IN
                         s # NoSid /\ {Event("muted", s), Event("unmuted", s)} \cap overtaken = {} =>
                           publication_muted[s] = rust_muted[t]
    BY DEF MuteStatesAgree
  <2>1. \A s : ~MutePending(s)
    BY DEF MutePending
  <2>2. \A s : {Event("muted", s), Event("unmuted", s)} \cap overtaken = {} => ~MuteOvertaken(s)
    BY DEF MuteOvertaken
  <2>3. local_publication[t] # NoSid => local_publication[t] \in Sids /\ rust_publications[local_publication[t]] = t
    BY <1>1 DEF MapInv, TracksTypeOK, NoTask
  <2> QED
    BY <2>1, <2>2, <2>3 DEF MuteInv
<1> QED
  BY <1>3, <1>4, <1>5 DEF LocalTracksAgree

\* If no track is published twice at a time: between its calls, the participant knows exactly the
\* publications that Rust has for the tracks the application still holds; its delegate has heard of each of
\* them, under its own sid, unless the event overtook publishTrack(); and when all events have been handled
\* they agree on what is muted, but for events that overtook publishTrack() and mutes by the server.  Of
\* the events of unpublished tracks it says nothing.
THEOREM LocalTracksPublished == PublishAgain = FALSE /\ TracksSpec => []LocalTracksAgree
<1> SUFFICES ASSUME PublishAgain = FALSE PROVE TracksSpec => []LocalTracksAgree
  OBVIOUS
<1>1. TracksSpec => []TracksInv
  BY TracksInitially, TracksStep, PTL DEF TracksSpec
<1> QED
  BY <1>1, TracksAgree, PTL

-----------------------------------------------------------------------------
(* EventTracer *)

Traces == [event : Nat, session : Nat]

TracerTypeOK ==
  /\ g_event_queue \in Seq(Traces) /\ batch \in Seq(Traces)
  /\ g_tracing_enabled \in BOOLEAN /\ g_shutdown_requested \in BOOLEAN /\ file_open \in BOOLEAN
  /\ writer \in {"none", "test", "sleep", "asleep", "write", "check", "done"}
  /\ sessions \in 0 .. MaxSessions /\ footer \in SUBSET (1 .. sessions)
  /\ trace_file \in [Sessions -> Seq(Traces)] /\ pushed \in [Sessions -> Seq(Traces)]
  /\ stopping \in {"no", "request", "notify", "join"}
  /\ tracing \in [TracingThreads -> [at : {"idle", "add", "push", "notify"}, event : Nat, session : Nat]]
  /\ traced \in Nat

\* How the session, its writer thread and its file go together.
SessionInv ==
  /\ writer # "write" => batch = << >>
  /\ file_open <=> writer # "none"
  /\ writer # "none" => sessions > 0 /\ sessions \notin footer
  /\ writer # "none" => g_tracing_enabled \/ stopping # "no"
  /\ g_tracing_enabled => stopping = "no" /\ writer # "none" /\ ~g_shutdown_requested
  /\ writer \in {"check", "done"} => g_shutdown_requested
  /\ \A s \in Sessions : s > sessions => trace_file[s] = << >> /\ pushed[s] = << >>
  /\ sessions = 0 => g_event_queue = << >>

\* The events on their way to the file of the session, after those that are in it.
Flow == (IF sessions = 0 THEN << >> ELSE trace_file[sessions]) \o (batch \o g_event_queue)

\* The events that were pushed while the session was enabled are in the flow as the property
\* wants them in the file, and before the stop no other event of the session is.
FlowInv ==
  /\ Flow \in Seq(Traces)
  /\ \A i \in DOMAIN Flow : Flow[i].event <= traced /\ Flow[i].session <= sessions
  /\ \A i, j \in DOMAIN Flow : Flow[i].event = Flow[j].event => i = j
  /\ sessions > 0 => HasEvents(Flow, pushed[sessions], sessions)
  /\ g_tracing_enabled => \A i \in DOMAIN Flow : Flow[i].session = sessions => \E k \in DOMAIN pushed[sessions] : Flow[i] = pushed[sessions][k]

\* A thread's event is its own until it is pushed.
ThreadInv ==
  /\ \A t \in TracingThreads : tracing[t].at \in {"add", "push"} => tracing[t].event <= traced
  /\ \A t \in TracingThreads : tracing[t].at \in {"add", "push"} => \A i \in DOMAIN Flow : Flow[i].event # tracing[t].event
  /\ \A t, u \in TracingThreads : tracing[t].at \in {"add", "push"} /\ tracing[u].at \in {"add", "push"} /\ t # u =>
       tracing[t].event # tracing[u].event
  /\ \A t \in TracingThreads : tracing[t].session <= sessions
  /\ \A t \in TracingThreads : tracing[t].at = "push" => sessions > 0

\* The writer thread ends when all of them are in the file.
FileInv ==
  /\ writer = "done" => HasEvents(trace_file[sessions], pushed[sessions], sessions)
  /\ TraceComplete

TracerInv == TracerTypeOK /\ SessionInv /\ FlowInv /\ ThreadInv /\ FileInv

LEMMA FlowAssociative == \A x, y, z \in Seq(Traces) : (x \o y) \o z = x \o (y \o z)
  BY ConcatAssociative

LEMMA FlowAppend ==
  ASSUME NEW a \in Seq(Traces), NEW b \in Seq(Traces), NEW c \in Seq(Traces), NEW e \in Traces
  PROVE  a \o (b \o Append(c, e)) = Append(a \o (b \o c), e)
<1> DEFINE one == << e >>
<1>1. one \in Seq(Traces) /\ b \o c \in Seq(Traces) /\ a \o (b \o c) \in Seq(Traces)
  <2>1. one \in Seq(Traces)
    OBVIOUS
  <2>2. b \o c \in Seq(Traces)
    BY ConcatProperties
  <2>3. a \o (b \o c) \in Seq(Traces)
    BY <2>2, ConcatProperties
  <2> QED
    BY <2>1, <2>2, <2>3
<1>2. Append(c, e) = c \o one /\ Append(a \o (b \o c), e) = (a \o (b \o c)) \o one
  BY <1>1, AppendIsConcat
<1> HIDE DEF one
<1>3. (b \o c) \o one = b \o (c \o one)
  BY <1>1, FlowAssociative, Zenon
<1>4. (a \o (b \o c)) \o one = a \o ((b \o c) \o one)
  BY <1>1, FlowAssociative, Zenon
<1> QED
  BY <1>2, <1>3, <1>4

\* What is behind a file in a flow.
LEMMA FlowSuffix ==
  ASSUME NEW E, NEW a \in Seq(E), NEW b \in Seq(E)
  PROVE  /\ Len(a) \in Nat
         /\ \A i \in DOMAIN b : Len(a) + i \in DOMAIN (a \o b) /\ (a \o b)[Len(a) + i] = b[i]
<1>1. /\ a \o b \in Seq(E) /\ Len(a \o b) = Len(a) + Len(b)
      /\ \A i \in 1 .. Len(a) + Len(b) : (a \o b)[i] = IF i <= Len(a) THEN a[i] ELSE b[i - Len(a)]
  BY ConcatProperties
<1>2. /\ Len(a) \in Nat /\ Len(b) \in Nat /\ DOMAIN b = 1 .. Len(b)
      /\ DOMAIN (a \o b) = 1 .. Len(a) + Len(b)
  BY <1>1
<1>3. ASSUME NEW i \in DOMAIN b
      PROVE  Len(a) + i \in DOMAIN (a \o b) /\ (a \o b)[Len(a) + i] = b[i]
  <2>1. i \in Nat /\ i > 0 /\ i <= Len(b) /\ Len(a) + i \in 1 .. Len(a) + Len(b)
    BY <1>2
  <2>2. (a \o b)[Len(a) + i] = b[(Len(a) + i) - Len(a)]
    BY <1>1, <1>2, <2>1
  <2> QED
    BY <1>2, <2>1, <2>2
<1> QED
  BY <1>2, <1>3

\* The parts of the flow.
LEMMA FlowParts ==
  ASSUME TracerTypeOK
  PROVE  /\ sessions = 0 => Flow = << >> \o (batch \o g_event_queue)
         /\ sessions > 0 => Flow = trace_file[sessions] \o (batch \o g_event_queue)
         /\ sessions > 0 => sessions \in Sessions /\ trace_file[sessions] \in Seq(Traces) /\ pushed[sessions] \in Seq(Traces)
         /\ sessions \in Nat /\ MaxSessions \in Nat /\ footer \subseteq Sessions
<1>1. sessions \in Nat /\ MaxSessions \in Nat /\ (sessions > 0 => sessions \in Sessions /\ sessions # 0)
  BY EventTracerAssumption DEF TracerTypeOK, Sessions
<1>2. sessions > 0 => trace_file[sessions] \in Seq(Traces) /\ pushed[sessions] \in Seq(Traces)
  BY <1>1 DEF TracerTypeOK
<1>3. sessions = 0 => Flow = << >> \o (batch \o g_event_queue)
  BY DEF Flow
<1>4. sessions # 0 => Flow = trace_file[sessions] \o (batch \o g_event_queue)
  BY DEF Flow
<1>5. footer \subseteq Sessions
  <2>1. footer \subseteq 1 .. sessions /\ sessions \in 0 .. MaxSessions
    BY DEF TracerTypeOK
  <2>2. \A s \in 1 .. sessions : s \in 1 .. MaxSessions
    BY <1>1, <2>1
  <2> QED
    BY <2>1, <2>2 DEF Sessions
<1> QED
  BY <1>1, <1>2, <1>3, <1>4, <1>5

LEMMA FlowTyped ==
  ASSUME TracerInv
  PROVE  \A i \in DOMAIN Flow : Flow[i] \in Traces /\ Flow[i].event \in Nat /\ Flow[i].session \in Nat
<1>1. Flow \in Seq(Traces)
  BY DEF TracerInv, FlowInv
<1>2. \A i \in DOMAIN Flow : Flow[i] \in Traces
  BY <1>1, EventTyped, Zenon
<1> QED
  BY <1>2 DEF Traces

\* A step that adds nothing to the flow.
LEMMA FlowKept ==
  ASSUME TracerInv, Flow' = Flow, sessions' = sessions, pushed' = pushed, traced' \in Nat, traced' >= traced,
         g_tracing_enabled' => g_tracing_enabled
  PROVE  FlowInv'
<1>1. \A i \in DOMAIN Flow : Flow[i].event \in Nat
  BY FlowTyped
<1>2. \A i \in DOMAIN Flow : Flow[i].event <= traced'
  BY <1>1 DEF TracerInv, FlowInv, TracerTypeOK
<1> QED
  BY <1>2 DEF TracerInv, FlowInv

\* A step that pushes nothing, starts no event and no session.
LEMMA ThreadsKept ==
  ASSUME TracerInv, Flow' = Flow, sessions' = sessions, traced' = traced, tracing' = tracing
  PROVE  ThreadInv'
  BY DEF TracerInv, ThreadInv

\* A step that writes nothing and does not end the writer thread.
LEMMA FilesKept ==
  ASSUME TracerInv, trace_file' = trace_file, pushed' = pushed, sessions' = sessions, footer' = footer,
         writer' = "done" => writer = "done"
  PROVE  FileInv'
  BY DEF TracerInv, FileInv, TraceComplete

\* The flow of a step that leaves its parts alone.
LEMMA SameFlow ==
  ASSUME trace_file' = trace_file, sessions' = sessions, batch' = batch, g_event_queue' = g_event_queue
  PROVE  Flow' = Flow
  BY DEF Flow

-----------------------------------------------------------------------------
(* Steps of the threads that trace *)

LEMMA SetupKeeps ==
  ASSUME TracerInv, SetupEventTracer
  PROVE  TracerInv'
<1>1. UNCHANGED <<g_event_queue, batch, writer, g_tracing_enabled, g_shutdown_requested, sessions, file_open, footer,
                  stopping, trace_file, tracing, traced, pushed>>
  BY DEF SetupEventTracer, queueVars, sessionVars, historyVars
<1>2. Flow' = Flow
  BY <1>1, SameFlow
<1>3. FlowInv' /\ ThreadInv' /\ FileInv'
  BY <1>1, <1>2, FlowKept, ThreadsKept, FilesKept DEF TracerInv, TracerTypeOK
<1>4. TracerTypeOK' /\ SessionInv'
  BY <1>1 DEF TracerInv, TracerTypeOK, SessionInv
<1> QED
  BY <1>3, <1>4 DEF TracerInv

LEMMA TraceMacroKeeps ==
  ASSUME TracerInv, NEW t \in TracingThreads,
         (\E c \in Categories : TraceMacro(t, c) \/ GetCategoryEnabled(t, c)) \/ LookUpCategory(t)
  PROVE  TracerInv'
<1> USE DEF TracerInv
<1>1. UNCHANGED <<g_event_queue, batch, writer, g_tracing_enabled, g_shutdown_requested, sessions, file_open, footer,
                  stopping, trace_file, pushed>>
  BY DEF TraceMacro, GetCategoryEnabled, LookUpCategory, queueVars, sessionVars, historyVars
<1>2. Flow' = Flow
  BY <1>1, SameFlow
<1>3. \/ traced' = traced /\ tracing' = tracing
      \/ traced' = traced + 1 /\ tracing' = [tracing EXCEPT ![t] = [@ EXCEPT !.at = "add", !.event = traced + 1]]
  BY DEF TraceMacro, GetCategoryEnabled, LookUpCategory, UseByte, historyVars
<1>4. CASE traced' = traced /\ tracing' = tracing
  <2>1. FlowInv' /\ ThreadInv' /\ FileInv'
    BY <1>1, <1>2, <1>4, FlowKept, ThreadsKept, FilesKept DEF TracerTypeOK
  <2>2. TracerTypeOK' /\ SessionInv'
    BY <1>1, <1>4 DEF TracerTypeOK, SessionInv
  <2> QED
    BY <2>1, <2>2
<1>5. CASE traced' = traced + 1 /\ tracing' = [tracing EXCEPT ![t] = [@ EXCEPT !.at = "add", !.event = traced + 1]]
  <2>1. PICK n : n = traced + 1
    OBVIOUS
  <2>2. n \in Nat /\ n > traced /\ traced \in Nat /\ traced' = n
    BY <1>5, <2>1 DEF TracerTypeOK
  <2>3. /\ tracing' \in [TracingThreads -> [at : {"idle", "add", "push", "notify"}, event : Nat, session : Nat]]
        /\ tracing'[t].at = "add" /\ tracing'[t].event = n /\ tracing'[t].session = tracing[t].session
        /\ \A u \in TracingThreads : u # t => tracing'[u] = tracing[u]
    BY <1>5, <2>1, <2>2 DEF TracerTypeOK
  <2>4. FlowInv' /\ FileInv'
    BY <1>1, <1>2, <2>2, FlowKept, FilesKept
  <2>5. \A u \in TracingThreads : tracing[u].event \in Nat
    BY DEF TracerTypeOK
  <2>6. \A i \in DOMAIN Flow : Flow[i].event \in Nat /\ Flow[i].event <= traced
    BY FlowTyped DEF FlowInv
  <2>7. \A u \in TracingThreads : tracing[u].at \in {"add", "push"} => tracing[u].event <= traced
    BY DEF ThreadInv
  <2>8. ThreadInv'
    <3>1. \A u \in TracingThreads : tracing'[u].at \in {"add", "push"} => tracing'[u].event <= n
      BY <2>2, <2>3, <2>5, <2>7
    <3>2. \A u \in TracingThreads : tracing'[u].at \in {"add", "push"} => \A i \in DOMAIN Flow : Flow[i].event # tracing'[u].event
      <4> SUFFICES ASSUME NEW u \in TracingThreads, tracing'[u].at \in {"add", "push"}, NEW i \in DOMAIN Flow
                   PROVE  Flow[i].event # tracing'[u].event
        OBVIOUS
      <4>1. CASE u = t
        BY <2>2, <2>3, <2>6, <4>1
      <4>2. CASE u # t
        BY <2>3, <4>2 DEF ThreadInv
      <4> QED
        BY <4>1, <4>2
    <3>3. \A u, v \in TracingThreads : tracing'[u].at \in {"add", "push"} /\ tracing'[v].at \in {"add", "push"} /\ u # v =>
            tracing'[u].event # tracing'[v].event
      <4>1. \A u \in TracingThreads : u # t /\ tracing[u].at \in {"add", "push"} => tracing[u].event # n
        BY <2>2, <2>5, <2>7
      <4> QED
        BY <2>3, <4>1 DEF ThreadInv
    <3>4. \A u \in TracingThreads : tracing'[u].session <= sessions
      BY <2>3 DEF ThreadInv
    <3>5. \A u \in TracingThreads : tracing'[u].at = "push" => sessions > 0
      BY <2>3 DEF ThreadInv
    <3> QED
      BY <1>1, <1>2, <2>2, <3>1, <3>2, <3>3, <3>4, <3>5 DEF ThreadInv
  <2>9. TracerTypeOK' /\ SessionInv'
    BY <1>1, <2>2, <2>3 DEF TracerTypeOK, SessionInv
  <2> QED
    BY <2>4, <2>8, <2>9
<1> QED
  BY <1>3, <1>4, <1>5

\* A thread goes on with its event, or is done with it.
LEMMA ThreadMoves ==
  ASSUME TracerInv, Flow' = Flow, sessions' = sessions, traced' = traced, NEW t \in TracingThreads,
         tracing' \in [TracingThreads -> [at : {"idle", "add", "push", "notify"}, event : Nat, session : Nat]],
         \A u \in TracingThreads : u # t => tracing'[u] = tracing[u],
         tracing'[t].at \in {"add", "push"} => tracing[t].at \in {"add", "push"} /\ tracing'[t].event = tracing[t].event,
         tracing'[t].session <= sessions, tracing'[t].at = "push" => sessions > 0
  PROVE  ThreadInv'
<1> USE DEF TracerInv
<1>1. \A u \in TracingThreads : tracing'[u].at \in {"add", "push"} => tracing[u].at \in {"add", "push"} /\ tracing'[u].event = tracing[u].event
  OBVIOUS
<1>2. \A u \in TracingThreads : tracing'[u].session <= sessions
  BY DEF ThreadInv
<1>3. \A u \in TracingThreads : tracing'[u].at = "push" => sessions > 0
  BY DEF ThreadInv
<1> QED
  BY <1>1, <1>2, <1>3 DEF ThreadInv

LEMMA AddTraceEventKeeps ==
  ASSUME TracerInv, NEW t \in TracingThreads, AddTraceEvent(t)
  PROVE  TracerInv'
<1> USE DEF TracerInv
<1>1. UNCHANGED <<g_event_queue, batch, writer, g_tracing_enabled, g_shutdown_requested, sessions, file_open, footer,
                  stopping, trace_file, traced, pushed>>
  BY DEF AddTraceEvent, queueVars, sessionVars, historyVars
<1>2. Flow' = Flow
  BY <1>1, SameFlow
<1>3. tracing[t].at = "add" /\ sessions \in Nat /\ (g_tracing_enabled => sessions > 0)
  BY FlowParts DEF AddTraceEvent, SessionInv
<1>4. CASE tracing' = [tracing EXCEPT ![t] = NotTracing]
  <2>1. /\ tracing' \in [TracingThreads -> [at : {"idle", "add", "push", "notify"}, event : Nat, session : Nat]]
        /\ tracing'[t].at = "idle" /\ tracing'[t].session = 0
        /\ \A u \in TracingThreads : u # t => tracing'[u] = tracing[u]
    BY <1>4 DEF TracerTypeOK, NotTracing
  <2>2. tracing'[t].session <= sessions
    BY <1>3, <2>1
  <2>3. ThreadInv'
    BY <1>1, <1>2, <2>1, <2>2, ThreadMoves
  <2>4. FlowInv' /\ FileInv'
    BY <1>1, <1>2, FlowKept, FilesKept DEF TracerTypeOK
  <2>5. TracerTypeOK' /\ SessionInv'
    BY <1>1, <2>1 DEF TracerTypeOK, SessionInv
  <2> QED
    BY <2>3, <2>4, <2>5
<1>5. CASE g_tracing_enabled /\ tracing' = [tracing EXCEPT ![t] = [@ EXCEPT !.at = "push", !.session = sessions]]
  <2>1. /\ tracing' \in [TracingThreads -> [at : {"idle", "add", "push", "notify"}, event : Nat, session : Nat]]
        /\ tracing'[t].at = "push" /\ tracing'[t].session = sessions /\ tracing'[t].event = tracing[t].event
        /\ \A u \in TracingThreads : u # t => tracing'[u] = tracing[u]
    BY <1>3, <1>5 DEF TracerTypeOK
  <2>2. tracing'[t].session <= sessions
    BY <1>3, <2>1
  <2>3. ThreadInv'
    BY <1>1, <1>2, <1>3, <1>5, <2>1, <2>2, ThreadMoves
  <2>4. FlowInv' /\ FileInv'
    BY <1>1, <1>2, FlowKept, FilesKept DEF TracerTypeOK
  <2>5. TracerTypeOK' /\ SessionInv'
    BY <1>1, <2>1 DEF TracerTypeOK, SessionInv
  <2> QED
    BY <2>3, <2>4, <2>5
<1> QED
  BY <1>4, <1>5 DEF AddTraceEvent

LEMMA AddNotifyKeeps ==
  ASSUME TracerInv, NEW t \in TracingThreads, AddNotify(t)
  PROVE  TracerInv'
<1> USE DEF TracerInv
<1>1. UNCHANGED <<g_event_queue, batch, g_tracing_enabled, g_shutdown_requested, sessions, file_open, footer,
                  stopping, trace_file, traced, pushed>>
  BY DEF AddNotify, sessionVars, historyVars
<1>2. writer' = writer \/ (writer = "asleep" /\ writer' = "test")
  BY DEF AddNotify, NotifyWriter
<1>3. Flow' = Flow
  BY <1>1, SameFlow
<1>4. /\ tracing' \in [TracingThreads -> [at : {"idle", "add", "push", "notify"}, event : Nat, session : Nat]]
      /\ tracing'[t].at = "idle" /\ tracing'[t].session = 0
      /\ \A u \in TracingThreads : u # t => tracing'[u] = tracing[u]
  BY DEF AddNotify, TracerTypeOK, NotTracing
<1>5. tracing'[t].session <= sessions
  BY <1>4, FlowParts
<1>6. ThreadInv'
  BY <1>1, <1>3, <1>4, <1>5, ThreadMoves
<1>7. FlowInv' /\ FileInv'
  BY <1>1, <1>2, <1>3, FlowKept, FilesKept DEF TracerTypeOK
<1>8. TracerTypeOK' /\ SessionInv'
  BY <1>1, <1>2, <1>4 DEF TracerTypeOK, SessionInv
<1> QED
  BY <1>6, <1>7, <1>8

\* An event that is new goes to the end of the flow, and to the end of those that count if it does.
LEMMA EventsGrow ==
  ASSUME NEW q \in Seq(Traces), NEW p \in Seq(Traces), NEW n, NEW e \in Traces, HasEvents(q, p, n),
         \A i \in DOMAIN q : q[i] # e
  PROVE  /\ HasEvents(Append(q, e), p, n)
         /\ (\A i \in DOMAIN q : q[i].session = n => \E k \in DOMAIN p : q[i] = p[k]) => HasEvents(Append(q, e), Append(p, e), n)
<1>1. PICK r : r = Append(q, e)
  OBVIOUS
<1>2. /\ Len(q) \in Nat /\ DOMAIN q = 1 .. Len(q) /\ DOMAIN r = 1 .. Len(q) + 1
      /\ \A i \in DOMAIN q : r[i] = q[i]
      /\ r[Len(q) + 1] = e
  BY <1>1, AppendProperties
<1>3. /\ \A i \in DOMAIN r : i \in DOMAIN q \/ i = Len(q) + 1
      /\ \A i \in DOMAIN q : i \in DOMAIN r /\ i < Len(q) + 1 /\ i # Len(q) + 1 /\ ~(Len(q) + 1 < i)
      /\ Len(q) + 1 \in DOMAIN r /\ ~(Len(q) + 1 < Len(q) + 1)
  BY <1>2
<1>4. \A k \in DOMAIN p : p[k] # e /\ \E i \in DOMAIN q : q[i] = p[k]
  BY DEF HasEvents
<1>5. \A i \in DOMAIN r : \A k \in DOMAIN p : r[i] = p[k] => i \in DOMAIN q /\ q[i] = p[k]
  BY <1>2, <1>3, <1>4
<1>6. \A i, j \in DOMAIN r : r[i] = r[j] => i = j
  BY <1>2, <1>3 DEF HasEvents
<1>7. HasEvents(r, p, n)
  <2>1. \A k \in DOMAIN p : \E i \in DOMAIN r : r[i] = p[k]
    BY <1>2, <1>3, <1>4
  <2>2. \A k, l \in DOMAIN p : \A i, j \in DOMAIN r : r[i] = p[k] /\ r[j] = p[l] /\ k < l => i < j
    BY <1>5 DEF HasEvents
  <2>3. ASSUME NEW l \in DOMAIN p, NEW i \in DOMAIN r, NEW j \in DOMAIN r, r[j] = p[l], i < j, r[i].session = n
        PROVE  \E k \in DOMAIN p : r[i] = p[k]
    <3>1. j \in DOMAIN q /\ q[j] = p[l]
      BY <1>5, <2>3
    <3>2. i \in DOMAIN q
      BY <1>3, <2>3, <3>1
    <3> QED
      BY <1>2, <2>3, <3>1, <3>2 DEF HasEvents
  <2> QED
    BY <1>6, <2>1, <2>2, <2>3 DEF HasEvents
<1>8. ASSUME \A i \in DOMAIN q : q[i].session = n => \E k \in DOMAIN p : q[i] = p[k]
      PROVE  HasEvents(r, Append(p, e), n)
  <2>1. PICK o : o = Append(p, e)
    OBVIOUS
  <2>2. /\ Len(p) \in Nat /\ DOMAIN p = 1 .. Len(p) /\ DOMAIN o = 1 .. Len(p) + 1
        /\ \A i \in DOMAIN p : o[i] = p[i]
        /\ o[Len(p) + 1] = e
    BY <2>1, AppendProperties
  <2>3. /\ \A i \in DOMAIN o : i \in DOMAIN p \/ i = Len(p) + 1
        /\ \A i \in DOMAIN p : i \in DOMAIN o /\ i # Len(p) + 1 /\ ~(Len(p) + 1 < i)
        /\ Len(p) + 1 \in DOMAIN o /\ ~(Len(p) + 1 < Len(p) + 1)
    BY <2>2
  <2>4. \A k \in DOMAIN o : \E i \in DOMAIN r : r[i] = o[k]
    BY <1>2, <1>3, <1>4, <2>2, <2>3
  <2>5. ASSUME NEW k \in DOMAIN o, NEW l \in DOMAIN o, NEW i \in DOMAIN r, NEW j \in DOMAIN r, r[i] = o[k], r[j] = o[l], k < l
        PROVE  i < j
    <3>1. k \in DOMAIN p
      BY <2>3, <2>5
    <3>2. i \in DOMAIN q /\ q[i] = p[k]
      BY <1>5, <2>2, <2>5, <3>1
    <3>3. CASE l \in DOMAIN p
      BY <1>5, <2>2, <2>5, <3>1, <3>2, <3>3 DEF HasEvents
    <3>4. CASE l = Len(p) + 1
      <4>1. r[j] = e
        BY <2>2, <2>5, <3>4
      <4>2. j = Len(q) + 1
        BY <1>2, <1>3, <4>1
      <4> QED
        BY <1>3, <3>2, <4>2
    <3> QED
      BY <2>3, <3>3, <3>4
  <2>6. \A i \in DOMAIN r : r[i].session = n => \E k \in DOMAIN o : r[i] = o[k]
    BY <1>2, <1>3, <1>8, <2>2, <2>3
  <2> QED
    BY <1>6, <2>1, <2>4, <2>5, <2>6 DEF HasEvents
<1> QED
  BY <1>1, <1>7, <1>8

LEMMA PushEventKeeps ==
  ASSUME TracerInv, NEW t \in TracingThreads, PushEvent(t)
  PROVE  TracerInv'
<1> USE DEF TracerInv
<1>1. UNCHANGED <<batch, writer, g_tracing_enabled, g_shutdown_requested, sessions, file_open, footer, stopping,
                  trace_file, traced>>
  BY DEF PushEvent, sessionVars
<1>2. PICK e \in Traces : e = [event |-> tracing[t].event, session |-> tracing[t].session]
  BY DEF TracerTypeOK, Traces
<1>3. /\ g_event_queue' = Append(g_event_queue, e)
      /\ pushed' = IF g_tracing_enabled /\ sessions = e.session THEN [pushed EXCEPT ![sessions] = Append(@, e)] ELSE pushed
  BY <1>2 DEF PushEvent
<1>4. /\ tracing[t].at = "push" /\ e.event = tracing[t].event /\ e.session = tracing[t].session
      /\ e.event \in Nat /\ e.event <= traced /\ e.session <= sessions
  BY <1>2 DEF PushEvent, ThreadInv, TracerTypeOK
<1>5. sessions > 0 /\ sessions \in Sessions /\ sessions \in Nat
  BY <1>4, FlowParts DEF ThreadInv
<1>6. PICK q : q = Flow
  OBVIOUS
<1>7. PICK p : p = pushed[sessions]
  OBVIOUS
<1>8. q \in Seq(Traces) /\ p \in Seq(Traces) /\ trace_file[sessions] \in Seq(Traces)
  BY <1>5, <1>6, <1>7 DEF FlowInv, TracerTypeOK
<1>9. Flow' = Append(q, e)
  <2>1. PICK a \in Seq(Traces), b \in Seq(Traces), c \in Seq(Traces) :
               a = trace_file[sessions] /\ b = batch /\ c = g_event_queue
    BY <1>8 DEF TracerTypeOK
  <2>2. q = a \o (b \o c)
    BY <1>5, <1>6, <2>1, FlowParts
  <2>3. Flow' = a \o (b \o Append(c, e))
    <3>1. sessions # 0
      BY <1>5
    <3> QED
      BY <1>1, <1>3, <2>1, <3>1 DEF Flow
  <2>4. a \o (b \o Append(c, e)) = Append(a \o (b \o c), e)
    BY FlowAppend
  <2> QED
    BY <2>2, <2>3, <2>4
<1>10. /\ Append(q, e) \in Seq(Traces) /\ Len(q) \in Nat /\ DOMAIN q = 1 .. Len(q) /\ DOMAIN Append(q, e) = 1 .. Len(q) + 1
       /\ \A i \in DOMAIN q : Append(q, e)[i] = q[i]
       /\ Append(q, e)[Len(q) + 1] = e
  BY <1>8, AppendProperties
<1>11. \A i \in DOMAIN Flow' : (i \in DOMAIN q /\ Flow'[i] = q[i]) \/ (i = Len(q) + 1 /\ Flow'[i] = e)
  BY <1>9, <1>10
<1>12. \A i \in DOMAIN q : q[i].event # e.event /\ q[i] # e
  BY <1>4, <1>6 DEF ThreadInv
<1>13. HasEvents(q, p, sessions)
  BY <1>5, <1>6, <1>7 DEF FlowInv
<1>14. /\ \A i \in DOMAIN Flow' : Flow'[i].event <= traced /\ Flow'[i].session <= sessions
       /\ \A i, j \in DOMAIN Flow' : Flow'[i].event = Flow'[j].event => i = j
  <2>1. \A i \in DOMAIN q : q[i].event <= traced /\ q[i].session <= sessions
    BY <1>6 DEF FlowInv
  <2>2. \A i, j \in DOMAIN q : q[i].event = q[j].event => i = j
    BY <1>6 DEF FlowInv
  <2> QED
    BY <1>4, <1>11, <1>12, <2>1, <2>2
<1>15. FlowInv' /\ pushed' \in [Sessions -> Seq(Traces)] /\ \A s \in Sessions : s # sessions => pushed'[s] = pushed[s]
  <2>1. CASE g_tracing_enabled /\ sessions = e.session
    <3>1. pushed' = [pushed EXCEPT ![sessions] = Append(p, e)]
      BY <1>3, <1>7, <2>1
    <3>2. Append(p, e) \in Seq(Traces)
      BY <1>8, AppendProperties
    <3>3. /\ pushed' \in [Sessions -> Seq(Traces)] /\ pushed'[sessions] = Append(p, e)
          /\ \A s \in Sessions : s # sessions => pushed'[s] = pushed[s]
      BY <1>5, <3>1, <3>2 DEF TracerTypeOK
    <3>4. \A i \in DOMAIN q : q[i].session = sessions => \E k \in DOMAIN p : q[i] = p[k]
      BY <1>6, <1>7, <2>1 DEF FlowInv
    <3>5. HasEvents(Append(q, e), Append(p, e), sessions)
      BY <1>8, <1>12, <1>13, <3>4, EventsGrow
    <3>6. \A i \in DOMAIN Flow' : Flow'[i].session = sessions => \E k \in DOMAIN Append(p, e) : Flow'[i] = Append(p, e)[k]
      <4>1. /\ Len(p) + 1 \in DOMAIN Append(p, e) /\ Append(p, e)[Len(p) + 1] = e
            /\ \A k \in DOMAIN p : k \in DOMAIN Append(p, e) /\ Append(p, e)[k] = p[k]
        BY <1>8, AppendProperties
      <4> QED
        BY <1>11, <3>4, <4>1
    <3>7. FlowInv'
      <4>1. Flow' \in Seq(Traces)
        BY <1>9, <1>10
      <4>2. HasEvents(Flow', pushed'[sessions], sessions)
        BY <1>9, <3>3, <3>5
      <4>3. \A i \in DOMAIN Flow' : Flow'[i].session = sessions => \E k \in DOMAIN pushed'[sessions] : Flow'[i] = pushed'[sessions][k]
        BY <3>3, <3>6
      <4> QED
        BY <1>1, <1>14, <4>1, <4>2, <4>3 DEF FlowInv
    <3> QED
      BY <3>3, <3>7
  <2>2. CASE ~(g_tracing_enabled /\ sessions = e.session)
    <3>1. pushed' = pushed
      BY <1>3, <2>2
    <3>2. HasEvents(Append(q, e), p, sessions)
      BY <1>8, <1>12, <1>13, EventsGrow
    <3>3. g_tracing_enabled => \A i \in DOMAIN Flow' : Flow'[i].session = sessions => \E k \in DOMAIN p : Flow'[i] = p[k]
      BY <1>6, <1>7, <1>11, <2>2 DEF FlowInv
    <3> QED
      BY <1>1, <1>7, <1>9, <1>10, <1>14, <3>1, <3>2, <3>3 DEF FlowInv, TracerTypeOK
  <2> QED
    BY <2>1, <2>2
<1>16. /\ tracing' \in [TracingThreads -> [at : {"idle", "add", "push", "notify"}, event : Nat, session : Nat]]
       /\ tracing'[t].at = "notify" /\ tracing'[t].session = tracing[t].session
       /\ \A u \in TracingThreads : u # t => tracing'[u] = tracing[u]
  BY DEF PushEvent, TracerTypeOK
<1>17. ThreadInv'
  <2>1. \A u \in TracingThreads : tracing'[u].at \in {"add", "push"} => u # t /\ tracing'[u] = tracing[u]
    BY <1>16
  <2>2. \A u \in TracingThreads : tracing'[u].at \in {"add", "push"} => tracing'[u].event <= traced
    BY <2>1 DEF ThreadInv
  <2>3. \A u \in TracingThreads : tracing'[u].at \in {"add", "push"} => \A i \in DOMAIN Flow' : Flow'[i].event # tracing'[u].event
    BY <1>4, <1>6, <1>11, <2>1 DEF ThreadInv
  <2>4. \A u, v \in TracingThreads : tracing'[u].at \in {"add", "push"} /\ tracing'[v].at \in {"add", "push"} /\ u # v =>
          tracing'[u].event # tracing'[v].event
    BY <2>1 DEF ThreadInv
  <2>5. \A u \in TracingThreads : tracing'[u].session <= sessions
    BY <1>16 DEF ThreadInv
  <2> QED
    BY <1>1, <1>5, <2>2, <2>3, <2>4, <2>5 DEF ThreadInv
<1>18. FileInv'
  <2>1. (writer = "done" \/ sessions \in footer) => ~g_tracing_enabled
    BY DEF SessionInv
  <2>2. (writer = "done" \/ sessions \in footer) => pushed' = pushed
    BY <1>3, <2>1
  <2>3. \A s \in footer : s \in Sessions
    BY FlowParts
  <2>4. \A s \in footer : pushed'[s] = pushed[s]
    BY <1>15, <2>2, <2>3
  <2> QED
    BY <1>1, <2>2, <2>4 DEF FileInv, TraceComplete
<1>19. g_event_queue' \in Seq(Traces)
  BY <1>3, AppendProperties DEF TracerTypeOK
<1>20. TracerTypeOK'
  BY <1>1, <1>15, <1>16, <1>19 DEF TracerTypeOK
<1>21. SessionInv'
  <2>1. \A s \in Sessions : s > sessions => trace_file[s] = << >> /\ pushed'[s] = << >>
    BY <1>5, <1>15 DEF SessionInv, Sessions
  <2> QED
    BY <1>1, <1>5, <2>1 DEF SessionInv
<1> QED
  BY <1>15, <1>17, <1>18, <1>20, <1>21

-----------------------------------------------------------------------------
(* Steps of the writer thread, and of startTracing() and stopTracing() *)

LEMMA WriterDrainKeeps ==
  ASSUME TracerInv, WriterDrain
  PROVE  TracerInv'
<1> USE DEF TracerInv
<1>1. UNCHANGED <<g_tracing_enabled, g_shutdown_requested, sessions, file_open, footer, stopping, trace_file, tracing,
                  traced, pushed>>
  BY DEF WriterDrain, sessionVars, historyVars
<1>2. writer = "test" /\ writer' = "write" /\ batch' = batch \o g_event_queue /\ g_event_queue' = << >>
  BY DEF WriterDrain
<1>3. batch \in Seq(Traces) /\ g_event_queue \in Seq(Traces)
  BY DEF TracerTypeOK
<1>4. batch' \in Seq(Traces) /\ batch' \o << >> = batch'
  BY <1>2, <1>3, ConcatProperties, ConcatEmptySeq
<1>5. Flow' = Flow
  BY <1>1, <1>2, <1>4 DEF Flow
<1>6. FlowInv' /\ ThreadInv' /\ FileInv'
  BY <1>1, <1>2, <1>5, FlowKept, ThreadsKept, FilesKept DEF TracerTypeOK
<1>7. TracerTypeOK'
  BY <1>1, <1>2, <1>4 DEF TracerTypeOK
<1>8. SessionInv'
  BY <1>1, <1>2 DEF SessionInv
<1> QED
  BY <1>6, <1>7, <1>8

LEMMA WriterRestKeeps ==
  ASSUME TracerInv, WriterTest \/ WriterSleep
  PROVE  TracerInv'
<1> USE DEF TracerInv
<1>1. UNCHANGED <<g_event_queue, batch, g_tracing_enabled, g_shutdown_requested, sessions, file_open, footer, stopping,
                  trace_file, tracing, traced, pushed>>
  BY DEF WriterTest, WriterSleep, sessionVars, historyVars
<1>2. writer \in {"test", "sleep"} /\ writer' \in {"sleep", "asleep"}
  BY DEF WriterTest, WriterSleep
<1>3. Flow' = Flow
  BY <1>1, SameFlow
<1>4. FlowInv' /\ ThreadInv' /\ FileInv'
  BY <1>1, <1>2, <1>3, FlowKept, ThreadsKept, FilesKept DEF TracerTypeOK
<1>5. TracerTypeOK' /\ SessionInv'
  BY <1>1, <1>2 DEF TracerTypeOK, SessionInv
<1> QED
  BY <1>4, <1>5

LEMMA WriterWriteKeeps ==
  ASSUME TracerInv, WriterWrite
  PROVE  TracerInv'
<1> USE DEF TracerInv
<1>1. UNCHANGED <<g_event_queue, g_tracing_enabled, g_shutdown_requested, sessions, file_open, footer, stopping,
                  tracing, traced, pushed>>
  BY DEF WriterWrite, sessionVars, historyVars
<1>2. /\ writer = "write" /\ batch' = << >>
      /\ writer' = IF g_shutdown_requested THEN "check" ELSE "test"
  BY DEF WriterWrite
<1>3. file_open /\ sessions > 0 /\ sessions \notin footer
  BY <1>2 DEF SessionInv
<1>4. sessions \in Sessions /\ sessions \in Nat /\ sessions # 0
  BY <1>3, FlowParts
<1>5. PICK f : f = trace_file[sessions]
  OBVIOUS
<1>6. f \in Seq(Traces) /\ batch \in Seq(Traces) /\ g_event_queue \in Seq(Traces)
  BY <1>4, <1>5 DEF TracerTypeOK
<1>7. f \o batch \in Seq(Traces)
  BY <1>6, ConcatProperties
<1>8. trace_file' = [trace_file EXCEPT ![sessions] = f \o batch]
  BY <1>3, <1>5 DEF WriterWrite
<1>9. /\ trace_file' \in [Sessions -> Seq(Traces)] /\ trace_file'[sessions] = f \o batch
      /\ \A s \in Sessions : s # sessions => trace_file'[s] = trace_file[s]
  BY <1>4, <1>7, <1>8 DEF TracerTypeOK
<1>10. Flow' = Flow
  <2>1. Flow = f \o (batch \o g_event_queue)
    BY <1>4, <1>5 DEF Flow
  <2>2. Flow' = (f \o batch) \o (<< >> \o g_event_queue)
    BY <1>1, <1>2, <1>4, <1>9 DEF Flow
  <2>3. << >> \o g_event_queue = g_event_queue
    BY <1>6, ConcatEmptySeq
  <2>4. (f \o batch) \o g_event_queue = f \o (batch \o g_event_queue)
    BY <1>6, FlowAssociative, Zenon
  <2> QED
    BY <2>1, <2>2, <2>3, <2>4
<1>11. FlowInv' /\ ThreadInv'
  BY <1>1, <1>10, FlowKept, ThreadsKept DEF TracerTypeOK
<1>12. FileInv'
  <2>1. \A s \in footer : s \in Sessions
    BY FlowParts
  <2>2. \A s \in footer : trace_file'[s] = trace_file[s]
    BY <1>3, <1>9, <2>1
  <2>3. writer' # "done"
    BY <1>2
  <2> QED
    BY <1>1, <2>2, <2>3 DEF FileInv, TraceComplete
<1>13. TracerTypeOK'
  BY <1>1, <1>2, <1>9 DEF TracerTypeOK
<1>14. SessionInv'
  <2>1. \A s \in Sessions : s > sessions => trace_file'[s] = << >> /\ pushed[s] = << >>
    BY <1>4, <1>9 DEF SessionInv, Sessions
  <2> QED
    BY <1>1, <1>2, <2>1 DEF SessionInv
<1> QED
  BY <1>11, <1>12, <1>13, <1>14

LEMMA WriterCheckKeeps ==
  ASSUME TracerInv, WriterCheck
  PROVE  TracerInv'
<1> USE DEF TracerInv
<1>1. UNCHANGED <<g_event_queue, batch, g_tracing_enabled, g_shutdown_requested, sessions, file_open, footer, stopping,
                  trace_file, tracing, traced, pushed>>
  BY DEF WriterCheck, sessionVars, historyVars
<1>2. writer = "check" /\ writer' = IF g_event_queue = << >> THEN "done" ELSE "test"
  BY DEF WriterCheck
<1>3. Flow' = Flow
  BY <1>1, SameFlow
<1>4. FlowInv' /\ ThreadInv'
  BY <1>1, <1>3, FlowKept, ThreadsKept DEF TracerTypeOK
<1>5. batch = << >> /\ sessions > 0
  BY <1>2 DEF SessionInv
<1>6. g_event_queue = << >> => HasEvents(trace_file[sessions], pushed[sessions], sessions)
  <2>1. sessions # 0 /\ trace_file[sessions] \in Seq(Traces)
    BY <1>5, FlowParts
  <2>2. trace_file[sessions] \o << >> = trace_file[sessions] /\ << >> \o << >> = << >>
    BY <2>1, ConcatEmptySeq
  <2>3. g_event_queue = << >> => Flow = trace_file[sessions]
    BY <1>5, <2>1, <2>2 DEF Flow
  <2> QED
    BY <1>5, <2>3 DEF FlowInv
<1>7. FileInv'
  BY <1>1, <1>2, <1>6 DEF FileInv, TraceComplete
<1>8. TracerTypeOK' /\ SessionInv'
  BY <1>1, <1>2 DEF TracerTypeOK, SessionInv
<1> QED
  BY <1>4, <1>7, <1>8

LEMMA StartTracingKeeps ==
  ASSUME TracerInv, NEW categories, StartTracing(categories)
  PROVE  TracerInv'
<1> USE DEF TracerInv
<1>1. UNCHANGED <<g_event_queue, batch, footer, stopping, trace_file, tracing, traced, pushed>>
  BY DEF StartTracing, historyVars
<1>2. /\ file_open' = TRUE /\ g_shutdown_requested' = FALSE /\ g_tracing_enabled' = TRUE /\ writer' = "test"
      /\ stopping = "no" /\ ~g_tracing_enabled
  BY DEF StartTracing
<1>3. PICK n : n = sessions + 1
  OBVIOUS
<1>4. /\ sessions' = n /\ n \in Nat /\ sessions \in Nat /\ n > 0 /\ n # 0 /\ n > sessions /\ n \in 0 .. MaxSessions /\ n \in Sessions
  BY <1>3, FlowParts DEF StartTracing, Sessions
<1>5. writer = "none" /\ batch = << >>
  BY <1>2 DEF SessionInv
<1>6. trace_file[n] = << >> /\ pushed[n] = << >>
  BY <1>4 DEF SessionInv
<1>7. g_event_queue \in Seq(Traces) /\ << >> \o g_event_queue = g_event_queue
  BY ConcatEmptySeq DEF TracerTypeOK
<1>8. Flow' = g_event_queue
  BY <1>1, <1>4, <1>5, <1>6, <1>7 DEF Flow
\* What was in the queue is the end of the flow of the session before.
<1>9. PICK d \in Nat : \A i \in DOMAIN g_event_queue : d + i \in DOMAIN Flow /\ Flow[d + i] = g_event_queue[i]
  <2>1. PICK f \in Seq(Traces) : Flow = f \o g_event_queue
    <3>1. CASE sessions = 0
      <4>1. Flow = << >> \o g_event_queue /\ << >> \in Seq(Traces)
        BY <1>5, <1>7, <3>1, FlowParts
      <4> QED
        BY <4>1
    <3>2. CASE sessions # 0
      <4>1. sessions > 0
        BY <1>4, <3>2
      <4> QED
        BY <1>5, <1>7, <4>1, FlowParts
    <3> QED
      BY <3>1, <3>2
  <2>2. /\ Len(f) \in Nat
        /\ \A i \in DOMAIN g_event_queue : Len(f) + i \in DOMAIN (f \o g_event_queue) /\ (f \o g_event_queue)[Len(f) + i] = g_event_queue[i]
    BY <1>7, FlowSuffix
  <2> QED
    BY <2>1, <2>2
<1>10. \A i \in DOMAIN g_event_queue : g_event_queue[i].event <= traced /\ g_event_queue[i].session <= sessions /\ g_event_queue[i].session \in Nat
  BY <1>9, FlowTyped DEF FlowInv
<1>11. \A i, j \in DOMAIN g_event_queue : g_event_queue[i].event = g_event_queue[j].event => i = j
  <2>1. \A i \in DOMAIN g_event_queue : i \in Nat
    BY <1>7
  <2>2. \A i, j \in DOMAIN g_event_queue : g_event_queue[i].event = g_event_queue[j].event => d + i = d + j
    BY <1>9 DEF FlowInv
  <2> QED
    BY <1>9, <2>1, <2>2
<1>12. \A i \in DOMAIN g_event_queue : g_event_queue[i].session <= n /\ g_event_queue[i].session # n
  BY <1>4, <1>10
<1>13. HasEvents(g_event_queue, << >>, n)
  BY <1>11 DEF HasEvents
<1>14. FlowInv'
  BY <1>1, <1>4, <1>6, <1>7, <1>8, <1>10, <1>11, <1>12, <1>13 DEF FlowInv
<1>15. ThreadInv'
  <2>1. \A t \in TracingThreads : tracing[t].session \in Nat /\ tracing[t].session <= sessions
    BY DEF ThreadInv, TracerTypeOK
  <2>2. \A t \in TracingThreads : tracing[t].session <= n
    BY <1>4, <2>1
  <2>3. \A t \in TracingThreads : tracing[t].at \in {"add", "push"} => \A i \in DOMAIN g_event_queue : g_event_queue[i].event # tracing[t].event
    BY <1>9 DEF ThreadInv
  <2> QED
    BY <1>1, <1>4, <1>8, <2>2, <2>3 DEF ThreadInv
<1>16. FileInv'
  BY <1>1, <1>2 DEF FileInv, TraceComplete
<1>17. footer \in SUBSET (1 .. n) /\ n \notin footer
  BY <1>4 DEF TracerTypeOK
<1>18. TracerTypeOK'
  BY <1>1, <1>2, <1>4, <1>17 DEF TracerTypeOK
<1>19. SessionInv'
  <2>1. \A s \in Sessions : s > n => trace_file[s] = << >> /\ pushed[s] = << >>
    BY <1>4 DEF SessionInv, Sessions
  <2> QED
    BY <1>1, <1>2, <1>4, <1>5, <1>17, <2>1 DEF SessionInv
<1> QED
  BY <1>14, <1>15, <1>16, <1>18, <1>19

LEMMA StopBeginsKeeps ==
  ASSUME TracerInv, StopDisable \/ StopRequest \/ StopNotify
  PROVE  TracerInv'
<1> USE DEF TracerInv
<1>1. UNCHANGED <<g_event_queue, batch, sessions, file_open, footer, trace_file, tracing, traced, pushed>>
  BY DEF StopDisable, StopRequest, StopNotify, queueVars, historyVars
<1>2. writer' = writer \/ (writer = "asleep" /\ writer' = "test")
  BY DEF StopDisable, StopRequest, StopNotify, NotifyWriter, queueVars
<1>3. g_tracing_enabled' = FALSE /\ stopping' \in {"request", "notify", "join"}
  BY DEF StopDisable, StopRequest, StopNotify, SessionInv, TracerTypeOK
<1>4. g_shutdown_requested' \in BOOLEAN /\ (g_shutdown_requested => g_shutdown_requested')
  BY DEF StopDisable, StopRequest, StopNotify, TracerTypeOK
<1>5. Flow' = Flow
  BY <1>1, SameFlow
<1>6. FlowInv' /\ ThreadInv' /\ FileInv'
  BY <1>1, <1>2, <1>3, <1>5, FlowKept, ThreadsKept, FilesKept DEF TracerTypeOK
<1>7. TracerTypeOK'
  BY <1>1, <1>2, <1>3, <1>4 DEF TracerTypeOK
<1>8. SessionInv'
  BY <1>1, <1>2, <1>3, <1>4 DEF SessionInv
<1> QED
  BY <1>6, <1>7, <1>8

LEMMA StopCloseKeeps ==
  ASSUME TracerInv, StopClose
  PROVE  TracerInv'
<1> USE DEF TracerInv
<1>1. UNCHANGED <<g_event_queue, batch, g_tracing_enabled, g_shutdown_requested, sessions, trace_file, tracing, traced, pushed>>
  BY DEF StopClose, historyVars
<1>2. /\ writer \in {"none", "done"} /\ writer' = "none" /\ file_open' = FALSE
      /\ stopping = "join" /\ stopping' = "no"
      /\ footer' = IF file_open THEN footer \cup {sessions} ELSE footer
  BY DEF StopClose
<1>3. ~g_tracing_enabled /\ (file_open => writer = "done" /\ sessions > 0)
  BY <1>2 DEF SessionInv
<1>4. Flow' = Flow
  BY <1>1, SameFlow
<1>5. FlowInv' /\ ThreadInv'
  BY <1>1, <1>4, FlowKept, ThreadsKept DEF TracerTypeOK
<1>6. FileInv'
  <2>1. \A s \in footer' : s \in footer \/ (s = sessions /\ writer = "done")
    BY <1>2, <1>3
  <2>2. \A s \in footer' : HasEvents(trace_file[s], pushed[s], s)
    BY <2>1 DEF FileInv, TraceComplete
  <2> QED
    BY <1>1, <1>2, <2>2 DEF FileInv, TraceComplete
<1>7. footer' \in SUBSET (1 .. sessions)
  BY <1>2, <1>3, FlowParts DEF TracerTypeOK
<1>8. TracerTypeOK'
  BY <1>1, <1>2, <1>7 DEF TracerTypeOK
<1>9. SessionInv'
  BY <1>1, <1>2, <1>3 DEF SessionInv
<1> QED
  BY <1>5, <1>6, <1>8, <1>9

LEMMA TracerInitially == TracerInit => TracerInv
<1> SUFFICES ASSUME TracerInit PROVE TracerInv
  OBVIOUS
<1>1. TracerTypeOK
  <2>1. sessions \in 0 .. MaxSessions /\ footer \in SUBSET (1 .. sessions)
    BY EventTracerAssumption DEF TracerInit
  <2>2. << >> \in Seq(Traces)
    OBVIOUS
  <2>3. trace_file \in [Sessions -> Seq(Traces)] /\ pushed \in [Sessions -> Seq(Traces)]
    BY <2>2 DEF TracerInit
  <2>4. tracing \in [TracingThreads -> [at : {"idle", "add", "push", "notify"}, event : Nat, session : Nat]]
    BY DEF TracerInit, NotTracing
  <2> QED
    BY <2>1, <2>2, <2>3, <2>4 DEF TracerInit, TracerTypeOK
<1>2. SessionInv
  BY DEF TracerInit, SessionInv
<1>3. Flow = << >>
  <2>1. Flow = << >> \o (<< >> \o << >>)
    BY DEF TracerInit, Flow
  <2>2. << >> \in Seq(Traces)
    OBVIOUS
  <2>3. << >> \o << >> = << >>
    BY <2>2, ConcatEmptySeq
  <2> QED
    BY <2>1, <2>3
<1>4. FlowInv
  BY <1>3 DEF TracerInit, FlowInv
<1>5. ThreadInv
  BY DEF TracerInit, ThreadInv, NotTracing
<1>6. FileInv
  BY DEF TracerInit, FileInv, TraceComplete
<1> QED
  BY <1>1, <1>2, <1>4, <1>5, <1>6 DEF TracerInv

LEMMA TracerStep == TracerInv /\ [TracerNext]_tracerVars => TracerInv'
<1> SUFFICES ASSUME TracerInv, [TracerNext]_tracerVars PROVE TracerInv'
  OBVIOUS
<1>1. CASE UNCHANGED tracerVars
  <2>1. UNCHANGED <<g_event_queue, batch, writer, g_tracing_enabled, g_shutdown_requested, sessions, file_open, footer,
                    stopping, trace_file, tracing, traced, pushed>>
    BY <1>1 DEF tracerVars, queueVars, sessionVars, historyVars
  <2>2. Flow' = Flow
    BY <2>1, SameFlow
  <2>3. FlowInv' /\ ThreadInv' /\ FileInv'
    BY <2>1, <2>2, FlowKept, ThreadsKept, FilesKept DEF TracerInv, TracerTypeOK
  <2>4. TracerTypeOK' /\ SessionInv'
    BY <2>1 DEF TracerInv, TracerTypeOK, SessionInv
  <2> QED
    BY <2>3, <2>4 DEF TracerInv
<1>2. CASE SetupEventTracer
  BY <1>2, SetupKeeps
<1>3. CASE \E t \in TracingThreads : Adding(t) \/ \E c \in Categories : TraceMacro(t, c) \/ GetCategoryEnabled(t, c)
  BY <1>3, AddTraceEventKeeps, PushEventKeeps, AddNotifyKeeps, TraceMacroKeeps DEF Adding
<1>4. CASE Writer
  BY <1>4, WriterDrainKeeps, WriterRestKeeps, WriterWriteKeeps, WriterCheckKeeps DEF Writer
<1>5. CASE \E categories \in SUBSET Patterns : StartTracing(categories)
  BY <1>5, StartTracingKeeps
<1>6. CASE StopDisable \/ Stopping
  BY <1>6, StopBeginsKeeps, StopCloseKeeps DEF Stopping
<1> QED
  BY <1>1, <1>2, <1>3, <1>4, <1>5, <1>6 DEF TracerNext

\* However many threads trace, and wherever the stop finds them and the writer thread, a file that
\* stopTracing() has finished holds every event pushed before the stop, each once and in order.
THEOREM TracesWritten == TracerSpec => []TraceComplete
<1>1. TracerInv => TraceComplete
  BY DEF TracerInv, FileInv
<1> QED
  BY <1>1, TracerInitially, TracerStep, PTL DEF TracerSpec
=============================================================================
