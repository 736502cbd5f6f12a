-------------------------- MODULE FfiClientProofs --------------------------
(***************************************************************************)
(* Proofs about FfiClient, for any number of threads, listeners,           *)
(* operations and sessions.                                                *)
(***************************************************************************)
EXTENDS FfiClient, FiniteSetTheorems, TLAPS

USE DEF None

\* A step of the client is a step of one of its actions, by some thread.
LEMMA NextCases ==
  ASSUME Next
  PROVE  \/ \E t \in Threads :
              \/ InitializeClaim(t) \/ InitializeStore(t) \/ AddListener(t) \/ RemoveListenerFinish(t)
              \/ RegisterAsync(t) \/ SendRequestCheck(t) \/ SendRequestAccepted(t) \/ SendRequestFailed(t)
              \/ CancelPendingTake(t) \/ CancelPendingMissing(t) \/ CancelPendingSet(t) \/ ShutdownClaim(t) \/ ShutdownDrain(t)
              \/ ShutdownCancelled(t) \/ ShutdownDrained(t) \/ ShutdownDispose(t) \/ ShutdownStore(t)
              \/ CompletePending(t) \/ LeaveCallback(t) \/ PushReturn(t)
         \/ \E t \in Threads, s \in ListenerIds :
              \/ RemoveListenerMissing(t, s) \/ RemoveListenerTake(t, s) \/ ShutdownWait(t, s)
              \/ SkipRemoved(t, s) \/ EnterCallback(t, s)
         \/ \E t \in Threads, o \in AsyncIds : ShutdownCancel(t, o)
         \/ \E t \in FfiThreads : PushNotification(t)
         \/ \E t \in FfiThreads, o \in AsyncIds : PushDropped(t, o) \/ \E a \in Answers : PushAnswer(t, o, a)
  BY Zenon DEF Next, StartCall, ContinueCall, ContinuePush, Answer

\* The threads of the Rust runtime are threads of the model.
LEMMA FfiInThreads == FfiThreads \subseteq Threads
  BY DEF Threads

\* The initial state, a client that was never initialized, is type correct.
LEMMA InitTypeOK == Init => TypeOK
  BY BoundsAssumption
     DEF Init, TypeOK, LifecycleOK, ListenersOK, AsyncOK, FramesOK, CallsOK, LifecycleStates, Frames, Calls,
         AsyncCalls, ShutdownCalls, Promises, Answers, ListenerIds, AsyncIds

\* Every variable keeps its type, and every thread works on a listener or operation that exists.
THEOREM TypeCorrect == Safe => []TypeOK
<1>1. Init => TypeOK
  BY InitTypeOK
<1>2. TypeOK /\ [Next]_vars => TypeOK'
  <2> SUFFICES ASSUME TypeOK, [Next]_vars PROVE TypeOK'
    OBVIOUS
  <2> USE BoundsAssumption, FfiInThreads
      DEF TypeOK, ListenerIds, AsyncIds, lifecycleVars, listenerVars, asyncVars, frameVars, callVars
  <2>0. CASE UNCHANGED vars
    BY <2>0 DEF vars, LifecycleOK, ListenersOK, AsyncOK, FramesOK, CallsOK
  <2>1. ASSUME NEW t \in Threads, InitializeClaim(t)
        PROVE  TypeOK'
    <3>1. LifecycleOK'
      BY <2>1 DEF InitializeClaim, MayCall, Goto, LifecycleOK, LifecycleStates
    <3>2. CallsOK'
      BY <2>1 DEF InitializeClaim, MayCall, Goto, CallsOK, Calls, AsyncCalls, ShutdownCalls, ListenersOK,
         AsyncOK
    <3> QED
      BY <2>1, <3>1, <3>2 DEF InitializeClaim, ListenersOK, AsyncOK, FramesOK
  <2>2. ASSUME NEW t \in Threads, InitializeStore(t)
        PROVE  TypeOK'
    <3>1. LifecycleOK'
      BY <2>2 DEF InitializeStore, Return, Goto, LifecycleOK, LifecycleStates
    <3>2. CallsOK'
      BY <2>2 DEF InitializeStore, Return, Goto, CallsOK, Calls, AsyncCalls, ShutdownCalls, ListenersOK,
         AsyncOK
    <3> QED
      BY <2>2, <3>1, <3>2 DEF InitializeStore, ListenersOK, AsyncOK, FramesOK
  <2>3. ASSUME NEW t \in Threads, AddListener(t)
        PROVE  TypeOK'
    <3>1. ListenersOK'
      BY <2>3 DEF AddListener, MayCall, ListenersOK, CallsOK, FramesOK
    <3>2. CallsOK'
      BY <2>3 DEF AddListener, CallsOK, ListenersOK
    <3> QED
      BY <2>3, <3>1, <3>2 DEF AddListener, LifecycleOK, AsyncOK, FramesOK
  <2>4. ASSUME NEW t \in Threads, NEW s \in ListenerIds, RemoveListenerMissing(t, s)
        PROVE  TypeOK'
    <3>1. [thread |-> t, id |-> s, found |-> FALSE] \in [thread : Threads, id : ListenerIds, found : BOOLEAN]
      BY <2>4
    <3>2. ListenersOK'
      BY <2>4, <3>1 DEF RemoveListenerMissing, MayCall, Removable, ListenersOK, CallsOK, FramesOK
    <3>3. CallsOK'
      BY <2>4, <3>1 DEF RemoveListenerMissing, MayCall, Removable, CallsOK, Calls, AsyncCalls, ShutdownCalls,
         ListenersOK, AsyncOK
    <3> QED
      BY <2>4, <3>2, <3>3 DEF RemoveListenerMissing, LifecycleOK, AsyncOK, FramesOK
  <2>5. ASSUME NEW t \in Threads, NEW s \in ListenerIds, RemoveListenerTake(t, s)
        PROVE  TypeOK'
    <3>1. ListenersOK'
      BY <2>5 DEF RemoveListenerTake, MayCall, Goto, Removable, ListenersOK, CallsOK, FramesOK
    <3>2. CallsOK'
      BY <2>5 DEF RemoveListenerTake, MayCall, Goto, Removable, CallsOK, Calls, AsyncCalls, ShutdownCalls,
         ListenersOK, AsyncOK
    <3> QED
      BY <2>5, <3>1, <3>2 DEF RemoveListenerTake, LifecycleOK, AsyncOK, FramesOK
  <2>6. ASSUME NEW t \in Threads, RemoveListenerFinish(t)
        PROVE  TypeOK'
    <3>1. arg[t] \in 1 .. next_listener_id - 1
      BY <2>6 DEF RemoveListenerFinish, ListenersOK, CallsOK
    <3>2. [thread |-> t, id |-> arg[t], found |-> TRUE] \in [thread : Threads, id : ListenerIds, found : BOOLEAN]
      BY <2>6, <3>1 DEF RemoveListenerFinish, CallsOK
    <3>3. ListenersOK'
      BY <2>6, <3>1, <3>2 DEF RemoveListenerFinish, Return, Goto, ListenersOK, CallsOK, FramesOK
    <3>4. CallsOK'
      BY <2>6, <3>1, <3>2 DEF RemoveListenerFinish, Return, Goto, CallsOK, Calls, AsyncCalls, ShutdownCalls,
         ListenersOK, AsyncOK
    <3> QED
      BY <2>6, <3>3, <3>4 DEF RemoveListenerFinish, LifecycleOK, AsyncOK, FramesOK
  <2>7. ASSUME NEW t \in Threads, RegisterAsync(t)
        PROVE  TypeOK'
    <3>1. AsyncOK'
      BY <2>7 DEF RegisterAsync, MayCall, Goto, AsyncOK, Promises, ListenersOK, CallsOK, FramesOK
    <3>2. CallsOK'
      BY <2>7 DEF RegisterAsync, MayCall, Goto, CallsOK, Calls, AsyncCalls, ShutdownCalls, ListenersOK,
         AsyncOK
    <3> QED
      BY <2>7, <3>1, <3>2 DEF RegisterAsync, LifecycleOK, ListenersOK, FramesOK
  <2>8. ASSUME NEW t \in Threads, SendRequestCheck(t)
        PROVE  TypeOK'
    <3>1. CallsOK'
      BY <2>8 DEF SendRequestCheck, Goto, CallsOK, Calls, AsyncCalls, ShutdownCalls, ListenersOK, AsyncOK
    <3> QED
      BY <2>8, <3>1 DEF SendRequestCheck, LifecycleOK, ListenersOK, AsyncOK, FramesOK
  <2>9. ASSUME NEW t \in Threads, SendRequestAccepted(t)
        PROVE  TypeOK'
    <3>1. arg[t] \in 1 .. next_async_id - 1
      BY <2>9 DEF SendRequestAccepted, AsyncOK, CallsOK, AsyncCalls
    <3>2. AsyncOK'
      BY <2>9, <3>1 DEF SendRequestAccepted, Return, Goto, AsyncOK, Promises, ListenersOK, CallsOK, FramesOK
    <3>3. CallsOK'
      BY <2>9, <3>1 DEF SendRequestAccepted, Return, Goto, CallsOK, Calls, AsyncCalls, ShutdownCalls,
         ListenersOK, AsyncOK
    <3> QED
      BY <2>9, <3>2, <3>3 DEF SendRequestAccepted, LifecycleOK, ListenersOK, FramesOK
  <2>10. ASSUME NEW t \in Threads, SendRequestFailed(t)
        PROVE  TypeOK'
    <3>1. arg[t] \in 1 .. next_async_id - 1
      BY <2>10 DEF SendRequestFailed, AsyncOK, CallsOK, AsyncCalls
    <3>2. AsyncOK'
      BY <2>10, <3>1 DEF SendRequestFailed, Goto, AsyncOK, Promises, ListenersOK, CallsOK, FramesOK
    <3>3. CallsOK'
      BY <2>10, <3>1 DEF SendRequestFailed, Goto, CallsOK, Calls, AsyncCalls, ShutdownCalls, ListenersOK,
         AsyncOK
    <3> QED
      BY <2>10, <3>2, <3>3 DEF SendRequestFailed, LifecycleOK, ListenersOK, FramesOK
  <2>11. ASSUME NEW t \in Threads, CancelPendingTake(t)
        PROVE  TypeOK'
    <3>1. AsyncOK'
      BY <2>11 DEF CancelPendingTake, Goto, AsyncOK, Promises, ListenersOK, CallsOK, FramesOK
    <3>2. CallsOK'
      BY <2>11 DEF CancelPendingTake, Goto, CallsOK, Calls, AsyncCalls, ShutdownCalls, ListenersOK, AsyncOK
    <3> QED
      BY <2>11, <3>1, <3>2 DEF CancelPendingTake, LifecycleOK, ListenersOK, FramesOK
  <2>12. ASSUME NEW t \in Threads, CancelPendingMissing(t)
        PROVE  TypeOK'
    <3>1. CallsOK'
      BY <2>12 DEF CancelPendingMissing, Return, Goto, CallsOK, Calls, AsyncCalls, ShutdownCalls, ListenersOK,
         AsyncOK
    <3> QED
      BY <2>12, <3>1 DEF CancelPendingMissing, LifecycleOK, ListenersOK, AsyncOK, FramesOK
  <2>13. ASSUME NEW t \in Threads, CancelPendingSet(t)
        PROVE  TypeOK'
    <3>1. AsyncOK'
      BY <2>13 DEF CancelPendingSet, Return, Cancel, Goto, AsyncOK, Promises, ListenersOK, CallsOK, FramesOK
    <3>2. CallsOK'
      BY <2>13 DEF CancelPendingSet, Return, Cancel, Goto, CallsOK, Calls, AsyncCalls, ShutdownCalls,
         ListenersOK, AsyncOK
    <3> QED
      BY <2>13, <3>1, <3>2 DEF CancelPendingSet, LifecycleOK, ListenersOK, FramesOK
  <2>14. ASSUME NEW t \in Threads, ShutdownClaim(t)
        PROVE  TypeOK'
    <3>1. LifecycleOK'
      BY <2>14 DEF ShutdownClaim, MayCall, Goto, LifecycleOK, LifecycleStates
    <3>2. CallsOK'
      BY <2>14 DEF ShutdownClaim, MayCall, Goto, CallsOK, Calls, AsyncCalls, ShutdownCalls, ListenersOK,
         AsyncOK
    <3> QED
      BY <2>14, <3>1, <3>2 DEF ShutdownClaim, ListenersOK, AsyncOK, FramesOK
  <2>15. ASSUME NEW t \in Threads, ShutdownDrain(t)
        PROVE  TypeOK'
    <3>1. ListenersOK'
      BY <2>15 DEF ShutdownDrain, Goto, ListenersOK, CallsOK, FramesOK
    <3>2. AsyncOK'
      BY <2>15 DEF ShutdownDrain, Goto, AsyncOK, Promises, ListenersOK, CallsOK, FramesOK
    <3>3. CallsOK'
      BY <2>15 DEF ShutdownDrain, Goto, CallsOK, Calls, AsyncCalls, ShutdownCalls, ListenersOK, AsyncOK
    <3> QED
      BY <2>15, <3>1, <3>2, <3>3 DEF ShutdownDrain, LifecycleOK, FramesOK
  <2>16. ASSUME NEW t \in Threads, NEW o \in AsyncIds, ShutdownCancel(t, o)
        PROVE  TypeOK'
    <3>1. AsyncOK'
      BY <2>16 DEF ShutdownCancel, Cancel, AsyncOK, Promises, ListenersOK, CallsOK, FramesOK
    <3>2. CallsOK'
      BY <2>16 DEF ShutdownCancel, Cancel, CallsOK, Calls, AsyncCalls, ShutdownCalls, ListenersOK, AsyncOK
    <3> QED
      BY <2>16, <3>1, <3>2 DEF ShutdownCancel, LifecycleOK, ListenersOK, FramesOK
  <2>17. ASSUME NEW t \in Threads, ShutdownCancelled(t)
        PROVE  TypeOK'
    <3>1. CallsOK'
      BY <2>17 DEF ShutdownCancelled, Goto, CallsOK, Calls, AsyncCalls, ShutdownCalls, ListenersOK, AsyncOK
    <3> QED
      BY <2>17, <3>1 DEF ShutdownCancelled, LifecycleOK, ListenersOK, AsyncOK, FramesOK
  <2>18. ASSUME NEW t \in Threads, NEW s \in ListenerIds, ShutdownWait(t, s)
        PROVE  TypeOK'
    <3>1. CallsOK'
      BY <2>18 DEF ShutdownWait, CallsOK, Calls, AsyncCalls, ShutdownCalls, ListenersOK, AsyncOK
    <3> QED
      BY <2>18, <3>1 DEF ShutdownWait, LifecycleOK, ListenersOK, AsyncOK, FramesOK
  <2>19. ASSUME NEW t \in Threads, ShutdownDrained(t)
        PROVE  TypeOK'
    <3>1. CallsOK'
      BY <2>19 DEF ShutdownDrained, Goto, CallsOK, Calls, AsyncCalls, ShutdownCalls, ListenersOK, AsyncOK
    <3> QED
      BY <2>19, <3>1 DEF ShutdownDrained, LifecycleOK, ListenersOK, AsyncOK, FramesOK
  <2>20. ASSUME NEW t \in Threads, ShutdownDispose(t)
        PROVE  TypeOK'
    <3>1. CallsOK'
      BY <2>20 DEF ShutdownDispose, Goto, CallsOK, Calls, AsyncCalls, ShutdownCalls, ListenersOK, AsyncOK
    <3> QED
      BY <2>20, <3>1 DEF ShutdownDispose, LifecycleOK, ListenersOK, AsyncOK, FramesOK
  <2>21. ASSUME NEW t \in Threads, ShutdownStore(t)
        PROVE  TypeOK'
    <3>1. LifecycleOK'
      BY <2>21 DEF ShutdownStore, Return, Goto, LifecycleOK, LifecycleStates
    <3>2. CallsOK'
      BY <2>21 DEF ShutdownStore, Return, Goto, CallsOK, Calls, AsyncCalls, ShutdownCalls, ListenersOK,
         AsyncOK
    <3> QED
      BY <2>21, <3>1, <3>2 DEF ShutdownStore, ListenersOK, AsyncOK, FramesOK
  <2>22. ASSUME NEW t \in FfiThreads, PushNotification(t)
        PROVE  TypeOK'
    <3>1. FramesOK'
      BY <2>22 DEF PushNotification, MayPush, FramesOK, Frames, Answers, ListenersOK, AsyncOK
    <3> QED
      BY <2>22, <3>1 DEF PushNotification, LifecycleOK, ListenersOK, AsyncOK, CallsOK
  <2>23. ASSUME NEW t \in FfiThreads, NEW o \in AsyncIds, NEW a \in Answers, PushAnswer(t, o, a)
        PROVE  TypeOK'
    <3>1. AsyncOK'
      BY <2>23 DEF PushAnswer, MayPush, AsyncOK, Promises, ListenersOK, CallsOK, FramesOK
    <3>2. FramesOK'
      BY <2>23 DEF PushAnswer, MayPush, FramesOK, Frames, Answers, ListenersOK, AsyncOK
    <3>3. CallsOK'
      BY <2>23 DEF PushAnswer, MayPush, CallsOK, Calls, AsyncCalls, ShutdownCalls, ListenersOK, AsyncOK
    <3> QED
      BY <2>23, <3>1, <3>2, <3>3 DEF PushAnswer, LifecycleOK, ListenersOK
  <2>24. ASSUME NEW t \in FfiThreads, NEW o \in AsyncIds, PushDropped(t, o)
        PROVE  TypeOK'
    <3>1. AsyncOK'
      BY <2>24 DEF PushDropped, MayPush, AsyncOK, Promises, ListenersOK, CallsOK, FramesOK
    <3>2. CallsOK'
      BY <2>24 DEF PushDropped, MayPush, CallsOK, Calls, AsyncCalls, ShutdownCalls, ListenersOK, AsyncOK
    <3> QED
      BY <2>24, <3>1, <3>2 DEF PushDropped, LifecycleOK, ListenersOK, FramesOK
  <2>25. ASSUME NEW t \in Threads, CompletePending(t)
        PROVE  TypeOK'
    <3>1. AsyncOK'
      BY <2>25 DEF CompletePending, HandlerResult, AsyncOK, Promises, ListenersOK, CallsOK, FramesOK
    <3>2. FramesOK'
      BY <2>25 DEF CompletePending, HandlerResult, FramesOK, Frames, Answers, ListenersOK, AsyncOK
    <3>3. CallsOK'
      BY <2>25 DEF CompletePending, HandlerResult, CallsOK, Calls, AsyncCalls, ShutdownCalls, ListenersOK,
         AsyncOK
    <3> QED
      BY <2>25, <3>1, <3>2, <3>3 DEF CompletePending, LifecycleOK, ListenersOK
  <2>26. ASSUME NEW t \in Threads, NEW s \in ListenerIds, SkipRemoved(t, s)
        PROVE  TypeOK'
    <3>1. FramesOK'
      BY <2>26 DEF SkipRemoved, FramesOK, Frames, Answers, ListenersOK, AsyncOK
    <3> QED
      BY <2>26, <3>1 DEF SkipRemoved, LifecycleOK, ListenersOK, AsyncOK, CallsOK
  <2>27. ASSUME NEW t \in Threads, NEW s \in ListenerIds, EnterCallback(t, s)
        PROVE  TypeOK'
    <3>1. ListenersOK'
      BY <2>27 DEF EnterCallback, ListenersOK, CallsOK, FramesOK
    <3>2. FramesOK'
      BY <2>27 DEF EnterCallback, FramesOK, Frames, Answers, ListenersOK, AsyncOK
    <3>3. CallsOK'
      BY <2>27 DEF EnterCallback, CallsOK, Calls, AsyncCalls, ShutdownCalls, ListenersOK, AsyncOK
    <3> QED
      BY <2>27, <3>1, <3>2, <3>3 DEF EnterCallback, LifecycleOK, AsyncOK
  <2>28. ASSUME NEW t \in Threads, LeaveCallback(t)
        PROVE  TypeOK'
    <3>1. ListenersOK'
      BY <2>28 DEF LeaveCallback, ListenersOK, CallsOK, FramesOK
    <3>2. FramesOK'
      BY <2>28 DEF LeaveCallback, FramesOK, Frames, Answers, ListenersOK, AsyncOK
    <3>3. CallsOK'
      BY <2>28 DEF LeaveCallback, CallsOK, Calls, AsyncCalls, ShutdownCalls, ListenersOK, AsyncOK
    <3> QED
      BY <2>28, <3>1, <3>2, <3>3 DEF LeaveCallback, LifecycleOK, AsyncOK
  <2>29. ASSUME NEW t \in Threads, PushReturn(t)
        PROVE  TypeOK'
    <3>1. FramesOK'
      BY <2>29 DEF PushReturn, FramesOK, Frames, Answers, ListenersOK, AsyncOK
    <3> QED
      BY <2>29, <3>1 DEF PushReturn, LifecycleOK, ListenersOK, AsyncOK, CallsOK
  <2> QED
    BY NextCases, <2>0, <2>1, <2>2, <2>3, <2>4, <2>5, <2>6, <2>7, <2>8, <2>9, <2>10, <2>11, <2>12, <2>13,
       <2>14, <2>15, <2>16, <2>17, <2>18, <2>19, <2>20, <2>21, <2>22, <2>23, <2>24, <2>25, <2>26, <2>27,
       <2>28, <2>29
<1> QED
  BY <1>1, <1>2, PTL DEF Safe

-----------------------------------------------------------------------------
(***************************************************************************)
(* The callback handshake.  The counter of a slot counts the threads that  *)
(* are inside its callback; that is why the two waits, which only look at  *)
(* the counter, know that nobody else is inside.  A slot whose flag        *)
(* removed is set is never entered again, so what a wait found stays true. *)
(***************************************************************************)

\* Counting: what the two waits conclude from the counter of a slot.
LEMMA CountFacts ==
  ASSUME NEW S \in SUBSET Threads
  PROVE  /\ IsFiniteSet(S)
         /\ Cardinality(S) = 0 => S = {}
         /\ \A t : t \in S /\ Cardinality(S) = 1 => S = {t}
         /\ \A t : t \notin S => Cardinality(S \cup {t}) = Cardinality(S) + 1
         /\ \A t : t \in S => Cardinality(S \ {t}) = Cardinality(S) - 1
<1>1. IsFiniteSet(Threads)
  BY ThreadsAssumption, FS_Union DEF Threads
<1>2. IsFiniteSet(S)
  BY <1>1, FS_Subset
<1>3. \A t : t \in S /\ Cardinality(S) = 1 => S = {t}
  <2> SUFFICES ASSUME NEW t, t \in S, Cardinality(S) = 1 PROVE S = {t}
    OBVIOUS
  <2>1. PICK x : S = {x}
    BY <1>2, FS_Singleton
  <2> QED
    BY <2>1
<1>4. \A t : t \notin S => Cardinality(S \cup {t}) = Cardinality(S) + 1
  BY <1>2, FS_AddElement
<1>5. \A t : t \in S => Cardinality(S \ {t}) = Cardinality(S) - 1
  BY <1>2, FS_RemoveElement
<1>6. Cardinality(S) = 0 => S = {}
  BY <1>2, FS_EmptySet
<1> QED
  BY <1>2, <1>3, <1>4, <1>5, <1>6

\* active_threads and active_callbacks agree with the threads that are inside the callback.
CallbackInv ==
  /\ \A s \in ListenerIds, t \in Threads : t \in active_threads[s] <=> slot[t] = s
  /\ \A s \in ListenerIds : active_callbacks[s] = Cardinality(active_threads[s])

\* A slot that removeListener() has found and waited for is marked, and left.
RemovalInv ==
  /\ \A r \in removals : r.found => r.id \in removed
  /\ NoCallbackAfterRemove

\* The slots shutdown() drains are marked, and it has waited for all of them when it disposes.
DrainInv ==
  /\ \A t \in Threads : waited[t] \subseteq to_drain[t] /\ to_drain[t] \subseteq removed
  /\ \A t \in Threads : call[t] \notin ShutdownCalls \ {"drain"} => to_drain[t] = {}
  /\ \A t, u \in Threads : slot[u] \in waited[t] => u = t
  /\ \A t \in Threads : call[t] \in {"dispose", "store"} => waited[t] = to_drain[t]

HandshakeInv == TypeOK /\ CallbackInv /\ RemovalInv /\ DrainInv

\* The invariant implies the two properties of the handshake.
LEMMA HandshakeImplies == HandshakeInv => NoCallbackAfterRemove /\ DisposeAfterCallbacks
  BY DEF HandshakeInv, RemovalInv, DrainInv, DisposeAfterCallbacks

\* The invariant is inductive (its type part is TypeCorrect's).
LEMMA HandshakeStep == HandshakeInv /\ TypeOK' /\ [Next]_vars => HandshakeInv'
<1> SUFFICES ASSUME HandshakeInv, TypeOK', [Next]_vars PROVE CallbackInv' /\ RemovalInv' /\ DrainInv'
  BY DEF HandshakeInv
<1> USE FfiInThreads DEF HandshakeInv, TypeOK, lifecycleVars, listenerVars, asyncVars, frameVars, callVars
<1>0. CASE UNCHANGED vars
  BY <1>0 DEF vars, CallbackInv, RemovalInv, DrainInv, NoCallbackAfterRemove
<1>1. ASSUME NEW t \in Threads, InitializeClaim(t)
      PROVE  CallbackInv' /\ RemovalInv' /\ DrainInv'
  BY <1>1 DEF InitializeClaim, MayCall, Goto, CallsOK, ShutdownCalls, CallbackInv, RemovalInv, DrainInv,
     NoCallbackAfterRemove
<1>2. ASSUME NEW t \in Threads, InitializeStore(t)
      PROVE  CallbackInv' /\ RemovalInv' /\ DrainInv'
  BY <1>2 DEF InitializeStore, Return, Goto, CallsOK, ShutdownCalls, CallbackInv, RemovalInv, DrainInv,
     NoCallbackAfterRemove
<1>3. ASSUME NEW t \in Threads, AddListener(t)
      PROVE  CallbackInv' /\ RemovalInv' /\ DrainInv'
  BY <1>3 DEF AddListener, MayCall, CallbackInv, RemovalInv, DrainInv, NoCallbackAfterRemove
<1>4. ASSUME NEW t \in Threads, NEW s \in ListenerIds, RemoveListenerMissing(t, s)
      PROVE  CallbackInv' /\ RemovalInv' /\ DrainInv'
  <2>1. CallbackInv'
    BY <1>4 DEF RemoveListenerMissing, CallbackInv
  <2>2. RemovalInv'
    BY <1>4 DEF RemoveListenerMissing, RemovalInv, NoCallbackAfterRemove
  <2>3. DrainInv'
    BY <1>4 DEF RemoveListenerMissing, CallsOK, DrainInv
  <2> QED
    BY <2>1, <2>2, <2>3
<1>5. ASSUME NEW t \in Threads, NEW s \in ListenerIds, RemoveListenerTake(t, s)
      PROVE  CallbackInv' /\ RemovalInv' /\ DrainInv'
  BY <1>5 DEF RemoveListenerTake, MayCall, Goto, CallsOK, ShutdownCalls, CallbackInv, RemovalInv, DrainInv,
     NoCallbackAfterRemove
<1>6. ASSUME NEW t \in Threads, RemoveListenerFinish(t)
      PROVE  CallbackInv' /\ RemovalInv' /\ DrainInv'
  <2> DEFINE s == arg[t]
  <2>1. s \in ListenerIds /\ active_threads[s] \in SUBSET Threads
    BY <1>6 DEF RemoveListenerFinish, ListenersOK, CallsOK
  <2>2. active_threads[s] \subseteq {t}
    BY <1>6, <2>1, CountFacts DEF RemoveListenerFinish, NoOtherCallback, CallbackInv
  <2>3. CallbackInv'
    BY <1>6 DEF RemoveListenerFinish, CallbackInv
  <2>4. RemovalInv'
    <3>1. \A u \in Threads : slot[u] = s => u = t
      BY <2>1, <2>2 DEF CallbackInv
    <3> QED
      BY <1>6, <3>1 DEF RemoveListenerFinish, RemovalInv, NoCallbackAfterRemove
  <2>5. DrainInv'
    BY <1>6 DEF RemoveListenerFinish, Return, Goto, CallsOK, DrainInv, ShutdownCalls
  <2> QED
    BY <2>3, <2>4, <2>5
<1>7. ASSUME NEW t \in Threads, RegisterAsync(t)
      PROVE  CallbackInv' /\ RemovalInv' /\ DrainInv'
  BY <1>7 DEF RegisterAsync, MayCall, Goto, CallsOK, ShutdownCalls, CallbackInv, RemovalInv, DrainInv,
     NoCallbackAfterRemove
<1>8. ASSUME NEW t \in Threads, SendRequestCheck(t)
      PROVE  CallbackInv' /\ RemovalInv' /\ DrainInv'
  BY <1>8 DEF SendRequestCheck, Goto, CallsOK, ShutdownCalls, CallbackInv, RemovalInv, DrainInv,
     NoCallbackAfterRemove
<1>9. ASSUME NEW t \in Threads, SendRequestAccepted(t)
      PROVE  CallbackInv' /\ RemovalInv' /\ DrainInv'
  BY <1>9 DEF SendRequestAccepted, Return, Goto, CallsOK, ShutdownCalls, CallbackInv, RemovalInv, DrainInv,
     NoCallbackAfterRemove
<1>10. ASSUME NEW t \in Threads, SendRequestFailed(t)
      PROVE  CallbackInv' /\ RemovalInv' /\ DrainInv'
  BY <1>10 DEF SendRequestFailed, Goto, CallsOK, ShutdownCalls, CallbackInv, RemovalInv, DrainInv,
     NoCallbackAfterRemove
<1>11. ASSUME NEW t \in Threads, CancelPendingTake(t)
      PROVE  CallbackInv' /\ RemovalInv' /\ DrainInv'
  BY <1>11 DEF CancelPendingTake, Goto, CallsOK, ShutdownCalls, CallbackInv, RemovalInv, DrainInv,
     NoCallbackAfterRemove
<1>12. ASSUME NEW t \in Threads, CancelPendingMissing(t)
      PROVE  CallbackInv' /\ RemovalInv' /\ DrainInv'
  BY <1>12 DEF CancelPendingMissing, Return, Goto, CallsOK, ShutdownCalls, CallbackInv, RemovalInv, DrainInv,
     NoCallbackAfterRemove
<1>13. ASSUME NEW t \in Threads, CancelPendingSet(t)
      PROVE  CallbackInv' /\ RemovalInv' /\ DrainInv'
  BY <1>13 DEF CancelPendingSet, Return, Goto, CallsOK, ShutdownCalls, CallbackInv, RemovalInv, DrainInv,
     NoCallbackAfterRemove
<1>14. ASSUME NEW t \in Threads, ShutdownClaim(t)
      PROVE  CallbackInv' /\ RemovalInv' /\ DrainInv'
  BY <1>14 DEF ShutdownClaim, MayCall, Goto, CallsOK, ShutdownCalls, CallbackInv, RemovalInv, DrainInv,
     NoCallbackAfterRemove
<1>15. ASSUME NEW t \in Threads, ShutdownDrain(t)
      PROVE  CallbackInv' /\ RemovalInv' /\ DrainInv'
  <2>1. CallbackInv'
    BY <1>15 DEF ShutdownDrain, CallbackInv
  <2>2. RemovalInv'
    BY <1>15 DEF ShutdownDrain, RemovalInv, NoCallbackAfterRemove
  <2>3. DrainInv'
    BY <1>15 DEF ShutdownDrain, Goto, CallsOK, DrainInv, ShutdownCalls
  <2> QED
    BY <2>1, <2>2, <2>3
<1>16. ASSUME NEW t \in Threads, NEW o \in AsyncIds, ShutdownCancel(t, o)
      PROVE  CallbackInv' /\ RemovalInv' /\ DrainInv'
  BY <1>16 DEF ShutdownCancel, CallsOK, ShutdownCalls, CallbackInv, RemovalInv, DrainInv,
     NoCallbackAfterRemove
<1>17. ASSUME NEW t \in Threads, ShutdownCancelled(t)
      PROVE  CallbackInv' /\ RemovalInv' /\ DrainInv'
  BY <1>17 DEF ShutdownCancelled, Goto, CallsOK, ShutdownCalls, CallbackInv, RemovalInv, DrainInv,
     NoCallbackAfterRemove
<1>18. ASSUME NEW t \in Threads, NEW s \in ListenerIds, ShutdownWait(t, s)
      PROVE  CallbackInv' /\ RemovalInv' /\ DrainInv'
  <2>1. active_threads[s] \subseteq {t}
    BY <1>18, CountFacts DEF ShutdownWait, OnlySelfActive, CallbackInv, ListenersOK
  <2>2. \A u \in Threads : slot[u] = s => u = t
    BY <2>1 DEF CallbackInv
  <2>3. DrainInv'
    BY <1>18, <2>2 DEF ShutdownWait, CallsOK, DrainInv
  <2> QED
    BY <1>18, <2>3 DEF ShutdownWait, CallbackInv, RemovalInv, NoCallbackAfterRemove
<1>19. ASSUME NEW t \in Threads, ShutdownDrained(t)
      PROVE  CallbackInv' /\ RemovalInv' /\ DrainInv'
  BY <1>19 DEF ShutdownDrained, Goto, CallsOK, ShutdownCalls, CallbackInv, RemovalInv, DrainInv,
     NoCallbackAfterRemove
<1>20. ASSUME NEW t \in Threads, ShutdownDispose(t)
      PROVE  CallbackInv' /\ RemovalInv' /\ DrainInv'
  BY <1>20 DEF ShutdownDispose, Goto, CallsOK, ShutdownCalls, CallbackInv, RemovalInv, DrainInv,
     NoCallbackAfterRemove
<1>21. ASSUME NEW t \in Threads, ShutdownStore(t)
      PROVE  CallbackInv' /\ RemovalInv' /\ DrainInv'
  BY <1>21 DEF ShutdownStore, Return, Goto, CallsOK, ShutdownCalls, CallbackInv, RemovalInv, DrainInv,
     NoCallbackAfterRemove
<1>22. ASSUME NEW t \in FfiThreads, PushNotification(t)
      PROVE  CallbackInv' /\ RemovalInv' /\ DrainInv'
  BY <1>22 DEF PushNotification, CallbackInv, RemovalInv, DrainInv, NoCallbackAfterRemove
<1>23. ASSUME NEW t \in FfiThreads, NEW o \in AsyncIds, NEW a \in Answers, PushAnswer(t, o, a)
      PROVE  CallbackInv' /\ RemovalInv' /\ DrainInv'
  BY <1>23 DEF PushAnswer, CallbackInv, RemovalInv, DrainInv, NoCallbackAfterRemove
<1>24. ASSUME NEW t \in FfiThreads, NEW o \in AsyncIds, PushDropped(t, o)
      PROVE  CallbackInv' /\ RemovalInv' /\ DrainInv'
  BY <1>24 DEF PushDropped, CallbackInv, RemovalInv, DrainInv, NoCallbackAfterRemove
<1>25. ASSUME NEW t \in Threads, CompletePending(t)
      PROVE  CallbackInv' /\ RemovalInv' /\ DrainInv'
  BY <1>25 DEF CompletePending, CallbackInv, RemovalInv, DrainInv, NoCallbackAfterRemove
<1>26. ASSUME NEW t \in Threads, NEW s \in ListenerIds, SkipRemoved(t, s)
      PROVE  CallbackInv' /\ RemovalInv' /\ DrainInv'
  BY <1>26 DEF SkipRemoved, CallbackInv, RemovalInv, DrainInv, NoCallbackAfterRemove
<1>27. ASSUME NEW t \in Threads, NEW s \in ListenerIds, EnterCallback(t, s)
      PROVE  CallbackInv' /\ RemovalInv' /\ DrainInv'
  <2>1. s \in ListenerIds /\ slot[t] = None /\ t \notin active_threads[s]
    BY <1>27 DEF EnterCallback, FramesOK, CallbackInv, ListenerIds
  <2>2. CallbackInv'
    <3>1. active_threads[s]' = active_threads[s] \cup {t} /\ active_callbacks[s]' = active_callbacks[s] + 1
      BY <1>27 DEF EnterCallback, ListenersOK
    <3>2. active_callbacks[s]' = Cardinality(active_threads[s]')
      BY <2>1, <3>1, CountFacts DEF ListenersOK, CallbackInv
    <3>3. ASSUME NEW x \in ListenerIds, NEW u \in Threads PROVE (u \in active_threads[x] <=> slot[u] = x)'
      <4>1. u \in active_threads[x] <=> slot[u] = x
        BY DEF CallbackInv
      <4>2. CASE u = t
        BY <1>27, <2>1, <4>1, <4>2 DEF EnterCallback, ListenersOK, FramesOK, ListenerIds
      <4>3. CASE u # t
        BY <1>27, <4>1, <4>3 DEF EnterCallback, ListenersOK, FramesOK
      <4> QED
        BY <4>2, <4>3
    <3>4. ASSUME NEW x \in ListenerIds PROVE active_callbacks'[x] = Cardinality(active_threads'[x])
      BY <1>27, <3>2 DEF EnterCallback, ListenersOK, CallbackInv
    <3> QED
      BY <3>3, <3>4 DEF CallbackInv
  <2>3. RemovalInv'
    BY <1>27 DEF EnterCallback, FramesOK, RemovalInv, NoCallbackAfterRemove
  <2>4. DrainInv'
    BY <1>27 DEF EnterCallback, FramesOK, DrainInv
  <2> QED
    BY <2>2, <2>3, <2>4
<1>28. ASSUME NEW t \in Threads, LeaveCallback(t)
      PROVE  CallbackInv' /\ RemovalInv' /\ DrainInv'
  <2> DEFINE s == slot[t]
  <2>1. s \in ListenerIds /\ t \in active_threads[s]
    BY <1>28 DEF LeaveCallback, FramesOK, CallbackInv
  <2>2. CallbackInv'
    <3>1. active_threads'[s] = active_threads[s] \ {t} /\ active_callbacks'[s] = active_callbacks[s] - 1
      BY <1>28, <2>1 DEF LeaveCallback, ListenersOK
    <3>2. active_callbacks'[s] = Cardinality(active_threads'[s])
      BY <2>1, <3>1, CountFacts DEF ListenersOK, CallbackInv
    <3> QED
      BY <1>28, <2>1, <3>2 DEF LeaveCallback, ListenersOK, FramesOK, CallbackInv, ListenerIds
  <2>3. RemovalInv'
    BY <1>28 DEF LeaveCallback, ListenersOK, FramesOK, RemovalInv, NoCallbackAfterRemove, ListenerIds
  <2>4. DrainInv'
    BY <1>28 DEF LeaveCallback, FramesOK, CallsOK, DrainInv, ListenerIds
  <2> QED
    BY <2>2, <2>3, <2>4
<1>29. ASSUME NEW t \in Threads, PushReturn(t)
      PROVE  CallbackInv' /\ RemovalInv' /\ DrainInv'
  BY <1>29 DEF PushReturn, CallbackInv, RemovalInv, DrainInv, NoCallbackAfterRemove
<1> QED
  BY NextCases, <1>0, <1>1, <1>2, <1>3, <1>4, <1>5, <1>6, <1>7, <1>8, <1>9, <1>10, <1>11, <1>12, <1>13, <1>14,
     <1>15, <1>16, <1>17, <1>18, <1>19, <1>20, <1>21, <1>22, <1>23, <1>24, <1>25, <1>26, <1>27, <1>28, <1>29

\* The callback handshake: after removeListener() has waited for a slot, and after shutdown()
\* has drained one, no other thread is inside that listener's callback, or will ever enter it.
THEOREM CallbackHandshake == Safe => [](NoCallbackAfterRemove /\ DisposeAfterCallbacks)
<1>1. Init => HandshakeInv
  <2>1. ASSUME Init PROVE CallbackInv
    BY <2>1, FS_EmptySet DEF Init, CallbackInv, ListenerIds
  <2>2. ASSUME Init PROVE TypeOK
    BY <2>2, InitTypeOK
  <2> QED
    BY <2>1, <2>2 DEF Init, HandshakeInv, RemovalInv, DrainInv, NoCallbackAfterRemove
<1> QED
  BY <1>1, TypeCorrect, HandshakeStep, HandshakeImplies, PTL DEF Safe

\* shutdown() disposes of the FFI, and takes the client back to the state before initialize(), only
\* when no callback that it has to wait for is running any more.
THEOREM DisposeQuiescent == Safe => []DisposeAfterCallbacks
  BY CallbackHandshake, PTL
-----------------------------------------------------------------------------
(***************************************************************************)
(* The promises.  A promise moves between the table, a thread that         *)
(* completes it, one that cancels it and one that shuts down; every move   *)
(* takes it from its one holder under lock_, so that there is always       *)
(* exactly one until it is satisfied.                                      *)
(***************************************************************************)
Completes(t, o) == to_complete[t] = o
Cancels(t, o) == call[t] = "set_cancelled" /\ arg[t] = o
Drains(t, o) == o \in to_cancel[t]

\* Only operations that were started are satisfied or held, and only while shutdown() is
\* cancelling does it hold any.
HeldStarted ==
  /\ \A o \in AsyncIds : o >= next_async_id => promise[o] = "unset"
  /\ \A t \in Threads, o \in AsyncIds : Completes(t, o) \/ Drains(t, o) => o < next_async_id
  /\ \A t \in Threads : to_cancel[t] # {} => call[t] = "cancel_all"

\* A party that holds an operation is the only one, and its promise is not satisfied.
HeldOnce ==
  /\ \A o \in pending_by_id :
       /\ promise[o] = "unset"
       /\ \A t \in Threads : ~Completes(t, o) /\ ~Cancels(t, o) /\ ~Drains(t, o)
  /\ \A t \in Threads, o \in AsyncIds :
       /\ Completes(t, o) => /\ promise[o] = "unset"
                             /\ \A u \in Threads : ~Cancels(u, o) /\ ~Drains(u, o) /\ (Completes(u, o) => u = t)
       /\ Cancels(t, o) => /\ promise[o] = "unset"
                           /\ \A u \in Threads : ~Drains(u, o) /\ (Cancels(u, o) => u = t)
       /\ Drains(t, o) => /\ promise[o] = "unset"
                          /\ \A u \in Threads : Drains(u, o) => u = t

\* An operation whose promise is not satisfied is held by somebody.
HeldAlways ==
  \A o \in AsyncIds :
    o < next_async_id /\ promise[o] = "unset" /\ o \notin pending_by_id =>
      \E t \in Threads : Completes(t, o) \/ Cancels(t, o) \/ Drains(t, o)

PromiseInv == TypeOK /\ HeldStarted /\ HeldOnce /\ HeldAlways

\* Before the first operation, nobody holds a promise.
LEMMA PromiseInit == Init => PromiseInv
  BY InitTypeOK, BoundsAssumption
     DEF Init, PromiseInv, HeldStarted, HeldOnce, HeldAlways, Completes, Cancels, Drains, AsyncIds

\* The invariant is inductive (its type part is TypeCorrect's).
LEMMA PromiseStep == PromiseInv /\ TypeOK' /\ [Next]_vars => PromiseInv'
<1> SUFFICES ASSUME PromiseInv, TypeOK', [Next]_vars PROVE HeldStarted' /\ HeldOnce' /\ HeldAlways'
  BY DEF PromiseInv
<1> USE FfiInThreads, BoundsAssumption
    DEF PromiseInv, TypeOK, AsyncIds, lifecycleVars, listenerVars, asyncVars, frameVars, callVars, Completes, Cancels, Drains
<1>0. CASE UNCHANGED vars
  BY <1>0 DEF vars, HeldStarted, HeldOnce, HeldAlways
<1>1. ASSUME NEW t \in Threads, InitializeClaim(t)
      PROVE  HeldStarted' /\ HeldOnce' /\ HeldAlways'
  BY <1>1 DEF InitializeClaim, MayCall, Goto, CallsOK, HeldStarted, HeldOnce, HeldAlways
<1>2. ASSUME NEW t \in Threads, InitializeStore(t)
      PROVE  HeldStarted' /\ HeldOnce' /\ HeldAlways'
  BY <1>2 DEF InitializeStore, Return, Goto, CallsOK, HeldStarted, HeldOnce, HeldAlways
<1>3. ASSUME NEW t \in Threads, AddListener(t)
      PROVE  HeldStarted' /\ HeldOnce' /\ HeldAlways'
  BY <1>3 DEF AddListener, MayCall, HeldStarted, HeldOnce, HeldAlways
<1>4. ASSUME NEW t \in Threads, NEW s \in ListenerIds, RemoveListenerMissing(t, s)
      PROVE  HeldStarted' /\ HeldOnce' /\ HeldAlways'
  BY <1>4 DEF RemoveListenerMissing, MayCall, HeldStarted, HeldOnce, HeldAlways
<1>5. ASSUME NEW t \in Threads, NEW s \in ListenerIds, RemoveListenerTake(t, s)
      PROVE  HeldStarted' /\ HeldOnce' /\ HeldAlways'
  BY <1>5 DEF RemoveListenerTake, MayCall, Goto, CallsOK, HeldStarted, HeldOnce, HeldAlways
<1>6. ASSUME NEW t \in Threads, RemoveListenerFinish(t)
      PROVE  HeldStarted' /\ HeldOnce' /\ HeldAlways'
  BY <1>6 DEF RemoveListenerFinish, Return, Goto, CallsOK, HeldStarted, HeldOnce, HeldAlways
<1>7. ASSUME NEW t \in Threads, RegisterAsync(t)
      PROVE  HeldStarted' /\ HeldOnce' /\ HeldAlways'
  <2>1. HeldStarted'
    BY <1>7 DEF RegisterAsync, MayCall, Goto, AsyncOK, FramesOK, CallsOK, AsyncCalls, HeldStarted, HeldOnce
  <2>2. HeldOnce'
    BY <1>7 DEF RegisterAsync, MayCall, Goto, AsyncOK, FramesOK, CallsOK, AsyncCalls, HeldStarted, HeldOnce
  <2>3. HeldAlways'
    BY <1>7 DEF RegisterAsync, MayCall, Goto, AsyncOK, FramesOK, CallsOK, AsyncCalls, HeldStarted, HeldOnce,
       HeldAlways
  <2> QED
    BY <2>1, <2>2, <2>3
<1>8. ASSUME NEW t \in Threads, SendRequestCheck(t)
      PROVE  HeldStarted' /\ HeldOnce' /\ HeldAlways'
  BY <1>8 DEF SendRequestCheck, Goto, CallsOK, HeldStarted, HeldOnce, HeldAlways
<1>9. ASSUME NEW t \in Threads, SendRequestAccepted(t)
      PROVE  HeldStarted' /\ HeldOnce' /\ HeldAlways'
  <2>1. HeldStarted'
    BY <1>9 DEF SendRequestAccepted, Return, Goto, AsyncOK, FramesOK, CallsOK, AsyncCalls, HeldStarted,
       HeldOnce
  <2>2. HeldOnce'
    BY <1>9 DEF SendRequestAccepted, Return, Goto, AsyncOK, FramesOK, CallsOK, AsyncCalls, HeldStarted,
       HeldOnce
  <2>3. HeldAlways'
    BY <1>9 DEF SendRequestAccepted, Return, Goto, AsyncOK, FramesOK, CallsOK, AsyncCalls, HeldStarted,
       HeldOnce, HeldAlways
  <2> QED
    BY <2>1, <2>2, <2>3
<1>10. ASSUME NEW t \in Threads, SendRequestFailed(t)
      PROVE  HeldStarted' /\ HeldOnce' /\ HeldAlways'
  BY <1>10 DEF SendRequestFailed, Goto, AsyncOK, CallsOK, HeldStarted, HeldOnce, HeldAlways
<1>11. ASSUME NEW t \in Threads, CancelPendingTake(t)
      PROVE  HeldStarted' /\ HeldOnce' /\ HeldAlways'
  <2>1. HeldStarted'
    BY <1>11 DEF CancelPendingTake, Goto, AsyncOK, FramesOK, CallsOK, AsyncCalls, HeldStarted, HeldOnce
  <2>2. HeldOnce'
    BY <1>11 DEF CancelPendingTake, Goto, AsyncOK, FramesOK, CallsOK, AsyncCalls, HeldStarted, HeldOnce
  <2>3. HeldAlways'
    BY <1>11 DEF CancelPendingTake, Goto, AsyncOK, FramesOK, CallsOK, AsyncCalls, HeldStarted, HeldOnce,
       HeldAlways
  <2> QED
    BY <2>1, <2>2, <2>3
<1>12. ASSUME NEW t \in Threads, CancelPendingMissing(t)
      PROVE  HeldStarted' /\ HeldOnce' /\ HeldAlways'
  BY <1>12 DEF CancelPendingMissing, Return, Goto, CallsOK, HeldStarted, HeldOnce, HeldAlways
<1>13. ASSUME NEW t \in Threads, CancelPendingSet(t)
      PROVE  HeldStarted' /\ HeldOnce' /\ HeldAlways'
  <2>1. HeldStarted'
    BY <1>13 DEF CancelPendingSet, Return, Cancel, Goto, AsyncOK, FramesOK, CallsOK, AsyncCalls, HeldStarted,
       HeldOnce
  <2>2. HeldOnce'
    BY <1>13 DEF CancelPendingSet, Return, Cancel, Goto, AsyncOK, FramesOK, CallsOK, AsyncCalls, HeldStarted,
       HeldOnce
  <2>3. HeldAlways'
    BY <1>13 DEF CancelPendingSet, Return, Cancel, Goto, AsyncOK, FramesOK, CallsOK, AsyncCalls, HeldStarted,
       HeldOnce, HeldAlways
  <2> QED
    BY <2>1, <2>2, <2>3
<1>14. ASSUME NEW t \in Threads, ShutdownClaim(t)
      PROVE  HeldStarted' /\ HeldOnce' /\ HeldAlways'
  BY <1>14 DEF ShutdownClaim, MayCall, Goto, CallsOK, HeldStarted, HeldOnce, HeldAlways
<1>15. ASSUME NEW t \in Threads, ShutdownDrain(t)
      PROVE  HeldStarted' /\ HeldOnce' /\ HeldAlways'
  <2>1. HeldStarted'
    BY <1>15 DEF ShutdownDrain, Goto, AsyncOK, FramesOK, CallsOK, AsyncCalls, HeldStarted, HeldOnce
  <2>2. HeldOnce'
    BY <1>15 DEF ShutdownDrain, Goto, AsyncOK, FramesOK, CallsOK, AsyncCalls, HeldStarted, HeldOnce
  <2>3. HeldAlways'
    <3> SUFFICES ASSUME NEW o \in AsyncIds, o < next_async_id, promise[o] = "unset"
                 PROVE  \E u \in Threads : (Completes(u, o) \/ Cancels(u, o) \/ Drains(u, o))'
      BY <1>15 DEF ShutdownDrain, HeldAlways
    <3>1. CASE o \in pending_by_id
      BY <1>15, <3>1 DEF ShutdownDrain, CallsOK
    <3>2. CASE o \notin pending_by_id
      <4>1. PICK u \in Threads : Completes(u, o) \/ Cancels(u, o) \/ Drains(u, o)
        BY <3>2 DEF HeldAlways
      <4>2. ~Drains(t, o) /\ ~Cancels(t, o)
        BY <1>15 DEF ShutdownDrain, HeldStarted
      <4>3. (Completes(u, o) \/ Cancels(u, o) \/ Drains(u, o))'
        BY <1>15, <4>1, <4>2 DEF ShutdownDrain, Goto, CallsOK
      <4> QED
        BY <4>3
    <3> QED
      BY <3>1, <3>2
  <2> QED
    BY <2>1, <2>2, <2>3
<1>16. ASSUME NEW t \in Threads, NEW o \in AsyncIds, ShutdownCancel(t, o)
      PROVE  HeldStarted' /\ HeldOnce' /\ HeldAlways'
  <2>1. HeldStarted'
    BY <1>16 DEF ShutdownCancel, Cancel, AsyncOK, FramesOK, CallsOK, AsyncCalls, HeldStarted, HeldOnce
  <2>2. HeldOnce'
    BY <1>16 DEF ShutdownCancel, Cancel, AsyncOK, FramesOK, CallsOK, AsyncCalls, HeldStarted, HeldOnce
  <2>3. HeldAlways'
    BY <1>16 DEF ShutdownCancel, Cancel, AsyncOK, FramesOK, CallsOK, AsyncCalls, HeldStarted, HeldOnce,
       HeldAlways
  <2> QED
    BY <2>1, <2>2, <2>3
<1>17. ASSUME NEW t \in Threads, ShutdownCancelled(t)
      PROVE  HeldStarted' /\ HeldOnce' /\ HeldAlways'
  BY <1>17 DEF ShutdownCancelled, Goto, CallsOK, HeldStarted, HeldOnce, HeldAlways
<1>18. ASSUME NEW t \in Threads, NEW s \in ListenerIds, ShutdownWait(t, s)
      PROVE  HeldStarted' /\ HeldOnce' /\ HeldAlways'
  BY <1>18 DEF ShutdownWait, CallsOK, HeldStarted, HeldOnce, HeldAlways
<1>19. ASSUME NEW t \in Threads, ShutdownDrained(t)
      PROVE  HeldStarted' /\ HeldOnce' /\ HeldAlways'
  BY <1>19 DEF ShutdownDrained, Goto, CallsOK, HeldStarted, HeldOnce, HeldAlways
<1>20. ASSUME NEW t \in Threads, ShutdownDispose(t)
      PROVE  HeldStarted' /\ HeldOnce' /\ HeldAlways'
  BY <1>20 DEF ShutdownDispose, Goto, CallsOK, HeldStarted, HeldOnce, HeldAlways
<1>21. ASSUME NEW t \in Threads, ShutdownStore(t)
      PROVE  HeldStarted' /\ HeldOnce' /\ HeldAlways'
  BY <1>21 DEF ShutdownStore, Return, Goto, CallsOK, HeldStarted, HeldOnce, HeldAlways
<1>22. ASSUME NEW t \in FfiThreads, PushNotification(t)
      PROVE  HeldStarted' /\ HeldOnce' /\ HeldAlways'
  BY <1>22 DEF PushNotification, MayPush, FramesOK, HeldStarted, HeldOnce, HeldAlways
<1>23. ASSUME NEW t \in FfiThreads, NEW o \in AsyncIds, NEW a \in Answers, PushAnswer(t, o, a)
      PROVE  HeldStarted' /\ HeldOnce' /\ HeldAlways'
  <2>1. HeldStarted'
    BY <1>23 DEF PushAnswer, MayPush, AsyncOK, FramesOK, CallsOK, AsyncCalls, HeldStarted, HeldOnce
  <2>2. HeldOnce'
    BY <1>23 DEF PushAnswer, MayPush, AsyncOK, FramesOK, CallsOK, AsyncCalls, HeldStarted, HeldOnce
  <2>3. HeldAlways'
    <3> SUFFICES ASSUME NEW p \in AsyncIds, p < next_async_id, promise[p] = "unset", p \notin pending_by_id'
                 PROVE  \E u \in Threads : (Completes(u, p) \/ Cancels(u, p) \/ Drains(u, p))'
      BY <1>23 DEF PushAnswer, HeldAlways
    <3>1. t \in Threads
      OBVIOUS
    <3>2. to_complete[t] = 0 /\ to_complete \in [Threads -> AsyncIds \cup {0}]
      BY <1>23, <3>1 DEF PushAnswer, MayPush, FramesOK
    <3>3. call' = call /\ arg' = arg /\ to_cancel' = to_cancel
      BY <1>23 DEF PushAnswer
    <3>4. CASE p \in pending_by_id
      <4>1. to_complete'[t] = p
        BY <1>23, <3>1, <3>2, <3>4 DEF PushAnswer
      <4> QED
        BY <3>1, <4>1
    <3>5. CASE p \notin pending_by_id
      <4>1. PICK u \in Threads : Completes(u, p) \/ Cancels(u, p) \/ Drains(u, p)
        BY <3>5 DEF HeldAlways
      <4>2. CASE Completes(u, p)
        <5>1. u # t
          BY <3>2, <4>2
        <5>2. to_complete'[u] = p
          BY <1>23, <3>1, <3>2, <4>2, <5>1 DEF PushAnswer
        <5> QED
          BY <5>2
      <4>3. CASE Cancels(u, p) \/ Drains(u, p)
        BY <3>3, <4>3
      <4> QED
        BY <4>1, <4>2, <4>3
    <3> QED
      BY <3>4, <3>5
  <2> QED
    BY <2>1, <2>2, <2>3
<1>24. ASSUME NEW t \in FfiThreads, NEW o \in AsyncIds, PushDropped(t, o)
      PROVE  HeldStarted' /\ HeldOnce' /\ HeldAlways'
  BY <1>24 DEF PushDropped, MayPush, AsyncOK, HeldStarted, HeldOnce, HeldAlways
<1>25. ASSUME NEW t \in Threads, CompletePending(t)
      PROVE  HeldStarted' /\ HeldOnce' /\ HeldAlways'
  <2>1. HeldStarted'
    BY <1>25 DEF CompletePending, HandlerResult, AsyncOK, FramesOK, CallsOK, AsyncCalls, HeldStarted, HeldOnce
  <2>2. HeldOnce'
    BY <1>25 DEF CompletePending, HandlerResult, AsyncOK, FramesOK, CallsOK, AsyncCalls, HeldStarted, HeldOnce
  <2>3. HeldAlways'
    BY <1>25 DEF CompletePending, HandlerResult, AsyncOK, FramesOK, CallsOK, AsyncCalls, HeldStarted,
       HeldOnce, HeldAlways
  <2> QED
    BY <2>1, <2>2, <2>3
<1>26. ASSUME NEW t \in Threads, NEW s \in ListenerIds, SkipRemoved(t, s)
      PROVE  HeldStarted' /\ HeldOnce' /\ HeldAlways'
  BY <1>26 DEF SkipRemoved, FramesOK, HeldStarted, HeldOnce, HeldAlways
<1>27. ASSUME NEW t \in Threads, NEW s \in ListenerIds, EnterCallback(t, s)
      PROVE  HeldStarted' /\ HeldOnce' /\ HeldAlways'
  BY <1>27 DEF EnterCallback, FramesOK, HeldStarted, HeldOnce, HeldAlways
<1>28. ASSUME NEW t \in Threads, LeaveCallback(t)
      PROVE  HeldStarted' /\ HeldOnce' /\ HeldAlways'
  BY <1>28 DEF LeaveCallback, FramesOK, HeldStarted, HeldOnce, HeldAlways
<1>29. ASSUME NEW t \in Threads, PushReturn(t)
      PROVE  HeldStarted' /\ HeldOnce' /\ HeldAlways'
  BY <1>29 DEF PushReturn, FramesOK, HeldStarted, HeldOnce, HeldAlways
<1> QED
  BY NextCases, <1>0, <1>1, <1>2, <1>3, <1>4, <1>5, <1>6, <1>7, <1>8, <1>9, <1>10, <1>11, <1>12, <1>13, <1>14,
     <1>15, <1>16, <1>17, <1>18, <1>19, <1>20, <1>21, <1>22, <1>23, <1>24, <1>25, <1>26, <1>27, <1>28, <1>29

\* The invariant gives the property: each of its holders is a party of Holders, and there is one.
LEMMA PromiseImplies == PromiseInv => PromiseOwnedOnce
<1> SUFFICES ASSUME PromiseInv, NEW o \in 1 .. next_async_id - 1
             PROVE  /\ promise[o] # "unset" <=> Holders(o) = {}
                    /\ \A h, k \in Holders(o) : h = k
  BY DEF PromiseOwnedOnce
<1>1. o \in AsyncIds /\ o < next_async_id
  BY BoundsAssumption DEF PromiseInv, TypeOK, AsyncOK, AsyncIds
<1>2. \A h : h \in Holders(o) <=>
               \/ h = <<"table", None>> /\ o \in pending_by_id
               \/ \E t \in Threads : h = <<"complete", t>> /\ Completes(t, o)
               \/ \E t \in Threads : h = <<"cancel", t>> /\ Cancels(t, o)
               \/ \E t \in Threads : h = <<"shutdown", t>> /\ Drains(t, o)
  BY Zenon DEF Holders, Completes, Cancels, Drains
<1>3. promise[o] # "unset" => Holders(o) = {}
  BY <1>1, <1>2 DEF PromiseInv, HeldOnce
<1>4. promise[o] = "unset" => Holders(o) # {}
  BY <1>1, <1>2 DEF PromiseInv, HeldAlways
<1>5. ASSUME NEW h \in Holders(o), NEW k \in Holders(o) PROVE h = k
  BY <1>1, <1>2 DEF PromiseInv, HeldOnce
<1> QED
  BY <1>3, <1>4, <1>5

\* Every promise is satisfied exactly once, whatever the order of answers, failed requests and
\* shutdowns.
THEOREM PromisesOwned == Safe => []PromiseOwnedOnce
  BY PromiseInit, PromiseStep, PromiseImplies, TypeCorrect, PTL DEF Safe
-----------------------------------------------------------------------------
(***************************************************************************)
(* Refinement.  Registering an operation starts it, satisfying its promise *)
(* satisfies it, and every other step leaves the abstract state alone.     *)
(***************************************************************************)

\* A step that starts no operation and changes no promise does not change the abstract state.
LEMMA StatusUnchanged ==
  ASSUME UNCHANGED <<promise, next_async_id>> PROVE UNCHANGED OperationStatus
  BY DEF OperationStatus

\* Satisfying the promise of one operation that is started and waiting is an abstract Satisfy.
LEMMA StatusSatisfied ==
  ASSUME TypeOK, NEW o \in AsyncIds, o < next_async_id, promise[o] = "unset",
         NEW r \in Promises \ {"unset"}, promise' = [promise EXCEPT ![o] = r], UNCHANGED next_async_id
  PROVE  Abstract!Next
<1>1. OperationStatus[o] = "waiting"
  BY DEF OperationStatus, TypeOK, AsyncOK, AsyncIds
<1>2. OperationStatus' = [OperationStatus EXCEPT ![o] = r]
  <2>1. \A x \in AsyncIds : promise'[x] = IF x = o THEN r ELSE promise[x]
    BY DEF TypeOK, AsyncOK
  <2>2. ~(o >= next_async_id) /\ r # "unset"
    BY DEF TypeOK, AsyncOK, AsyncIds
  <2> QED
    BY <2>1, <2>2 DEF OperationStatus
<1> QED
  BY <1>1, <1>2 DEF Abstract!Next, Abstract!Satisfy

\* Every step of the client is a step of the abstract operations.
LEMMA RefinementStep == PromiseInv /\ [Next]_vars => [Abstract!Next]_OperationStatus
<1> SUFFICES ASSUME PromiseInv, [Next]_vars PROVE Abstract!Next \/ UNCHANGED OperationStatus
  OBVIOUS
<1> USE FfiInThreads DEF lifecycleVars, listenerVars, asyncVars, frameVars, callVars
<1>0. CASE UNCHANGED vars
  BY <1>0, StatusUnchanged DEF vars
<1>1. ASSUME NEW t \in Threads, RegisterAsync(t) PROVE Abstract!Next
  <2> DEFINE o == next_async_id
  <2>1. o \in AsyncIds /\ promise[o] = "unset"
    BY <1>1, BoundsAssumption DEF RegisterAsync, PromiseInv, HeldStarted, TypeOK, AsyncOK, AsyncIds
  <2>2. OperationStatus[o] = "unused"
    BY <2>1 DEF OperationStatus, PromiseInv, TypeOK, AsyncOK, AsyncIds
  <2>3. OperationStatus' = [OperationStatus EXCEPT ![o] = "waiting"]
    <3>1. \A x \in AsyncIds : x >= o + 1 <=> x >= o /\ x # o
      BY <2>1 DEF AsyncIds
    <3>2. promise' = promise /\ next_async_id' = o + 1
      BY <1>1 DEF RegisterAsync
    <3> QED
      BY <2>1, <3>1, <3>2 DEF OperationStatus
  <2> QED
    BY <2>1, <2>2, <2>3 DEF Abstract!Next, Abstract!Start
<1>2. ASSUME NEW t \in Threads, CancelPendingSet(t) PROVE Abstract!Next
  <2>1. arg[t] \in AsyncIds /\ arg[t] < next_async_id /\ promise[arg[t]] = "unset"
    BY <1>2 DEF CancelPendingSet, PromiseInv, TypeOK, CallsOK, AsyncCalls, HeldOnce, Cancels
  <2>2. promise' = [promise EXCEPT ![arg[t]] = "cancelled"] /\ UNCHANGED next_async_id
    BY <1>2, <2>1 DEF CancelPendingSet, Cancel
  <2> QED
    BY <2>1, <2>2, StatusSatisfied DEF PromiseInv, Promises
<1>3. ASSUME NEW t \in Threads, NEW o \in AsyncIds, ShutdownCancel(t, o) PROVE Abstract!Next
  <2>1. o < next_async_id /\ promise[o] = "unset"
    BY <1>3 DEF ShutdownCancel, PromiseInv, HeldStarted, HeldOnce, Drains
  <2>2. promise' = [promise EXCEPT ![o] = "cancelled"] /\ UNCHANGED next_async_id
    BY <1>3, <2>1 DEF ShutdownCancel, Cancel
  <2> QED
    BY <2>1, <2>2, StatusSatisfied DEF PromiseInv, Promises
<1>4. ASSUME NEW t \in Threads, CompletePending(t) PROVE Abstract!Next
  <2> DEFINE o == to_complete[t]
  <2>1. o \in AsyncIds /\ o < next_async_id /\ promise[o] = "unset"
    BY <1>4 DEF CompletePending, PromiseInv, TypeOK, FramesOK, HeldStarted, HeldOnce, Completes
  <2>2. promise' = [promise EXCEPT ![o] = HandlerResult(o, answer[t])] /\ UNCHANGED next_async_id
    BY <1>4 DEF CompletePending
  <2>3. HandlerResult(o, answer[t]) \in Promises \ {"unset"}
    BY DEF HandlerResult, Promises
  <2> QED
    BY <2>1, <2>2, <2>3, StatusSatisfied DEF PromiseInv
<1>5. ASSUME NEW t \in Threads, InitializeClaim(t) PROVE UNCHANGED OperationStatus
  BY <1>5, StatusUnchanged DEF InitializeClaim
<1>6. ASSUME NEW t \in Threads, InitializeStore(t) PROVE UNCHANGED OperationStatus
  BY <1>6, StatusUnchanged DEF InitializeStore
<1>7. ASSUME NEW t \in Threads, AddListener(t) PROVE UNCHANGED OperationStatus
  BY <1>7, StatusUnchanged DEF AddListener
<1>8. ASSUME NEW t \in Threads, NEW s \in ListenerIds, RemoveListenerMissing(t, s) PROVE UNCHANGED OperationStatus
  BY <1>8, StatusUnchanged DEF RemoveListenerMissing
<1>9. ASSUME NEW t \in Threads, NEW s \in ListenerIds, RemoveListenerTake(t, s) PROVE UNCHANGED OperationStatus
  BY <1>9, StatusUnchanged DEF RemoveListenerTake
<1>10. ASSUME NEW t \in Threads, RemoveListenerFinish(t) PROVE UNCHANGED OperationStatus
  BY <1>10, StatusUnchanged DEF RemoveListenerFinish
<1>11. ASSUME NEW t \in Threads, SendRequestCheck(t) PROVE UNCHANGED OperationStatus
  BY <1>11, StatusUnchanged DEF SendRequestCheck
<1>12. ASSUME NEW t \in Threads, SendRequestAccepted(t) PROVE UNCHANGED OperationStatus
  BY <1>12, StatusUnchanged DEF SendRequestAccepted
<1>13. ASSUME NEW t \in Threads, SendRequestFailed(t) PROVE UNCHANGED OperationStatus
  BY <1>13, StatusUnchanged DEF SendRequestFailed
<1>14. ASSUME NEW t \in Threads, CancelPendingTake(t) PROVE UNCHANGED OperationStatus
  BY <1>14, StatusUnchanged DEF CancelPendingTake
<1>15. ASSUME NEW t \in Threads, CancelPendingMissing(t) PROVE UNCHANGED OperationStatus
  BY <1>15, StatusUnchanged DEF CancelPendingMissing
<1>16. ASSUME NEW t \in Threads, ShutdownClaim(t) PROVE UNCHANGED OperationStatus
  BY <1>16, StatusUnchanged DEF ShutdownClaim
<1>17. ASSUME NEW t \in Threads, ShutdownDrain(t) PROVE UNCHANGED OperationStatus
  BY <1>17, StatusUnchanged DEF ShutdownDrain
<1>18. ASSUME NEW t \in Threads, ShutdownCancelled(t) PROVE UNCHANGED OperationStatus
  BY <1>18, StatusUnchanged DEF ShutdownCancelled
<1>19. ASSUME NEW t \in Threads, NEW s \in ListenerIds, ShutdownWait(t, s) PROVE UNCHANGED OperationStatus
  BY <1>19, StatusUnchanged DEF ShutdownWait
<1>20. ASSUME NEW t \in Threads, ShutdownDrained(t) PROVE UNCHANGED OperationStatus
  BY <1>20, StatusUnchanged DEF ShutdownDrained
<1>21. ASSUME NEW t \in Threads, ShutdownDispose(t) PROVE UNCHANGED OperationStatus
  BY <1>21, StatusUnchanged DEF ShutdownDispose
<1>22. ASSUME NEW t \in Threads, ShutdownStore(t) PROVE UNCHANGED OperationStatus
  BY <1>22, StatusUnchanged DEF ShutdownStore
<1>23. ASSUME NEW t \in FfiThreads, PushNotification(t) PROVE UNCHANGED OperationStatus
  BY <1>23, StatusUnchanged DEF PushNotification
<1>24. ASSUME NEW t \in FfiThreads, NEW o \in AsyncIds, NEW a \in Answers, PushAnswer(t, o, a) PROVE UNCHANGED OperationStatus
  BY <1>24, StatusUnchanged DEF PushAnswer
<1>25. ASSUME NEW t \in FfiThreads, NEW o \in AsyncIds, PushDropped(t, o) PROVE UNCHANGED OperationStatus
  BY <1>25, StatusUnchanged DEF PushDropped
<1>26. ASSUME NEW t \in Threads, NEW s \in ListenerIds, SkipRemoved(t, s) PROVE UNCHANGED OperationStatus
  BY <1>26, StatusUnchanged DEF SkipRemoved
<1>27. ASSUME NEW t \in Threads, NEW s \in ListenerIds, EnterCallback(t, s) PROVE UNCHANGED OperationStatus
  BY <1>27, StatusUnchanged DEF EnterCallback
<1>28. ASSUME NEW t \in Threads, LeaveCallback(t) PROVE UNCHANGED OperationStatus
  BY <1>28, StatusUnchanged DEF LeaveCallback
<1>29. ASSUME NEW t \in Threads, PushReturn(t) PROVE UNCHANGED OperationStatus
  BY <1>29, StatusUnchanged DEF PushReturn
<1> QED
  BY NextCases, <1>0, <1>1, <1>2, <1>3, <1>4, <1>5, <1>6, <1>7, <1>8, <1>9, <1>10, <1>11, <1>12, <1>13, <1>14,
     <1>15, <1>16, <1>17, <1>18, <1>19, <1>20, <1>21, <1>22, <1>23, <1>24, <1>25, <1>26, <1>27, <1>28, <1>29

\* The client implements the abstract asynchronous operations.
THEOREM AsyncRefinement == Safe => ImplementsAsyncOperations
<1>1. Init => Abstract!Init
  BY BoundsAssumption DEF Init, Abstract!Init, OperationStatus, AsyncIds
<1> QED
  BY <1>1, PromiseInit, PromiseStep, RefinementStep, TypeCorrect, PTL DEF Safe, ImplementsAsyncOperations, Abstract!Spec

\* The event that answers a request is of a case in which ExtractAsyncId looks for the id, for
\* each of the methods: no future waits for an event that pushEvent would only forward.
LEMMA AnswersExtracted == \A a \in AsyncApis : a.callback \in ExtractAsyncId
  BY DEF AsyncApis, ExtractAsyncId, connectAsync, disconnectAsync, getTrackStatsAsync, getSessionStatsAsync,
     publishTrackAsync, unpublishTrackAsync, publishDataAsync, publishDataTrackAsync, publishSipDtmfAsync,
     setLocalMetadataAsync, captureAudioFrameAsync, performRpcAsync, sendStreamHeaderAsync, sendStreamChunkAsync,
     sendStreamTrailerAsync, defineSchemaAsync, getSchemaAsync

-----------------------------------------------------------------------------
(***************************************************************************)
(* The lifecycle.  lifecycle_state_ is ShuttingDown exactly while one      *)
(* thread is in shutdown(), and addListener() refuses in that state.       *)
(***************************************************************************)
LifecycleInv ==
  /\ \A t \in Threads : call[t] \in ShutdownCalls => lifecycle_state = "ShuttingDown"
  /\ \A t \in Threads : call[t] = "initialize" => lifecycle_state = "Initializing"
  /\ \A t, u \in Threads : call[t] \in ShutdownCalls /\ call[u] \in ShutdownCalls => t = u
  /\ \A t, u \in Threads : call[t] = "initialize" /\ call[u] = "initialize" => t = u
  /\ NoListenerDuringShutdown

\* The invariant is inductive: only the thread that claimed a shutdown moves it on.
LEMMA LifecycleStep == LifecycleInv /\ TypeOK /\ [Next]_vars => LifecycleInv'
<1> SUFFICES ASSUME LifecycleInv, TypeOK, [Next]_vars PROVE LifecycleInv'
  OBVIOUS
<1> USE FfiInThreads
    DEF TypeOK, CallsOK, LifecycleInv, NoListenerDuringShutdown, ShutdownCalls, lifecycleVars, listenerVars, asyncVars,
        frameVars, callVars
<1>0. CASE UNCHANGED vars
  BY <1>0 DEF vars
<1>1. ASSUME NEW t \in Threads, InitializeClaim(t) PROVE LifecycleInv'
  BY <1>1 DEF InitializeClaim, MayCall, Goto
<1>2. ASSUME NEW t \in Threads, InitializeStore(t) PROVE LifecycleInv'
  BY <1>2 DEF InitializeStore, Return, Goto
<1>3. ASSUME NEW t \in Threads, AddListener(t) PROVE LifecycleInv'
  BY <1>3 DEF AddListener, MayCall
<1>4. ASSUME NEW t \in Threads, NEW s \in ListenerIds, RemoveListenerMissing(t, s) PROVE LifecycleInv'
  BY <1>4 DEF RemoveListenerMissing, MayCall
<1>5. ASSUME NEW t \in Threads, NEW s \in ListenerIds, RemoveListenerTake(t, s) PROVE LifecycleInv'
  BY <1>5 DEF RemoveListenerTake, MayCall, Goto
<1>6. ASSUME NEW t \in Threads, RemoveListenerFinish(t) PROVE LifecycleInv'
  BY <1>6 DEF RemoveListenerFinish, Return, Goto
<1>7. ASSUME NEW t \in Threads, RegisterAsync(t) PROVE LifecycleInv'
  BY <1>7 DEF RegisterAsync, MayCall, Goto
<1>8. ASSUME NEW t \in Threads, SendRequestCheck(t) PROVE LifecycleInv'
  BY <1>8 DEF SendRequestCheck, Goto
<1>9. ASSUME NEW t \in Threads, SendRequestAccepted(t) PROVE LifecycleInv'
  BY <1>9 DEF SendRequestAccepted, Return, Goto
<1>10. ASSUME NEW t \in Threads, SendRequestFailed(t) PROVE LifecycleInv'
  BY <1>10 DEF SendRequestFailed, Goto
<1>11. ASSUME NEW t \in Threads, CancelPendingTake(t) PROVE LifecycleInv'
  BY <1>11 DEF CancelPendingTake, Goto
<1>12. ASSUME NEW t \in Threads, CancelPendingMissing(t) PROVE LifecycleInv'
  BY <1>12 DEF CancelPendingMissing, Return, Goto
<1>13. ASSUME NEW t \in Threads, CancelPendingSet(t) PROVE LifecycleInv'
  BY <1>13 DEF CancelPendingSet, Return, Goto
<1>14. ASSUME NEW t \in Threads, ShutdownClaim(t) PROVE LifecycleInv'
  BY <1>14 DEF ShutdownClaim, MayCall, Goto
<1>15. ASSUME NEW t \in Threads, ShutdownDrain(t) PROVE LifecycleInv'
  BY <1>15 DEF ShutdownDrain, Goto
<1>16. ASSUME NEW t \in Threads, NEW o \in AsyncIds, ShutdownCancel(t, o) PROVE LifecycleInv'
  BY <1>16 DEF ShutdownCancel
<1>17. ASSUME NEW t \in Threads, ShutdownCancelled(t) PROVE LifecycleInv'
  BY <1>17 DEF ShutdownCancelled, Goto
<1>18. ASSUME NEW t \in Threads, NEW s \in ListenerIds, ShutdownWait(t, s) PROVE LifecycleInv'
  BY <1>18 DEF ShutdownWait
<1>19. ASSUME NEW t \in Threads, ShutdownDrained(t) PROVE LifecycleInv'
  BY <1>19 DEF ShutdownDrained, Goto
<1>20. ASSUME NEW t \in Threads, ShutdownDispose(t) PROVE LifecycleInv'
  BY <1>20 DEF ShutdownDispose, Goto
<1>21. ASSUME NEW t \in Threads, ShutdownStore(t) PROVE LifecycleInv'
  BY <1>21 DEF ShutdownStore, Return, Goto
<1>22. ASSUME NEW t \in FfiThreads, PushNotification(t) PROVE LifecycleInv'
  BY <1>22 DEF PushNotification
<1>23. ASSUME NEW t \in FfiThreads, NEW o \in AsyncIds, NEW a \in Answers, PushAnswer(t, o, a) PROVE LifecycleInv'
  BY <1>23 DEF PushAnswer
<1>24. ASSUME NEW t \in FfiThreads, NEW o \in AsyncIds, PushDropped(t, o) PROVE LifecycleInv'
  BY <1>24 DEF PushDropped
<1>25. ASSUME NEW t \in Threads, CompletePending(t) PROVE LifecycleInv'
  BY <1>25 DEF CompletePending
<1>26. ASSUME NEW t \in Threads, NEW s \in ListenerIds, SkipRemoved(t, s) PROVE LifecycleInv'
  BY <1>26 DEF SkipRemoved
<1>27. ASSUME NEW t \in Threads, NEW s \in ListenerIds, EnterCallback(t, s) PROVE LifecycleInv'
  BY <1>27 DEF EnterCallback
<1>28. ASSUME NEW t \in Threads, LeaveCallback(t) PROVE LifecycleInv'
  BY <1>28 DEF LeaveCallback
<1>29. ASSUME NEW t \in Threads, PushReturn(t) PROVE LifecycleInv'
  BY <1>29 DEF PushReturn
<1> QED
  BY NextCases, <1>0, <1>1, <1>2, <1>3, <1>4, <1>5, <1>6, <1>7, <1>8, <1>9, <1>10, <1>11, <1>12, <1>13, <1>14,
     <1>15, <1>16, <1>17, <1>18, <1>19, <1>20, <1>21, <1>22, <1>23, <1>24, <1>25, <1>26, <1>27, <1>28, <1>29

\* At most one shutdown is in progress, and no listener is registered while it drains: every
\* listener of the old session is drained and none of the next is lost.
THEOREM ShutdownExclusive == Safe => []NoListenerDuringShutdown
<1>1. Init => LifecycleInv
  BY DEF Init, LifecycleInv, NoListenerDuringShutdown, ShutdownCalls
<1>2. LifecycleInv => NoListenerDuringShutdown
  BY DEF LifecycleInv
<1> QED
  BY <1>1, <1>2, LifecycleStep, TypeCorrect, PTL DEF Safe
=============================================================================
