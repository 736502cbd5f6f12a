SPECIFICATION Spec
CONSTANTS
  AppThreads = {a1, a2}
  FfiThreads = {f1}
  Apis <- MCTwoStyles
  CrossRemoval = FALSE
  MaxListeners = 1
  MaxOps = 1
  MaxSessions = 2
CHECK_DEADLOCK FALSE
INVARIANTS TypeOK PromiseOwnedOnce NoCallbackAfterRemove DisposeAfterCallbacks NoListenerDuringShutdown
PROPERTIES ImplementsAsyncOperations FuturesResolve CallsReturn
