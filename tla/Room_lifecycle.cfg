SPECIFICATION Spec
CONSTANTS
  AppThreads = {a1, a2}
  FfiThreads = {f1}
  DirtyReconnect = FALSE
  MaxConnects = 2
CHECK_DEADLOCK FALSE
INVARIANTS ListenersOwned NotifiedOnce RpcPointerValid OnlyEosOutlivesRoom
PROPERTY CallsReturn
