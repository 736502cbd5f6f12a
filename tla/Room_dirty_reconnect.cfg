SPECIFICATION Safe
CONSTANTS
  AppThreads = {a1}
  FfiThreads = {f1}
  DirtyReconnect = TRUE
  MaxConnects = 2
CHECK_DEADLOCK FALSE
INVARIANT DestructorUnregisters
