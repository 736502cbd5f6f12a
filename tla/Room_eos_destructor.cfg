SPECIFICATION Safe
CONSTANTS
  AppThreads = {a1, a2}
  FfiThreads = {f1}
  DirtyReconnect = FALSE
  MaxConnects = 2
SYMMETRY MCSymmetry
CHECK_DEADLOCK FALSE
INVARIANT DestructorWaitsForEvents
