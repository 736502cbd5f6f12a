SPECIFICATION MCSpec
CONSTANTS
  Parts = {"media", "data"}
  Callers = {c1, c2}
  Keys = {k1, k2}
  Sids = {s1, s2}
  Kinds = {"audio", "video"}
  MaxCallbacks = 2
  DataIds <- MCDataIds
  kMaxActiveReaders = 1
  MaxStarts = 2
INVARIANTS ReaderOwnedOnce ReadersServeCallbacks StopAllQuiescent
PROPERTY MediaCallsReturn
CHECK_DEADLOCK FALSE
