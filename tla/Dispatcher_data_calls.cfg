SPECIFICATION MCSpec
CONSTANTS
  Parts = {"data"}
  Callers = {c1}
  Keys = {k1}
  Sids = {s1}
  Kinds = {}
  MaxCallbacks = 1
  DataIds <- MCDataIds
  kMaxActiveReaders = 1
  MaxStarts = 1
PROPERTY CallsReturn
CHECK_DEADLOCK FALSE
