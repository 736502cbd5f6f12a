SPECIFICATION MCSpec
CONSTANTS
  Parts = {"tracer"}
  Closers = {c1, c2}
  Errors = {"unpublished", "internal"}
  MaxFrames = 3
  FetchCalls = {f1, f2}
  OptionsSet <- MCOptions
  Timeout = 0
  MaxClock = 2
  MaxInvalidations = 1
  TracingThreads = {t1}
  Categories = {"livekit"}
  Wildcard <- MCWildcard
  MaxSessions = 2
  MaxEvents = 3
  Methods = {m1}
  RpcCallers = {a1, a2}
  MaxInvocations = 2
  MaxRegistrations = 2
  LocalTrackSet = {1}
  PublishAgain = FALSE
  MaxPublications = 2
  MaxMutes = 1
CHECK_DEADLOCK FALSE
INVARIANT EnabledCategoriesTraced
