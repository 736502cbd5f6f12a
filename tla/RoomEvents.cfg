SPECIFICATION MCSpec
CONSTANTS
  Identities = {p1}
  Local = me
  Sids = {s1, s2}
  LocalSid = mine
  UnknownSource = {s2}
  MaxJoins = 2
  Callers = {c1, c2}
  Texts <- MCTexts
  kStreamChunkSize = 3
  MaxWrites = 2
  MaxHeaders = 2
CHECK_DEADLOCK FALSE
INVARIANTS RoomMirrorsRust PointersValid DispatcherInformed StreamWellFormed PiecesWellCut StreamsComplete
PROPERTY StreamsEnd
