SPECIFICATION MCSpec
CONSTANTS
  Identities = {p1}
  Local = me
  Sids = {s1}
  LocalSid = mine
  UnknownSource = {s1}
  MaxJoins = 1
  Callers = {c1}
  Texts <- MCTexts
  kStreamChunkSize = 3
  MaxWrites = 1
  MaxHeaders = 1
CHECK_DEADLOCK FALSE
INVARIANT CodePointsWhole
