SPECIFICATION Spec
CONSTANTS
  Events = {e1}
  Workers = {w1, w2}
  Ids = {w1, w2}
  Id <- HostIds
  NoId = NoId
  MaxAttempts = 3
  Concurrency = 1
  MaxDisruptions = 1
INVARIANTS
  OnlyOneClaims
CHECK_DEADLOCK FALSE
