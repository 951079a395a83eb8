SPECIFICATION FairSpec
CONSTANTS
  Events = {e1}
  Workers = {w1, w2}
  Ids = {w1, w2}
  Id <- OwnIds
  NoId = NoId
  MaxAttempts = 2
  Concurrency = 1
  MaxDisruptions = 2
PROPERTIES
  ExhaustedIsDeadLettered
CHECK_DEADLOCK FALSE
