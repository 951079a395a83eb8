SPECIFICATION Spec
CONSTANTS
  Events = {e1, e2}
  Workers = {w1, w2}
  Ids = {w1, w2}
  Id <- OwnIds
  NoId = NoId
  MaxAttempts = 3
  Concurrency = 1
  MaxDisruptions = 2
SYMMETRY Symmetric
INVARIANTS
  TypeOK
  OneDeliveryPerClaim
  Fenced
  PublishedIsDelivered
  AttemptsLeft
PROPERTIES
  ClaimRespectsLease
  ImplementsDelivery
CHECK_DEADLOCK FALSE
