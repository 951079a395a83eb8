CONSTANTS
  Clients = {c1, c2, c3}
  Keys = {k1}
  Prints = {p1, p2}
  NoClient = NoClient
  NoPrint = NoPrint
  NoKey = NoKey
  LeaseTime = 1
  MaxNow = 2
  MaxCalls = 6
SPECIFICATION Spec
SYMMETRY Symmetry
CHECK_DEADLOCK FALSE
INVARIANTS TypeOK ToldIsRecorded OneRunPerLease VersionIdentifies
PROPERTIES LeaseRespected ImplementsOutcome
