CONSTANTS
  Workers = {w1, w2}
  Actors = {a1, a2}
  Subjects = {m1}
  Parties = {p1, p2}
  Categories = {k1, k2}
  Consents = {c1, c2}
  Shares = {s1}
  NoActor = NoActor
  Phases = {"early", "valid", "over"}
  MaxCalls = 6
SPECIFICATION Spec
SYMMETRY Symmetry
CHECK_DEADLOCK FALSE
INVARIANTS TypeOK ShareScope FourEyes
PROPERTIES NoSharingAfterLapse RevocationRests
