CONSTANTS
  Workers = {w1}
  Actors = {a1, a2}
  Subjects = {m1, m2}
  Parties = {p1}
  Categories = {k1}
  Consents = {c1}
  Shares = {s1}
  NoActor = NoActor
  Phases = {"valid"}
  MaxCalls = 3
SPECIFICATION Spec
CHECK_DEADLOCK FALSE
INVARIANT SubjectConsented
