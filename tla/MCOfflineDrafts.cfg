CONSTANTS
  Editors = {e1}
  Texts = {t1}
  Drafts = {d1, d2}
  Blank = Blank
  MaxRevision = 3
  Syncs = {s1, s2}
  NoDraft = NoDraft
  BatchSize = 2
  MaxFaults = 1
SPECIFICATION FairSpec
CHECK_DEADLOCK FALSE
INVARIANTS TypeOK RevisionIdentifies RemovedIsApplied RefusedIsSuperseded
PROPERTIES PublishedIsFinal ImplementsRegister EventuallyApplied EventuallyRemoved
