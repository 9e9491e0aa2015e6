CONSTANTS
  Candidates <- MCRecords
  MaxRevision = 3
  NoRoot = NoRoot
  Callers = {t1, t2}
  NoCaller = NoCaller
  d1 = d1
  d2 = d2
SPECIFICATION Spec
INVARIANTS TypeOK NoSplitService PendingIsOwned
PROPERTY ServesDurably
