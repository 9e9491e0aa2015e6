\* Two cancellations or revocations, one failing call of the store and a crash,
\* anywhere in the life of one run.
SPECIFICATION FairSpec
CONSTANTS
  Cancels = {c1, c2}
  MaxFaults = 1
  MaxCrashes = 1
INVARIANTS
  TypeOK
  PromptIsAccounted
  FreedRunIsStopped
PROPERTIES
  NothingStartsRevoked
  CancelledExecutionEnds
CHECK_DEADLOCK FALSE
