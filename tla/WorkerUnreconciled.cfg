\* One cancellation of a client, and nothing that fails.
SPECIFICATION FairSpec
CONSTANTS
  Cancels = {c1}
  MaxFaults = 0
  MaxCrashes = 0
PROPERTIES
  CancelledRunIsReconciled
CHECK_DEADLOCK FALSE
