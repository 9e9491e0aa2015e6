CONSTANTS
  Requests = {q1, q2, q3}
  Prompts <- MCPrompts
  Messages = {1, 2}
  RouteBytes = {1, 2, 4}
  EntryBytes = 2
  Budget = 5
  IdleTtl = 1
  MaintenanceBatch = 1
  EvictionBatch = 1
  NoHint = NoHint
  None = None
  MaxTime = 2
SPECIFICATION Spec
SYMMETRY Symmetry
INVARIANTS TypeOK IndexAgrees WithinBudget HintOfThisHistory
PROPERTY ImplementsHolds
CHECK_DEADLOCK FALSE
