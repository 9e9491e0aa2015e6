CONSTANTS
  opA = opA
  opB = opB
  InitialValue = InitialValue
  Foreign = Foreign
  Nobody = Nobody
  Operations = {opA, opB}
  Plan <- SettingsPlan
  Revokes <- RevokesNothing
  MaxFaults = 2
  MaxCrashes = 2
  MaxEdits = 1
SPECIFICATION Spec
INVARIANTS ServedRootIsBacked FileFollowsService RollbackLeavesNothing
PROPERTIES ImplementsLifecycle SuccessIsReal OverwritesOnlyItsOwn
CHECK_DEADLOCK FALSE
