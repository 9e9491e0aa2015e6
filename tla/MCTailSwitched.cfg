CONSTANTS
  opA = opA
  opB = opB
  InitialValue = InitialValue
  Foreign = Foreign
  Nobody = Nobody
  Operations = {opA, opB}
  Plan <- SettingsPlan
  Revokes <- RevokesNothing
  MaxFaults = 1
  MaxCrashes = 0
  MaxEdits = 0
SPECIFICATION Spec
INVARIANT SwitchedTailCompletes
CHECK_DEADLOCK FALSE
