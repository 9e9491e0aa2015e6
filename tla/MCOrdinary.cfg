CONSTANTS
  opA = opA
  opB = opB
  InitialValue = InitialValue
  Foreign = Foreign
  Nobody = Nobody
  Operations = {opA, opB}
  Plan <- OrdinaryPlan
  Revokes <- RevokesB
  MaxFaults = 2
  MaxCrashes = 1
  MaxEdits = 0
SPECIFICATION FairSpec
INVARIANTS TypeOK ServedRootIsBacked RevokedAfterReplaced NoTornService
PROPERTIES RecoveryConverges
CHECK_DEADLOCK FALSE
