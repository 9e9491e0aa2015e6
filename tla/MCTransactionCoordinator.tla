---------------------- MODULE MCTransactionCoordinator ----------------------
(* Small instances of TransactionCoordinator: plans of each kind.          *)
EXTENDS TransactionCoordinator

CONSTANTS opA, opB

\* An ordinary connect and the ordinary restore that revokes its grant.
OrdinaryPlan ==
  [o \in Operations |->
     IF o = opA THEN {"secret", "grant", "control", "artifact", "publication", "runtime"}
              ELSE {"grant", "control", "publication"}]

\* A settings change and an ordinary one that replaces its publication and writes
\* an agent file.
SettingsPlan ==
  [o \in Operations |->
     IF o = opA THEN {"secret", "control", "publication", "file"}
              ELSE {"control", "artifact", "publication"}]

\* A settings change and a change of control state alone.
ControlOnlyPlan ==
  [o \in Operations |->
     IF o = opA THEN {"secret", "control", "publication", "file"} ELSE {"control"}]

RevokesB == Operations \ {opA}
RevokesNothing == {}
=============================================================================
