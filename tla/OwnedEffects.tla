---------------------------- MODULE OwnedEffects ----------------------------
(***************************************************************************)
(* One exact-owned effect of an Operation on one cell of state: what the   *)
(* stores of local-storage answer to observe, apply (stage), activate and  *)
(* compensate.                                                             *)
(*                                                                         *)
(* A cell is a secret, an access-grant head, the control head, a runtime   *)
(* entry (rows of SQLite, written in one transaction together with the     *)
(* effect's marker) or a managed file (written by rename, its marker saved *)
(* afterwards).  A value stands for content, generation and owner at once: *)
(* the Operation that wrote it, Restored(o) for a row whose content o put  *)
(* back under a new generation, InitialValue, or Foreign for what a user   *)
(* wrote into a file.                                                      *)
(***************************************************************************)
CONSTANTS InitialValue, Foreign

Rows  == {"secret", "grant", "control", "runtime"}
Files == {"artifact", "file"}
Cells == Rows \cup Files

Markers == {"none", "staged", "active", "undone"}

Restored(o) == <<"restored", o>>

\* The stores that check the untouched cell when a staged effect is observed.
PinsBefore == {"secret", "grant"}

\* Mutant: an activated effect is taken for granted.
ObserveMarkerOnly(cell, o, marker, value, before) ==
  CASE marker \in {"none", "undone"} -> "Missing"
    [] marker = "staged" -> "Staged"
    [] marker = "active" -> "Applied"

\* A row of the control head or the runtime: staging is not compared with it.
ObserveRow(o, marker, value) ==
  CASE marker = "staged" -> "Staged"
    [] marker = "active" /\ value = o -> "Applied"
    [] marker = "active" /\ value # o -> "OwnershipLost"

\* A secret or a grant: a staged one still pins the row it was staged against.
ObservePinned(o, marker, value, before) ==
  IF marker = "staged" /\ value # before
  THEN "OwnershipLost" ELSE ObserveRow(o, marker, value)

\* A managed file, which may have been switched before its marker was saved.
ObserveFile(o, marker, value, before) ==
  IF marker = "staged" /\ value \notin {before, o}
  THEN "OwnershipLost" ELSE ObserveRow(o, marker, value)

Observe(cell, o, marker, value, before) ==
  CASE marker \in {"none", "undone"} -> "Missing"
    [] marker \in {"staged", "active"} /\ cell \in PinsBefore ->
         ObservePinned(o, marker, value, before)
    [] marker \in {"staged", "active"} /\ cell \in Rows \ PinsBefore ->
         ObserveRow(o, marker, value)
    [] marker \in {"staged", "active"} /\ cell \in Files ->
         ObserveFile(o, marker, value, before)

\* apply_*: a new marker is written only against the value the plan was made for.
CanStage(marker, value, before) == marker = "none" /\ value = before

CanActivateRow(marker, value, before) == marker = "staged" /\ value = before

\* A file already switched by an interrupted activation only lacks its marker.
CanActivateFile(o, marker, value, before) ==
  marker = "staged" /\ value \in {before, o}

CanActivate(cell, o, marker, value, before) ==
  IF cell \in Rows THEN CanActivateRow(marker, value, before)
                   ELSE CanActivateFile(o, marker, value, before)

\* What compensate_* answers, and the marker and the cell it leaves.
Answer(outcome, marker, value) ==
  [outcome |-> outcome, marker |-> marker, value |-> value]

\* The content of a row goes back under a new generation, if the row is owned.
CompensateRow(o, marker, value) ==
  CASE marker = "staged" -> Answer("Compensated", "undone", value)
    [] marker = "active" /\ value = o -> Answer("Compensated", "undone", Restored(o))
    [] marker = "active" /\ value # o -> Answer("OwnershipLost", marker, value)

\* The head of a grant goes back as it was.
CompensateGrant(o, marker, value, before) ==
  IF value = (IF marker = "staged" THEN before ELSE o)
  THEN Answer("Compensated", "undone", before)
  ELSE Answer("OwnershipLost", marker, value)

\* A file somebody put back already only lacks its marker.
CompensateFile(o, marker, value, before) ==
  CASE marker = "staged" /\ value = before -> Answer("Compensated", "undone", value)
    [] marker = "active" /\ value = o -> Answer("Compensated", "undone", before)
    [] marker = "active" /\ value = before ->
         Answer("AlreadyCompensated", "undone", value)
    [] value \notin (IF marker = "staged" THEN {before} ELSE {before, o}) ->
         Answer("OwnershipLost", marker, value)

Compensation(cell, o, marker, value, before) ==
  CASE marker = "none"   -> Answer("Error", marker, value)
    [] marker = "undone" -> Answer("AlreadyCompensated", marker, value)
    [] marker \in {"staged", "active"} /\ cell = "grant" ->
         CompensateGrant(o, marker, value, before)
    [] marker \in {"staged", "active"} /\ cell \in Rows \ {"grant"} ->
         CompensateRow(o, marker, value)
    [] marker \in {"staged", "active"} /\ cell \in Files ->
         CompensateFile(o, marker, value, before)
=============================================================================
