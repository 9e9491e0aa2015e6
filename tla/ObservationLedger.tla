------------------------- MODULE ObservationLedger -------------------------
(* What the observation store promises of one producer stream: its sequence   *)
(* numbers are settled in order and once, each either as a stored event or as *)
(* a declared loss, and what is settled never changes.                        *)
EXTENDS Naturals

VARIABLES accounted, stored

ledgerVars == <<accounted, stored>>

LedgerInit ==
  /\ accounted = 0
  /\ stored = {}

\* The next sequence number arrives as an event.
Store ==
  /\ accounted' = accounted + 1
  /\ stored' = stored \cup {accounted + 1}

\* The numbers that follow, up to last, are declared lost.
Declare ==
  /\ accounted' \in Nat
  /\ accounted' > accounted
  /\ UNCHANGED stored

LedgerNext == Store \/ Declare

LedgerSpec == LedgerInit /\ [][LedgerNext]_ledgerVars
=============================================================================
