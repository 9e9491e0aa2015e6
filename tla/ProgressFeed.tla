---------------------------- MODULE ProgressFeed ----------------------------
(***************************************************************************)
(* What a reader of a Worker's progress is promised.  The text of a run is *)
(* a sequence of units numbered from 1; the reader is handed pages of it   *)
(* and follows the cursor each page gives it.  A page continues right      *)
(* after the text handed over before it, unless the reader was told that   *)
(* text is missing; nothing is handed over twice unless the reader starts  *)
(* again, and nothing at all once the text is deleted.                     *)
(***************************************************************************)
EXTENDS Naturals, Sequences

VARIABLES
  captured,   \* units the Worker has produced
  hidden,     \* the run's text has been deleted
  at,         \* the last unit the reader was handed
  broken,     \* the reader has been told that text may be missing after it
  page        \* the text it was handed last

vars == <<captured, hidden, at, broken, page>>

\* The units from lo to hi, in order.
Units(lo, hi) == [i \in 1..(hi - lo + 1) |-> lo + i - 1]

Init ==
  /\ captured = 0 /\ hidden = FALSE
  /\ at = 0 /\ broken = TRUE /\ page = <<>>

Capture ==
  /\ captured' \in Nat /\ captured' > captured
  /\ UNCHANGED <<hidden, at, broken, page>>

Delete == hidden' = TRUE /\ UNCHANGED <<captured, at, broken, page>>

Deliver ==
  /\ ~hidden
  /\ \E lo \in 1..captured :
       \E hi \in lo..captured :
         /\ lo = at + 1 \/ (broken /\ lo > at)
         /\ page' = Units(lo, hi)
         /\ at' = hi
  /\ broken' = FALSE
  /\ UNCHANGED <<captured, hidden>>

\* There is no text yet, and the reader may follow it from the first unit.
Attend ==
  /\ ~hidden /\ at = 0
  /\ broken' = FALSE /\ page' = <<>>
  /\ UNCHANGED <<captured, hidden, at>>

TellBreak ==
  /\ broken' = TRUE /\ page' = <<>>
  /\ UNCHANGED <<captured, hidden, at>>

StartAgain ==
  /\ at' = 0 /\ broken' = TRUE /\ page' = <<>>
  /\ UNCHANGED <<captured, hidden>>

Next == Capture \/ Delete \/ Deliver \/ Attend \/ TellBreak \/ StartAgain

Spec == Init /\ [][Next]_vars
=============================================================================
