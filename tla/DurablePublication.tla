------------------------- MODULE DurablePublication -------------------------
(***************************************************************************)
(* What the daemon relies on of the Gateway's publication target, whatever *)
(* its locks, flags and files do: one durable publication, replaced only   *)
(* by one the order admits; requests are served the durable publication or *)
(* nothing, and a publication takes over from a served one only when not   *)
(* even a power loss can undo it.                                          *)
(***************************************************************************)
EXTENDS PublicationOrder

VARIABLES served,   \* what a new request is given, or NoRoot
          latest,   \* what a restart comes up with, or NoRoot
          kept      \* what a restart after a power loss may come up with

vars == <<served, latest, kept>>

Init == served = NoRoot /\ latest = NoRoot /\ kept = {NoRoot}

\* One replacement at a time: what is served is the one being replaced.
Replace(c) ==
  /\ served \in {NoRoot, latest}
  /\ Follows(latest, c)
  /\ latest' = c
  /\ kept' = kept \cup {c}
  /\ UNCHANGED served

Settle == kept' = {latest} /\ UNCHANGED <<served, latest>>

Serve ==
  /\ served = NoRoot \/ kept = {latest}
  /\ served' = latest
  /\ UNCHANGED <<latest, kept>>

Withdraw == served' = NoRoot /\ UNCHANGED <<latest, kept>>

PowerLoss ==
  /\ served' = NoRoot
  /\ latest' \in kept
  /\ kept' = {latest'}

Next == Settle \/ Serve \/ Withdraw \/ PowerLoss \/ \E c \in Candidates : Replace(c)

Spec == Init /\ [][Next]_vars
=============================================================================
