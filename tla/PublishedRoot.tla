---------------------------- MODULE PublishedRoot ----------------------------
(***************************************************************************)
(* What the gateway relies on of a publication installer, whatever its     *)
(* locks and tickets do: one root, replaced in one step, only by a         *)
(* candidate the order admits after the root it replaces, and never by a   *)
(* root that is older than one already served.                             *)
(***************************************************************************)
EXTENDS PublicationOrder

VARIABLE root

Init == root = NoRoot

Replace ==
  /\ root' \in Root
  /\ Admissible(root, root'.cand)
  /\ root # NoRoot => root'.gen > root.gen   \* prepared after the one it replaces

Next == Replace

Spec == Init /\ [][Next]_root
=============================================================================
