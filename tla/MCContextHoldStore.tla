------------------------- MODULE MCContextHoldStore -------------------------
(* A small instance of ContextHoldStore.                                   *)
EXTENDS ContextHoldStore, TLC

\* Two scopes; in the first the empty history, two that branch from it, and one
\* under other instructions.
MCPrompts ==
  {[key |-> "k", instructions |-> "i", history |-> h] : h \in {<<>>, <<1>>, <<2>>}}
    \cup {[key |-> "l", instructions |-> "i", history |-> <<1>>],
          [key |-> "k", instructions |-> "j", history |-> <<1>>]}

\* Requests differ in nothing but their names.
Symmetry == Permutations(Requests)
=============================================================================
