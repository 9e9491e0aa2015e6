------------------------- MODULE OperationLifecycle -------------------------
(***************************************************************************)
(* What the daemon promises of its durable Operations, whatever effects    *)
(* they have: the journaled states follow OperationState::can_transition_to*)
(* (crates/domain/src/operation/mod.rs), every change of state is made     *)
(* under the singleton writer claim, and the claim is given back only by a *)
(* settled Operation or by one that parks its settings tail in Activate.   *)
(* One change is made without the claim: a parked tail that was retried    *)
(* without taking it again may be left for attention.                      *)
(***************************************************************************)
CONSTANTS Operations,
          Nobody       \* no Operation holds the claim

VARIABLES state,    \* the journaled state of each Operation, "none" before it exists
          writer    \* writer_claim

vars == <<state, writer>>

Working == {"Accepted", "Prepare", "ApplySecrets", "MaterializeSources",
            "CompilePublication", "ApplyAgentArtifacts", "Activate"}
Unsettled == Working \cup {"RollingBack", "NeedsAttention"}
Closed    == {"Succeeded", "RolledBack"}

\* The only states a working Operation can go on to without rolling back.
NextStep == [s \in Working |->
  CASE s = "Accepted"            -> "Prepare"
    [] s = "Prepare"             -> "ApplySecrets"
    [] s = "ApplySecrets"        -> "MaterializeSources"
    [] s = "MaterializeSources"  -> "CompilePublication"
    [] s = "CompilePublication"  -> "ApplyAgentArtifacts"
    [] s = "ApplyAgentArtifacts" -> "Activate"
    [] s = "Activate"            -> "Succeeded"]

\* OperationState::can_transition_to
CanTransitionTo(from, to) ==
  \/ from \in Working /\ to \in {NextStep[from], "RollingBack"}
  \/ from = "RollingBack" /\ to \in {"RolledBack", "NeedsAttention"}
  \/ from = "NeedsAttention" /\ to = "RolledBack"

Init ==
  /\ state = [o \in Operations |-> "none"]
  /\ writer = Nobody

\* begin_operation
Admit(o) ==
  /\ state[o] = "none" /\ writer = Nobody
  /\ state' = [state EXCEPT ![o] = "Accepted"]
  /\ writer' = o

\* One journal write; a failing handler may make both transitions of a refused
\* rollback in one write.
Move(o, to) ==
  /\ writer = o
  /\ \/ CanTransitionTo(state[o], to)
     \/ CanTransitionTo(state[o], "RollingBack") /\ to = "NeedsAttention"
  /\ state' = [state EXCEPT ![o] = to]
  /\ writer' = IF to \in Closed THEN Nobody ELSE writer

\* save_operation_tail and reclaim_operation_writer
Park(o)    == writer = o /\ state[o] = "Activate" /\ writer' = Nobody /\ UNCHANGED state
Reclaim(o) == writer = Nobody /\ state[o] = "Activate" /\ writer' = o /\ UNCHANGED state

\* finish_rollback refuses, and the terminal record needs no claim.
Abandon(o) == writer = Nobody /\ state[o] = "Activate"
              /\ state' = [state EXCEPT ![o] = "NeedsAttention"] /\ UNCHANGED writer

Next == \E o \in Operations :
  \/ Admit(o) \/ Park(o) \/ Reclaim(o) \/ Abandon(o)
  \/ \E to \in Unsettled \cup Closed : Move(o, to)

Spec == Init /\ [][Next]_vars

TypeOK ==
  /\ state \in [Operations -> {"none"} \cup Unsettled \cup Closed]
  /\ writer \in Operations \cup {Nobody}

\* At most one Operation is under way outside a parked tail, and it is the
\* writer; the writer is never settled.
OneWriter ==
  /\ \A o \in Operations :
       state[o] \in Unsettled \ {"Activate", "NeedsAttention"} => writer = o
  /\ writer # Nobody => state[writer] \in Unsettled

\* What is settled stays settled: a closed Operation is never run again.
ClosedForGood ==
  [][ \A o \in Operations : state[o] \in Closed => state'[o] = state[o] ]_vars
=============================================================================
