---------------------------- MODULE DelegationRun ----------------------------
(***************************************************************************)
(* The durable record of one Worker run and the checkpoints that change it *)
(* (RunProgressV1::advance in crates/domain/src/delegation/progress.rs and *)
(* crates/local-storage/src/runtime/delegation/events.rs).  Identities of  *)
(* the process and the session are reduced to whether they are bound.      *)
(***************************************************************************)
EXTENDS Naturals

Ended  == {"Succeeded", "Failed", "Cancelled"}
Active == {"Accepted", "Preparing", "Running", "Cancelling"}
States == Active \cup Ended \cup {"Unknown"}

Run == [state : States, revision : Nat, prompt : BOOLEAN, cancel : BOOLEAN,
        cleanup : {"Pending", "Complete", "Unknown"}, running : BOOLEAN,
        process : BOOLEAN, session : BOOLEAN, result : BOOLEAN, revoked : BOOLEAN]

AcceptedRun ==
  [state |-> "Accepted", revision |-> 1, prompt |-> FALSE, cancel |-> FALSE,
   cleanup |-> "Pending", running |-> FALSE,
   process |-> FALSE, session |-> FALSE, result |-> FALSE, revoked |-> FALSE]

\* RunProgressV1::workspace_releasable; a residual is never acknowledged here.
Releasable(r) == r.cleanup = "Complete" /\ ~r.running /\ r.state \notin Active

-----------------------------------------------------------------------------
\* The events of RunProgressV1::advance.
Events == {"Preparing", "PromptSendIntent", "PromptCompleted", "PromptFailed",
           "CancelRequested", "ConnectionLost", "LaunchFailedBeforeSpawn",
           "ProcessRunning", "ProcessUnknown", "ScopeStopped", "ScopeStoppedCleanly"}

\* Accepted, without effect and without a new revision.
Ignored(r, e) ==
  \/ r.state = "Cancelling" /\ e \in {"CancelRequested", "PromptCompleted"}
  \/ r.state \in Ended /\ e = "CancelRequested"

CanAdvance(r, e) ==
  \/ Ignored(r, e)
  \/ e = "Preparing" /\ r.state = "Accepted"
  \/ e = "PromptSendIntent" /\ r.state = "Preparing" /\ ~r.prompt
  \/ e \in {"PromptCompleted", "PromptFailed"} /\ r.state = "Running"
  \/ e = "CancelRequested" /\ r.state \notin Ended
  \/ e = "ConnectionLost" /\ r.state \in Active
  \/ e = "LaunchFailedBeforeSpawn" /\ r.state \in Active \ {"Running"} /\ ~r.prompt
  \/ e \in {"ProcessRunning", "ProcessUnknown", "ScopeStopped", "ScopeStoppedCleanly"}

\* How a run ends whose process is out of sight, and one whose process stopped.
Unobserved(r) ==
  IF r.state \in Ended THEN r.state ELSE IF r.prompt THEN "Unknown" ELSE "Failed"

Stopped(r, cleanly) ==
  IF r.cancel \/ r.state = "Cancelling" THEN "Cancelled"
  ELSE IF r.state \in Ended \cup {"Unknown"} THEN r.state
  ELSE IF r.prompt /\ cleanly THEN "Unknown" ELSE "Failed"

Effect(r, e) ==
  CASE e = "Preparing"        -> [r EXCEPT !.state = "Preparing"]
    [] e = "PromptSendIntent" -> [r EXCEPT !.state = "Running", !.prompt = TRUE]
    [] e = "PromptCompleted"  -> [r EXCEPT !.state = "Succeeded"]
    [] e = "PromptFailed"     -> [r EXCEPT !.state = "Failed"]
    [] e = "CancelRequested"  -> [r EXCEPT !.state = "Cancelling", !.cancel = TRUE]
    [] e = "ConnectionLost"   ->
         [r EXCEPT !.state = IF r.prompt THEN "Unknown" ELSE "Failed", !.cleanup = "Unknown"]
    [] e = "LaunchFailedBeforeSpawn" ->
         [r EXCEPT !.state = IF r.cancel THEN "Cancelled" ELSE "Failed",
                   !.running = FALSE, !.cleanup = "Complete"]
    [] e = "ProcessRunning"   -> [r EXCEPT !.running = TRUE, !.cleanup = "Pending"]
    [] e = "ProcessUnknown"   ->
         [r EXCEPT !.state = Unobserved(r), !.running = FALSE, !.cleanup = "Unknown"]
    [] OTHER ->
         [r EXCEPT !.state = Stopped(r, e = "ScopeStoppedCleanly"),
                   !.running = FALSE, !.cleanup = "Complete"]

Advanced(r, e) ==
  IF Ignored(r, e) THEN r ELSE [Effect(r, e) EXCEPT !.revision = r.revision + 1]

-----------------------------------------------------------------------------
(***************************************************************************)
(* Checkpoints: a progress event, an observation that finds no process,    *)
(* the evidence of a stop, or one of three bindings.                       *)
(***************************************************************************)
Evidence  == {"stopped", "stopped cleanly", "running", "unknown"}
Progress  == Events \ {"ProcessRunning", "ProcessUnknown", "ScopeStopped", "ScopeStoppedCleanly"}
Bindings  == {"ProcessSpawned", "SessionBound", "ResultRecorded"}
Checkpoints == Progress \cup Evidence \cup Bindings \cup {"ProcessObserved"}

EventOf(c) ==
  CASE c \in Progress            -> c
    [] c = "stopped"             -> "ScopeStopped"
    [] c = "stopped cleanly"     -> "ScopeStoppedCleanly"
    [] c \in {"running", "ProcessSpawned"} -> "ProcessRunning"
    [] OTHER                     -> "ProcessUnknown"

\* The conditions of each kind of checkpoint, once its revision is current.
Recordable(r, c) ==
  \/ c = "ProcessSpawned" /\ r.state = "Preparing" /\ ~r.process
  \/ c = "SessionBound" /\ r.state = "Preparing" /\ r.process /\ ~r.session
  \/ c = "ResultRecorded" /\ r.state \in {"Running", "Cancelling"} /\ ~r.result
  \/ c = "PromptSendIntent" /\ r.session /\ CanAdvance(r, c)
  \/ c \notin Bindings \cup {"PromptSendIntent"} /\ CanAdvance(r, EventOf(c))

Bound(r, c) ==
  CASE c = "ProcessSpawned" -> [r EXCEPT !.process = TRUE]
    [] c = "SessionBound"   -> [r EXCEPT !.session = TRUE]
    [] c = "ResultRecorded" -> [r EXCEPT !.result = TRUE]
    [] OTHER -> r

\* A progress event that ends the run, or stop evidence, revokes its lease.
Revoking(r, c) ==
  \/ c \in Progress /\ (r.cancel \/ r.state \notin {"Accepted", "Preparing", "Running"})
  \/ c \in Evidence

\* The run after the checkpoint, which always consumes a revision.
Recorded(r, c) ==
  LET bound == Bound(r, c)
      moved == IF c \in {"SessionBound", "ResultRecorded"} THEN bound
               ELSE Advanced(bound, EventOf(c))
  IN  [moved EXCEPT !.revision = r.revision + 1,
                    !.revoked = @ \/ Revoking(moved, c)]

\* Mutant: no event, no revision.
CancelledByMark(r) == [r EXCEPT !.revoked = TRUE]
\* cancel_in_transaction: no new revision when the run has ended.
CancelledBy(r) == [Advanced(r, "CancelRequested") EXCEPT !.revoked = TRUE]
=============================================================================
