--------------------------- MODULE WorkerExecution ---------------------------
(***************************************************************************)
(* One accepted Worker run, carried out and cancelled.  The executor's     *)
(* thread (crates/daemon/src/delegation/executor.rs, lifecycle.rs and      *)
(* acp/mod.rs) records every step through its journal                      *)
(* (persistent_journal.rs), which holds its own copy of the run and writes *)
(* only at that copy's revision.  Cancellations change the record behind   *)
(* its back and then wake the dispatcher (dispatcher.rs), which signals    *)
(* the executor if the run is attached and otherwise stops and records on  *)
(* its own.  The daemon may crash; no run is ever executed again.          *)
(***************************************************************************)
EXTENDS DelegationRun

CONSTANTS
  Cancels,   \* cancellations: of a client, or by the revocation of an authorization
  MaxFaults, \* bound on failing reads and writes of the record
  MaxCrashes \* bound on crashes of the daemon

ASSUME BoundsAssumption == MaxFaults \in Nat /\ MaxCrashes \in Nat

VARIABLES
  run,        \* the record in the runtime store
  events,     \* its checkpoints: pairs of an event's id and the checkpoint
  pc,         \* where the executor is
  copy,       \* the journal's copy of the record
  failed,     \* the journal recorded a failure
  completed,  \* the journal recorded the result
  outcome,    \* how the conversation with the Worker ended
  evidence,   \* what the executor's stop of the Worker proved
  seen,       \* whether attach read a revoked run
  attached,   \* the dispatcher's entry for this run
  token,      \* the cancellation token of that entry
  deadline,   \* the run's deadline has passed
  proc,       \* the Worker: "none", "alive" or "gone"
  owned,      \* the platform holds the Worker's process
  sent,       \* the prompt was sent to the Worker
  dispatch,   \* per cancellation: its dispatcher, and what that read
  faults, crashes

journal  == <<copy, failed, completed>>
talk     == <<outcome, evidence>>
entry    == <<seen, attached, token>>
worker   == <<proc, owned, sent>>
vars == <<run, events, pc, journal, talk, entry, deadline, worker, dispatch, faults, crashes>>

Waiting   == {"connect", "bound", "prompted"}
Stages    == {"new", "begin", "prepare", "attach", "ready", "checked", "launch",
              "spawned", "bind", "unrecorded", "session", "bindSession", "intent", "send",
              "settle", "complete", "stopIntent", "stopping", "recordStop", "refresh",
              "restop", "abort", "refuse", "finish", "detach", "done", "lost"} \cup Waiting
Asked     == Evidence \cup {"none"}
Idle      == [stage |-> "idle", revision |-> 0, process |-> FALSE, evidence |-> "none"]
Served    == [Idle EXCEPT !.stage = "done"]

\* What only the executor's thread holds, as it is before the thread and after it.
NoJournal == /\ copy' = AcceptedRun /\ failed' = FALSE /\ completed' = FALSE
             /\ seen' = FALSE /\ token' = FALSE /\ evidence' = "unasked"

Init ==
  /\ run = AcceptedRun /\ copy = AcceptedRun /\ events = {}
  /\ pc = "new" /\ failed = FALSE /\ completed = FALSE
  /\ outcome = "none" /\ evidence = "unasked"
  /\ seen = FALSE /\ attached = FALSE /\ token = FALSE /\ deadline = FALSE
  /\ proc = "none" /\ owned = FALSE /\ sent = FALSE
  /\ dispatch = [c \in Cancels |-> Idle]
  /\ faults = 0 /\ crashes = 0

-----------------------------------------------------------------------------
(***************************************************************************)
(* The record (events.rs, checkpoint): an event already recorded is        *)
(* answered with the run as it is, whatever its revision.                  *)
(***************************************************************************)
Known(id) == \E e \in events : e[1] = id

Accepts(id, c, revision) ==
  IF Known(id) THEN <<id, c>> \in events
  ELSE run.revision = revision /\ Recordable(run, c)

Commit(id, c) ==
  /\ run' = IF Known(id) THEN run ELSE Recorded(run, c)
  /\ events' = events \cup {<<id, c>>}

StorageFails == faults < MaxFaults /\ faults' = faults + 1

\* A checkpoint of the journal, at the revision of its copy.
Records(id, c) ==
  /\ Accepts(id, c, copy.revision) /\ Commit(id, c) /\ copy' = run'
  /\ UNCHANGED faults

Refused(id, c) == ~Accepts(id, c, copy.revision) /\ UNCHANGED faults

Unrecorded == UNCHANGED <<run, events, copy>>

Misses(id, c) == (Refused(id, c) \/ StorageFails) /\ Unrecorded

\* check_current: the permit is the run's and unexpired, the copy is the record.
Current == ~deadline /\ run.revision = copy.revision /\ ~run.revoked

CheckFails == (~Current /\ UNCHANGED faults) \/ StorageFails

\* stop_intent, whose failure the caller only reports.
StopIntent ==
  IF copy.state \in {"Accepted", "Preparing", "Running", "Unknown"}
  THEN \/ Records("stop-intent", "CancelRequested")
       \/ Misses("stop-intent", "CancelRequested")
  ELSE Unrecorded /\ UNCHANGED faults

\* The checkpoint record_failure chooses.
FailureId    == IF outcome = "prompt failed" THEN "prompt-failed" ELSE "execution-failed"
\* Mutant: the bound process is not looked at.
FailureAlwaysBeforeSpawn ==
  IF outcome = "prompt failed" THEN "PromptFailed" ELSE "LaunchFailedBeforeSpawn"
FailureEvent ==
  IF outcome = "prompt failed" THEN "PromptFailed"
  ELSE IF copy.process THEN "ConnectionLost" ELSE "LaunchFailedBeforeSpawn"

RecordFailure ==
  /\ UNCHANGED completed
  /\ IF failed \/ completed
     THEN Unrecorded /\ UNCHANGED <<faults, failed>>
     ELSE \/ Records(FailureId, FailureEvent) /\ failed' = TRUE
          \/ Misses(FailureId, FailureEvent) /\ UNCHANGED failed

\* stop_owned: only the process the platform holds can be proved stopped.
StopOwned(e) ==
  /\ e \in {"stopped", "stopped cleanly", "running"} => owned
  /\ e = "running" => proc = "alive"
  /\ proc' \in {proc} \cup (IF owned THEN {"gone"} ELSE {})
  /\ e \in {"stopped", "stopped cleanly"} => proc' = "gone"
  /\ e = "running" => proc' = "alive"
  /\ UNCHANGED <<owned, sent>>

StopCheckpoint(e) == IF e = "none" THEN "ProcessObserved" ELSE e

-----------------------------------------------------------------------------
(***************************************************************************)
(* The executor.  Every step keeps what belongs to the other actors.       *)
(***************************************************************************)
Goes(from, to) == pc = from /\ pc' = to
Others == UNCHANGED <<deadline, dispatch, crashes>>

Wake ==
  /\ pc = "new"
  /\ pc' = IF run.state = "Accepted" /\ ~run.revoked THEN "begin" ELSE "done"
  /\ UNCHANGED <<run, events, journal, talk, entry, worker, faults>> /\ Others

Begin ==
  /\ Goes("begin", "prepare")
  /\ run.state = "Accepted" /\ ~run.revoked
  /\ copy' = run
  /\ UNCHANGED <<run, events, failed, completed, talk, entry, worker, faults>> /\ Others

\* Anything that fails before the journal exists (fail_before_launch).  An attempt
\* to record it that fails is followed by one more, "executor-unexpected", which
\* reads the record anew; this is the last attempt, an earlier one a failed call.
FailBeforeLaunch ==
  /\ Goes("begin", "done")
  /\ \/ /\ run.state = "Accepted" /\ ~run.revoked
        /\ Commit("executor", "LaunchFailedBeforeSpawn")
        /\ UNCHANGED faults \/ StorageFails
     \/ /\ \/ StorageFails
           \/ (run.state # "Accepted" \/ run.revoked) /\ UNCHANGED faults
        /\ UNCHANGED <<run, events>>
  /\ UNCHANGED <<journal, talk, entry, worker>> /\ Others

PrepareFails ==
  /\ Goes("prepare", "refuse")
  /\ UNCHANGED <<run, events, journal, talk, entry, worker, faults>> /\ Others

\* attach reads the record before it takes the lock of the entries.
AttachRead ==
  /\ pc = "prepare"
  /\ \/ /\ ~Releasable(run) /\ pc' = "attach" /\ seen' = run.revoked /\ UNCHANGED faults
     \/ /\ (Releasable(run) /\ UNCHANGED faults) \/ StorageFails
        /\ pc' = "refuse" /\ UNCHANGED seen
  /\ UNCHANGED <<run, events, journal, talk, attached, token, worker>> /\ Others

AttachInsert ==
  /\ Goes("attach", "ready")
  /\ attached' = TRUE /\ token' = seen /\ seen' = FALSE
  /\ UNCHANGED <<run, events, journal, talk, worker, faults>> /\ Others

\* lifecycle::execute up to before_launch, which refuses without recording.
Ready ==
  /\ pc = "ready"
  /\ \/ (token \/ deadline) /\ pc' = "abort" /\ UNCHANGED faults
     \/ ~token /\ ~deadline /\ CheckFails /\ pc' = "refuse"
     \/ ~token /\ Current /\ copy.state = "Accepted" /\ pc' = "checked" /\ UNCHANGED faults
  /\ UNCHANGED <<run, events, journal, talk, entry, worker>> /\ Others

BeforeLaunch ==
  /\ pc = "checked"
  /\ \/ Records("preparing", "Preparing") /\ pc' = "launch"
     \/ Misses("preparing", "Preparing") /\ pc' = "refuse"
  /\ UNCHANGED <<failed, completed, talk, entry, worker>> /\ Others

Launch ==
  /\ Goes("launch", "spawned")
  /\ ~token /\ ~deadline
  /\ proc' = "alive" /\ owned' = TRUE
  /\ UNCHANGED <<run, events, journal, talk, entry, sent, faults>> /\ Others

LaunchFails ==
  /\ Goes("launch", "abort")
  /\ UNCHANGED <<run, events, journal, talk, entry, worker, faults>> /\ Others

\* execution_failed, inside lifecycle::execute and again after it returned.
Abort ==
  /\ \/ Goes("abort", "refuse")
     \/ Goes("refuse", "finish")
  /\ RecordFailure
  /\ UNCHANGED <<talk, entry, worker>> /\ Others

\* A check_current and, unless it fails, the checkpoint it is for.
Check ==
  /\ \/ Goes("spawned", "bind") /\ Current /\ UNCHANGED <<faults, outcome>>
     \/ Goes("spawned", "unrecorded") /\ CheckFails /\ UNCHANGED outcome
     \/ Goes("session", "bindSession") /\ Current /\ UNCHANGED <<faults, outcome>>
     \/ Goes("session", "settle") /\ CheckFails /\ outcome' = "error"
     \/ Goes("bound", "intent") /\ Current /\ UNCHANGED <<faults, outcome>>
     \/ Goes("bound", "settle") /\ CheckFails /\ outcome' = "error"
  /\ UNCHANGED <<run, events, journal, evidence, entry, worker>> /\ Others

ProcessSpawned ==
  /\ pc = "bind"
  /\ \/ Records("process-spawned", "ProcessSpawned") /\ pc' = "connect"
     \/ Misses("process-spawned", "ProcessSpawned") /\ pc' = "unrecorded"
  /\ UNCHANGED <<failed, completed, talk, entry, worker>> /\ Others

SpawnedUnrecorded ==
  /\ Goes("unrecorded", "settle")
  /\ \/ Records("spawned-unrecorded", "ProcessObserved") /\ failed' = TRUE
     \/ Misses("spawned-unrecorded", "ProcessObserved") /\ UNCHANGED failed
  /\ outcome' = "error"
  /\ UNCHANGED <<completed, evidence, entry, worker>> /\ Others

\* The Worker answers the calls that open its session.
Connect ==
  /\ Goes("connect", "session")
  /\ proc = "alive"
  /\ UNCHANGED <<run, events, journal, talk, entry, worker, faults>> /\ Others

SessionBound ==
  /\ pc = "bindSession"
  /\ \/ /\ Records("session-bound", "SessionBound")
        /\ pc' = "bound" /\ UNCHANGED outcome
     \/ /\ Misses("session-bound", "SessionBound")
        /\ pc' = "settle" /\ outcome' = "error"
  /\ UNCHANGED <<failed, completed, evidence, entry, worker>> /\ Others

\* Mutant: the prompt is sent although its intent was refused.
PromptIntentAnyway ==
  /\ Goes("intent", "send")
  /\ \/ Records("prompt-intent", "PromptSendIntent")
     \/ Misses("prompt-intent", "PromptSendIntent")
  /\ UNCHANGED <<failed, completed, talk, entry, worker>> /\ Others
PromptIntent ==
  /\ pc = "intent"
  /\ \/ /\ Records("prompt-intent", "PromptSendIntent")
        /\ pc' = "send" /\ UNCHANGED outcome
     \/ /\ Misses("prompt-intent", "PromptSendIntent")
        /\ pc' = "settle" /\ outcome' = "error"
  /\ UNCHANGED <<failed, completed, evidence, entry, worker>> /\ Others

SendPrompt ==
  /\ Goes("send", "prompted")
  /\ sent' = TRUE
  /\ UNCHANGED <<run, events, journal, talk, entry, proc, owned, faults>> /\ Others

\* The Worker answers the prompt, or fails to answer what it was asked.
Answer(o) ==
  /\ Goes("prompted", "settle")
  /\ o \in {"ok", "cancelled", "prompt failed"} /\ proc = "alive"
  /\ outcome' = o
  /\ UNCHANGED <<run, events, journal, evidence, entry, worker, faults>> /\ Others

WorkerFails ==
  /\ pc \in Waiting /\ pc' = "settle"
  /\ outcome' = "error"
  /\ UNCHANGED <<run, events, journal, evidence, entry, worker, faults>> /\ Others

\* The token or the deadline: the intent to stop, then a bounded wait, in which an
\* answer that was already on its way may still arrive.
Interrupt ==
  /\ pc \in Waiting /\ pc' = "settle"
  /\ token \/ deadline
  /\ StopIntent
  /\ outcome' \in {"error"} \cup (IF pc = "prompted" THEN {"ok", "cancelled"} ELSE {})
  /\ UNCHANGED <<failed, completed, evidence, entry, worker>> /\ Others

\* completed records the result, then, unless cancelled, the end of the prompt.
Completed ==
  /\ pc = "settle" /\ outcome \in {"ok", "cancelled"}
  /\ \/ /\ copy.state \in {"Running", "Cancelling"}
        /\ Records("result", "ResultRecorded") /\ completed' = TRUE
        /\ pc' = IF outcome = "cancelled" \/ copy.state = "Cancelling"
                 THEN "stopIntent" ELSE "complete"
     \/ /\ \/ copy.state \notin {"Running", "Cancelling"} /\ Unrecorded /\ UNCHANGED faults
           \/ copy.state \in {"Running", "Cancelling"} /\ Misses("result", "ResultRecorded")
        /\ pc' = "stopIntent" /\ UNCHANGED completed
  /\ UNCHANGED <<failed, talk, entry, worker>> /\ Others

PromptCompleted ==
  /\ Goes("complete", "stopIntent")
  /\ \/ Records("prompt-completed", "PromptCompleted")
     \/ Misses("prompt-completed", "PromptCompleted")
  /\ UNCHANGED <<failed, completed, talk, entry, worker>> /\ Others

ExecutionFailed ==
  /\ Goes("settle", "stopIntent")
  /\ outcome \in {"error", "prompt failed"}
  /\ RecordFailure
  /\ UNCHANGED <<talk, entry, worker>> /\ Others

IntendStop ==
  /\ \/ Goes("stopIntent", "stopping")
     \/ Goes("finish", "detach")
  /\ StopIntent
  /\ UNCHANGED <<failed, completed, talk, entry, worker>> /\ Others

Stop(e) ==
  /\ Goes("stopping", "recordStop")
  /\ StopOwned(e) /\ evidence' = e
  /\ UNCHANGED <<run, events, journal, outcome, entry, faults>> /\ Others

\* record_stop: after a conflict the copy is refreshed from a cancelled run.
RecordStop ==
  LET c == StopCheckpoint(evidence) IN
  /\ \/ pc = "recordStop" /\ Refused("stop", c) /\ pc' = "refresh" /\ Unrecorded
     \/ pc = "recordStop" /\ StorageFails /\ pc' = "finish" /\ Unrecorded
     \/ pc = "restop" /\ Misses("stop", c) /\ pc' = "finish"
     \/ pc \in {"recordStop", "restop"} /\ Records("stop", c) /\ pc' = "finish"
  /\ UNCHANGED <<failed, completed, talk, entry, worker>> /\ Others

CancelledBehind ==
  /\ run.process = copy.process /\ run.session = copy.session
  /\ run.revision > copy.revision /\ run.revoked /\ run.cancel

Refresh ==
  /\ pc = "refresh"
  /\ \/ /\ CancelledBehind
        /\ copy' = run /\ pc' = IF Releasable(run) THEN "finish" ELSE "restop"
        /\ UNCHANGED faults
     \/ /\ (~CancelledBehind /\ UNCHANGED faults) \/ StorageFails
        /\ pc' = "finish" /\ UNCHANGED copy
  /\ UNCHANGED <<run, events, failed, completed, talk, entry, worker>> /\ Others

\* detach, and the release of a Worker whose run is over; the thread ends.
\* Mutant: the entry outlives its executor.
DetachNever ==
  /\ Goes("detach", "done")
  /\ owned' = (owned /\ ~Releasable(copy)) /\ NoJournal
  /\ UNCHANGED <<run, events, outcome, attached, proc, sent, faults>> /\ Others
Detach ==
  /\ Goes("detach", "done")
  /\ attached' = FALSE
  /\ owned' = (owned /\ ~Releasable(copy)) /\ NoJournal
  /\ UNCHANGED <<run, events, outcome, proc, sent, faults>> /\ Others

Executor ==
  \/ Wake \/ Begin \/ FailBeforeLaunch \/ PrepareFails \/ AttachRead \/ AttachInsert
  \/ Ready \/ BeforeLaunch \/ Launch \/ LaunchFails \/ Abort \/ Check
  \/ ProcessSpawned \/ SpawnedUnrecorded \/ SessionBound \/ PromptIntent \/ SendPrompt
  \/ Interrupt \/ Completed \/ PromptCompleted \/ ExecutionFailed
  \/ IntendStop \/ (\E e \in Asked : Stop(e)) \/ RecordStop \/ Refresh \/ Detach

-----------------------------------------------------------------------------
(***************************************************************************)
(* Cancellation.                                                           *)
(***************************************************************************)
Beside == UNCHANGED <<pc, journal, talk, seen, attached, deadline, sent, owned, crashes>>

\* The durable intent, then the wake of a dispatcher (cancel_delegation).
Cancel(c) ==
  /\ dispatch[c].stage = "idle"
  /\ run' = CancelledBy(run)
  /\ dispatch' = [dispatch EXCEPT ![c].stage = "woken"]
  /\ UNCHANGED <<events, token, proc, faults>> /\ Beside

\* cancel_scope, for a run that still occupies its workspace; it wakes nobody.
Revoke(c) ==
  /\ dispatch[c].stage = "idle"
  /\ ~Releasable(run)
  /\ run' = CancelledBy(run)
  /\ dispatch' = [dispatch EXCEPT ![c] = Served]
  /\ UNCHANGED <<events, token, proc, faults>> /\ Beside

DispatchRead(c) ==
  /\ dispatch[c].stage = "woken"
  /\ dispatch' = [dispatch EXCEPT ![c] =
       IF run.revoked /\ ~Releasable(run)
       THEN [Idle EXCEPT !.stage = "look", !.revision = run.revision, !.process = run.process]
       ELSE Served]
  /\ UNCHANGED <<run, events, token, proc, faults>> /\ Beside

\* Mutant: an attached run is left to find out by itself.
DispatchLookSilently(c) ==
  /\ dispatch[c].stage = "look"
  /\ dispatch' = [dispatch EXCEPT ![c] =
       IF attached THEN Served
       ELSE [@ EXCEPT !.stage = IF dispatch[c].process THEN "stop" ELSE "missing"]]
  /\ UNCHANGED <<run, events, token, proc, faults>> /\ Beside
DispatchLook(c) ==
  /\ dispatch[c].stage = "look"
  /\ token' = (token \/ attached)
  /\ dispatch' = [dispatch EXCEPT ![c] =
       IF attached THEN Served
       ELSE [@ EXCEPT !.stage = IF dispatch[c].process THEN "stop" ELSE "missing"]]
  /\ UNCHANGED <<run, events, proc, faults>> /\ Beside

DispatchStop(c, e) ==
  /\ dispatch[c].stage = "stop"
  /\ StopOwned(e)
  /\ dispatch' = [dispatch EXCEPT ![c] = [@ EXCEPT !.stage = "record", !.evidence = e]]
  /\ UNCHANGED <<run, events, pc, journal, talk, entry, deadline, faults, crashes>>

\* The dispatcher writes at the revision it read; the event's id names the evidence.
DispatchWrites(c, id, checkpoint) ==
  /\ \/ /\ Accepts(id, checkpoint, dispatch[c].revision)
        /\ Commit(id, checkpoint) /\ UNCHANGED faults
     \/ /\ (~Accepts(id, checkpoint, dispatch[c].revision) /\ UNCHANGED faults) \/ StorageFails
        /\ UNCHANGED <<run, events>>
  /\ dispatch' = [dispatch EXCEPT ![c] = Served]
  /\ UNCHANGED <<token, proc>> /\ Beside

DispatchRecord(c) ==
  /\ dispatch[c].stage = "record"
  /\ LET e == dispatch[c].evidence IN DispatchWrites(c, e, StopCheckpoint(e))

DispatchMissing(c) ==
  /\ dispatch[c].stage = "missing"
  /\ DispatchWrites(c, "missing", "ProcessObserved")

Dispatcher(c) ==
  \/ DispatchRead(c) \/ DispatchLook(c) \/ DispatchRecord(c) \/ DispatchMissing(c)
  \/ \E e \in Asked : DispatchStop(c, e)

-----------------------------------------------------------------------------
WorkerExits ==
  /\ proc = "alive" /\ proc' = "gone"
  /\ UNCHANGED <<run, events, token, dispatch, faults>> /\ Beside

\* Only the executor looks at it.
DeadlinePasses ==
  /\ ~deadline /\ deadline' = TRUE
  /\ pc \notin {"done", "lost"}
  /\ UNCHANGED <<run, events, pc, journal, talk, entry, worker, dispatch, faults, crashes>>

\* Everything in memory is lost, the hold on the Worker with it, not the Worker.
Crash ==
  /\ crashes < MaxCrashes /\ crashes' = crashes + 1
  /\ pc' = "lost" /\ attached' = FALSE /\ owned' = FALSE /\ NoJournal
  /\ dispatch' = [c \in Cancels |-> IF dispatch[c].stage = "idle" THEN Idle ELSE Served]
  /\ UNCHANGED <<run, events, outcome, deadline, proc, sent, faults>>

Next ==
  \/ Executor
  \/ Connect \/ WorkerFails \/ (\E o \in {"ok", "cancelled", "prompt failed"} : Answer(o))
  \/ (\E c \in Cancels : Cancel(c) \/ Revoke(c) \/ Dispatcher(c))
  \/ WorkerExits \/ DeadlinePasses \/ Crash

Spec == Init /\ [][Next]_vars

\* The executor's thread and the dispatchers run; the Worker need not answer,
\* and no deadline need pass.
FairSpec == Spec /\ WF_vars(Executor) /\ \A c \in Cancels : WF_vars(Dispatcher(c))

-----------------------------------------------------------------------------
\* Types; an executor that has ended left no entry behind, and the journal's copy
\* is never ahead of the record.
TypeOK ==
  /\ run \in Run /\ copy \in Run
  /\ pc \in Stages
  /\ outcome \in {"none", "ok", "cancelled", "prompt failed", "error"}
  /\ evidence \in Asked \cup {"unasked"}
  /\ {failed, completed, seen, attached, token, deadline, owned, sent} \subseteq BOOLEAN
  /\ proc \in {"none", "alive", "gone"}
  /\ faults \in 0..MaxFaults /\ crashes \in 0..MaxCrashes
  /\ copy.revision <= run.revision
  /\ attached => pc \notin {"new", "begin", "prepare", "attach", "done", "lost"}

\* Once a run is revoked nothing about it starts any more: no process, session or
\* prompt is recorded and it is neither prepared nor run, although the executor
\* checks the record before it writes and the revocation may fall in between.
NothingStartsRevoked ==
  [][run.revoked =>
       /\ run'.revoked
       /\ run'.process => run.process
       /\ run'.session => run.session
       /\ run'.prompt => run.prompt
       /\ run'.state \in {"Accepted", "Preparing", "Running"} => run'.state = run.state]_run

\* A prompt that was sent is accounted for in the record, for ever, and a run only
\* counts as succeeded if the Worker answered it and its result was recorded first.
PromptIsAccounted ==
  /\ sent => run.prompt
  /\ run.state = "Succeeded" => sent /\ outcome = "ok" /\ run.result

\* A run whose process was recorded gives its workspace free only when that process
\* has stopped, whichever of executor and dispatcher recorded the end.
FreedRunIsStopped == run.process /\ Releasable(run) => proc # "alive"

Woken == \E c \in Cancels : dispatch[c].stage = "woken"

\* A client's cancellation ends the execution, wherever the executor was, although
\* the Worker never answers: dispatcher and attach cannot miss each other.
CancelledExecutionEnds == Woken ~> pc \in {"done", "lost"}

\* Dispatcher.rs:84-86: lost wakes are harmless, a cancelled run is brought to an end.
CancelledRunIsReconciled == Woken ~> run.state \notin Active
=============================================================================
