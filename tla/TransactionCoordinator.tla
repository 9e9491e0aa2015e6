----------------------- MODULE TransactionCoordinator -----------------------
(***************************************************************************)
(* The durable Operation engine of the daemon: TransactionCoordinator      *)
(* (crates/application/src/operations) over the control, secret, runtime   *)
(* and managed-file stores of local-storage, the Product publication       *)
(* tables and the Gateway's publication target.                            *)
(*                                                                         *)
(* An Operation is admitted under a singleton durable writer claim, runs   *)
(* six journaled steps, stages every effect, activates them in one order   *)
(* and either succeeds, is rolled back by exact ownership, parks its       *)
(* client-file tail behind a sealed receipt, or needs attention.  The      *)
(* process may crash between any two durable writes.  One handler runs at  *)
(* a time (the writer mutex): "cur" is the Operation it works on, "mem"    *)
(* its copy of the journal entry and "todo" the calls still to make.  Each *)
(* action makes one call: one durable write, or the reads between two.     *)
(***************************************************************************)
EXTENDS OwnedEffects, Naturals, Sequences, Functions

CONSTANTS Operations,
          Nobody,      \* no Operation
          Plan,        \* the effects of each Operation
          Revokes,     \* Operations whose grant mutation is a revocation
          MaxFaults,   \* bound on port calls that fail
          MaxCrashes,  \* bound on crashes
          MaxEdits     \* bound on edits of managed files by the user

\* The effects each step stages, in plan order.
Effects == [Prepare             |-> <<>>,
            ApplySecrets        |-> <<"secret", "grant">>,
            MaterializeSources  |-> <<"control">>,
            CompilePublication  |-> <<"publication">>,
            ApplyAgentArtifacts |-> <<"artifact", "file">>,
            Activate            |-> <<"runtime">>]

Steps == DOMAIN Effects

Kinds    == Cells \cup {"publication"}
External == Files \cup {"publication"}   \* behind ExternalEffectPort

ASSUME PlanAssumption ==
  /\ Nobody \notin Operations
  /\ Plan \in [Operations -> SUBSET Kinds]
  /\ \A o \in Operations : /\ "control" \in Plan[o]
                           /\ "file" \in Plan[o] => "publication" \in Plan[o]
  /\ Revokes \subseteq Operations

\* What an Operation wrote is told from everything it did not write.
ASSUME ValueAssumption ==
  /\ {InitialValue, Foreign} \cap Operations = {}
  /\ \A o, p \in Operations : Restored(o) # p

ASSUME BoundAssumption == {MaxFaults, MaxCrashes, MaxEdits} \subseteq Nat

\* "file" is the settings client model file; its plan is a settings plan, whose
\* publication is hot-swapped.
Settings(o) == "file" \in Plan[o]

VARIABLES
  journal,    \* operations and operation_steps
  order,      \* the Operations as created
  before,     \* per Operation, the values its plan was made against
  claim,      \* writer_claim, or Nobody
  marker,     \* per Operation and cell, the effect's durable marker
  value,      \* the cells
  active, lkg, prepared,           \* gateway_publications by state
  target, suspended, uncertain,    \* the Gateway's publication target
  phase, writesOpen, pending,      \* the process and its startup recovery
  admitted,                        \* accepted requests about to be run
  cur, mem, todo, mode, doubt,     \* the handler holding the writer mutex
  faults, crashes, edits           \* counters of what the environment did

durable  == <<journal, order, before, claim>>
stores   == <<marker, value>>
product  == <<active, lkg, prepared>>
gateway  == <<target, suspended, uncertain>>
process  == <<phase, writesOpen, pending, admitted>>
handler  == <<cur, mem, todo, mode, doubt>>
counters == <<faults, crashes, edits>>
vars     == <<durable, stores, product, gateway, process, handler, counters>>

Terminal == {"Succeeded", "RolledBack", "NeedsAttention"}
States   == {"none", "Accepted", "RollingBack"} \cup Steps \cup Terminal
Statuses == {"Pending", "Started", "Applied", "Compensating", "Compensated", "Attention"}
Values   == Operations \cup {InitialValue, Foreign} \cup {Restored(o) : o \in Operations}

Entry == [state : States, status : [Steps -> Statuses],
          recorded : SUBSET Kinds, decision : {"Prepared", "Install", "Abort"},
          receipt : BOOLEAN]

Fresh(state) == [state |-> state, status |-> [s \in Steps |-> "Pending"],
                 recorded |-> {}, decision |-> "Prepared", receipt |-> FALSE]

Init ==
  /\ journal = [o \in Operations |-> Fresh("none")]
  /\ order = <<>>
  /\ before = [o \in Operations |-> [k \in Kinds |-> InitialValue]]
  /\ claim = Nobody
  /\ marker = [o \in Operations |-> [c \in Cells |-> "none"]]
  /\ value = [c \in Cells |-> InitialValue]
  /\ active = Nobody /\ lkg = Nobody /\ prepared = Nobody
  /\ target = Nobody /\ suspended = TRUE /\ uncertain = FALSE
  /\ phase = "down" /\ writesOpen = FALSE /\ pending = {} /\ admitted = {}
  /\ cur = Nobody /\ mem = Fresh("none") /\ todo = <<>> /\ mode = "steps" /\ doubt = FALSE
  /\ faults = 0 /\ crashes = 0 /\ edits = 0

-----------------------------------------------------------------------------
(***************************************************************************)
(* What the handler sees                                                   *)
(***************************************************************************)
\* journal::is_current: the handler's copy is the committed one, and the
\* Operation holds the claim, is terminal, or is a parked settings tail while
\* nobody holds it.
IsCurrent ==
  /\ mem = journal[cur]
  /\ \/ mem.state \in Terminal
     \/ claim = cur
     \/ claim = Nobody /\ mem.state = "Activate" /\ mem.receipt

ObservePublication ==
  CASE mem.status["CompilePublication"] = "Compensated" -> "Missing"
    [] OTHER ->
         IF active = cur
           THEN IF uncertain THEN "Error" ELSE IF target = cur THEN "Applied" ELSE "Staged"
           ELSE IF prepared = cur THEN "Staged"
           ELSE IF active = before[cur]["publication"] THEN "Missing" ELSE "OwnershipLost"

\* observe_secret, observe_agent_access_grant, observe_control, observe_runtime
\* and observe_external, which first asks for the committed current Operation.
Seen(k) ==
  IF k \in External /\ ~IsCurrent THEN "Error"
  ELSE IF k = "publication" THEN ObservePublication
  ELSE Observe(k, cur, marker[cur][k], value[k], before[cur][k])

-----------------------------------------------------------------------------
(***************************************************************************)
(* The calls of a run, in order                                            *)
(***************************************************************************)
\* The calls, if p.
When(p, calls) == IF p THEN calls ELSE <<>>

\* f(k) for each of the at most two effects of a step, in plan order and against it.
ForEach(ks, f(_)) ==
  (IF Len(ks) > 0 THEN f(ks[1]) ELSE <<>>) \o (IF Len(ks) > 1 THEN f(ks[2]) ELSE <<>>)
ForEachBack(ks, f(_)) ==
  (IF Len(ks) > 1 THEN f(ks[2]) ELSE <<>>) \o (IF Len(ks) > 0 THEN f(ks[1]) ELSE <<>>)

Planned(o, k, calls) == When(k \in Plan[o], calls)

\* activate_artifact: the rename, then the marker.
ActivateFile(o, f) == Planned(o, f, <<<<"switch", f>>, <<"activate", f>>>>)

\* Mutant: an ordinary revocation is activated with the other secrets.
ActivationRevokingFirst(o) ==
  <<<<"suspend", "control">>>>
  \o Planned(o, "secret", <<<<"activate", "secret">>>>)
  \o Planned(o, "grant", <<<<"activate", "grant">>>>)
  \o <<<<"activate", "control">>>> \o ActivateFile(o, "artifact")
  \o Planned(o, "runtime", <<<<"activate", "runtime">>>>)
  \o Planned(o, "publication", <<<<"checkpoint", "publication">>>>)

\* Mutant: the client file is switched with the other artifacts.
ActivationFileFirst(o) ==
  <<<<"suspend", "control">>>>
  \o Planned(o, "secret", <<<<"activate", "secret">>>>)
  \o <<<<"activate", "control">>>> \o ActivateFile(o, "file")
  \o Planned(o, "publication", <<<<"checkpoint", "publication">>>>)
  \o Planned(o, "file", <<<<"seal", "file">>>>)

\* activate_agent_access_grants
ActivateGrants(o) == Planned(o, "grant", <<<<"activate", "grant">>>>)

\* activate_exact_effects: a revocation waits for the new publication, the
\* client file for the sealed receipt.
Activation(o) ==
  <<<<"suspend", "control">>>>
  \o Planned(o, "secret", <<<<"activate", "secret">>>>)
  \o When(o \notin Revokes, ActivateGrants(o))
  \o <<<<"activate", "control">>>>
  \o ActivateFile(o, "artifact")
  \o Planned(o, "runtime", <<<<"activate", "runtime">>>>)
  \o Planned(o, "publication", <<<<"checkpoint", "publication">>>>)
  \o When(o \in Revokes, ActivateGrants(o))
  \o Planned(o, "file", <<<<"seal", "file">>>>)
  \o ActivateFile(o, "file")

Stage(o, k) == Planned(o, k, <<<<"stage", k>>, <<"record", k>>>>)

StepCalls(o, s) ==
  <<<<"begin", s>>>>
  \o ForEach(Effects[s], LAMBDA k : Stage(o, k))
  \o When(s = "Activate", Activation(o))
  \o <<<<"complete", s>>>>

Finish == <<<<"verify", "Succeeded">>, <<"finish", "Succeeded">>, <<"resume", "Succeeded">>>>

\* What is left of a step when the journal says m.
Remaining(o, m, s) == When(m.status[s] # "Applied" \/ s = "Activate", StepCalls(o, s))

\* The loop over OperationStepKind::ALL and finish_success.
Forward(o, m) ==
  Remaining(o, m, "Prepare") \o Remaining(o, m, "ApplySecrets")
  \o Remaining(o, m, "MaterializeSources") \o Remaining(o, m, "CompilePublication")
  \o Remaining(o, m, "ApplyAgentArtifacts") \o Remaining(o, m, "Activate") \o Finish

\* The explicit retry of a parked settings tail.
RetryTail == <<<<"reclaim", "file">>, <<"switch", "file">>, <<"activate", "file">>>> \o Finish

Reconcile(o, k)  == Planned(o, k, <<<<"reconcile", k>>>>)
Compensate(o, k) == Planned(o, k, <<<<"compensate", k>>>>)

\* What is left to undo of a step.
Undo(o, m, s) ==
  When(m.status[s] # "Compensated",
       <<<<"compensating", s>>>>
       \o ForEach(Effects[s], LAMBDA k : Reconcile(o, k))
       \o ForEachBack(Effects[s], LAMBDA k : Compensate(o, k))
       \o <<<<"settle", s>>>>)

Closing == <<<<"close", "RolledBack">>, <<"resume", "RolledBack">>>>

\* finish_rollback
Rollback(o, m) ==
  When("publication" \in m.recorded, <<<<"abort", "publication">>>>)
  \o <<<<"rollback", "RollingBack">>>>
  \o Undo(o, m, "Activate") \o Undo(o, m, "ApplyAgentArtifacts")
  \o Undo(o, m, "CompilePublication") \o Undo(o, m, "MaterializeSources")
  \o Undo(o, m, "ApplySecrets") \o Undo(o, m, "Prepare")
  \o Closing

Call == Head(todo)[1]
On   == Head(todo)[2]
Calls(name) == cur # Nobody /\ Call = name

Advance == todo' = Tail(todo) /\ UNCHANGED <<cur, mode>>

\* Mutant: the step's state and the Operation's are written the wrong way round.
WrittenSwapped(call, on) ==
  IF call = "begin" THEN [mem EXCEPT !.state = "Started", !.status[on] = on] ELSE mem

\* The journal entry a call writes, before the rest of its effect is known.
Written(call, on) ==
  CASE call = "begin"        -> [mem EXCEPT !.state = on, !.status[on] = "Started"]
    [] call = "record"       -> [mem EXCEPT !.recorded = @ \cup {on}]
    [] call = "complete"     -> [mem EXCEPT !.status[on] = "Applied"]
    [] call = "checkpoint"   -> [mem EXCEPT !.decision = "Install"]
    [] call = "abort"        -> [mem EXCEPT !.decision = "Abort"]
    [] call = "seal"         -> [mem EXCEPT !.receipt = TRUE]
    [] call = "rollback"     -> [mem EXCEPT !.state = "RollingBack"]
    [] call = "compensating" -> [mem EXCEPT !.status[on] = "Compensating"]
    [] OTHER                 -> mem

\* save_operation succeeds.
Save(m) == mem' = m /\ journal' = [journal EXCEPT ![cur] = m]

\* The process ends or is ended: everything volatile is lost.
Stop ==
  /\ phase' = "down" /\ writesOpen' = FALSE /\ pending' = {} /\ admitted' = {}
  /\ cur' = Nobody /\ mem' = Fresh("none") /\ todo' = <<>> /\ mode' = "steps" /\ doubt' = FALSE
  /\ suspended' = TRUE /\ uncertain' = FALSE

\* The handler returns and the writer mutex is free.
Return ==
  /\ cur' = Nobody /\ mem' = Fresh("none") /\ todo' = <<>> /\ mode' = "steps" /\ doubt' = FALSE

\* The handler returns an error.  During startup the daemon then gives up.
ReturnError ==
  IF phase = "starting" THEN Stop /\ UNCHANGED target
  ELSE Return /\ UNCHANGED <<process, gateway>>

\* The handler returns an Operation; startup accepts none that needs attention.
ReturnOperation(m) ==
  IF phase = "starting" /\ m.state = "NeedsAttention" THEN Stop /\ UNCHANGED target
  ELSE Return /\ UNCHANGED <<process, gateway>>

\* A step of the run failed, leaving m in memory: the tail of a sealed service
\* is parked, everything else is rolled back.
Fail(m) ==
  /\ mem' = m
  /\ todo' = IF mode = "tail" \/ (mode = "steps" /\ m.receipt)
               THEN <<<<"park", "file">>>> ELSE Rollback(cur, m)
  /\ UNCHANGED <<cur, mode, doubt>>

-----------------------------------------------------------------------------
(***************************************************************************)
(* Requests, startup and the choice of what to run                         *)
(***************************************************************************)
\* accept_with_reproduced_plan and begin_operation: a new Operation takes the
\* claim, and its plan matches the state it was accepted in.
Accept(o) ==
  /\ phase = "up" /\ writesOpen /\ cur = Nobody
  /\ journal[o].state = "none" /\ claim = Nobody
  /\ journal' = [journal EXCEPT ![o] = Fresh("Accepted")]
  /\ order' = Append(order, o)
  /\ before' = [before EXCEPT ![o] =
       [k \in Kinds |-> IF k = "publication" THEN active ELSE value[k]]]
  /\ claim' = o
  /\ admitted' = admitted \cup {o}
  /\ UNCHANGED <<stores, product, gateway, phase, writesOpen, pending, handler, counters>>

\* The same idempotency key again.
AcceptAgain(o) ==
  /\ phase = "up" /\ writesOpen /\ cur = Nobody
  /\ journal[o].state # "none" /\ o \notin admitted
  /\ admitted' = admitted \cup {o}
  /\ UNCHANGED <<durable, stores, product, gateway, phase, writesOpen, pending, handler,
                 counters>>

Take(o, how) ==
  /\ cur' = o /\ mem' = journal[o] /\ todo' = <<<<"enter", how>>>>
  /\ UNCHANGED <<mode, doubt>>

\* run_accepted takes the writer mutex.
RunAccepted(o) ==
  /\ phase = "up" /\ cur = Nobody /\ o \in admitted
  /\ admitted' = admitted \ {o}
  /\ Take(o, "run")
  /\ UNCHANGED <<durable, stores, product, gateway, phase, writesOpen, pending, counters>>

\* recoverable_operations
Recoverable(o) == \/ journal[o].state \notin Terminal
                  \/ journal[o].state = "NeedsAttention" /\ claim = o

Restart ==
  /\ phase = "down"
  /\ phase' = "starting"
  /\ pending' = {o \in Range(order) : Recoverable(o)}
  /\ UNCHANGED <<durable, stores, product, gateway, writesOpen, admitted, handler, counters>>

\* One iteration of reconcile_startup_and_open, in the order they were created.
Recover ==
  /\ phase = "starting" /\ cur = Nobody
  /\ \E i \in DOMAIN order :
       /\ order[i] \in pending /\ \A j \in 1..(i - 1) : order[j] \notin pending
       /\ pending' = pending \ {order[i]}
       /\ Take(order[i], "startup")
  /\ UNCHANGED <<durable, stores, product, gateway, phase, writesOpen, admitted, counters>>

\* reconcile_active_publication: the target serves the active Product record.
TargetUsable == ~uncertain /\ (active = Nobody => target = Nobody)

\* writer_recovery_required, then the active publication is reconciled.
OpenWrites ==
  /\ phase = "starting" /\ cur = Nobody /\ pending = {}
  /\ IF claim = Nobody /\ TargetUsable
       THEN /\ phase' = "up" /\ writesOpen' = TRUE
            /\ target' = active /\ suspended' = FALSE
            /\ UNCHANGED <<pending, admitted, uncertain, handler>>
       ELSE Stop /\ UNCHANGED target
  /\ UNCHANGED <<durable, stores, product, counters>>

\* Mutant: the markers of the stores are proof enough.
RollbackProvenByMarkers == \A k \in mem.recorded \cap Cells : marker[cur][k] = "undone"

\* A vanished marker is no proof: every planned effect must be seen as missing
\* and every recorded one as compensated.
RollbackProven ==
  /\ \A s \in Steps : mem.status[s] = "Compensated"
  /\ \A k \in Plan[cur] : Seen(k) = "Missing"
  /\ \A k \in mem.recorded \cap Cells : marker[cur][k] = "undone"

\* run_operation_locked up to the settings tail.
EnterOperation ==
  /\ Calls("enter") /\ ~(mem.state = "Activate" /\ mem.receipt)
  /\ IF \/ mem.state \in {"Succeeded", "RolledBack"}
        \/ mem.state = "NeedsAttention" /\ ~RollbackProven
       THEN ReturnOperation(mem)
       ELSE /\ todo' = CASE mem.state = "NeedsAttention" -> Closing
                         [] mem.state = "RollingBack"    -> Rollback(cur, mem)
                         [] OTHER                        -> Forward(cur, mem)
            /\ UNCHANGED <<process, gateway, cur, mem, mode, doubt>>
  /\ UNCHANGED <<durable, stores, product, counters>>

\* resume_settings_tail
ResumeSettingsTail ==
  /\ Calls("enter") /\ mem.state = "Activate" /\ mem.receipt
  /\ LET seen == Seen("publication")
         unsealed == [mem EXCEPT !.receipt = FALSE]
         Go(calls, how) == todo' = calls /\ mode' = how /\ UNCHANGED <<cur, doubt>>
     IN CASE seen = "Error" ->
               ReturnError /\ UNCHANGED journal
          [] seen \in {"Staged", "Missing"} ->
               /\ Save(unsealed) /\ Go(Forward(cur, unsealed), "strict")
               /\ UNCHANGED <<process, gateway>>
          [] OTHER ->
               /\ IF seen = "OwnershipLost" THEN Go(<<<<"park", "file">>>>, "tail")
                  ELSE IF Seen("file") = "Applied" THEN Go(Forward(cur, mem), "strict")
                  ELSE IF On = "startup" THEN Go(<<<<"park", "file">>>>, "tail")
                  ELSE Go(RetryTail, "tail")
               /\ UNCHANGED <<mem, journal, process, gateway>>
  /\ UNCHANGED <<order, before, claim, stores, product, counters>>

-----------------------------------------------------------------------------
(***************************************************************************)
(* The steps of a run                                                      *)
(***************************************************************************)
SaveProgress ==
  /\ Calls("begin") \/ Calls("complete")
  /\ Save(Written(Call, On)) /\ Advance
  /\ UNCHANGED <<order, before, claim, stores, product, gateway, process, doubt, counters>>

\* The journal keeps an effect that turned out not to be ours.
FailRecorded(k) ==
  /\ journal' = [journal EXCEPT ![cur] = Written("record", k)]
  /\ Fail(Written("record", k))
  /\ UNCHANGED <<order, before, claim, stores, product>>

\* observe, then apply_secret, apply_agent_access_grant, apply_control,
\* apply_external or apply_runtime if nothing is there yet.
StageEffect ==
  /\ Calls("stage") /\ On \in Cells
  /\ LET seen == Seen(On) IN
     CASE seen \in {"Staged", "Applied"} ->
            Advance /\ UNCHANGED <<durable, stores, product, mem, doubt>>
       [] seen = "Missing" /\ CanStage(marker[cur][On], value[On], before[cur][On]) ->
            /\ marker' = [marker EXCEPT ![cur][On] = "staged"]
            /\ Advance
            /\ UNCHANGED <<durable, value, product, mem, doubt>>
       [] seen = "OwnershipLost" -> FailRecorded(On)
       [] OTHER -> Fail(mem) /\ UNCHANGED <<durable, stores, product>>
  /\ UNCHANGED <<gateway, process, counters>>

\* observe_publication, then apply_publication and prepare_publication.
StagePublication ==
  /\ Calls("stage") /\ On = "publication"
  /\ LET seen == Seen(On) IN
     CASE seen \in {"Staged", "Applied"} ->
            Advance /\ UNCHANGED <<durable, stores, product, mem, doubt>>
       [] seen = "Missing" /\ prepared = Nobody ->
            /\ prepared' = cur
            /\ Advance
            /\ UNCHANGED <<durable, stores, active, lkg, mem, doubt>>
       [] seen = "OwnershipLost" -> FailRecorded(On)
       [] OTHER -> Fail(mem) /\ UNCHANGED <<durable, stores, product>>
  /\ UNCHANGED <<gateway, process, counters>>

\* record_effect: nothing to save when the effect is already there.
RecordEffect ==
  /\ Calls("record")
  /\ IF On \in mem.recorded THEN UNCHANGED <<mem, journal>> ELSE Save(Written("record", On))
  /\ Advance
  /\ UNCHANGED <<order, before, claim, stores, product, gateway, process, doubt, counters>>

\* Mutant: the hot-swapped publications are the ones that suspend requests.
BeginSuspendingSettings ==
  /\ Calls("suspend")
  /\ suspended' = (suspended \/ ("publication" \in Plan[cur] /\ Settings(cur)))
  /\ Advance
  /\ UNCHANGED <<mem, doubt, durable, stores, product, target, uncertain, process, counters>>

\* begin_product_activation: only a settings publication is hot-swapped.
BeginPublicationActivation ==
  /\ Calls("suspend")
  /\ IF IsCurrent
       THEN /\ suspended' = (suspended \/ ("publication" \in Plan[cur] /\ ~Settings(cur)))
            /\ Advance
            /\ UNCHANGED <<mem, doubt>>
       ELSE Fail(mem) /\ UNCHANGED suspended
  /\ UNCHANGED <<durable, stores, product, target, uncertain, process, counters>>

\* activate_artifact up to its rename; the marker is saved by the next call.
SwitchFile ==
  /\ Calls("switch")
  /\ LET seen == Seen(On) IN
     IF seen \in {"Staged", "Applied"}
       THEN value' = [value EXCEPT ![On] = cur] /\ Advance /\ UNCHANGED <<mem, doubt>>
       ELSE Fail(mem) /\ UNCHANGED value
  /\ UNCHANGED <<durable, marker, product, gateway, process, counters>>

\* observe, then activate_* of a staged effect.
ActivateEffect ==
  /\ Calls("activate")
  /\ LET seen == Seen(On) IN
     CASE seen = "Applied" -> Advance /\ UNCHANGED <<stores, mem, doubt>>
       [] seen = "Staged" /\ CanActivate(On, cur, marker[cur][On], value[On], before[cur][On]) ->
            /\ marker' = [marker EXCEPT ![cur][On] = "active"]
            /\ value' = [value EXCEPT ![On] = cur]
            /\ Advance
            /\ UNCHANGED <<mem, doubt>>
       [] OTHER -> Fail(mem) /\ UNCHANGED stores
  /\ UNCHANGED <<durable, product, gateway, process, counters>>

\* publication_install_checkpoint and its save; an installed publication needs
\* neither the checkpoint nor the two calls that carry it out.
PreparePublicationActivation ==
  /\ Calls("checkpoint")
  /\ CASE Seen(On) = "Applied" -> Advance /\ UNCHANGED <<mem, journal, doubt>>
       [] Seen(On) = "Staged" /\ mem.decision # "Abort" ->
            /\ Save(Written(Call, On))
            /\ todo' = <<<<"install", On>>, <<"mark", On>>>> \o Tail(todo)
            /\ UNCHANGED <<cur, mode, doubt>>
       [] OTHER -> Fail(mem) /\ UNCHANGED journal
  /\ UNCHANGED <<order, before, claim, stores, product, gateway, process, counters>>

\* activate_publication: the target installs and verifies the record.
InstallPublication ==
  /\ Calls("install")
  /\ IF IsCurrent /\ cur \in {active, prepared} /\ ~uncertain
       THEN target' = cur /\ Advance /\ UNCHANGED <<mem, doubt>>
       ELSE Fail(mem) /\ UNCHANGED target
  /\ UNCHANGED <<durable, stores, product, suspended, uncertain, process, counters>>

\* The target fails after its durable write: which root a restart would serve
\* is unknown until then.
InstallUncertain ==
  /\ Calls("install") /\ faults < MaxFaults
  /\ IsCurrent /\ cur \in {active, prepared} /\ ~uncertain
  /\ faults' = faults + 1
  /\ uncertain' = TRUE
  /\ target' \in {target, cur}
  /\ Fail(mem)
  /\ UNCHANGED <<durable, stores, product, suspended, process, crashes, edits>>

\* mark_publication_active
MarkPublicationActive ==
  /\ Calls("mark")
  /\ CASE active = cur -> Advance /\ UNCHANGED <<product, mem, doubt>>
       [] active # cur /\ prepared = cur ->
            /\ active' = cur /\ lkg' = active /\ prepared' = Nobody
            /\ Advance
            /\ UNCHANGED <<mem, doubt>>
       [] OTHER -> Fail(mem) /\ UNCHANGED product
  /\ UNCHANGED <<durable, stores, gateway, process, counters>>

\* seal_settings_service_completion
SealSettingsServiceCompletion ==
  /\ Calls("seal")
  /\ IF "publication" \in mem.recorded
       THEN Save(Written(Call, On)) /\ Advance /\ UNCHANGED doubt
       ELSE Fail(mem) /\ UNCHANGED journal
  /\ UNCHANGED <<order, before, claim, stores, product, gateway, process, counters>>

\* Mutant: a journal that says Applied is evidence enough.
TrustJournal ==
  /\ Calls("verify")
  /\ Advance
  /\ UNCHANGED <<durable, stores, product, gateway, process, mem, doubt, counters>>

\* reconcile_terminal_success: whatever fails here, everything is rolled back.
ReconcileTerminalSuccess ==
  /\ Calls("verify")
  /\ todo' = IF \A k \in Plan[cur] : Seen(k) = "Applied" THEN Tail(todo) ELSE Rollback(cur, mem)
  /\ UNCHANGED <<durable, stores, product, gateway, process, cur, mem, mode, doubt, counters>>

\* Mutant: finish_operation forgets to release the claim.
FinishKeepingClaim(state) ==
  /\ Save([mem EXCEPT !.state = state])
  /\ Advance
  /\ UNCHANGED <<claim, process, gateway, doubt>>

\* finish_operation: the terminal record and the claim go together.
FinishReleasing(state) ==
  IF claim = cur
    THEN /\ Save([mem EXCEPT !.state = state])
         /\ claim' = Nobody
         /\ Advance
         /\ UNCHANGED <<process, gateway, doubt>>
    ELSE ReturnError /\ UNCHANGED <<journal, claim>>

FinishSuccess ==
  /\ Calls("finish")
  /\ FinishReleasing("Succeeded")
  /\ UNCHANGED <<order, before, stores, product, counters>>

\* finish_product_activation
FinishPublicationActivation ==
  /\ Calls("resume")
  /\ CASE mem.state = "NeedsAttention" \/ "publication" \notin Plan[cur] -> ReturnOperation(mem)
       [] OTHER ->
            IF TargetUsable
              THEN Return /\ target' = active /\ suspended' = FALSE /\ UNCHANGED <<uncertain, process>>
              ELSE ReturnError
  /\ UNCHANGED <<durable, stores, product, counters>>

\* save_operation_tail: the journal is saved and the claim released at once.
SaveOperationTail ==
  /\ Calls("park")
  /\ IF claim \in {cur, Nobody}
       THEN /\ journal' = [journal EXCEPT ![cur] = mem]
            /\ claim' = Nobody
            /\ ReturnOperation(mem)
       ELSE ReturnError /\ UNCHANGED <<journal, claim>>
  /\ UNCHANGED <<order, before, stores, product, counters>>

ReclaimOperationWriter ==
  /\ Calls("reclaim")
  /\ IF claim \in {cur, Nobody}
       THEN claim' = cur /\ mem' = journal[cur] /\ Advance /\ UNCHANGED <<process, gateway, doubt>>
       ELSE ReturnError /\ UNCHANGED claim
  /\ UNCHANGED <<journal, order, before, stores, product, counters>>

-----------------------------------------------------------------------------
(***************************************************************************)
(* finish_rollback                                                         *)
(***************************************************************************)
\* The root the plan was made against is known and is the one installed.
StillBefore ==
  LET b == before[cur]["publication"] IN
  /\ active # cur /\ ~uncertain
  /\ b # Nobody => b \in {active, lkg}
  /\ target = b

\* Mutant: the abort decision is recorded without asking the target.
AbortUnchecked ==
  /\ Calls("abort")
  /\ Save(Written(Call, On)) /\ Advance
  /\ UNCHANGED <<order, before, claim, stores, product, gateway, process, doubt, counters>>

\* publication_abort_checkpoint: decided and saved before anything is undone.
PreparePublicationRollback ==
  /\ Calls("abort")
  /\ CASE IsCurrent /\ (mem.decision = "Abort" \/ StillBefore) ->
            Save(Written(Call, On)) /\ Advance /\ UNCHANGED <<process, gateway, doubt>>
       [] IsCurrent /\ mem.decision # "Abort" /\ ~StillBefore ->
            /\ UNCHANGED journal
            /\ IF phase = "starting" THEN ReturnError ELSE
                 /\ writesOpen' = FALSE
                 /\ Return
                 /\ UNCHANGED <<phase, pending, admitted, gateway>>
       [] OTHER ->
            /\ journal' = [journal EXCEPT ![cur] = [mem EXCEPT !.state = "NeedsAttention"]]
            /\ IF phase = "starting" THEN ReturnError ELSE
                 /\ writesOpen' = FALSE
                 /\ Return
                 /\ UNCHANGED <<phase, pending, admitted, gateway>>
  /\ UNCHANGED <<order, before, claim, stores, product, counters>>

SaveRollbackProgress ==
  /\ Calls("rollback") \/ Calls("compensating")
  /\ Save(Written(Call, On)) /\ Advance
  /\ UNCHANGED <<order, before, claim, stores, product, gateway, process, doubt, counters>>

\* The step is not reconciled any further; it has at most one more effect.
SkipReconciling ==
  todo' = IF Tail(todo) # <<>> /\ Head(Tail(todo))[1] = "reconcile"
            THEN Tail(Tail(todo)) ELSE Tail(todo)

ToRecord == Seen(On) \notin {"Missing", "Error"} /\ On \notin mem.recorded

\* reconcile_step_for_rollback: an effect the crash kept out of the journal is
\* recorded before it is undone.
ReconcileForRollback ==
  /\ Calls("reconcile")
  /\ LET seen == Seen(On) IN
     /\ IF ToRecord THEN Save(Written("record", On)) ELSE UNCHANGED <<mem, journal>>
     /\ IF seen = "Error" THEN SkipReconciling ELSE todo' = Tail(todo)
     /\ doubt' = (doubt \/ seen \in {"OwnershipLost", "Error"})
  /\ UNCHANGED <<order, before, claim, stores, product, gateway, process, cur, mode, counters>>

CompensateEffect ==
  /\ Calls("compensate") /\ On \in Cells
  /\ LET result == Compensation(On, cur, marker[cur][On], value[On], before[cur][On])
         reached == On \in mem.recorded /\ (On \in Files => IsCurrent)
     IN /\ IF reached
             THEN /\ marker' = [marker EXCEPT ![cur][On] = result.marker]
                  /\ value' = [value EXCEPT ![On] = result.value]
             ELSE UNCHANGED stores
        /\ doubt' = (\/ doubt
                     \/ On \in mem.recorded /\ ~reached
                     \/ reached /\ result.outcome \in {"OwnershipLost", "Error"})
  /\ todo' = Tail(todo)
  /\ UNCHANGED <<durable, product, gateway, process, cur, mem, mode, counters>>

\* compensate_publication: only an aborted, still prepared record is discarded.
CompensatePublication ==
  /\ Calls("compensate") /\ On = "publication"
  /\ IF On \in mem.recorded /\ IsCurrent /\ mem.decision = "Abort" /\ prepared = cur
       THEN prepared' = Nobody /\ UNCHANGED doubt
       ELSE UNCHANGED prepared /\ doubt' = (doubt \/ On \in mem.recorded)
  /\ todo' = Tail(todo)
  /\ UNCHANGED <<durable, stores, active, lkg, gateway, process, cur, mem, mode, counters>>

SettleCompensation ==
  /\ Calls("settle")
  /\ Save([mem EXCEPT !.status[On] = IF doubt THEN "Attention" ELSE "Compensated"])
  /\ doubt' = FALSE
  /\ Advance
  /\ UNCHANGED <<order, before, claim, stores, product, gateway, process, counters>>

\* Mutant: an Operation that needs attention gives the writer claim back.
FinishRollbackReleasing ==
  /\ Calls("close")
  /\ IF RollbackProven THEN FinishReleasing("RolledBack") ELSE FinishReleasing("NeedsAttention")
  /\ UNCHANGED <<order, before, stores, product, counters>>

\* reconcile_terminal_rollback and finish_operation.
FinishRollback ==
  /\ Calls("close")
  /\ IF RollbackProven
       THEN FinishReleasing("RolledBack")
       ELSE /\ Save([mem EXCEPT !.state = "NeedsAttention"])
            /\ Advance
            /\ UNCHANGED <<claim, process, gateway, doubt>>
  /\ UNCHANGED <<order, before, stores, product, counters>>

-----------------------------------------------------------------------------
(***************************************************************************)
(* The environment                                                         *)
(***************************************************************************)
ForwardCalls == {"begin", "stage", "record", "suspend", "switch", "activate", "checkpoint",
                 "install", "mark", "seal", "complete"}

\* A port call of a forward step fails and leaves no effect.  A save that fails
\* leaves the handler's copy ahead of the journal.
StepFails ==
  /\ faults < MaxFaults
  /\ cur # Nobody /\ Call \in ForwardCalls
  /\ faults' = faults + 1
  /\ Fail(Written(Call, On))
  /\ UNCHANGED <<durable, stores, product, gateway, process, crashes, edits>>

\* The terminal check fails: an observation returned an error.
VerificationFails ==
  /\ faults < MaxFaults
  /\ faults' = faults + 1
  /\ \/ /\ Calls("verify")
        /\ todo' = Rollback(cur, mem)
        /\ UNCHANGED <<mem, journal>>
     \/ /\ Calls("close")
        /\ Save([mem EXCEPT !.state = "NeedsAttention"])
        /\ todo' = Tail(todo)
  /\ UNCHANGED <<order, before, claim, stores, product, gateway, process, cur, mode, doubt,
                 crashes, edits>>

\* An observation, the save after it or a compensation fails; the other effects
\* are still undone.
CompensationFails ==
  /\ faults < MaxFaults
  /\ faults' = faults + 1
  /\ Calls("reconcile") \/ Calls("compensate")
  /\ IF Call = "reconcile" THEN SkipReconciling ELSE todo' = Tail(todo)
  /\ mem' \in {mem} \cup (IF Call = "reconcile" /\ ToRecord THEN {Written("record", On)} ELSE {})
  /\ doubt' = TRUE
  /\ UNCHANGED <<durable, stores, product, gateway, process, cur, mode, crashes, edits>>

\* A save or a claim of the transaction itself fails: the handler gives up.
HandlerFails ==
  /\ faults < MaxFaults
  /\ faults' = faults + 1
  /\ cur # Nobody
  /\ Call \in {"reclaim", "park", "finish", "resume", "abort", "rollback", "compensating", "settle"}
  /\ ReturnError
  /\ UNCHANGED <<durable, stores, product, crashes, edits>>

Crash ==
  /\ phase # "down" /\ crashes < MaxCrashes
  /\ crashes' = crashes + 1
  /\ Stop
  /\ UNCHANGED <<durable, stores, product, target, faults, edits>>

\* Somebody else writes a managed file.
EditFile(f) ==
  /\ edits < MaxEdits
  /\ edits' = edits + 1
  /\ value' = [value EXCEPT ![f] = Foreign]
  /\ UNCHANGED <<durable, marker, product, gateway, process, handler, faults, crashes>>

-----------------------------------------------------------------------------
\* What the handler does next.
Continue ==
  \/ EnterOperation \/ ResumeSettingsTail
  \/ SaveProgress \/ StageEffect \/ StagePublication \/ RecordEffect
  \/ BeginPublicationActivation \/ SwitchFile \/ ActivateEffect
  \/ PreparePublicationActivation \/ InstallPublication \/ MarkPublicationActive
  \/ SealSettingsServiceCompletion \/ ReconcileTerminalSuccess \/ FinishSuccess
  \/ FinishPublicationActivation \/ SaveOperationTail \/ ReclaimOperationWriter
  \/ PreparePublicationRollback \/ SaveRollbackProgress \/ ReconcileForRollback
  \/ CompensateEffect \/ CompensatePublication \/ SettleCompensation \/ FinishRollback

Request(o) == Accept(o) \/ AcceptAgain(o) \/ RunAccepted(o)

Startup == Restart \/ Recover \/ OpenWrites

Environment ==
  \/ InstallUncertain \/ StepFails \/ VerificationFails \/ CompensationFails \/ HandlerFails
  \/ Crash \/ \E f \in Files : EditFile(f)

Next == Continue \/ Startup \/ Environment \/ \E o \in Operations : Request(o)

Spec == Init /\ [][Next]_vars

\* The thread that holds the writer mutex keeps running, a request that was
\* accepted is run, and the daemon is started again.
Fairness == WF_vars(Continue) /\ WF_vars(Startup) /\ WF_vars(\E o \in Operations : RunAccepted(o))

FairSpec == Spec /\ Fairness

-----------------------------------------------------------------------------
TypeOK ==
  /\ journal \in [Operations -> Entry]
  /\ order \in Seq(Operations)
  /\ before \in [Operations -> [Kinds -> Values \cup {Nobody}]]
  /\ {claim, active, lkg, prepared, target, cur} \subseteq Operations \cup {Nobody}
  /\ marker \in [Operations -> [Cells -> Markers]]
  /\ value \in [Cells -> Values]
  /\ {suspended, uncertain, writesOpen, doubt} \subseteq BOOLEAN
  /\ phase \in {"down", "starting", "up"}
  /\ pending \subseteq Operations /\ admitted \subseteq Operations
  /\ mem \in Entry /\ mode \in {"steps", "strict", "tail"}
  /\ faults \in 0..MaxFaults /\ crashes \in 0..MaxCrashes /\ edits \in 0..MaxEdits

(***************************************************************************)
(* Properties                                                              *)
(***************************************************************************)
\* A settings Operation whose service is sealed and whose client file is not
\* switched yet; it may be left without the claim.
Parked(o) == journal[o].state = "Activate" /\ journal[o].receipt

Settled(o) == journal[o].state \in {"none", "Succeeded", "RolledBack"}

\* However handlers, startup recovery, crashes and failed saves interleave, the
\* journal moves as the lifecycle promises, one writer at a time.
Lifecycle == INSTANCE OperationLifecycle
  WITH state <- [o \in Operations |-> journal[o].state], writer <- claim
ImplementsLifecycle == Lifecycle!Spec

\* The effects a request served from o's publication relies on.  A revocation
\* is not among them: it follows the publication.
Backing(o) ==
  Plan[o] \cap ({"secret", "control", "artifact", "runtime"}
                \cup IF o \in Revokes THEN {} ELSE {"grant"})

\* What the Gateway serves, or would serve after a restart, is backed: every
\* effect the publication depends on is active, across uncertain installs,
\* crashes and rollbacks (the activation order and the abort decision).
ServedRootIsBacked ==
  target # Nobody => \A k \in Backing(target) : marker[target][k] = "active"

\* Protected material is revoked only after the publication that still
\* accepted it was replaced, in the Product and at the Gateway.
RevokedAfterReplaced ==
  \A o \in Revokes :
    "publication" \in Plan[o] /\ marker[o]["grant"] = "active"
      => before[o]["publication"] \notin {active, target} \ {Nobody}

\* A client file is switched only behind a sealed receipt, and a receipt is
\* sealed only when the whole service segment is active.
FileFollowsService ==
  \A o \in Operations :
    /\ "file" \in Plan[o] /\ value["file"] = o => journal[o].receipt
    /\ journal[o].receipt =>
         /\ \A k \in (Plan[o] \cap Cells) \ {"file"} : marker[o][k] = "active"
         /\ o \notin {prepared, Nobody}

\* A rolled-back Operation left nothing behind: no effect, no publication, and
\* no cell that still holds what it wrote.
RollbackLeavesNothing ==
  \A o \in Operations : journal[o].state = "RolledBack" =>
    /\ \A c \in Cells : marker[o][c] \notin {"staged", "active"} /\ value[c] # o
    /\ o \notin {active, prepared, target}

\* While an ordinary Operation that publishes is half activated the Gateway
\* admits no request, so none sees its new secrets with the old publication;
\* after a failed rollback and a restart as well.
NoTornService ==
  ~suspended => \A o \in Operations :
    "publication" \in Plan[o] /\ ~Settings(o) /\ journal[o].state # "Succeeded"
      => \A c \in Cells : marker[o][c] # "active"

\* Exact ownership: a handler overwrites a cell only if it holds the value the
\* Operation's plan was made against or the Operation's own value, when it
\* activates as when it rolls back.
OverwritesOnlyItsOwn ==
  [][ \A c \in Cells : value'[c] # value[c] /\ edits' = edits
        => cur # Nobody /\ value[c] \in {before[cur][c], cur} ]_vars

\* Success is recorded only for an Operation whose rows are still its own and
\* whose publication is the one the Product and the Gateway serve.
SuccessIsReal ==
  [][ \A o \in Operations :
        journal[o].state # "Succeeded" /\ journal'[o].state = "Succeeded" =>
          /\ \A c \in Plan[o] \cap Rows : marker[o][c] = "active" /\ value[c] = o
          /\ \A c \in Plan[o] \cap Files : marker[o][c] = "active"
          /\ "publication" \in Plan[o] => active = o /\ target = o ]_vars

\* Recovery converges: after crashes and failures end, the daemon comes up, or
\* an Operation is left for attention.
RecoveryConverges ==
  phase # "up" ~> (phase = "up" \/ \E o \in Operations : journal[o].state = "NeedsAttention")

(***************************************************************************)
(* What comments of the code say of a parked settings tail                 *)
(***************************************************************************)
\* operation_is_current "must still be able to observe this exact committed
\* journal during startup recovery" (control/journal.rs).
StartupObservesParkedTail ==
  phase = "starting" /\ Calls("enter") /\ Parked(cur) => IsCurrent

\* "The files were already switched; complete the terminal record, never
\* rewrite" (resume_settings_tail): the record of such a tail can be completed.
SwitchedTailCompletes ==
  Calls("finish") /\ mode = "strict" => claim = cur

\* The receipt "authorizes the client-file tail to be retried or parked"
\* (SettingsServiceCompletionV1): an explicit retry never turns to rolling back.
SealedTailIsRetriedOrParked ==
  ~(Calls("abort") /\ mode = "tail")
=============================================================================
