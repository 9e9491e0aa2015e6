# Verification of hiroute

TLA+ models of the parts of hiroute whose correctness depends on the order of
things: what the Gateway serves, how a change to the installation is carried out
and taken back, what happens to observations the Gateway cannot deliver, which
route a continued conversation is given, and how a delegated Worker is run,
cancelled and read. TLC checks each model on small
instances; TLAPS proves the main results for all values of the constants.

Paths below are relative to the repository. `PROJECT.json` maps every definition
to the lines it stands for.

- [1. The system](#1-the-system)
- [2. Modules](#2-modules)
- [3. The models and the code](#3-the-models-and-the-code)
- [4. Runs](#4-runs)
- [5. Findings](#5-findings)
- [6. Proofs](#6-proofs)
- [7. What is left out](#7-what-is-left-out)
- [8. Plan](#8-plan)

## 1. The system

hiroute is a local service that sits between coding agents and model providers.
One daemon (`crates/daemon`) holds the *Product* — the user's model connections,
routing, access grants and managed client files, kept in SQLite and in files by
`crates/local-storage` — and the *Gateway* (`crates/gateway` over
`crates/gateway-core`) that serves model requests from a compiled *publication*
of the Product. The Gateway reports what it did through an observation channel
into the observation store (`crates/observation`). The daemon also runs *Workers*:
coding agents it starts as processes, speaks ACP with, and whose text it keeps
(`crates/daemon/src/delegation`).

Every change a user makes is an *Operation*: a plan of effects on several stores,
run by `TransactionCoordinator` (`crates/application/src/operations`), journaled
step by step, activated in an order in which the Gateway never serves something
half done, and taken back by exact ownership when it fails.

### Components that are modelled

| component | state it keeps | operations | why it is hard |
|---|---|---|---|
| publication installer (`gateway-core/src/core/publication.rs`) | the active root (an `ArcSwap`), generation counter, phase and prepared generation under a mutex that is only try-locked | `prepare`, `publish`, `abandon_prepared` of any caller | callers interleave between the reads of `prepare` and the swap of `publish`; a superseded ticket may be used late |
| durable Gateway target (`gateway/src/publication/installer.rs`, `daemon/src/gateway_ports/publication.rs`) | the last-known-good file, the aggregate and the pinnable root, pending, suspended and uncertain flags | `open`, `activate_verified` (prepare, rename, directory sync, publish), suspend, resume, `pin` | the process may stop anywhere; a power loss may undo an unsynced rename; the call may fail or be dropped |
| Operation engine (`application/src/operations`) | the handler's copy of the journal entry and the calls it still has to make | admission, six steps, activation, sealed settings tail, rollback, startup recovery, idempotent retry | crash between any two durable writes; any port call may fail; the copy in memory and the journal may differ |
| owned effects (`local-storage`: control, secrets, runtime, managed files) | each effect's durable marker and the cell it writes | `observe_*`, `apply_*`, `activate_*`, `compensate_*` | rows are written with their marker in one transaction, files by a rename before the marker; users edit files |
| control journal (`local-storage/src/control`) | `operations`, `operation_steps`, `writer_claim`, `gateway_publications` | `begin`, `save`, `finish`, `park`, `reclaim`, `is_current` | the claim must be released with the terminal record, and a parked tail lives without it |
| Product publication adapter (`daemon/src/control/runtime/publication*`) | active, last-known-good and prepared publication, the install decision | suspend, decide, install, mark active, reconcile, compensate | two stores name the served root, and no write covers both |
| observation channel (`gateway/src/observation/producer/bounded.rs`) | next number, reserved bytes, bounded queue, pending loss ranges, the worker's heap and its expected number | `try_publish`, the worker's loop, `close` | numbers are reserved before records exist; dropping, compaction, delivery and failure overlap |
| stream checkpoint (`observation/src/store`) | accounted and contiguous sequence, stored events, gap ranges | ingest of a record or a gap heartbeat | whatever does not start at the next number is refused |
| context hold store (`gateway/src/context_hold/store.rs`) | entries per scope, an index by last use, a byte account | `begin` (two locks), `complete` | the history is hashed between the two locks; entries expire, are evicted and come back; answers complete in any order |
| Worker run (`daemon/src/delegation`, `domain/src/delegation/progress.rs`, `local-storage/src/runtime/delegation`) | the run's record with its revision and checkpoints; the executor's thread, its journal's copy of the record, the dispatcher's entries, the process | `wake`, `execute`, `attach`, `cancel`, `cancel_scope`, `dispatch_pending`, `record_stop` | the executor writes at the revision of a copy that cancellations make stale; the Worker may never answer; nobody repeats a run or a dispatch |
| Worker progress (`daemon/src/delegation/progress.rs`, `observation/src/managed_text/progress.rs`, `daemon/src/control/runtime/delegation_reads.rs`) | a bounded buffer, the flushing task, segments of text in the store, a reader's cursor | `push`, flush, `stop_and_flush`, eviction, deletion, `worker read` | the buffer drops text while a batch is under way; a failed write may have committed; cursors outlive what they point at |

How they interact: the Operation engine calls the owned-effect stores, the journal
and, through the Product publication adapter, the Gateway target. The target owns
one installer of gateway-core and hands requests the root it pins. A request asks
the context hold store for a route hint before it is planned and records its route
when its answer is complete. What a request did is published to the observation
channel, whose worker is the only writer of the channel's stream in the
observation store. A Worker's model requests are requests to the Gateway like any
other; its progress text goes to the same SQLite store as the observations, but not
through the channel, and a revoked authorization reaches its runs in the transaction
that revokes it.

What makes each correct:

- installer: the served root behaves as one register that only moves along the
  publication order, whatever tickets exist;
- target: a request is served the publication a restart would come up with, or
  none; no failure leaves the target unable to accept another publication;
- Operations: at most one writer; nothing the served root depends on is taken
  away; a rolled-back Operation leaves nothing; only its own values are
  overwritten; success is real; recovery ends;
- observation: every number is stored or declared lost, once and in order, and
  the contiguous checkpoint is honest; no byte of the queue's budget leaks;
- holds: a hint belongs to the conversation that asks for it, the first complete
  answer of a cycle decides, the store keeps within its budget;
- Worker run: nothing starts any more once it is revoked; a prompt that was sent is
  never forgotten; a workspace is free only when its Worker has stopped; a
  cancellation ends the execution, whatever the Worker does;
- Worker progress: what a reader is handed is the text, without holes or repetitions
  it is not told of, and nothing after the text was deleted.

### Components that are not modelled

The execution of a request in gateway-core (attempts, drivers, filters, body and
memory budgets); the Gateway's request path (server, routing, planning, replay,
history evidence); projections, queries, content and retention of the observation
store; the rest of the delegation (admission of tasks, profiles, credentials, message
bodies, the ACP transport) and the client listener of the daemon; the daemon's
process roles; the application services that build plans; application-api and contracts;
cli and client-core; cpa-bridge; desktop host effects and host runtime;
diagnostics; the other domain types; integrations; backup, migrations and agent
scans; the desktop application and website; tools and test harness; vendored code,
assets and documentation. `PROJECT.json` gives the reason for each. Several are
planned (section 8); the rest are value types, wire formats, user interface or
sequential I/O that nothing else runs against.

## 2. Modules

| module | is | uses |
|---|---|---|
| `PublicationOrder` | which publication root may replace which | |
| `PublishedRoot` | abstract: one register of the served root | `PublicationOrder` |
| `PublicationInstaller` | the installer; implements `PublishedRoot` | `PublicationOrder` |
| `DurablePublication` | abstract: a durable publication and what requests are served | `PublicationOrder` |
| `GatewayPublication` | the durable target; implements `DurablePublication` | `PublicationOrder` |
| `OwnedEffects` | what the effect stores answer, as operators | |
| `OperationLifecycle` | abstract: states of Operations and the writer claim | |
| `TransactionCoordinator` | engine, stores, journal, adapter and target together; implements `OperationLifecycle` | `OwnedEffects` |
| `ObservationLedger` | abstract: numbers are settled in order and for good | |
| `LossRanges` | the list of undeclared losses, as operators | |
| `ObservationStore` | a stream's checkpoint, events and gaps | |
| `ObservationProducer` | publishers, queue and worker over the store; implements `ObservationLedger` | `ObservationStore`, `LossRanges` |
| `ContextHold` | abstract: entering a scope is atomic, the first answer wins | |
| `ContextHoldStore` | the store with its locks, index and budget; implements `ContextHold` | |
| `DelegationRun` | a run's record and its checkpoints, as operators | |
| `WorkerExecution` | executor, journal, dispatcher, cancellations and Worker of one run | `DelegationRun` |
| `ProgressFeed` | abstract: pages continue each other or a break was announced | |
| `ProgressStore` | a run's text in the store, as operators | |
| `WorkerProgress` | buffer, flushing task, store and a reader; implements `ProgressFeed` | `ProgressStore` |
| `MC*` | small instances for TLC | |
| `*_proofs` | theorems and proofs, one module per component, two for the engine: of one handler, and across Operations | the component |

The modules compose in two ways. `GatewayPublication` contains the installer of
gateway-core as the one register that `PublicationInstaller` is proved to
implement; and `TransactionCoordinator` contains the target as one variable with
the two flags that the adapter sees, which `GatewayPublication` justifies: outside
an installation the target serves the durable publication or nothing.
`ObservationProducer` extends `ObservationStore` directly, `WorkerExecution` and
`WorkerProgress` the operators of the stores they write to. The two speak of the same
run and meet in two places, which `WorkerProgress` leaves open: its `SendPrompt` is
the intent `WorkerExecution` records before the prompt, and its `Stop` may come at any
time, as the end of an execution may.

## 3. The models and the code

### Publication order and installer

`PublicationOrder` is `compare_candidate`: a candidate is its authority, epoch,
revision, payload digest and two flags; `CompareCandidate` is the verdict and
`SaturatingNext` the `saturating_add(1)` of a `u64` revision, with `MaxRevision`
for `u64::MAX`. A root carries the ticket number it was created under, so two
roots are equal exactly when they are the same `Arc`.

In `PublicationInstaller` a caller is a thread in one of `prepare`, `publish` or
`abandon_prepared`. `active` is the `ArcSwapOption`; `phase`, `generation` and
`prepared` are `InstallerState` under `mutex`, which is only ever tried; `ticket`
is the `PreparedPublication` the caller holds. Each action is what happens between
two points at which another thread can be seen: taking the mutex, a read or the
store of the root (which request binding reads without the mutex), the second
read of the token after the swap. Tokens and deadlines belong to callers, so every
check of one is a free choice. `ServesOneRegister` says the installer implements
`PublishedRoot`, a register that takes a new root only if the order admits it
against the root it replaces. Both use `PublicationOrder`, so this says that the order
is obeyed under every interleaving, and nothing of the order itself.
`PhaseBelongsToTicket` is the comment of the code at `publication.rs:568`: a ticket
that was superseded moves neither the phase nor what is prepared, however late it is
published or abandoned.

### Gateway target

`GatewayPublication` runs `activate_verified` for several callers behind the
adapter's async mutex: `Prepare*` (refused, duplicate, accepted), the steps of
`persist` and of `publish` on its file (`Rename`, `SyncDirectory`, `PersistFails`,
`BecomeUncertain`), `PublishCore`, `StoreAggregate`, `StoreAdapter`, and the ways
the call ends early. `lkg` is what the file system shows in the last-known-good
file and `kept` what a power loss may leave there: a rename adds to it, a directory
sync reduces it to the publication renamed last. `ProcessStops` and `PowerLoss` may happen anywhere. `Pin` is what a
request is given. `ServesDurably` says that all of it implements
`DurablePublication`: one durable publication, replaced as the order admits, and
a publication takes over from a served one only when no power loss can undo it.

### Operations

`OwnedEffects` gives, per store, what `observe_*`, `apply_*`, `activate_*` and
`compensate_*` answer and leave behind. A *cell* is a secret, a grant head, the
control head, a runtime entry or a managed file; a value stands for content,
generation and owner at once: the Operation that wrote it, `Restored(o)` for a row
whose content an Operation put back under a new generation, `InitialValue`, or
`Foreign` for what a user wrote into a file. Stores differ in what a staged effect
pins, in how they compensate, and in that a file is switched before its marker is
saved.

`TransactionCoordinator` composes everything an Operation touches:

- `journal`, `order`, `before`, `claim` — `operations` and `operation_steps`, their
  creation order, the values each plan was made against, and `writer_claim`;
- `marker`, `value` — effect rows and cells; `active`, `lkg`, `prepared` — the rows of
  `gateway_publications`;
- `target`, `suspended`, `uncertain` — the Gateway target;
- `phase`, `writesOpen`, `pending`, `admitted` — the process, its startup recovery and
  the requests it accepted;
- `cur`, `mem`, `todo`, `mode`, `doubt` — the handler that holds the writer mutex: the
  Operation it works on, its copy of the journal entry, and the calls still to make.

`todo` is the control flow of `run_operation_locked`: `Forward` lists the calls of the
loop over `OperationStepKind::ALL` and of `finish_success`, `Activation` those of
`activate_exact_effects` in the order of the code, `Rollback` those of
`finish_rollback`, `RetryTail` those of an explicit retry. The list is fixed when the
handler enters, but for the publication: its checkpoint finds that the target has it, or
puts the installation and the record of it at the head of the list. One action makes the call
at the head of the list. Between any two of them the process may `Crash`, a call may
fail (`StepFails`, `VerificationFails`, `CompensationFails`, `HandlerFails`,
`InstallUncertain`) and a user may edit a managed file (`EditFile`). `Restart`,
`Recover` and `OpenWrites` are `reconcile_startup_and_open`; `Accept`, `AcceptAgain`
and `RunAccepted` are admission and the idempotent retry.

`OperationLifecycle` is what is promised of any Operation, whatever it does: states
move as `OperationState::can_transition_to` allows, only under the claim, and the
claim is returned by a closed Operation or by one that parks in `Activate`. One move
needs no claim, `Abandon`: a parked tail that was retried without taking the claim again
may be left for attention (section 5). The coordinator is checked, and proved, to
implement it (`ImplementsLifecycle`, `EngineImplementsLifecycle`).

### Observation channel

`ObservationProducer`: a publisher reserves a number and either drops (record too
large, no bytes, no room) or builds and enqueues; the worker receives into a reorder
buffer, takes a due loss or the expected record, delivers it, and backs off after a
failed declaration. `ObservationStore` is the transaction that ingests a record or a
gap heartbeat of one stream; `LossRanges` is the pending list, with insertion, merging
and compaction to a single range. `ImplementsLedger` maps it to `ObservationLedger`.

### Context holds

`ContextHoldStore`: `Look` is the first lock of `begin` (expiry and the snapshot),
`Contended`, `Continue`, `Restart` and `Insert` are the outcomes of the second lock
after the history was hashed, `Complete` is `complete` with the ticket the request
holds. Time is read before the lock is taken, so each call brings any time that has
passed since it started. `ImplementsHolds` maps it to `ContextHold`, in which entering
a scope is atomic and the first complete answer among those that entered records its
route; the mapping takes as *open* the requests whose token, cycle and version the
entry would still accept.

### Worker runs

`DelegationRun` is `RunProgressV1::advance` and the checkpoints of
`runtime/delegation/events.rs`: which event each checkpoint stands for, what it binds,
when it revokes the run's lease, and that it always consumes a revision. Identities of
the process, the session and the result are reduced to whether they are bound.

In `WorkerExecution`, `run` and `events` are the record and its checkpoints; `copy`,
`failed` and `completed` are the `JournalState`. `pc` names the next call of the
executor's thread, from `wake` over `execute_inner`, `lifecycle::execute` and
`run_session` to `finish`: a check (`check_current`) and the write it guards are two
steps, since a cancellation may commit in between, and so are the read of `attach`
and its insertion. `Records` and `Misses` are the two results of a journal's
checkpoint, where a miss is a stale revision, a checkpoint the record does not admit or
a store that fails. `attached` and `token` are the dispatcher's entry. `proc` is what
the Worker's process really does, `owned` whether the platform still holds it: only a
held process can be proved stopped, and after a crash none is. `Cancel` is a
client's cancellation, which commits the intent and then wakes a dispatcher; `Revoke` is
`cancel_scope`, which wakes nobody. `FailBeforeLaunch` stands for both attempts to
record a failure that comes before the journal, the second of which the executor makes
when the first fails. `Dispatch*` are the steps of one `dispatch_pending`:
its read of the run, its look at the entries, the stop, and the checkpoint at the
revision it read.

### Worker progress

A run's text is a sequence of units numbered as the Worker produced them, so that a hole
or a repetition can be seen. In `WorkerProgress`, `pending`, `gap`, `notified` and
`accepting` are `BufferState`; `permit` is the `Notify`, `task`, `batch` and `backoff`
the flushing task; `header` is the row of `managed_text_progress` with the blocks of its
segment joined into one `window`, `generation` and `hidden` the privacy barrier and the
retention deadline. A write commits, or it fails before or after its commit.
`ReadRun`, `ReadSnapshot` and the actions after it are the three points at which a read
sees the world: the run, the read transaction, and the second look at the barrier.
`ImplementsFeed` maps the reader to `ProgressFeed`, which knows neither buffer nor
segments.

## 4. Runs

State counts are of complete searches.

| run | instance | states | properties |
|---|---|---|---|
| `installer` | 2 callers, 6 candidates, `MaxRevision` 3, `MaxGeneration` 4 | 125,520 | `TicketTracksPhase`, `ServesOneRegister`, `PhaseBelongsToTicket` |
| `gateway` | 2 callers, 5 publications in two epochs | 44,795 | `TypeOK`, `NoSplitService`, `PendingIsOwned`, `ServesDurably` |
| `ordinary` | a connect and the restore that revokes its grant; 2 failing calls, 1 crash; fair | 140,533 | `TypeOK`, `ServedRootIsBacked`, `RevokedAfterReplaced`, `NoTornService`, `RecoveryConverges` |
| `settings` | a settings change and an Operation that may replace its publication and writes an agent file; 2 failing calls, 2 crashes, 1 edit | 1,880,369 | `ServedRootIsBacked`, `FileFollowsService`, `RollbackLeavesNothing`, `ImplementsLifecycle`, `SuccessIsReal`, `OverwritesOnlyItsOwn` |
| `observation` | 2 publishers, sizes 1 and 3, 2 bytes, 2 messages, 1 pending range, 4 numbers, 2 failing deliveries; fair | 154,228 | `TypeOK`, `BytesBalanced`, `HonestFrontier`, `NothingStranded`, `DroppedStaysLost`, `ImplementsLedger`, `EverySequenceSettles` |
| `holds` | 3 requests, 5 prompts in 2 scopes, routes of 1, 2 and 4 bytes, entries of 2, budget 5, idle time 1, times 0..2 | 528,412 | `TypeOK`, `IndexAgrees`, `WithinBudget`, `HintOfThisHistory`, `ImplementsHolds` |
| `progress` | fragments of 1, 2 and 3 units, 4 in all, a buffer of 2, a store of 3, pages of 2, 1 failing write, 1 deletion; fair | 642,240 | `TypeOK`, `SegmentIsContiguous`, `CursorStaysValid`, `ImplementsFeed`, `EventuallyDrained` |
| `delegation` | one run, 2 cancellations or revocations, 1 failing call of the store, 1 crash; fair | 565,213 | `TypeOK`, `PromptIsAccounted`, `FreedRunIsStopped`, `NothingStartsRevoked`, `CancelledExecutionEnds` |
| `tail_startup`, `tail_switched`, `tail_sealed` | settings plans, 1 failing call, at most 1 crash | | one violated property each, section 5 |
| `unreconciled` | one run, 1 cancellation, nothing fails; fair | | one violated property, section 5 |

What they show, and why the bounds are enough:

- `installer`. The interesting races need two tickets: one that was superseded and
  one that superseded it. The six candidates, of revisions 1 to 3, reach every verdict of
  the order; four tickets let each caller come back with a stale ticket after the other
  published twice. The installer's `TypeOK` is proved and not checked here.
- `gateway`. Publications 1, 2 and 3 of one epoch, a conflicting 2 and a newer
  epoch: a duplicate, a conflict, a successor and a restart of the numbering. A power
  loss may fall between any two steps, any number of times.
- `ordinary`, `settings`. Two Operations are what the singleton claim leaves: one that
  ended, parked or needs attention, and one that runs. The first plan has one effect of
  every kind it may have; the second touches the cells of the first that matter for it.
  In `ordinary` two failing calls reach a rollback that itself fails, with a crash
  anywhere, in the rollback as well; and fair scheduling brings the daemon up or leaves
  an Operation for attention. There is no edit in `ordinary`: a user who edits the
  managed file after the publication became active, before a crash, makes startup
  refuse the rollback of the served publication at every start, so `RecoveryConverges`
  does not hold then; what edits may do is asked in `settings`. There one failing call
  parks a tail, the second meets its retry, which is how an Operation comes to need
  attention without the claim, and two crashes hit both its first execution and its
  retry.
- `observation`. Size 3 exceeds the capacity of 2 bytes, so a record is dropped for
  its size, for bytes and for room; one pending range makes every second loss compact
  the list across live numbers; two failing deliveries hit a declaration that is
  retried with losses that came later. Four numbers suffice for a loss, a record that
  compaction swallows, a later record and one behind it.
- `holds`. Three requests are one that left a history, one that is between its locks,
  and one that changes the entry meanwhile; the prompts branch in one scope, extend in
  it, and evict it from the other; a budget of 5 holds two entries only while their
  routes are small; the idle time of 1 lets an entry expire and come back. Requests
  differ in nothing but their names, hence the symmetry.
- `progress`. Fragments shorter than the buffer, as long as it and longer take each branch
  of `push`; four units overflow the buffer while a batch is under way and fill the
  store beyond its three; pages of two units make a reader stop inside a segment. One
  failing write is enough for a loss that meets the loss of an overflow, and one
  deletion may hide the text or only change the generation.
- `delegation`. Two cancellations are one that the executor's entry misses and one that
  finds it, or two dispatchers at once; the failing call may hit any read or write of the
  record by either side but the dispatcher's first read (section 7), and the crash may
  fall anywhere. The deadline passes once.

Fairness. `ordinary` assumes weak fairness of the thread that holds the writer mutex,
of the daemon being started again, and of accepted requests being run: the mutex holder
never waits for another request, the host restarts the daemon, and the mutex queue is
served; `settings` has no fairness. `observation` assumes that `try_publish`,
which never waits, returns; that the worker's thread runs; and that its backoff timer ends. Failing deliveries are bounded by
`MaxFaults`: a sink that fails for ever loses everything by design. `progress` assumes
that the timers of the flushing task fire and that a blocking write returns; `delegation`
that the executor's thread and a dispatcher that was woken run on, for which the thread
of the wake is taken to start. Nothing is assumed of the Worker, which may never answer,
of its deadline, of requests arriving, of a channel or a capture being closed, of crashes
or of edits.

Deadlock is checked in `installer` and `gateway`. Elsewhere the system may stop: a
daemon with nothing to do and its bounds used up, a closed channel whose worker ended,
requests that are all answered, a Worker run that ended.

Every property of a passing run is paired with a mutant of the code (`PROJECT.json`,
`mutants`) that TLC finds to violate it: a dropped lock check, a missing rollback
of a flag, a swapped order of activation, a forgotten release of bytes, an entry whose
index record is left behind. The mutated operators stand next to the originals and are
marked `Mutant:`; nothing else uses them.

## 5. Findings

Four statements in the repository's comments do not hold, three of them of a settings
change whose client file follows a sealed service. Each has a run that ends in a
counterexample.

- `StartupObservesParkedTail` (`control/journal.rs:122`, comment at 90-92). Startup must
  be able to observe a parked tail. If a later Operation crashed holding the claim, the
  older parked tail is recovered first and is refused, so
  `reconcile_startup_and_open` returns an error — at every start.
- `SwitchedTailCompletes` (`operations/mod.rs:412`, comment at 411). "The files were
  already switched; complete the terminal record." If the save after the switch failed,
  the tail was parked without the claim, `resume_settings_tail` does not reclaim it, and
  `finish_operation` answers `Conflict` at every retry. If one more save fails on that
  path, `finish_rollback` is entered with a copy the journal does not know, the
  publication's rollback is refused for it, and `mod.rs:549-559` records
  `NeedsAttention`, for which `finish_operation` asks for no claim. The Operation then
  needs attention and nobody holds the claim for it, against the comment at
  `mod.rs:265-267` ("never release the writer for an effect whose compensation remains
  uncertain"). `OperationLifecycle` has this step as `Abandon`, `settings` reaches it, and
  `LifecycleAbandonedForGood` shows what it costs: such an Operation never moves again,
  while others are admitted over its effects.
- `SealedTailIsRetriedOrParked` (`operations/mod.rs:430`; doc in
  `domain/src/operation/agent_connection.rs:303-306`). An explicit retry switches the
  file, and only then re-checks every effect; if another Operation moved the control
  head meanwhile, the check fails and the retry turns to rolling back the sealed
  service, which is refused, and writes stay closed.
- `CancelledRunIsReconciled` (`daemon/src/delegation/dispatcher.rs:87`, comment at 85-86:
  invoked "at startup/periodic recovery", "lost wakes are harmless"). `dispatch_pending`
  runs only after a cancellation. One that commits between `attach` and `before_launch`
  finds the run attached and signals it; the executor's own records are refused, because
  its copy is stale and only `record_stop` refreshes it; the executor detaches, and the
  run stays `Cancelling`, and its workspace occupied, until another cancellation wakes a
  dispatcher. It takes neither a crash nor a failing call.

## 6. Proofs

`tlapm` checks these for every value of the constants that satisfies the named
assumptions of the modules.

| module | theorems | inductive invariant |
|---|---|---|
| `PublicationInstaller_proofs` | `TypeCorrect`, `PhaseCorrect`, `PhaseOwnership`, `Refinement` | a caller inside a critical section holds the mutex (`MutexHeld`); a ticket was admitted against its baseline and its number is above the baseline's (`TicketsAdmitted`); between the baseline check and the swap the baseline is still the active root (`SwapUnderMutex`); the active root's number was handed out (`RootNumbered`) |
| `GatewayPublication_proofs` | `TargetTypeCorrect`, `SplitFree`, `TicketOwned`, `ImplementsDurablePublication` | one caller is past the mutex (`MutationHeld`); what reaches the live stores was synced (`Synced`); the core, the aggregate and the pinned root lag behind the file by exactly the stores still to be made, unless durability is uncertain (`InStep`) |
| `TransactionCoordinator_proofs` | `EngineTypeCorrect`, `ServedRootStaysBacked`, `SuccessStaysReal`, `OnlyOwnIsOverwritten` | one handler (`Rest`): where it stands, as the set of calls ahead of it (`AgendaInv`); how far its copy may be from the journal (`CopyInv`, `CurrentInv`); an effect behind the publication is active or its activation is ahead (`ActivationInv`); what the terminal check saw is still so (`VerifiedInv`); nothing is undone of a publication that is recorded or served (`RollbackInv`); those are recorded, not aborted, and backed (`PublishedInv`) |
| `TransactionHistory_proofs` | `NoServiceIsTorn`, `RevocationFollows`, `FileIsBehindReceipt`, `RollbackIsComplete`, `EngineImplementsLifecycle`, `EngineOneWriter`, `EngineClosedForGood`, `EngineAbandonedForGood`; of the lifecycle itself `LifecycleTypeCorrect`, `LifecycleOneWriter`, `LifecycleClosedForGood`, `LifecycleAbandonedForGood` | all Operations (`Held`): what a journal entry says of the steps it passed, and which way a handler still has to go (`Path`); whose are the claim and the prepared, recorded and installed publications (`Roots`); whose are the cells, and what is sealed, undone or revoked (`Worth`); nothing ordinary is activated before requests are suspended (`SuspendInv`). Of the lifecycle: types and the claim |
| `ObservationProducer_proofs` | `NumbersSettleOnce`, `FrontierIsHonest`, `WorkerStaysInStep`, `ChannelImplementsLedger`, `DroppedIsNeverStored`, `NothingIsStranded`, `BytesStayBalanced`, `ChannelTypeCorrect` | the store settles each number once and its prefix is honest (`StoreInv`); the worker expects the store's next number, delivers it, and its ceiling is a prefix the store may still acknowledge (`WorkerInv`); pending and taken losses name numbers that were handed out (`LossInv`); a record with a publisher, in the queue, in the buffer or in the worker's hands has a number that was handed out, neither dropped nor stored (`AllLive`), no two of them the same one (`Apart`, `CurrentApart`), and none in the buffer is behind the worker |
| `ContextHoldStore_proofs` | `HoldTypeCorrect`, `HintsStayInBranch`, `StoreImplementsHolds`, `IndexStaysTrue`, `BudgetIsKept` | `EntriesInv`, `RequestsInv`; a ticket is never ahead of the entry it names (`TicketsInv`); the route and the open tickets of an entry belong to its branch (`HistoriesInv`); so do the hints already given (`HintsInv`); finitely many entries, the index of their last uses and the account of their bytes agree, and the account is inside the budget (`AccountInv`) |
| `WorkerExecution_proofs` | `ExecutionTypeCorrect`, `RevokedRunStartsNothing`, `PromptAlwaysAccounted`, `FreedRunHasStopped` | a copy with the record's revision agrees with it about the process, and what an event was recorded for is in the record (`RecordInv`); a revoked run is not starting, unless a stop that found its Worker running was recorded, and then the executor is past its last step (`RevokedInv`); where the executor stands against what it sent and was answered (`PromptInv`); what was recorded of the Worker's end is true of it (`WorkerInv`) |
| `WorkerProgress_proofs` | `ProgressTypeCorrect`, `SegmentHasNoHole`, `CursorsStayValid`, `ProgressImplementsFeed` | there are three offsets into what the Worker wrote, of the present segment, the batch under way and the buffer (`Aligned`): the store's window is the text behind the first (`HeaderInv`); batch and buffer are the text behind the others and continue what is before them, or carry a loss that is still to be declared (`PipelineInv`); the reader's cursor stands for an offset no smaller than what it was handed (`CursorInv`), and so does the page under way (`SnapshotInv`); what the flushing task does fits what it holds (`TaskInv`) |

Each proof shows that the invariant holds initially, that every action keeps it, and that
it implies the property; the refinements then map each action to a step or a stutter of the
abstract specification. An invariant stronger than the property is needed because a
property speaks of what is visible while steps are decided by what is not: that the
root is one register depends on what a stale ticket may still do, that numbers settle
once on what the worker is about to deliver, that a hint belongs to the conversation
on tickets and tokens that were handed out earlier.

- In `ObservationProducer_proofs` what the store and the worker settle needs nothing of
  the list of pending losses: whatever is declared, the store validates the range
  against its checkpoint, and the worker moves only after the store has. What becomes
  of the records does need it. A range that named a number not handed out yet would
  let the worker pass a record still to be made; hence `LossInv`, and lemmas about the
  list's operators (`InsertRanges`, `MergedRanges`, `CompactedRanges`, `TakingRanges`):
  whatever is inserted, merged, compacted or taken stays between numbers that were
  handed out, and inside the limit. A late record is then one whose number a
  declared gap covers, and only its bytes are given back. That nothing is *forgotten* in
  the list is what TLC checks with `EverySequenceSettles`.
- `BytesBalanced` compares one counter with four sums, one of them over the publishers,
  of whom there must be finitely many (`IsFiniteSet(Publishers)` in
  `ProducerAssumption`). That a record counts once there needs `Apart`: records are told
  apart by their numbers.
- In `ContextHoldStore_proofs` evictions and expiries are arbitrary sets of removed
  scopes as far as `StoreImplementsHolds` and `HintsStayInBranch` go, so these do not
  depend on budget, index or clock. `IndexStaysTrue` and `BudgetIsKept` do: the account
  of a route is moved from the old bytes to the new while other scopes are evicted to
  make room, and the budget holds because the room is computed on what the index says.
- Sums over finite sets (`SumFunction`) and the merging of ranges (`FoldLeft`) are
  recursive functions of the community modules, chosen by `CHOOSE`. What is needed of
  them is proved without an induction rule: the recursive function is shown to exist,
  and a statement about it is refuted at the least number of elements at which it
  would fail (`LeastNumber`). `SumTakesAny` says that the order of the sum does not
  matter, `SumAgrees` and `SumSplits` that it depends on the members only. Both modules
  that sum hold these lemmas.
- In `WorkerExecution_proofs` one relation, `Follows`, says what any checkpoint may do
  to the record: only the checkpoints of a start (preparing, process, session, intent of
  the prompt) begin something, and only from a state in which a revoked run is not. It
  is proved of the record's operators once (`RecordedFollows`, `CancelledFollows`), and
  every action is then compared with that relation. The theorems hold for any number of
  cancellations, failing calls and crashes.
- In `WorkerProgress_proofs` the text is what the model makes it, numbers that count
  the Worker's units, so "nothing missing" is arithmetic on offsets. A trimmed window, an
  overflow and a failed write each move one of the offsets; the refinement then reads
  what the reader was handed off `CursorInv`.
- In `TransactionCoordinator_proofs` the list `todo` is the program counter, and its
  shape depends on the plan, on the journal entry a run starts from, and on where it turns
  to rolling back. The invariant does not enumerate those lists. It sees `todo` as the
  set `Ahead` of the calls to come, together with a rank that every list ascends
  (`Agenda`); that a call is ahead, or is not any more, says what was done. A lemma per
  list (`ForwardAgenda`, `RollbackAgenda`, ...) establishes that for `Forward`,
  `Rollback` and the others, and each action is then a statement about sets:
  the head is of the least rank, and the rest is still ahead. The theorems need no
  bound on Operations or plans, nor that a handler ever ends. What they rest on is the
  order of `activate_exact_effects` (a publication call ahead: every effect behind it is
  active or ahead), the abort decision (a compensation ahead: the target does not have the
  publication), and that `finish_rollback` may work on a copy ahead of the journal but
  never on one that decides otherwise.
- What other Operations left behind is the invariant of `TransactionHistory_proofs`, on top
  of that one. An entry says by itself what it left (`RootEntry`, `ValueInv`, `GoneInv`): a sealed receipt has its
  publication recorded and its segment active, a rolled-back Operation has neither
  publication nor cell. An Operation that is under way holds the claim (`ClaimInv`), so at
  most one has unfinished effects; the exception is a parked tail that is retried without the
  claim, which is why its publication must already be the active one (`LoneInv`). A plan
  remembers what it was made against (`before`), and the rollback of a grant or a file puts
  that back; so what a *later* plan was made against must be something nothing rolls back any more (`Kept` in
  `ValueInv`), or a completed rollback could bring an undone value back.
- Before any invariant is shown to be kept, every step is shown to have one of a few forms
  (`Forms`): what it may do to handler and journal (`Handles`), to the publication tables
  and the target (`Publishes`), to the cells (`Stores`), and to the admission of requests
  and Operations (`Admission`). The parts of `Held` are then proved from the forms, each
  from the one or two that can disturb it, rather than action by action.
- `EngineImplementsLifecycle` needs one fact more (`StepInv`): until a rollback is
  recorded the handler's copy is in the state the journal has, or one step ahead, when the
  beginning of that step could not be saved. Without it a rollback could leave from
  a state the lifecycle never saw. The step proof (`LifecycleStep`) goes by what
  happens to the journal and the claim: a state moves, is left for attention, is parked,
  is reclaimed, or nothing the lifecycle sees changes. What the lifecycle promises is then
  true of the engine (`EngineOneWriter`, `EngineClosedForGood`, and its price,
  `EngineAbandonedForGood`); the lifecycle's own theorems say it for any states and
  claim that move so.
- These proofs assume of the values only that what an Operation wrote is told from the
  initial value, a user's edit and a restored value (`ValueAssumption`), as the
  ownership tokens in the markers do.

Only model-checked is what is out of the prover's reach: liveness under fairness
(`RecoveryConverges`, `EverySequenceSettles`, `CancelledExecutionEnds`,
`EventuallyDrained`). Every other property of a passing run is stated by a theorem.

## 7. What is left out

Publication installer and order:

- validation of an envelope's shape is one possible refusal of `prepare`; retirement
  facts and telemetry have no effect on the state.

Gateway target:

- the core is the register `PublishedRoot`, which the installer is proved to
  implement; price identities are left out; the last-known-good file is intact or
  absent, never corrupt.
- the Gateway's compiler sets neither the full nor the rollback flag, so the instance
  offers no such publication; the theorems hold with them as well.

Operations:

- the price snapshot, plan-content activation, the login item, permission
  hardening and the startup's other recoveries are left out, as are
  `no_op` publications;
- staged files lost on disk, tampered receipts and corrupt rows are not modelled;
- observing and renaming a managed file is one step, though a user may write in
  between; the compensation of a file writes it together with its marker;
- Operations are recovered in the order in which they were created, although the
  code orders them by a time in seconds first;
- the save of an effect's record after its activation is not a step of its own: a
  failure of it is the failure of the next save;
- the worker-dependency selection shares the control head's cell;
- the target is one variable: pinning a root takes two reads in the code, and a
  power loss after an unsynced rename is `GatewayPublication`'s subject, not the
  coordinator's;
- observing a publication builds its record again (`publication_record_from_operation`,
  `daemon/src/control/runtime/publication.rs:93`). For an agent's publication whose
  effect is not saved yet this is a conflict when the grant is missing or not the
  Operation's own (lines 132-147), or when neither the active nor the last-known-good
  publication is the one the plan was made against (169-173). The call then fails where
  `ObservePublication` answers Missing or OwnershipLost. In a rollback
  OwnershipLost ends in NeedsAttention as the error does; after Missing the model goes on with
  a rollback the code may leave for attention. Such an error does no more than a failing
  call does, which the model lets fall there as well, within `MaxFaults`.

Observation:

- an envelope carries no loss of its own and the list of channel losses is empty, as
  in the daemon, where losses travel as gap heartbeats;
- refusals of the sink are one kind of failure; a record's builder is taken to
  return; statistics and a flush used only by tests are left out;
- an acknowledgement or refusal is taken to be well formed and about the envelope that
  was delivered: the store derives its identity and content part from that envelope, so
  `RecordCovered` and `GapCovered` keep the comparisons of sequence numbers and leave out
  those of identity and content (`feedback.rs:231-247`, `266-310`). A delivery that is
  stored and whose acknowledgement does not cover it is the ELSE branch of
  `DeliverRecord` and `DeliverGap`;
- a transaction of the store whose commit fails leaves nothing behind
  (`ingest.rs:205-207`; SQLite rolls it back), so a delivery that fails has
  settled no number;
- replays of a delivery are not modelled: the worker never delivers a number twice;
- projections, content, session completeness and retention are left out.

Context holds:

- an entry's bytes are a constant and its route's bytes; what the store takes empty
  is off the budget;
- a history stands for the digests kept of it; a request whose history cannot be
  measured never proceeds; a request passes once;
- a route is identified by the request that took it; overflow checks of 64-bit
  counters and the derivation of a scope's key are left out.

Worker runs:

- the credential of a run, its safety policy and permission requests, the revocation of
  its verifier, its prepared materials and their cleanup, native histories, continuation
  and the lease of finalization have no effect on the variables of the model;
- a wake whose thread cannot be started, and a dispatcher whose first read fails, are
  left out: both are as if the wake had not come; a cancellation is not replayed;
- one run and its dispatchers: that the dispatcher takes pending runs one after another
  is not modelled. Acknowledging a residual process has no caller, so a run whose
  process cannot be observed keeps its workspace;
- a Worker's descendants are part of the scope the platform stops.

Worker progress:

- a unit stands for what the capture never splits; digests, blocks and their limits,
  and a page too small for one character are left out;
- failing reads of the store and a capture that cannot be started are left out.

Hazards that no property covers are in `PROJECT.json` with the reason: a launch whose
record fails twice; the revocation of a scope, which wakes no dispatcher; and a
publication that is activated again after a crash without a sync of its directory, which
`ServesDurably` permits a target that serves nothing yet. The code
accepts some more on purpose: a root pinned before a suspension outlives it, losses the
worker has not declared when its channel is closed are dropped, and so is what the last
flush of a capture could not write. A record's builder is taken not to panic.

## 8. Plan

In the order of their worth:

1. The rest of delegation: admission of a task against the profiles and the workspace,
   the recovery of finalization and continuation, several runs that share a dispatcher;
   permission requests against a cancellation.
2. Managed files in detail: stage file, rename, marker and read-back as steps of their
   own, with crashes and foreign writes between them, refining the cell of
   `OwnedEffects`.
3. The Gateway's replay admission and provider state (`gateway/src/replay*`,
   provider cooldown), and the body and memory budgets of one request in
   gateway-core.
4. cpa-bridge: owner lock, start and stop of the helper process, subscription
   attempts.
5. Observation retention, and the feedback replay of the store.
Components that are added share the runs above where they can: a component with
several small questions gets one instance that asks all of them.
