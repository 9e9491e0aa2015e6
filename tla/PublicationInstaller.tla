------------------------ MODULE PublicationInstaller ------------------------
(***************************************************************************)
(* The two-phase publication installer of gateway-core                     *)
(* (crates/gateway-core/src/core/publication.rs and publication/adapter.rs)*)
(*                                                                         *)
(* Callers run concurrently.  A caller compiles a candidate, calls prepare *)
(* and gets a ticket; later it hands the ticket to publish or to           *)
(* abandon_prepared, which consume it whatever they return.  The installer *)
(* state (phase, generation, prepared_generation) is behind a mutex that   *)
(* prepare and publish only try to take; the active root is an ArcSwap     *)
(* that request binding reads without the mutex, so the store of a new     *)
(* root is a step of its own.                                              *)
(*                                                                         *)
(* Cancellation tokens and deadlines belong to the callers.  Every check   *)
(* of one may find it fired, so each such check is a free choice here.     *)
(***************************************************************************)
EXTENDS PublicationOrder

CONSTANTS Callers,        \* concurrent callers of the installer
          NoCaller,       \* the mutex is free
          NoTicket,       \* the caller holds no PreparedPublication
          MaxGeneration   \* bound on successful prepares, for model checking

ASSUME NoCallerAssumption == NoCaller \notin Callers

VARIABLES active,      \* ArcSwapOption<ActivePublication>
          phase,       \* InstallerState.phase
          generation,  \* InstallerState.generation
          prepared,    \* InstallerState.prepared_generation, 0 for None
          mutex,       \* holder of Mutex<InstallerState>
          pc,          \* where each caller is
          offer,       \* the candidate each caller brought to prepare
          ticket       \* the PreparedPublication each caller holds

vars == <<active, phase, generation, prepared, mutex, pc, offer, ticket>>

Phases == {"Idle", "Prepared", "Publishing", "Published", "Rejected", "Cancelled"}

Ticket == [gen : Nat \ {0}, cand : Candidates, baseline : Root \cup {NoRoot}]

ASSUME NoTicketAssumption == NoTicket \notin Ticket

\* A caller inside the critical section of prepare or publish.
Locked == {"preparing", "publishing", "swapping", "swapped"}

TypeOK ==
  /\ active \in Root \cup {NoRoot}
  /\ phase \in Phases
  /\ generation \in Nat
  /\ prepared \in Nat
  /\ mutex \in Callers \cup {NoCaller}
  /\ pc \in [Callers -> {"idle", "prepare", "publish"} \cup Locked]
  /\ offer \in [Callers -> Candidates]
  /\ ticket \in [Callers -> Ticket \cup {NoTicket}]

Init ==
  /\ active = NoRoot
  /\ phase = "Idle"
  /\ generation = 0
  /\ prepared = 0
  /\ mutex = NoCaller
  /\ pc = [t \in Callers |-> "idle"]
  /\ offer \in [Callers -> Candidates]
  /\ ticket = [t \in Callers |-> NoTicket]

-----------------------------------------------------------------------------
Goto(t, label) == pc' = [pc EXCEPT ![t] = label]
Discard(t)     == ticket' = [ticket EXCEPT ![t] = NoTicket]
Unlock         == mutex' = NoCaller

\* Mutant: the caller goes ahead although another one holds the mutex.
TryEnterIgnoringBusy(t) == mutex' = t

\* try_enter: try_lock succeeds and the deadline has not passed.
TryEnter(t) == mutex = NoCaller /\ mutex' = t

(***************************************************************************)
(* prepare                                                                 *)
(***************************************************************************)
CallPrepare(t, c) ==
  /\ pc[t] = "idle"
  /\ ticket[t] = NoTicket
  /\ offer' = [offer EXCEPT ![t] = c]
  /\ Goto(t, "prepare")
  /\ UNCHANGED <<active, phase, generation, prepared, mutex, ticket>>

\* validate_shape failed, the mutex was busy, or the deadline had passed: a
\* caller without a ticket leaves the shared phase alone.
PrepareRefused(t) ==
  /\ pc[t] = "prepare"
  /\ Goto(t, "idle")
  /\ UNCHANGED <<active, phase, generation, prepared, mutex, offer, ticket>>

PrepareEnter(t) ==
  /\ pc[t] = "prepare"
  /\ TryEnter(t)
  /\ Goto(t, "preparing")
  /\ UNCHANGED <<active, phase, generation, prepared, offer, ticket>>

\* Cancelled, past its deadline, a duplicate of the active root, or rejected.
PrepareLeave(t) ==
  /\ pc[t] = "preparing"
  /\ Unlock
  /\ Goto(t, "idle")
  /\ UNCHANGED <<active, phase, generation, prepared, offer, ticket>>

PrepareSucceed(t) ==
  /\ pc[t] = "preparing"
  /\ generation < MaxGeneration
  /\ Admissible(active, offer[t])
  /\ generation' = generation + 1
  /\ phase' = "Prepared"
  /\ prepared' = generation'
  /\ ticket' = [ticket EXCEPT
       ![t] = [gen |-> generation', cand |-> offer[t], baseline |-> active]]
  /\ Unlock
  /\ Goto(t, "idle")
  /\ UNCHANGED <<active, offer>>

(***************************************************************************)
(* publish                                                                 *)
(***************************************************************************)
CallPublish(t) ==
  /\ pc[t] = "idle"
  /\ ticket[t] # NoTicket
  /\ Goto(t, "publish")
  /\ UNCHANGED <<active, phase, generation, prepared, mutex, offer, ticket>>

\* Busy or DeadlineExceeded: the ticket is consumed, the phase stays Prepared.
PublishRefused(t) ==
  /\ pc[t] = "publish"
  /\ Discard(t)
  /\ Goto(t, "idle")
  /\ UNCHANGED <<active, phase, generation, prepared, mutex, offer>>

PublishEnter(t) ==
  /\ pc[t] = "publish"
  /\ TryEnter(t)
  /\ Goto(t, "publishing")
  /\ UNCHANGED <<active, phase, generation, prepared, offer, ticket>>

\* Mutant: some ticket is the prepared one, which need not be the caller's.
OwnsAny(t) == prepared # 0

\* The ticket in hand is the prepared one: no newer prepare took the phase over.
Owns(t) == prepared = ticket[t].gen

\* A newer prepare took the phase over: the stale ticket changes nothing.
PublishStaleTicket(t) ==
  /\ pc[t] = "publishing"
  /\ ~Owns(t)
  /\ Discard(t)
  /\ Unlock
  /\ Goto(t, "idle")
  /\ UNCHANGED <<active, phase, generation, prepared, offer>>

\* Mutant: the ticket is given up but stays recorded as the prepared one.
PublishGiveUpStillPrepared(t, why) ==
  /\ Owns(t)
  /\ phase' = why
  /\ Discard(t)
  /\ Unlock
  /\ Goto(t, "idle")
  /\ UNCHANGED <<active, generation, prepared, offer>>

\* The owner gives its ticket up, leaving the phase that says why.
PublishGiveUp(t, why) ==
  /\ Owns(t)
  /\ phase' = why
  /\ prepared' = 0
  /\ Discard(t)
  /\ Unlock
  /\ Goto(t, "idle")
  /\ UNCHANGED <<active, generation, offer>>

PublishCancelled(t) == pc[t] = "publishing" /\ PublishGiveUp(t, "Cancelled")

\* The Arc::ptr_eq baseline check, under the same lock as the ticket check.
PublishBegin(t) ==
  /\ pc[t] = "publishing"
  /\ Owns(t)
  /\ IF ticket[t].baseline = active
       THEN /\ phase' = "Publishing"
            /\ Goto(t, "swapping")
            /\ UNCHANGED <<active, generation, prepared, mutex, offer, ticket>>
       ELSE PublishGiveUp(t, "Rejected")

\* The last look at the token and the deadline, just before the swap.
PublishFinalCancel(t) == pc[t] = "swapping" /\ PublishGiveUp(t, "Cancelled")

PublishSwap(t) ==
  /\ pc[t] = "swapping"
  /\ active' = [cand |-> ticket[t].cand, gen |-> ticket[t].gen]
  /\ Goto(t, "swapped")
  /\ UNCHANGED <<phase, generation, prepared, mutex, offer, ticket>>

PublishFinish(t) ==
  /\ pc[t] = "swapped"
  /\ PublishGiveUp(t, "Published")

(***************************************************************************)
(* abandon_prepared: waits for the mutex and does all its work under it.   *)
(***************************************************************************)
Abandon(t) ==
  /\ pc[t] = "idle"
  /\ ticket[t] # NoTicket
  /\ mutex = NoCaller
  /\ IF Owns(t)
       THEN phase' = "Cancelled" /\ prepared' = 0
       ELSE UNCHANGED <<phase, prepared>>
  /\ Discard(t)
  /\ UNCHANGED <<active, generation, mutex, pc, offer>>

-----------------------------------------------------------------------------
Prepare(t) ==
  \/ \E c \in Candidates : CallPrepare(t, c)
  \/ PrepareRefused(t) \/ PrepareEnter(t) \/ PrepareLeave(t) \/ PrepareSucceed(t)

Publish(t) ==
  \/ CallPublish(t) \/ PublishRefused(t) \/ PublishEnter(t)
  \/ PublishStaleTicket(t) \/ PublishCancelled(t) \/ PublishBegin(t)
  \/ PublishFinalCancel(t) \/ PublishSwap(t) \/ PublishFinish(t)

Next == \E t \in Callers : Prepare(t) \/ Publish(t) \/ Abandon(t)

Spec == Init /\ [][Next]_vars

-----------------------------------------------------------------------------
(***************************************************************************)
(* Properties                                                              *)
(***************************************************************************)

\* However prepares and publishes of several callers interleave, the served
\* root moves like one register: each new root was admitted against the very
\* root it replaces, and no root is ever served again after a later one
\* (prepare's compare_candidate, publish's ticket and baseline checks).
Register == INSTANCE PublishedRoot WITH root <- active
ServesOneRegister == Register!Spec

\* The installer is between prepare and publish exactly while a generation is
\* recorded as prepared, and that generation is the newest one handed out, so
\* an older ticket can never be the current one again.
TicketTracksPhase ==
  /\ phase \in {"Prepared", "Publishing"} <=> prepared # 0
  /\ prepared \in {0, generation}

\* "Only the operation that owns this ticket may advance or reject the shared
\* phase": a superseded ticket that is published or abandoned late moves nothing.
\* A step changes the phase, or gives up what is prepared, only by handing out a
\* new ticket or on behalf of the caller whose ticket carries the prepared
\* generation (publish and abandon_prepared).
PhaseBelongsToTicket ==
  [][ phase' # phase \/ prepared' # prepared =>
        \/ generation' = generation + 1
        \/ \E t \in Callers : /\ ticket[t] # NoTicket
                              /\ ticket[t].gen = prepared
                              /\ pc'[t] # pc[t] \/ ticket'[t] = NoTicket ]_vars
=============================================================================
