------------------------- MODULE GatewayPublication -------------------------
(***************************************************************************)
(* The Gateway's publication target as the daemon composes it:             *)
(* GatewayPublicationAdapter (crates/daemon/src/gateway_ports) over        *)
(* GatewayPublicationInstaller (crates/gateway/src/publication), which     *)
(* keeps the last known good publication in a file and hands every         *)
(* publication to the installer of gateway-core.                           *)
(*                                                                         *)
(* Callers of activate_verified queue at the adapter's mutex.  An          *)
(* installation renames a prepared file over the old one, syncs the        *)
(* directory, publishes to the core, stores the aggregate and at last the  *)
(* root requests are pinned to; it may fail at each of these and the       *)
(* process may stop, or power be lost, between any two.  The core is the   *)
(* register PublishedRoot, which PublicationInstaller implements.          *)
(***************************************************************************)
EXTENDS PublicationOrder

CONSTANTS Callers, NoCaller

ASSUME NoCallerAssumption == NoCaller \notin Callers

ASSUME NoRootIsNoCandidate == NoRoot \notin Candidates

VARIABLES
  lkg,         \* the publication in the file, as the file system shows it
  kept,        \* the publications a power loss may leave in the file
  running,     \* the process is up
  core,        \* active root of the core's PublicationInstaller
  aggregate,   \* GatewayPublicationInstaller.active
  pinnable,    \* GatewayPublicationAdapter.active
  pending,     \* a ticket is prepared
  uncertain,   \* durability_uncertain
  suspended,   \* requests are not admitted
  mutation,    \* holder of the adapter's mutex
  pc, offer    \* where each caller is, and the record it brought

disk == <<lkg, kept>>
live == <<core, aggregate, pinnable, pending, uncertain, suspended>>
who  == <<mutation, pc, offer>>
vars == <<disk, running, live, who>>

Roots == Candidates \cup {NoRoot}

\* Where a caller holds a prepared ticket.
Ticketed == {"persist", "sync", "live", "aggregate", "clear"}

TypeOK ==
  /\ lkg \in Roots /\ kept \subseteq Roots
  /\ core \in Roots /\ aggregate \in Roots /\ pinnable \in Roots
  /\ running \in BOOLEAN /\ pending \in BOOLEAN
  /\ uncertain \in BOOLEAN /\ suspended \in BOOLEAN
  /\ mutation \in Callers \cup {NoCaller}
  /\ pc \in [Callers -> {"idle", "waiting", "prepare", "adapter"} \cup Ticketed]
  /\ offer \in [Callers -> Candidates]

Init ==
  /\ lkg = NoRoot /\ kept = {NoRoot}
  /\ running = FALSE
  /\ core = NoRoot /\ aggregate = NoRoot /\ pinnable = NoRoot
  /\ pending = FALSE /\ uncertain = FALSE /\ suspended = TRUE
  /\ mutation = NoCaller
  /\ pc = [t \in Callers |-> "idle"]
  /\ offer \in [Callers -> Candidates]

-----------------------------------------------------------------------------
Goto(t, label) == pc' = [pc EXCEPT ![t] = label]

\* The call returns and the mutex is released.
Return(t) == Goto(t, "idle") /\ mutation' = NoCaller /\ UNCHANGED offer

\* PreparedGatewayPublication is dropped.
DropTicket == pending' = FALSE

\* open and GatewayPublicationAdapter::new: the file is restored into a fresh
\* core, and the adapter starts suspended.
Open ==
  /\ ~running
  /\ running' = TRUE
  /\ core' = lkg /\ aggregate' = lkg /\ pinnable' = lkg
  /\ pending' = FALSE /\ uncertain' = FALSE /\ suspended' = TRUE
  /\ UNCHANGED <<disk, who>>

(***************************************************************************)
(* activate_verified                                                       *)
(***************************************************************************)
CallActivate(t, c) ==
  /\ running /\ pc[t] = "idle"
  /\ offer' = [offer EXCEPT ![t] = c]
  /\ Goto(t, "waiting")
  /\ UNCHANGED <<disk, running, live, mutation>>

EnterMutation(t) ==
  /\ pc[t] = "waiting" /\ mutation = NoCaller
  /\ mutation' = t
  /\ Goto(t, "prepare")
  /\ UNCHANGED <<disk, running, live, offer>>

\* InstallerRequiresRestart, PrepareBusy, a snapshot that does not compile, or
\* a core that refuses it or is past the deadline.
PrepareRefused(t) ==
  /\ pc[t] = "prepare"
  /\ Return(t)
  /\ UNCHANGED <<disk, running, live>>

\* The same publication again: only its price identities are new.
PrepareDuplicate(t) ==
  /\ pc[t] = "prepare" /\ ~uncertain /\ ~pending
  /\ core # NoRoot /\ CompareCandidate(core, offer[t]) = "Duplicate"
  /\ aggregate # NoRoot
  /\ pinnable' = aggregate
  /\ Return(t)
  /\ UNCHANGED <<disk, running, core, aggregate, pending, uncertain, suspended>>

Prepare(t) ==
  /\ pc[t] = "prepare" /\ ~uncertain /\ ~pending
  /\ Follows(core, offer[t])
  /\ pending' = TRUE
  /\ Goto(t, "persist")
  /\ UNCHANGED <<disk, running, core, aggregate, pinnable, uncertain, suspended, mutation, offer>>

\* Mutant: the prepared flag outlives the ticket.
PersistFailsStillPending(t) ==
  /\ pc[t] = "persist"
  /\ Return(t)
  /\ UNCHANGED <<disk, running, live>>

\* The prepared file cannot be written or renamed: the ticket is dropped.
PersistFails(t) ==
  /\ pc[t] = "persist"
  /\ DropTicket
  /\ Return(t)
  /\ UNCHANGED <<disk, running, core, aggregate, pinnable, uncertain, suspended>>

\* Mutant: the file is written under the revision that would come next.
RenameSuccessor(t) ==
  /\ pc[t] = "persist"
  /\ lkg' = [offer[t] EXCEPT !.revision = @ + 1]
  /\ kept' = kept \cup {lkg'}
  /\ Goto(t, "sync")
  /\ UNCHANGED <<running, live, mutation, offer>>

Rename(t) ==
  /\ pc[t] = "persist"
  /\ lkg' = offer[t]
  /\ kept' = kept \cup {offer[t]}
  /\ Goto(t, "sync")
  /\ UNCHANGED <<running, live, mutation, offer>>

\* Mutant: a failing directory sync is let pass.
SyncIgnored(t) ==
  /\ pc[t] \in {"sync", "live"}
  /\ Goto(t, "live")
  /\ UNCHANGED <<disk, running, live, mutation, offer>>

SyncDirectory(t) ==
  /\ pc[t] = "sync"
  /\ kept' = {lkg}
  /\ Goto(t, "live")
  /\ UNCHANGED <<lkg, running, live, mutation, offer>>

\* Mutant: only the aggregate is cleared, not the root requests are pinned to.
FailWithoutUncertainty(t) ==
  /\ pc[t] \in {"sync", "live"}
  /\ Goto(t, "clear")
  /\ UNCHANGED <<disk, running, live, mutation, offer>>

\* enter_durability_uncertain: the directory cannot be synced, or the core does
\* not take what the file already holds.
BecomeUncertain(t) ==
  /\ pc[t] \in {"sync", "live"}
  /\ uncertain' = TRUE
  /\ Goto(t, "clear")
  /\ UNCHANGED <<disk, running, core, aggregate, pinnable, pending, suspended, mutation, offer>>

ClearAggregate(t) ==
  /\ pc[t] = "clear"
  /\ aggregate' = NoRoot
  /\ DropTicket
  /\ Return(t)
  /\ UNCHANGED <<disk, running, core, pinnable, uncertain, suspended>>

PublishCore(t) ==
  /\ pc[t] = "live"
  /\ core' = offer[t]
  /\ Goto(t, "aggregate")
  /\ UNCHANGED <<disk, running, aggregate, pinnable, pending, uncertain, suspended, mutation,
                 offer>>

StoreAggregate(t) ==
  /\ pc[t] = "aggregate"
  /\ aggregate' = offer[t]
  /\ DropTicket
  /\ Goto(t, "adapter")
  /\ UNCHANGED <<disk, running, core, pinnable, uncertain, suspended, mutation, offer>>

StoreAdapter(t) ==
  /\ pc[t] = "adapter"
  /\ pinnable' = offer[t]
  /\ Return(t)
  /\ UNCHANGED <<disk, running, core, aggregate, pending, uncertain, suspended>>

(***************************************************************************)
(* Suspension, and the end of the process                                  *)
(***************************************************************************)
SuspendRequests ==
  /\ running /\ mutation = NoCaller
  /\ suspended' = TRUE
  /\ UNCHANGED <<disk, running, core, aggregate, pinnable, pending, uncertain, who>>

ResumeRequests ==
  /\ running /\ mutation = NoCaller /\ ~uncertain
  /\ suspended' = FALSE
  /\ UNCHANGED <<disk, running, core, aggregate, pinnable, pending, uncertain, who>>

\* Nothing but the file is left.
Stop ==
  /\ running' = FALSE
  /\ core' = NoRoot /\ aggregate' = NoRoot /\ pinnable' = NoRoot
  /\ pending' = FALSE /\ uncertain' = FALSE /\ suspended' = TRUE
  /\ mutation' = NoCaller
  /\ pc' = [t \in Callers |-> "idle"]
  /\ UNCHANGED offer

ProcessStops == running /\ Stop /\ UNCHANGED disk

\* A directory that was not synced may show the file as it was before.
PowerLoss ==
  /\ Stop
  /\ lkg' \in kept
  /\ kept' = {lkg'}

-----------------------------------------------------------------------------
Activate(t) ==
  \/ \E c \in Candidates : CallActivate(t, c)
  \/ EnterMutation(t)
  \/ PrepareRefused(t) \/ PrepareDuplicate(t) \/ Prepare(t)
  \/ PersistFails(t) \/ Rename(t) \/ SyncDirectory(t)
  \/ BecomeUncertain(t) \/ ClearAggregate(t)
  \/ PublishCore(t) \/ StoreAggregate(t) \/ StoreAdapter(t)

Next ==
  \/ Open \/ SuspendRequests \/ ResumeRequests \/ ProcessStops \/ PowerLoss
  \/ \E t \in Callers : Activate(t)

Spec == Init /\ [][Next]_vars

-----------------------------------------------------------------------------
\* What RuntimePublicationFeed::pin gives a request at this moment.
Pin == IF running /\ ~suspended /\ ~uncertain THEN pinnable ELSE NoRoot

(***************************************************************************)
(* Properties                                                              *)
(***************************************************************************)

\* Whatever fails between the rename and the last store, and however crashes,
\* power losses, suspensions and callers interleave, requests are served the
\* durable publication or none, and a served publication is replaced only by
\* an admitted one that no power loss can undo.
Durable == INSTANCE DurablePublication WITH served <- Pin, latest <- lkg
ServesDurably == Durable!Spec

\* "An uncertain durable/live split cannot continue serving the old root":
\* unless an installation is under way, a request is given what a restart
\* would come up with.
NoSplitService == mutation = NoCaller => Pin \in {NoRoot, lkg}

\* No failure leaves the installer prepared for a ticket nobody holds, which
\* would make every later prepare busy until a restart.
PendingIsOwned == pending => \E t \in Callers : mutation = t /\ pc[t] \in Ticketed
=============================================================================
