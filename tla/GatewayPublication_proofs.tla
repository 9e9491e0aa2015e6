---------------------- MODULE GatewayPublication_proofs ----------------------
(***************************************************************************)
(* Proofs about GatewayPublication, for any callers, any publications and  *)
(* any number of crashes and power losses.                                 *)
(*                                                                         *)
(* The argument: one caller at a time is past the adapter's mutex          *)
(* (MutationHeld), so the core, the aggregate and the root requests are    *)
(* pinned to lag behind the file by exactly the stores that caller has     *)
(* still to make (InStep), unless durability is uncertain; then nothing is *)
(* served any more.  A publication that reaches the live stores has been   *)
(* synced (Synced), so a power loss cannot undo it.                        *)
(***************************************************************************)
EXTENDS GatewayPublication, TLAPS

Outside == {"idle", "waiting"}

MutationHeld ==
  /\ \A t \in Callers : pc[t] \notin Outside => mutation = t
  /\ mutation # NoCaller => pc[mutation] \notin Outside

\* A process that is down holds nothing and serves nothing.
DownIsQuiet ==
  ~running => ~pending /\ ~uncertain /\ mutation = NoCaller /\ \A t \in Callers : pc[t] = "idle"

TicketHeld == pending => mutation # NoCaller /\ pc[mutation] \in Ticketed

Synced ==
  /\ lkg \in kept
  /\ \A t \in Callers : pc[t] \in {"live", "aggregate", "adapter"} => kept = {lkg}

\* How far the stores of the installation under way have got.
InStep ==
  /\ \A t \in Callers : pc[t] = "clear" => uncertain
  /\ running /\ ~uncertain =>
       /\ mutation = NoCaller => core = lkg /\ aggregate = lkg /\ pinnable = lkg
       /\ \A t \in Callers :
            /\ pc[t] \in {"prepare", "persist"} =>
                 core = lkg /\ aggregate = lkg /\ pinnable = lkg
            /\ pc[t] = "persist" => Follows(lkg, offer[t])
            /\ pc[t] \in {"sync", "live", "aggregate", "adapter"} => lkg = offer[t]
            /\ pc[t] \in {"aggregate", "adapter"} => core = lkg
            /\ pc[t] = "adapter" => aggregate = lkg
  /\ uncertain => \A t \in Callers : pc[t] \in Outside \cup {"prepare", "clear"}

IInv == TypeOK /\ MutationHeld /\ DownIsQuiet /\ TicketHeld /\ Synced /\ InStep

-----------------------------------------------------------------------------
LEMMA TypeInit == Init => TypeOK
BY DEF Init, TypeOK, Roots

LEMMA TypeStep == TypeOK /\ [Next]_vars => TypeOK'
<1> SUFFICES ASSUME TypeOK, [Next]_vars PROVE TypeOK'
  OBVIOUS
<1> USE DEF TypeOK, Roots, Ticketed, Goto, Return, DropTicket, disk, live, who
<1>1. CASE UNCHANGED vars
  BY <1>1 DEF vars
<1>2. CASE Open
  BY <1>2 DEF Open
<1>3. CASE SuspendRequests \/ ResumeRequests
  BY <1>3 DEF SuspendRequests, ResumeRequests
<1>4. CASE ProcessStops
  BY <1>4 DEF ProcessStops, Stop
<1>5. CASE PowerLoss
  BY <1>5 DEF PowerLoss, Stop
<1>6. ASSUME NEW t \in Callers, Activate(t) PROVE TypeOK'
  <2>1. ASSUME NEW c \in Candidates, CallActivate(t, c) PROVE TypeOK'
    BY <2>1 DEF CallActivate
  <2>2. CASE EnterMutation(t)
    BY <2>2 DEF EnterMutation
  <2>3. CASE PrepareRefused(t)
    BY <2>3 DEF PrepareRefused
  <2>4. CASE PrepareDuplicate(t)
    BY <2>4 DEF PrepareDuplicate
  <2>5. CASE Prepare(t)
    BY <2>5 DEF Prepare
  <2>6. CASE PersistFails(t)
    BY <2>6 DEF PersistFails
  <2>7. CASE Rename(t)
    BY <2>7 DEF Rename
  <2>8. CASE SyncDirectory(t)
    BY <2>8 DEF SyncDirectory
  <2>9. CASE BecomeUncertain(t)
    BY <2>9 DEF BecomeUncertain
  <2>10. CASE ClearAggregate(t)
    BY <2>10 DEF ClearAggregate
  <2>11. CASE PublishCore(t)
    BY <2>11 DEF PublishCore
  <2>12. CASE StoreAggregate(t)
    BY <2>12 DEF StoreAggregate
  <2>13. CASE StoreAdapter(t)
    BY <2>13 DEF StoreAdapter
  <2> QED
    BY <1>6, <2>1, <2>2, <2>3, <2>4, <2>5, <2>6, <2>7, <2>8, <2>9, <2>10, <2>11, <2>12, <2>13
       DEF Activate
<1> QED
  BY <1>1, <1>2, <1>3, <1>4, <1>5, <1>6 DEF Next

\* The target's state is well typed in every reachable state.
THEOREM TargetTypeCorrect == Spec => []TypeOK
BY TypeInit, TypeStep, PTL DEF Spec

-----------------------------------------------------------------------------
LEMMA InvInit == Init => IInv
<1> SUFFICES ASSUME Init PROVE IInv
  OBVIOUS
<1> QED
  BY TypeInit DEF Init, IInv, MutationHeld, DownIsQuiet, TicketHeld, Synced, InStep, Outside,
     Ticketed

\* While a caller holds the mutex every other one is outside.
LEMMA OthersOutside ==
  ASSUME IInv, NEW t \in Callers, pc[t] \notin Outside
  PROVE  /\ mutation = t
         /\ running
         /\ \A u \in Callers \ {t} : pc[u] \in Outside
BY NoCallerAssumption DEF IInv, MutationHeld, DownIsQuiet

\* The steps of the caller that holds the mutex.
LEMMA HolderStep ==
  ASSUME IInv, TypeOK', NEW t \in Callers, pc[t] \notin Outside, Activate(t)
  PROVE  IInv'
<1> USE NoCallerAssumption, NoRootIsNoCandidate
    DEF IInv, TypeOK, Roots, MutationHeld, DownIsQuiet, TicketHeld, Synced, InStep, Outside,
        Ticketed, Goto, Return, DropTicket, disk, live, who
<1>1. /\ mutation = t
      /\ running
      /\ \A u \in Callers \ {t} : pc[u] \in {"idle", "waiting"}
  BY OthersOutside
<1>2. ASSUME NEW c \in Candidates, CallActivate(t, c) PROVE FALSE
  BY <1>2 DEF CallActivate
<1>3. CASE PrepareRefused(t)
  BY <1>1, <1>3 DEF PrepareRefused
<1>4. CASE PrepareDuplicate(t)
  BY <1>1, <1>4 DEF PrepareDuplicate
<1>5. CASE Prepare(t)
  BY <1>1, <1>5 DEF Prepare
<1>6. CASE PersistFails(t)
  BY <1>1, <1>6 DEF PersistFails
<1>7. CASE Rename(t)
  BY <1>1, <1>7 DEF Rename
<1>8. CASE SyncDirectory(t)
  BY <1>1, <1>8 DEF SyncDirectory
<1>9. CASE BecomeUncertain(t)
  BY <1>1, <1>9 DEF BecomeUncertain
<1>10. CASE ClearAggregate(t)
  BY <1>1, <1>10 DEF ClearAggregate
<1>11. CASE PublishCore(t)
  BY <1>1, <1>11 DEF PublishCore
<1>12. CASE StoreAggregate(t)
  BY <1>1, <1>12 DEF StoreAggregate
<1>13. CASE StoreAdapter(t)
  BY <1>1, <1>13 DEF StoreAdapter
<1>14. ~EnterMutation(t)
  BY DEF EnterMutation
<1> QED
  BY <1>2, <1>3, <1>4, <1>5, <1>6, <1>7, <1>8, <1>9, <1>10, <1>11, <1>12, <1>13, <1>14
     DEF Activate

LEMMA InvStep == IInv /\ [Next]_vars => IInv'
<1> SUFFICES ASSUME IInv, [Next]_vars PROVE IInv'
  OBVIOUS
<1>1. TypeOK'
  BY TypeStep DEF IInv
<1> USE NoCallerAssumption
<1>2. CASE UNCHANGED vars
  BY <1>2 DEF vars, disk, live, who, IInv, TypeOK, MutationHeld, DownIsQuiet, TicketHeld,
     Synced, InStep
<1>3. CASE Open
  BY <1>1, <1>3 DEF Open, disk, who, IInv, TypeOK, MutationHeld, DownIsQuiet, TicketHeld,
     Synced, InStep, Outside, Ticketed
<1>4. CASE SuspendRequests \/ ResumeRequests
  BY <1>1, <1>4 DEF SuspendRequests, ResumeRequests, disk, who, IInv, MutationHeld,
     DownIsQuiet, TicketHeld, Synced, InStep
<1>5. CASE ProcessStops
  BY <1>1, <1>5 DEF ProcessStops, Stop, disk, IInv, MutationHeld,
     DownIsQuiet, TicketHeld, Synced, InStep, Outside, Ticketed
<1>6. CASE PowerLoss
  BY <1>1, <1>6 DEF PowerLoss, Stop, IInv, MutationHeld,
     DownIsQuiet, TicketHeld, Synced, InStep, Outside, Ticketed
<1>7. ASSUME NEW t \in Callers, Activate(t), pc[t] \in Outside PROVE IInv'
  <2>1. ASSUME NEW c \in Candidates, CallActivate(t, c) PROVE IInv'
    BY <1>1, <2>1 DEF CallActivate, Goto, disk, live, IInv, TypeOK, MutationHeld,
       DownIsQuiet, TicketHeld, Synced, InStep, Outside, Ticketed
  <2>2. CASE EnterMutation(t)
    BY <1>1, <2>2 DEF EnterMutation, Goto, disk, live, IInv, TypeOK, MutationHeld,
       DownIsQuiet, TicketHeld, Synced, InStep, Outside, Ticketed
  <2> QED
    BY <1>7, <2>1, <2>2 DEF Activate, Outside, PrepareRefused, PrepareDuplicate, Prepare,
       PersistFails, Rename, SyncDirectory, BecomeUncertain, ClearAggregate, PublishCore,
       StoreAggregate, StoreAdapter
<1> QED
  BY <1>1, <1>2, <1>3, <1>4, <1>5, <1>6, <1>7, HolderStep DEF Next

\* The inductive invariant holds in every reachable state.
LEMMA InvCorrect == Spec => []IInv
BY InvInit, InvStep, PTL DEF Spec

\* A request is given the durable publication or none, unless an installation
\* is under way.
THEOREM SplitFree == Spec => []NoSplitService
<1>1. IInv => NoSplitService
  BY DEF IInv, InStep, NoSplitService, Pin
<1> QED
  BY <1>1, InvCorrect, PTL

\* The prepared flag never outlives the ticket it stands for.
THEOREM TicketOwned == Spec => []PendingIsOwned
<1>1. IInv => PendingIsOwned
  BY DEF IInv, TypeOK, TicketHeld, PendingIsOwned
<1> QED
  BY <1>1, InvCorrect, PTL

-----------------------------------------------------------------------------
\* Every step of the adapter is a step of the durable publication or leaves it
\* alone.
LEMMA DurableStep == IInv /\ [Next]_vars => [Durable!Next]_Durable!vars
<1> SUFFICES ASSUME IInv, [Next]_vars PROVE [Durable!Next]_Durable!vars
  OBVIOUS
<1> USE DEF Durable!vars, Pin, disk, live, who
<1>1. CASE UNCHANGED vars
  BY <1>1 DEF vars
<1>2. CASE Open
  BY <1>2 DEF Open
<1>3. CASE SuspendRequests
  BY <1>3 DEF SuspendRequests, Durable!Next, Durable!Withdraw
<1>4. CASE ResumeRequests
  <2>1. pinnable = lkg
    BY <1>4 DEF ResumeRequests, IInv, InStep
  <2> QED
    BY <1>4, <2>1 DEF ResumeRequests, Durable!Next, Durable!Serve
<1>5. CASE ProcessStops
  BY <1>5 DEF ProcessStops, Stop, Durable!Next, Durable!Withdraw
<1>6. CASE PowerLoss
  BY <1>6 DEF PowerLoss, Stop, Durable!Next, Durable!PowerLoss
<1>7. ASSUME NEW t \in Callers, Activate(t) PROVE [Durable!Next]_Durable!vars
  <2>1. CASE Rename(t)
    <3>1. /\ Follows(lkg, offer[t]) /\ offer[t] \in Candidates
          /\ Pin \in {NoRoot, lkg}
      BY <2>1, OthersOutside DEF Rename, IInv, InStep, TypeOK, Outside
    <3>2. Durable!Replace(offer[t])
      BY <2>1, <3>1 DEF Rename, Durable!Replace, Durable!Follows, Durable!CompareCandidate,
         Durable!SameEpochVerdict, Durable!SaturatingNext, Follows, CompareCandidate,
         SameEpochVerdict, SaturatingNext
    <3> QED
      BY <3>1, <3>2 DEF Durable!Next
  <2>2. CASE SyncDirectory(t)
    BY <2>2 DEF SyncDirectory, Durable!Next, Durable!Settle
  <2>3. CASE BecomeUncertain(t)
    BY <2>3 DEF BecomeUncertain, Durable!Next, Durable!Withdraw
  <2>4. CASE StoreAdapter(t)
    <3>1. lkg = offer[t] /\ kept = {lkg} /\ ~uncertain
      BY <2>4, OthersOutside DEF StoreAdapter, IInv, InStep, Synced, Outside
    <3> QED
      BY <2>4, <3>1 DEF StoreAdapter, Durable!Next, Durable!Serve
  <2>5. CASE PrepareDuplicate(t)
    <3>1. aggregate = lkg /\ pinnable = lkg
      BY <2>5, OthersOutside DEF PrepareDuplicate, IInv, InStep, Outside
    <3> QED
      BY <2>5, <3>1 DEF PrepareDuplicate
  <2> QED
    BY <1>7, <2>1, <2>2, <2>3, <2>4, <2>5 DEF Activate, CallActivate, EnterMutation,
       PrepareRefused, Prepare, PersistFails, ClearAggregate, PublishCore, StoreAggregate
<1> QED
  BY <1>1, <1>2, <1>3, <1>4, <1>5, <1>6, <1>7 DEF Next

\* The adapter with its locks, flags and stores implements one durable
\* publication, through crashes and power losses.
THEOREM ImplementsDurablePublication == Spec => ServesDurably
<1>1. Init => Durable!Init
  BY DEF Init, Durable!Init, Pin
<1> QED
  BY <1>1, InvCorrect, DurableStep, PTL DEF Spec, ServesDurably, Durable!Spec
=============================================================================
