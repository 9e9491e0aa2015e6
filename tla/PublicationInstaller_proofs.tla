--------------------- MODULE PublicationInstaller_proofs ---------------------
(***************************************************************************)
(* Proofs about PublicationInstaller, for any set of callers, any set of   *)
(* candidates and any bound on the generations.                            *)
(*                                                                         *)
(* The argument: a ticket is only handed out for a candidate admitted      *)
(* against its baseline and carries a number above its baseline's          *)
(* (TicketsAdmitted), and while a caller is between the baseline check and *)
(* the swap it holds the mutex, so its baseline is still the active root   *)
(* (SwapUnderMutex).  Together: the swap replaces exactly the root the     *)
(* candidate was compared with.                                            *)
(***************************************************************************)
EXTENDS PublicationInstaller, TLAPS

MutexHeld == \A t \in Callers : pc[t] \in Locked => mutex = t

InPublish == {"publish", "publishing", "swapping", "swapped"}

\* publish is only called with a ticket, and consumes it last.
TicketInHand == \A t \in Callers : pc[t] \in InPublish => ticket[t] \in Ticket

Typed == TypeOK /\ TicketInHand

TicketsAdmitted ==
  \A t \in Callers : ticket[t] # NoTicket =>
    /\ Admissible(ticket[t].baseline, ticket[t].cand)
    /\ ticket[t].baseline # NoRoot => ticket[t].gen > ticket[t].baseline.gen
    /\ ticket[t].gen <= generation

SwapUnderMutex ==
  \A t \in Callers :
    /\ pc[t] \in {"swapping", "swapped"} => phase = "Publishing" /\ Owns(t)
    /\ pc[t] = "swapping" => ticket[t].baseline = active

RootNumbered == active # NoRoot => active.gen <= generation

IInv ==
  /\ Typed
  /\ MutexHeld
  /\ TicketsAdmitted
  /\ SwapUnderMutex
  /\ RootNumbered
  /\ TicketTracksPhase

-----------------------------------------------------------------------------
\* Types are inductive together with the ticket a caller inside publish holds.
LEMMA TypeInit == Init => Typed
BY DEF Init, Typed, TypeOK, TicketInHand, InPublish, Phases

LEMMA TypeStep == Typed /\ [Next]_vars => Typed'
<1> SUFFICES ASSUME Typed, [Next]_vars PROVE Typed'
  OBVIOUS
<1> USE DEF Typed, TypeOK, TicketInHand, InPublish, Phases, Locked, Goto, Discard,
            Unlock, TryEnter
<1>1. CASE UNCHANGED vars
  BY <1>1 DEF vars
<1>2. ASSUME NEW t \in Callers, Prepare(t) PROVE Typed'
  <2>1. ASSUME NEW c \in Candidates, CallPrepare(t, c) PROVE Typed'
    BY <2>1 DEF CallPrepare
  <2>2. CASE PrepareRefused(t)
    BY <2>2 DEF PrepareRefused
  <2>3. CASE PrepareEnter(t)
    BY <2>3 DEF PrepareEnter
  <2>4. CASE PrepareLeave(t)
    BY <2>4 DEF PrepareLeave
  <2>5. CASE PrepareSucceed(t)
    <3>1. [gen |-> generation', cand |-> offer[t], baseline |-> active] \in Ticket
      BY <2>5 DEF PrepareSucceed, Ticket
    <3> QED
      BY <2>5, <3>1 DEF PrepareSucceed
  <2> QED
    BY <1>2, <2>1, <2>2, <2>3, <2>4, <2>5 DEF Prepare
<1>3. ASSUME NEW t \in Callers, Publish(t) PROVE Typed'
  <2> USE DEF PublishGiveUp
  <2>1. CASE CallPublish(t)
    BY <2>1 DEF CallPublish
  <2>2. CASE PublishRefused(t)
    BY <2>2 DEF PublishRefused
  <2>3. CASE PublishEnter(t)
    BY <2>3 DEF PublishEnter
  <2>4. CASE PublishStaleTicket(t)
    BY <2>4 DEF PublishStaleTicket
  <2>5. CASE PublishCancelled(t) \/ PublishFinalCancel(t)
    BY <2>5 DEF PublishCancelled, PublishFinalCancel
  <2>7. CASE PublishBegin(t)
    BY <2>7 DEF PublishBegin
  <2>8. CASE PublishSwap(t)
    <3>1. [cand |-> ticket[t].cand, gen |-> ticket[t].gen] \in Root
      BY <2>8 DEF PublishSwap, Ticket, Root
    <3> QED
      BY <2>8, <3>1 DEF PublishSwap
  <2>9. CASE PublishFinish(t)
    BY <2>9 DEF PublishFinish
  <2> QED
    BY <1>3, <2>1, <2>2, <2>3, <2>4, <2>5, <2>7, <2>8, <2>9 DEF Publish
<1>4. ASSUME NEW t \in Callers, Abandon(t) PROVE Typed'
  BY <1>4 DEF Abandon
<1> QED
  BY <1>1, <1>2, <1>3, <1>4 DEF Next

\* Every reachable state is well typed.
THEOREM TypeCorrect == Spec => []TypeOK
<1>1. Typed => TypeOK
  BY DEF Typed
<1> QED
  BY <1>1, TypeInit, TypeStep, PTL DEF Spec

-----------------------------------------------------------------------------
LEMMA InvInit == Init => IInv
BY TypeInit, NoRootAssumption
   DEF Init, IInv, MutexHeld, TicketsAdmitted, SwapUnderMutex, RootNumbered,
       TicketTracksPhase, Locked, Owns

\* What the typing gives for one caller's ticket.
LEMMA TicketTyped ==
  ASSUME Typed, NEW t \in Callers, ticket[t] # NoTicket
  PROVE  /\ ticket[t] \in Ticket
         /\ ticket[t].gen \in Nat \ {0}
         /\ ticket[t].cand \in Candidates
         /\ ticket[t].baseline \in Root \cup {NoRoot}
BY DEF Typed, TypeOK, Ticket

\* The steps of a caller that is given no ticket and moves no shared state but
\* the mutex.
LEMMA QuietStep ==
  ASSUME IInv, Typed', NEW t \in Callers,
         UNCHANGED <<active, phase, generation, prepared>>,
         \A u \in Callers : ticket'[u] \in {ticket[u], NoTicket},
         \A u \in Callers : pc'[u] \in {"swapping", "swapped"} =>
                              pc[u] = pc'[u] /\ ticket'[u] = ticket[u],
         MutexHeld'
  PROVE  IInv'
<1> USE DEF IInv
<1>1. TicketsAdmitted'
  BY DEF TicketsAdmitted
<1>2. SwapUnderMutex'
  BY DEF SwapUnderMutex, Owns
<1>3. RootNumbered' /\ TicketTracksPhase'
  BY DEF RootNumbered, TicketTracksPhase
<1> QED
  BY <1>1, <1>2, <1>3

\* A caller inside the mutex leaves it: nobody is inside afterwards.
LEMMA LeavingFreesMutex ==
  ASSUME IInv, NEW t \in Callers, pc[t] \in Locked, Goto(t, "idle")
  PROVE  \A u \in Callers : pc'[u] \notin Locked
BY NoCallerAssumption DEF IInv, MutexHeld, Typed, TypeOK, Goto, Locked

\* The owner gives its ticket up.
LEMMA GiveUpStep ==
  ASSUME IInv, Typed', NEW t \in Callers, pc[t] \in {"publishing", "swapping", "swapped"},
         NEW why \in {"Cancelled", "Rejected", "Published"}, PublishGiveUp(t, why),
         active' = active
  PROVE  IInv'
<1> USE DEF IInv
<1>1. \A u \in Callers : pc'[u] \notin Locked
  BY LeavingFreesMutex DEF Locked, PublishGiveUp
<1>2. MutexHeld' /\ SwapUnderMutex'
  BY <1>1 DEF MutexHeld, SwapUnderMutex, Locked
<1>3. TicketsAdmitted'
  BY DEF TicketsAdmitted, PublishGiveUp, Discard, Typed, TypeOK
<1>4. RootNumbered' /\ TicketTracksPhase'
  BY DEF RootNumbered, TicketTracksPhase, PublishGiveUp
<1> QED
  BY <1>2, <1>3, <1>4

LEMMA InvStep == IInv /\ [Next]_vars => IInv'
<1> SUFFICES ASSUME IInv, [Next]_vars PROVE IInv'
  OBVIOUS
<1> USE DEF IInv
<1>t. Typed'
  BY TypeStep
<1>o. TypeOK
  BY DEF Typed
<1>1. CASE UNCHANGED vars
  BY <1>1, <1>t DEF vars, MutexHeld, TicketsAdmitted, SwapUnderMutex, RootNumbered,
                    TicketTracksPhase, Owns
<1>2. ASSUME NEW t \in Callers, Prepare(t) PROVE IInv'
  <2>1. ASSUME NEW c \in Candidates, CallPrepare(t, c) PROVE IInv'
    <3>1. MutexHeld'
      BY <2>1, <1>o DEF CallPrepare, Goto, MutexHeld, Locked, TypeOK
    <3> QED
      BY <2>1, <3>1, <1>t, <1>o, QuietStep DEF CallPrepare, Goto, TypeOK
  <2>2. CASE PrepareRefused(t)
    <3>1. MutexHeld'
      BY <2>2, <1>o DEF PrepareRefused, Goto, MutexHeld, Locked, TypeOK
    <3> QED
      BY <2>2, <3>1, <1>t, <1>o, QuietStep DEF PrepareRefused, Goto, TypeOK
  <2>3. CASE PrepareEnter(t)
    <3>1. MutexHeld'
      BY <2>3, <1>o, NoCallerAssumption DEF PrepareEnter, TryEnter, Goto, MutexHeld, TypeOK
    <3> QED
      BY <2>3, <3>1, <1>t, <1>o, QuietStep DEF PrepareEnter, Goto, TypeOK
  <2>4. CASE PrepareLeave(t)
    <3>1. MutexHeld'
      BY <2>4, LeavingFreesMutex DEF PrepareLeave, MutexHeld, Locked
    <3> QED
      BY <2>4, <3>1, <1>t, <1>o, QuietStep DEF PrepareLeave, Goto, TypeOK
  <2>5. CASE PrepareSucceed(t)
    <3> DEFINE new == [gen |-> generation', cand |-> offer[t], baseline |-> active]
    <3>1. \A u \in Callers : pc'[u] \notin Locked
      BY <2>5, LeavingFreesMutex DEF PrepareSucceed, Locked
    <3>2. MutexHeld' /\ SwapUnderMutex'
      BY <3>1 DEF MutexHeld, SwapUnderMutex, Locked
    <3>3. /\ generation \in Nat /\ generation' = generation + 1 /\ active' = active
          /\ ticket' = [ticket EXCEPT ![t] = new]
      BY <2>5, <1>o DEF PrepareSucceed, TypeOK
    <3>4. TicketsAdmitted'
      <4>1. Admissible(active, offer[t]) /\ (active # NoRoot => active.gen <= generation)
        BY <2>5 DEF PrepareSucceed, RootNumbered
      <4>2. /\ Admissible(new.baseline, new.cand)
            /\ new.baseline # NoRoot => new.gen > new.baseline.gen
            /\ new.gen <= generation'
        <5>1. active # NoRoot => active.gen \in Nat
          BY <1>o DEF TypeOK, Root
        <5> QED
          BY <3>3, <4>1, <5>1
      <4>3. ASSUME NEW u \in Callers, u # t, ticket[u] # NoTicket
            PROVE  ticket[u].gen <= generation'
        BY <4>3, <3>3, TicketTyped DEF TicketsAdmitted
      <4> QED
        BY <3>3, <4>2, <4>3, <1>o DEF TicketsAdmitted, TypeOK
    <3>5. RootNumbered'
      BY <3>3, <1>o DEF RootNumbered, TypeOK, Root
    <3>6. TicketTracksPhase'
      BY <2>5, <3>3 DEF TicketTracksPhase, PrepareSucceed
    <3> QED
      BY <1>t, <3>2, <3>4, <3>5, <3>6
  <2> QED
    BY <1>2, <2>1, <2>2, <2>3, <2>4, <2>5 DEF Prepare
<1>3. ASSUME NEW t \in Callers, Publish(t) PROVE IInv'
  <2>1. CASE CallPublish(t)
    <3>1. MutexHeld'
      BY <2>1, <1>o DEF CallPublish, Goto, MutexHeld, Locked, TypeOK
    <3> QED
      BY <2>1, <3>1, <1>t, <1>o, QuietStep DEF CallPublish, Goto, TypeOK
  <2>2. CASE PublishRefused(t)
    <3>1. MutexHeld'
      BY <2>2, <1>o DEF PublishRefused, Goto, MutexHeld, Locked, TypeOK
    <3> QED
      BY <2>2, <3>1, <1>t, <1>o, QuietStep DEF PublishRefused, Goto, Discard, TypeOK
  <2>3. CASE PublishEnter(t)
    <3>1. MutexHeld'
      BY <2>3, <1>o, NoCallerAssumption DEF PublishEnter, TryEnter, Goto, MutexHeld, TypeOK
    <3> QED
      BY <2>3, <3>1, <1>t, <1>o, QuietStep DEF PublishEnter, Goto, TypeOK
  <2>4. CASE PublishStaleTicket(t)
    <3>1. MutexHeld'
      BY <2>4, LeavingFreesMutex DEF PublishStaleTicket, MutexHeld, Locked
    <3> QED
      BY <2>4, <3>1, <1>t, <1>o, QuietStep DEF PublishStaleTicket, Goto, Discard, TypeOK
  <2>5. CASE PublishCancelled(t) \/ PublishFinalCancel(t)
    BY <2>5, <1>t, GiveUpStep DEF PublishCancelled, PublishFinalCancel, PublishGiveUp
  <2>6. CASE PublishBegin(t) /\ ticket[t].baseline # active
    BY <2>6, <1>t, GiveUpStep DEF PublishBegin, PublishGiveUp
  <2>7. CASE PublishBegin(t) /\ ticket[t].baseline = active
    <3>1. MutexHeld'
      BY <2>7, <1>o DEF PublishBegin, Goto, MutexHeld, Locked, TypeOK
    <3>2. \A u \in Callers : u # t => pc[u] \notin Locked
      BY <2>7 DEF PublishBegin, MutexHeld, Locked
    <3>3. SwapUnderMutex'
      BY <2>7, <3>2, <1>o DEF PublishBegin, Goto, SwapUnderMutex, Owns, Locked, TypeOK
    <3>4. TicketTracksPhase'
      <4>1. prepared # 0
        BY <2>7, TicketTyped, <1>o DEF PublishBegin, Owns, Typed, TicketInHand, InPublish, Ticket
      <4> QED
        BY <2>7, <4>1 DEF PublishBegin, TicketTracksPhase
    <3>5. TicketsAdmitted' /\ RootNumbered'
      BY <2>7 DEF PublishBegin, TicketsAdmitted, RootNumbered
    <3> QED
      BY <1>t, <3>1, <3>3, <3>4, <3>5
  <2>8. CASE PublishSwap(t)
    <3>1. MutexHeld'
      BY <2>8, <1>o DEF PublishSwap, Goto, MutexHeld, Locked, TypeOK
    <3>2. \A u \in Callers : u # t => pc[u] \notin Locked
      BY <2>8 DEF PublishSwap, MutexHeld, Locked
    <3>3. SwapUnderMutex'
      BY <2>8, <3>2, <1>o DEF PublishSwap, Goto, SwapUnderMutex, Owns, Locked, TypeOK
    <3>4. RootNumbered'
      BY <2>8, NoTicketAssumption
         DEF PublishSwap, RootNumbered, TicketsAdmitted, Typed, TicketInHand, InPublish
    <3>5. TicketsAdmitted' /\ TicketTracksPhase'
      BY <2>8 DEF PublishSwap, TicketsAdmitted, TicketTracksPhase
    <3> QED
      BY <1>t, <3>1, <3>3, <3>4, <3>5
  <2>9. CASE PublishFinish(t)
    BY <2>9, <1>t, GiveUpStep DEF PublishFinish, PublishGiveUp
  <2> QED
    BY <1>3, <2>1, <2>2, <2>3, <2>4, <2>5, <2>6, <2>7, <2>8, <2>9 DEF Publish
<1>4. ASSUME NEW t \in Callers, Abandon(t) PROVE IInv'
  <2>1. \A u \in Callers : pc[u] \notin Locked
    BY <1>4, NoCallerAssumption DEF Abandon, MutexHeld
  <2>2. MutexHeld' /\ SwapUnderMutex'
    BY <1>4, <2>1 DEF Abandon, MutexHeld, SwapUnderMutex, Locked
  <2>3. TicketsAdmitted' /\ RootNumbered' /\ TicketTracksPhase'
    BY <1>4, <1>o DEF Abandon, Discard, TicketsAdmitted, RootNumbered, TicketTracksPhase, TypeOK
  <2> QED
    BY <1>t, <2>2, <2>3
<1> QED
  BY <1>1, <1>2, <1>3, <1>4 DEF Next

\* The inductive invariant holds in every reachable state.
LEMMA InvCorrect == Spec => []IInv
BY InvInit, InvStep, PTL DEF Spec

\* The installer is between prepare and publish exactly while the newest
\* generation is recorded as prepared.
THEOREM PhaseCorrect == Spec => []TicketTracksPhase
<1>1. IInv => TicketTracksPhase
  BY DEF IInv
<1> QED
  BY <1>1, InvCorrect, PTL

-----------------------------------------------------------------------------
\* A step of the installer is a replacement of the register or leaves it alone.
LEMMA RegisterStep == IInv /\ [Next]_vars => [Register!Next]_active
<1> SUFFICES ASSUME IInv, [Next]_vars PROVE [Register!Next]_active
  OBVIOUS
<1>1. CASE UNCHANGED vars
  BY <1>1 DEF vars
<1>2. ASSUME NEW t \in Callers, PublishSwap(t) PROVE Register!Next
  <2>1. ticket[t] # NoTicket /\ Typed
    BY <1>2, NoTicketAssumption DEF IInv, Typed, TicketInHand, InPublish, PublishSwap
  <2>2. /\ ticket[t].baseline = active
        /\ Admissible(active, ticket[t].cand)
        /\ active # NoRoot => ticket[t].gen > active.gen
    BY <1>2, <2>1 DEF IInv, SwapUnderMutex, TicketsAdmitted, PublishSwap
  <2>3. /\ active' = [cand |-> ticket[t].cand, gen |-> ticket[t].gen]
        /\ active' \in Root
    BY <1>2, <2>1, TicketTyped DEF PublishSwap, Root
  <2> QED
    BY <2>2, <2>3 DEF Register!Next, Register!Replace, Register!Admissible,
       Register!CompareCandidate, Register!SameEpochVerdict, Register!SaturatingNext,
       Register!Root, Admissible, CompareCandidate, SameEpochVerdict, SaturatingNext, Root
<1>3. ASSUME NEW t \in Callers, Prepare(t) \/ Publish(t) \/ Abandon(t), ~PublishSwap(t)
      PROVE  active' = active
  BY <1>3 DEF Prepare, Publish, Abandon, CallPrepare, PrepareRefused, PrepareEnter,
     PrepareLeave, PrepareSucceed, CallPublish, PublishRefused, PublishEnter,
     PublishStaleTicket, PublishCancelled, PublishBegin,
     PublishFinalCancel, PublishFinish, PublishGiveUp
<1> QED
  BY <1>1, <1>2, <1>3 DEF Next

\* The installer implements the one-register abstraction: whatever callers,
\* candidates and interleavings there are, a root is replaced only by one that
\* compare_candidate admitted against that very root.
THEOREM Refinement == Spec => ServesOneRegister
<1>1. Init => Register!Init
  BY DEF Init, Register!Init
<1> QED
  BY <1>1, RegisterStep, InvCorrect, PTL DEF Spec, ServesOneRegister, Register!Spec

-----------------------------------------------------------------------------
LEMMA PhaseStep ==
  IInv /\ [Next]_vars =>
    [ phase' # phase \/ prepared' # prepared =>
        \/ generation' = generation + 1
        \/ \E t \in Callers : /\ ticket[t] # NoTicket
                              /\ ticket[t].gen = prepared
                              /\ pc'[t] # pc[t] \/ ticket'[t] = NoTicket ]_vars
<1> SUFFICES ASSUME IInv, [Next]_vars, phase' # phase \/ prepared' # prepared,
                    generation' # generation + 1
             PROVE  \E t \in Callers : /\ ticket[t] # NoTicket
                                       /\ ticket[t].gen = prepared
                                       /\ pc'[t] # pc[t] \/ ticket'[t] = NoTicket
  OBVIOUS
<1>1. PICK t \in Callers : Prepare(t) \/ Publish(t) \/ Abandon(t)
  BY DEF Next, vars
<1>2. ~Prepare(t)
  BY DEF Prepare, CallPrepare, PrepareRefused, PrepareEnter, PrepareLeave, PrepareSucceed
<1>3. ticket \in [Callers -> Ticket \cup {NoTicket}]
  BY DEF IInv, Typed, TypeOK
<1>4. CASE Abandon(t)
  BY <1>4, <1>3 DEF Abandon, Owns, Discard
<1>5. CASE Publish(t)
  <2>1. \/ PublishBegin(t)
        \/ /\ pc[t] \in InPublish
           /\ PublishCancelled(t) \/ PublishFinalCancel(t) \/ PublishFinish(t)
    BY <1>5 DEF Publish, CallPublish, PublishRefused, PublishEnter, PublishStaleTicket,
       PublishSwap, PublishCancelled, PublishFinalCancel,
       PublishFinish, InPublish
  <2>2. pc[t] \in InPublish /\ Owns(t)
    BY <2>1 DEF PublishBegin, PublishCancelled, PublishFinalCancel,
       PublishFinish, PublishGiveUp, InPublish
  <2>3. ticket[t] # NoTicket
    BY <2>2, NoTicketAssumption DEF IInv, Typed, TicketInHand
  <2>4. pc'[t] # pc[t] \/ ticket'[t] = NoTicket
    BY <2>1, <1>3 DEF PublishBegin, PublishCancelled,
       PublishFinalCancel, PublishFinish, PublishGiveUp, Discard, Goto, IInv, Typed, TypeOK
  <2> QED
    BY <2>2, <2>3, <2>4 DEF Owns
<1> QED
  BY <1>1, <1>2, <1>4, <1>5

\* Only the caller whose ticket is the prepared one moves the shared phase or
\* gives up what is prepared, whatever stale tickets other callers still hold.
THEOREM PhaseOwnership == Spec => PhaseBelongsToTicket
BY InvCorrect, PhaseStep, PTL DEF Spec, PhaseBelongsToTicket
=============================================================================
