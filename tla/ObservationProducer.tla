------------------------- MODULE ObservationProducer -------------------------
(* One observation channel of the Gateway: publishers on the request path, a  *)
(* queue bounded in records and in bytes, and the worker thread that delivers *)
(* the records in order to the store and declares what was lost.              *)
EXTENDS ObservationStore, LossRanges, FiniteSets, FiniteSetsExt

CONSTANTS
  Publishers,      \* the request threads that publish on the channel
  Sizes,           \* accounted bytes a record may have
  CapacityBytes,   \* bound on the bytes of undelivered records
  CapacityEvents,  \* bound on the messages in the queue
  MaxSequence,     \* bound: sequence numbers published
  MaxFaults        \* bound: deliveries that fail

ASSUME ProducerAssumption ==
  /\ IsFiniteSet(Publishers)
  /\ Sizes \subseteq Nat \ {0}
  /\ CapacityBytes \in Nat \ {0}
  /\ CapacityEvents \in Nat \ {0}
  /\ MaxPendingLossRanges \in Nat \ {0}
  /\ MaxSequence \in Nat
  /\ MaxFaults \in Nat

VARIABLES
  next,      \* the sequence number the next publisher gets
  stage,     \* per publisher: idle, build, send, pulse
  message,   \* per publisher: the record it builds
  dropped,   \* the sequence numbers whose publisher was told Dropped
  bytes,     \* queued_bytes
  queue,     \* the channel between the publishers and the worker
  pending,   \* the losses not declared yet, shared under a mutex
  step,      \* the worker: receive, drain, record, gap, done
  held,      \* the worker's reorder buffer
  current,   \* the record or the loss the worker delivers
  expected,  \* the sequence number the worker waits for
  ceiling,   \* contiguous_ceiling: at most one number
  backoff,   \* the worker waits before it declares again
  ended,     \* the worker found every sender gone
  closed,    \* every producer handle is gone
  faults     \* failed deliveries so far

publishing == <<next, stage, message, dropped>>
channel == <<bytes, queue>>
worker == <<step, held, current, expected, ceiling, backoff, ended>>
world == <<closed, faults>>
vars == <<store, publishing, channel, pending, worker, world>>

Record(n, size) == [sequence |-> n, size |-> size]
Nothing == Record(0, 0)

\* The accounted bytes of a set of records.
Sized(S) == SumFunction([r \in S |-> r.size])

\* ProducerMessage::GapHeartbeat: a wake-up, it carries no record
Pulse == Nothing

Init ==
  /\ StoreInit
  /\ next = 1
  /\ stage = [p \in Publishers |-> "idle"]
  /\ message = [p \in Publishers |-> Nothing]
  /\ dropped = {}
  /\ bytes = 0
  /\ queue = <<>>
  /\ pending = <<>>
  /\ step = "receive"
  /\ held = {}
  /\ current = Nothing
  /\ expected = 1
  /\ ceiling = {}
  /\ backoff = FALSE
  /\ ended = FALSE
  /\ closed = FALSE
  /\ faults = 0

-----------------------------------------------------------------------------
(* try_publish                                                               *)

Reserve(p, size) ==
  /\ stage[p] = "idle"
  /\ ~closed
  /\ next <= MaxSequence
  /\ next' = next + 1
  /\ message' = [message EXCEPT ![p] = Record(next, size)]
  /\ stage' = [stage EXCEPT ![p] = "build"]
  /\ UNCHANGED <<store, dropped, channel, pending, worker, world>>

\* restore_and_drop, up to the wake-up of the worker
Drop(p, reason) ==
  LET n == message[p].sequence
  IN  /\ pending' = RecordLoss(pending, LossRange(n, n, reason))
      /\ dropped' = dropped \cup {n}
      /\ stage' = [stage EXCEPT ![p] = "pulse"]

DropOversized(p) ==
  /\ stage[p] = "build"
  /\ message[p].size > CapacityBytes
  /\ Drop(p, "too large")
  /\ UNCHANGED <<store, next, message, channel, worker, world>>

\* reserve_bytes refuses
DropForBytes(p) ==
  /\ stage[p] = "build"
  /\ message[p].size <= CapacityBytes
  /\ bytes + message[p].size > CapacityBytes
  /\ Drop(p, "bytes")
  /\ UNCHANGED <<store, next, message, channel, worker, world>>

ReserveBytes(p) ==
  /\ stage[p] = "build"
  /\ bytes + message[p].size <= CapacityBytes
  /\ bytes' = bytes + message[p].size
  /\ stage' = [stage EXCEPT ![p] = "send"]
  /\ UNCHANGED <<store, next, message, dropped, queue, pending, worker, world>>

\* Mutant: the record that fills the queue is reported as dropped.
EnqueueReportsFull(p) ==
  /\ stage[p] = "send"
  /\ Len(queue) < CapacityEvents
  /\ queue' = Append(queue, message[p])
  /\ dropped' = IF Len(queue') = CapacityEvents
                THEN dropped \cup {message[p].sequence} ELSE dropped
  /\ stage' = [stage EXCEPT ![p] = "idle"]
  /\ message' = [message EXCEPT ![p] = Nothing]
  /\ UNCHANGED <<store, next, bytes, pending, worker, world>>

Enqueue(p) ==
  /\ stage[p] = "send"
  /\ Len(queue) < CapacityEvents
  /\ queue' = Append(queue, message[p])
  /\ stage' = [stage EXCEPT ![p] = "idle"]
  /\ message' = [message EXCEPT ![p] = Nothing]
  /\ UNCHANGED <<store, next, dropped, bytes, pending, worker, world>>

\* Mutant: the bytes of a record the queue did not take stay reserved.
DropForEventsLeaks(p) ==
  /\ stage[p] = "send"
  /\ Len(queue) >= CapacityEvents
  /\ Drop(p, "events")
  /\ UNCHANGED <<store, next, message, channel, worker, world>>

DropForEvents(p) ==
  /\ stage[p] = "send"
  /\ Len(queue) >= CapacityEvents
  /\ bytes' = bytes - message[p].size
  /\ Drop(p, "events")
  /\ UNCHANGED <<store, next, message, queue, worker, world>>

\* The wake-up is lost when the queue is full.
Wake(p) ==
  /\ stage[p] = "pulse"
  /\ queue' = IF Len(queue) < CapacityEvents THEN Append(queue, Pulse)
                                             ELSE queue
  /\ stage' = [stage EXCEPT ![p] = "idle"]
  /\ message' = [message EXCEPT ![p] = Nothing]
  /\ UNCHANGED <<store, next, dropped, bytes, pending, worker, world>>

\* The Gateway drops its last handle of the channel.
Close ==
  /\ \A p \in Publishers : stage[p] = "idle"
  /\ closed' = TRUE
  /\ UNCHANGED <<store, publishing, channel, pending, worker, faults>>

-----------------------------------------------------------------------------
(* producer_worker                                                           *)

\* Mutant: a record that comes after its number was declared lost is kept.
ReceiveLate ==
  /\ step = "receive"
  /\ queue # <<>>
  /\ queue' = Tail(queue)
  /\ step' = "drain"
  /\ held' = IF Head(queue) = Pulse THEN held ELSE held \cup {Head(queue)}
  /\ UNCHANGED <<store, publishing, bytes, pending, current, expected, ceiling,
                 backoff, ended, world>>

\* A record below the number the worker waits for was covered by a declared loss.
Receive ==
  /\ step = "receive"
  /\ queue # <<>>
  /\ queue' = Tail(queue)
  /\ step' = "drain"
  /\ LET m == Head(queue)
         late == m # Pulse /\ m.sequence < expected
     IN  /\ held' = IF m = Pulse \/ late THEN held ELSE held \cup {m}
         /\ bytes' = IF late THEN bytes - m.size ELSE bytes
  /\ UNCHANGED <<store, publishing, pending, current, expected, ceiling,
                 backoff, ended, world>>

\* recv_timeout: nothing arrived, or every sender is gone
ReceiveNothing ==
  /\ step = "receive"
  /\ queue = <<>>
  /\ ended' = closed
  /\ step' = "drain"
  /\ UNCHANGED <<store, publishing, channel, pending, held, current, expected,
                 ceiling, backoff, world>>

\* The end of a pass: the worker stops when it found the channel closed, and
\* gives up what it holds.
Pause ==
  IF ended
  THEN /\ step' = "done"
       /\ bytes' = bytes - Sized(held)
       /\ held' = {}
  ELSE /\ step' = "receive"
       /\ UNCHANGED <<bytes, held>>

WaitOut ==
  /\ step = "drain"
  /\ backoff
  /\ Pause
  /\ UNCHANGED <<store, publishing, queue, pending, current, expected, ceiling,
                 backoff, ended, world>>

Elapse ==
  /\ backoff
  /\ backoff' = FALSE
  /\ UNCHANGED <<store, publishing, channel, pending, step, held, current,
                 expected, ceiling, ended, world>>

\* pending_loss_at finds a loss
TakeLoss ==
  /\ step = "drain"
  /\ ~backoff
  /\ LossDue(pending, expected)
  /\ current' = DueLoss(pending, expected)
  /\ pending' = AfterTaking(pending, expected)
  /\ step' = "gap"
  /\ UNCHANGED <<store, publishing, channel, held, expected, ceiling, backoff,
                 ended, world>>

TakeRecord ==
  /\ step = "drain"
  /\ ~backoff
  /\ ~LossDue(pending, expected)
  /\ pending' = AfterTaking(pending, expected)
  /\ \E r \in held :
       /\ r.sequence = expected
       /\ current' = r
       /\ held' = held \ {r}
  /\ step' = "record"
  /\ UNCHANGED <<store, publishing, channel, expected, ceiling, backoff, ended,
                 world>>

FindNothing ==
  /\ step = "drain"
  /\ ~backoff
  /\ ~LossDue(pending, expected)
  /\ pending' = AfterTaking(pending, expected)
  /\ \A r \in held : r.sequence # expected
  /\ Pause
  /\ UNCHANGED <<store, publishing, queue, current, expected, ceiling, backoff,
                 ended, world>>

\* What is not next in the stream is refused; what is may fail all the same: the
\* store cannot be used, or the record contradicts what it holds.
MayFail(isNext) ==
  /\ isNext => faults < MaxFaults
  /\ faults' = IF isNext THEN faults + 1 ELSE faults
  /\ UNCHANGED closed

\* The record was delivered, but its acknowledgement does not cover it, or it
\* was not delivered at all: its number becomes a loss.
DeliveryFailed ==
  /\ pending' = RecordLoss(pending,
                  LossRange(current.sequence, current.sequence, "sink"))
  /\ UNCHANGED expected

\* acknowledgement_covers_record of a record
RecordCovered ==
  /\ accounted' >= current.sequence
  /\ \A c \in ceiling : contiguous' <= c

DeliverRecord ==
  /\ step = "record"
  /\ IngestRecord(current.sequence)
  /\ IF RecordCovered
     THEN expected' = current.sequence + 1 /\ UNCHANGED pending
     ELSE DeliveryFailed
  /\ bytes' = bytes - current.size
  /\ current' = Nothing
  /\ step' = "drain"
  /\ UNCHANGED <<publishing, queue, held, ceiling, backoff, ended, world>>

RecordFails ==
  /\ step = "record"
  /\ MayFail(RecordIsNext(current.sequence))
  /\ RefuseRecord(current.sequence)
  /\ DeliveryFailed
  /\ bytes' = bytes - current.size
  /\ current' = Nothing
  /\ step' = "drain"
  /\ UNCHANGED <<publishing, queue, held, ceiling, backoff, ended>>

\* acknowledgement_covers_record of a gap heartbeat
GapCovered ==
  /\ accounted' >= current.last
  /\ contiguous' < current.first
  /\ \A c \in ceiling : contiguous' <= c

\* From now on no acknowledgement may claim a complete prefix beyond n.
Cap(n) ==
  ceiling' = {c \in ceiling \cup {n} : \A d \in ceiling \cup {n} : c <= d}

\* discard_covered_records: what waits below the declared end is given up.
Discard ==
  LET covered == {r \in held : r.sequence <= current.last}
  IN  /\ held' = held \ covered
      /\ bytes' = bytes - Sized(covered)

\* The declaration is put back, whole, and tried again after a while.
DeclareAgain ==
  /\ pending' = RecordLoss(pending, current)
  /\ backoff' = TRUE
  /\ Pause
  /\ UNCHANGED <<expected, ceiling>>

DeliverGap ==
  /\ step = "gap"
  /\ IngestGap(current.first, current.last)
  /\ IF GapCovered
     THEN /\ Discard
          /\ expected' = current.last + 1
          /\ Cap(current.first - 1)
          /\ step' = "drain"
          /\ UNCHANGED <<pending, backoff>>
     ELSE DeclareAgain
  /\ current' = Nothing
  /\ UNCHANGED <<publishing, queue, ended, world>>

GapFails ==
  /\ step = "gap"
  /\ MayFail(GapIsNext(current.first, current.last))
  /\ DeclareAgain
  /\ current' = Nothing
  /\ UNCHANGED <<store, publishing, queue, ended>>

-----------------------------------------------------------------------------
Publish(p) ==
  \/ DropOversized(p) \/ DropForBytes(p) \/ ReserveBytes(p)
  \/ Enqueue(p) \/ DropForEvents(p) \/ Wake(p)

Work ==
  \/ Receive \/ ReceiveNothing \/ WaitOut
  \/ TakeLoss \/ TakeRecord \/ FindNothing
  \/ DeliverRecord \/ RecordFails \/ DeliverGap \/ GapFails

Next ==
  \/ \E p \in Publishers : (\E size \in Sizes : Reserve(p, size)) \/ Publish(p)
  \/ Close
  \/ Elapse
  \/ Work

Spec == Init /\ [][Next]_vars

\* try_publish never waits, the worker thread runs, and a backoff ends.
Fairness ==
  /\ \A p \in Publishers : WF_vars(Publish(p))
  /\ WF_vars(Elapse)
  /\ WF_vars(Work)

FairSpec == Spec /\ Fairness
-----------------------------------------------------------------------------
(* Properties                                                                *)

\* The bytes a publisher holds between its reservation and its enqueue.
SendingBytes(p) == IF stage[p] = "send" THEN message[p].size ELSE 0

Queued == {queue[i] : i \in DOMAIN queue} \ {Pulse}

Carried == IF step = "record" THEN current.size ELSE 0

\* Type invariant of the channel and of the store's stream.
TypeOK ==
  /\ accounted \in 0..MaxSequence
  /\ contiguous \in 0..accounted
  /\ stored \subseteq 1..MaxSequence
  /\ gaps \subseteq 1..MaxSequence
  /\ next \in 1..(MaxSequence + 1)
  /\ stage \in [Publishers -> {"idle", "build", "send", "pulse"}]
  /\ \A p \in Publishers : stage[p] # "idle" =>
       message[p].sequence \in 1..(next - 1) /\ message[p].size \in Sizes
  /\ dropped \subseteq 1..(next - 1)
  /\ bytes \in 0..CapacityBytes
  /\ Len(queue) <= CapacityEvents
  /\ Len(pending) <= MaxPendingLossRanges
  /\ \A i \in DOMAIN pending :
       1 <= pending[i].first /\ pending[i].first <= pending[i].last
         /\ pending[i].last < next
  /\ step \in {"receive", "drain", "record", "gap", "done"}
  /\ expected \in 1..next
  /\ faults \in 0..MaxFaults
  /\ {backoff, ended, closed} \subseteq BOOLEAN

\* Every byte a publisher reserved belongs to a record that is still on its way:
\* no path of the producer keeps or releases a reservation twice.
BytesBalanced ==
  bytes = Sized(Queued) + Sized(held) + Carried
            + SumFunction([p \in Publishers |-> SendingBytes(p)])

\* What the worker holds is still to come: a record below the number it waits for
\* would never leave the buffer, nor its bytes the queue's account.
NothingStranded == \A r \in held : r.sequence >= expected

\* A sequence number is settled once: it is an event of the store or it is
\* covered by a gap, never both, and nothing beyond the checkpoint is settled.
SettledOnce ==
  /\ stored \cap gaps = {}
  /\ stored \cup gaps = 1..accounted

\* The contiguous checkpoint does not hide a loss, and stops at the first one:
\* a reader who trusts it sees a complete prefix of the stream.
HonestFrontier ==
  /\ 1..contiguous \subseteq stored
  /\ contiguous < accounted => contiguous + 1 \in gaps

\* The worker and the store never disagree about the number that comes next, so
\* the store has no reason to refuse what the worker brings: a disagreement
\* would never heal, the worker repeating a declaration the store cannot take.
WorkerInStep == expected = accounted + 1

\* A record whose publisher was told Dropped never turns up in the store.
DroppedStaysLost == dropped \cap stored = {}

Ledger == INSTANCE ObservationLedger

\* The channel implements the ledger: settled in order, and for good.
ImplementsLedger == Ledger!LedgerSpec

\* Every sequence number handed out is settled, unless the channel is closed: the
\* store catches up with the publishers, who hand out no more than MaxSequence.
EverySequenceSettles ==
  (accounted + 1 < next) ~> (accounted + 1 = next \/ closed)
=============================================================================
