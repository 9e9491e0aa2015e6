--------------------------- MODULE WorkerProgress ---------------------------
(***************************************************************************)
(* The progress text of one Worker run, from the ACP notification that     *)
(* captures it to the caller of "worker read": the bounded buffer and its  *)
(* flushing task (crates/daemon/src/delegation/progress.rs), the text in   *)
(* the observation store (module ProgressStore) and a reader who follows   *)
(* the cursors it is given.                                                *)
(*                                                                         *)
(* The buffer drops its oldest text when it is full, a write may fail      *)
(* before or after its transaction commits and is never repeated, other    *)
(* runs evict text from the store, and the text may be deleted at any      *)
(* time.  A run's text is a sequence of units numbered as captured.        *)
(***************************************************************************)
EXTENDS ProgressStore, FiniteSets

CONSTANTS PendingBytes,   \* PENDING_BYTES
          SizeFlushBytes, \* SIZE_FLUSH_BYTES
          Pieces,         \* sizes of the captured fragments
          PageSizes,      \* max_bytes of the reads
          MaxCaptured,    \* bound on the units captured
          MaxFaults,      \* bound on writes that fail
          MaxGeneration   \* bound on deletions

ASSUME ProgressAssumption ==
  /\ {PendingBytes, SizeFlushBytes} \subseteq Nat \ {0}
  /\ Pieces \subseteq Nat \ {0} /\ PageSizes \subseteq Nat \ {0}
  /\ {MaxCaptured, MaxFaults, MaxGeneration} \subseteq Nat

VARIABLES
  captured,                          \* units the Worker has sent
  pending, gap, notified, accepting, \* BufferState
  permit, stop,                      \* Shared.wake, the stop token
  task, batch, backoff,              \* the flushing task
  header, generation, hidden,        \* the run's text in the store
  prompted,                          \* prompt_may_have_executed
  cursor, snapshot,                  \* the reader, between and in its calls
  at, broken, page,                  \* what it was handed, and told
  faults

buffer == <<pending, gap, notified, accepting, permit>>
writer == <<task, batch, backoff, stop>>
store  == <<header, generation, hidden>>
reader == <<cursor, snapshot, at, broken, page>>
vars   == <<captured, buffer, writer, store, prompted, reader, faults>>

Batch == [text : Text, reset : BOOLEAN]
NoBatch == [text |-> <<>>, reset |-> FALSE]

\* The cursor of the reader's last answer, and an answer read from the store
\* that the reader has not been given yet.
Cursor == [held : BOOLEAN, generation : Nat, segment : Nat, position : Nat]
NoCursor == [held |-> FALSE, generation |-> 0, segment |-> 0, position |-> 0]

Snapshot == [kind : {"idle", "asked", "missing", "behind", "page"}, sent : BOOLEAN,
             generation : Nat, segment : Nat, position : Nat, text : Text]
Idle == [kind |-> "idle", sent |-> FALSE, generation |-> 0, segment |-> 0,
         position |-> 0, text |-> <<>>]

TypeOK ==
  /\ captured \in Nat /\ faults \in Nat /\ generation \in Nat
  /\ pending \in Text /\ Len(pending) <= PendingBytes
  /\ {gap, notified, accepting, permit, stop, backoff, hidden, prompted, broken}
       \subseteq BOOLEAN
  /\ task \in {"wait", "write", "last", "done"} /\ batch \in Batch
  /\ header \in Header
  /\ header.end = header.head + Len(header.window) /\ Len(header.window) <= RunBytes
  /\ cursor \in Cursor /\ snapshot \in Snapshot
  /\ at \in Nat /\ page \in Text

Init ==
  /\ captured = 0 /\ faults = 0 /\ prompted = FALSE
  /\ pending = <<>> /\ gap = FALSE /\ notified = FALSE /\ accepting = TRUE
  /\ permit = FALSE /\ stop = FALSE
  /\ task = "wait" /\ batch = NoBatch /\ backoff = FALSE
  /\ header = NoHeader /\ generation = 0 /\ hidden = FALSE
  /\ cursor = NoCursor /\ snapshot = Idle
  /\ at = 0 /\ broken = TRUE /\ page = <<>>

-----------------------------------------------------------------------------
(***************************************************************************)
(* The buffer                                                              *)
(***************************************************************************)
\* before_prompt has committed the intent to send the prompt.
SendPrompt ==
  /\ ~prompted /\ prompted' = TRUE
  /\ UNCHANGED <<captured, buffer, writer, store, reader, faults>>

\* Mutant: the buffer makes no room for the fragment.
KeptWhole(n) ==
  pending \o [i \in 1..n |-> captured + i]
\* A fragment of n units, as the buffer keeps it with what it held before.
Kept(n) ==
  LET text == [i \in 1..n |-> captured + i]
  IN  IF n >= PendingBytes THEN Without(text, n - PendingBytes)
      ELSE Without(pending, Excess(pending, PendingBytes - n)) \o text

\* Mutant: an overflow is not declared.
LosesOversized(n) == n > PendingBytes
Loses(n) ==
  IF n >= PendingBytes THEN pending # <<>> \/ n > PendingBytes
  ELSE Len(pending) + n > PendingBytes

\* ProgressSink::push.
Push(n) ==
  /\ prompted /\ captured + n <= MaxCaptured
  /\ captured' = captured + n
  /\ IF ~accepting THEN UNCHANGED buffer
     ELSE /\ pending' = Kept(n)
          /\ gap' = (gap \/ Loses(n))
          /\ LET notify == Len(pending') >= SizeFlushBytes /\ ~notified
             IN  notified' = (notified \/ notify) /\ permit' = (permit \/ notify)
          /\ UNCHANGED accepting
  /\ UNCHANGED <<writer, store, prompted, reader, faults>>

-----------------------------------------------------------------------------
(***************************************************************************)
(* The flushing task                                                       *)
(***************************************************************************)
\* take_batch.
TakeBatch ==
  /\ batch' = [text |-> pending, reset |-> gap]
  /\ pending' = <<>> /\ gap' = FALSE /\ notified' = FALSE

Flushable == pending # <<>> \/ gap

\* flush_once up to its blocking write.
Flush(next) == Flushable /\ TakeBatch /\ task' = next

Waiting == task = "wait" /\ ~stop

\* Mutant: the period looks at the size, as the wake does.
TickFull ==
  /\ Waiting /\ ~backoff
  /\ Len(pending) >= SizeFlushBytes /\ Flush("write")
  /\ UNCHANGED <<captured, accepting, permit, stop, backoff, store, prompted, reader, faults>>
\* next_period has passed.
Tick ==
  /\ Waiting /\ ~backoff
  /\ Flush("write")
  /\ UNCHANGED <<captured, accepting, permit, stop, backoff, store, prompted, reader, faults>>

\* The buffer has notified the task.  In the backoff after a failure the
\* notification is used up all the same.
Wake ==
  /\ Waiting /\ permit
  /\ permit' = FALSE
  /\ IF Len(pending) >= SizeFlushBytes /\ ~backoff
       THEN Flush("write")
       ELSE UNCHANGED <<batch, pending, gap, notified, task>>
  /\ UNCHANGED <<captured, accepting, stop, backoff, store, prompted, reader, faults>>

\* retry_not_before has passed.
EndBackoff ==
  /\ backoff /\ backoff' = FALSE
  /\ UNCHANGED <<captured, buffer, task, batch, stop, store, prompted, reader, faults>>

\* stop_and_flush, once the process of the Worker is gone.
Stop ==
  /\ ~stop
  /\ stop' = TRUE /\ accepting' = FALSE
  /\ UNCHANGED <<captured, pending, gap, notified, permit, task, batch, backoff,
                 store, prompted, reader, faults>>

\* The one flush after the stop, in place of the loop's next round.
FinalFlush ==
  /\ task = "wait" /\ stop
  /\ \/ Flush("last")
     \/ ~Flushable /\ task' = "done" /\ UNCHANGED <<batch, pending, gap, notified>>
  /\ UNCHANGED <<captured, accepting, permit, stop, backoff, store, prompted, reader, faults>>

Writing == task \in {"write", "last"}

Return ==
  /\ task' = IF task = "last" THEN "done" ELSE "wait"
  /\ batch' = NoBatch

\* The transaction of managed_text_progress_write_batch.
Commit ==
  /\ ~hidden
  /\ header' = Written(header, batch.text, batch.reset)
  /\ UNCHANGED <<generation, hidden>>

WriteCommits ==
  /\ Writing /\ Commit /\ Return
  /\ UNCHANGED <<captured, buffer, stop, backoff, prompted, reader, faults>>

\* Mutant: mark_failed is forgotten.
WriteFailsSilently ==
  /\ Writing /\ faults < MaxFaults /\ faults' = faults + 1
  /\ Commit \/ UNCHANGED store
  /\ Return /\ backoff' = TRUE
  /\ UNCHANGED <<captured, buffer, stop, prompted, reader>>
\* The write fails before its transaction commits or after, and mark_failed
\* cannot tell which.
WriteFails ==
  /\ Writing /\ faults < MaxFaults /\ faults' = faults + 1
  /\ Commit \/ UNCHANGED store
  /\ Return
  /\ gap' = TRUE /\ backoff' = TRUE
  /\ UNCHANGED <<captured, pending, notified, accepting, permit, stop, prompted, reader>>

\* The write finds the text deleted.
WriteHidden ==
  /\ Writing /\ hidden
  /\ Return
  /\ pending' = <<>> /\ gap' = FALSE /\ notified' = FALSE /\ accepting' = FALSE
  /\ UNCHANGED <<captured, permit, stop, backoff, store, prompted, reader, faults>>

-----------------------------------------------------------------------------
(***************************************************************************)
(* The rest of the store                                                   *)
(***************************************************************************)
\* A write of another run finds the store over its limits, or the collector
\* comes by: the oldest n units go.
Evict(n) ==
  /\ n \in 1..Len(header.window)
  /\ header' = Trimmed(header, n)
  /\ UNCHANGED <<captured, buffer, writer, generation, hidden, prompted, reader, faults>>

\* apply_managed_delete, of text up to a time before or after the run's own.
Delete(hides) ==
  /\ generation < MaxGeneration /\ generation' = generation + 1
  /\ hidden' = (hidden \/ hides)
  /\ UNCHANGED <<captured, buffer, writer, header, prompted, reader, faults>>

\* The retention deadline of the run passes.
Expire ==
  /\ hidden' = TRUE
  /\ UNCHANGED <<captured, buffer, writer, header, generation, prompted, reader, faults>>

-----------------------------------------------------------------------------
(***************************************************************************)
(* A reader                                                                *)
(***************************************************************************)
readerOnly == <<captured, buffer, writer, store, prompted, faults>>

\* read_worker_progress has read the run.
ReadRun ==
  /\ snapshot.kind = "idle"
  /\ snapshot' = [Idle EXCEPT !.kind = "asked", !.sent = prompted]
  /\ UNCHANGED <<readerOnly, cursor, at, broken, page>>

\* The cursor is refused: the reader has to start without one.
Refuse ==
  /\ cursor' = NoCursor /\ snapshot' = Idle
  /\ at' = 0 /\ broken' = TRUE /\ page' = <<>>

\* The read transaction of progress_read_with_privacy_now.
CursorIsStale == cursor.held /\ cursor.generation # generation

ReadRefused ==
  /\ snapshot.kind = "asked"
  /\ \/ hidden
     \/ CursorIsStale
     \/ cursor.held /\ CursorIsInvalid(header, cursor.segment, cursor.position)
  /\ Refuse
  /\ UNCHANGED readerOnly

Answer(kind, position, text) ==
  snapshot' = [kind |-> kind, sent |-> snapshot.sent, generation |-> generation,
               segment |-> header.segment, position |-> position, text |-> text]

ReadSnapshot(n) ==
  /\ snapshot.kind = "asked" /\ ~hidden /\ ~CursorIsStale
  /\ cursor.held => ~CursorIsInvalid(header, cursor.segment, cursor.position)
  /\ LET behind == cursor.held /\ CursorIsBehind(header, cursor.segment, cursor.position)
         from   == IF cursor.held THEN cursor.position ELSE header.head
     IN  CASE ~header.present -> Answer("missing", 0, <<>>)
           [] behind          -> Answer("behind", header.head, <<>>)
           [] OTHER           -> Answer("page", from, PageFrom(header, from, n))
  /\ UNCHANGED <<readerOnly, cursor, at, broken, page>>

\* finish_progress_snapshot looks at the privacy boundary once more.
Withdrawn == hidden \/ (cursor.held /\ snapshot.generation # generation)

ReadWithdrawn ==
  /\ snapshot.kind \in {"missing", "behind", "page"} /\ Withdrawn
  /\ Refuse
  /\ UNCHANGED readerOnly

Follow(segment, position) ==
  /\ cursor' = [held |-> TRUE, generation |-> generation,
                segment |-> segment, position |-> position]
  /\ snapshot' = Idle

\* There is no text: the prompt was not sent, or the answer is an error.
ReadMissing ==
  /\ snapshot.kind = "missing" /\ ~Withdrawn
  /\ IF snapshot.sent
       THEN snapshot' = Idle /\ UNCHANGED <<cursor, at, broken, page>>
       ELSE Follow(0, 0) /\ broken' = FALSE /\ page' = <<>> /\ UNCHANGED at
  /\ UNCHANGED readerOnly

\* CursorGap and CursorEvicted, with the cursor to go on from.
ReadBehind ==
  /\ snapshot.kind = "behind" /\ ~Withdrawn
  /\ Follow(snapshot.segment, snapshot.position)
  /\ broken' = TRUE /\ page' = <<>> /\ UNCHANGED at
  /\ UNCHANGED readerOnly

ReadPage ==
  /\ snapshot.kind = "page" /\ ~Withdrawn
  /\ Follow(snapshot.segment, snapshot.position + Len(snapshot.text))
  /\ IF snapshot.text = <<>> THEN UNCHANGED <<at, broken, page>>
     ELSE page' = snapshot.text /\ broken' = FALSE
          /\ at' = snapshot.text[Len(snapshot.text)]
  /\ UNCHANGED readerOnly

-----------------------------------------------------------------------------
WriteReturns == WriteCommits \/ WriteFails \/ WriteHidden

Next ==
  \/ SendPrompt \/ \E n \in Pieces : Push(n)
  \/ Tick \/ Wake \/ EndBackoff \/ Stop \/ FinalFlush
  \/ WriteCommits \/ WriteFails \/ WriteHidden
  \/ \E n \in 1..RunBytes : Evict(n)
  \/ \E hides \in BOOLEAN : Delete(hides)
  \/ Expire
  \/ ReadRun \/ ReadRefused \/ \E n \in PageSizes : ReadSnapshot(n)
  \/ ReadWithdrawn \/ ReadMissing \/ ReadBehind \/ ReadPage

Spec == Init /\ [][Next]_vars

\* Time passes, and a blocking write returns.
Fairness ==
  WF_vars(Tick) /\ WF_vars(EndBackoff) /\ WF_vars(FinalFlush) /\ WF_vars(WriteReturns)

FairSpec == Spec /\ Fairness

-----------------------------------------------------------------------------
\* What the store holds has no hole: the units of a segment are consecutive.
\* The buffer loses text at three places (an overflow, a fragment longer than
\* the buffer, a failed write), and each has to reach the store as a new
\* segment, however the losses interleave with the batches under way.
SegmentIsContiguous ==
  \A i \in 1..(Len(header.window) - 1) : header.window[i + 1] = header.window[i] + 1

\* A reader who follows the cursors it is given is never told that one is
\* malformed: whatever is written, evicted or reset in between, a cursor of the
\* present generation is good, or behind the text and answered with another.
CursorStaysValid ==
  cursor.held /\ cursor.generation = generation =>
    ~CursorIsInvalid(header, cursor.segment, cursor.position)

\* Pages continue each other, or the reader has been told of a break; nothing
\* is handed over twice, nor after the text is deleted.
Feed == INSTANCE ProgressFeed

ImplementsFeed == Feed!Spec

\* Captured text and declared losses do not stay in the buffer: a size wake
\* that the backoff has swallowed is made up for by the period, and only the
\* end of the capture leaves a loss undeclared.
EventuallyDrained == []<>(task = "done" \/ (~Flushable /\ batch = NoBatch))
=============================================================================
