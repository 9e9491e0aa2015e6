-------------------------- MODULE ObservationStore --------------------------
(* One stream of the local observation store: the checkpoint of the stream,   *)
(* the events it holds and the sequence numbers its gap table covers.  Every  *)
(* operation is one SQLite transaction under the store's connection lock.     *)
EXTENDS Naturals

VARIABLES
  accounted,   \* highest_accounted_sequence
  contiguous,  \* highest_contiguous_sequence
  stored,      \* the sequence numbers of observation_events that are records
  gaps         \* the sequence numbers observation_gaps covers

store == <<accounted, contiguous, stored, gaps>>

StoreInit ==
  /\ accounted = 0
  /\ contiguous = 0
  /\ stored = {}
  /\ gaps = {}

\* ObservationGapHeartbeatV1::validate
ValidRange(first, last) ==
  /\ first \in Nat \ {0}
  /\ last \in Nat
  /\ first <= last

RecordIsNext(n) == n = accounted + 1

GapIsNext(first, last) ==
  /\ ValidRange(first, last)
  /\ last > accounted
  /\ first = accounted + 1

\* advance_checkpoint: the complete prefix grows only while nothing is missing.
Prefix(n) == IF contiguous = accounted THEN n ELSE contiguous

\* gap::record; one row stands for all its numbers.
WithGap(first, last) == gaps \cup (first..last)

\* gap::resolve_sequence: what is left of the rows that cover n is put back.
Resolved(n) == gaps \ {n}

\* Mutant: a record after a gap still counts as part of a complete prefix.
IngestRecordContiguous(n) ==
  /\ RecordIsNext(n)
  /\ accounted' = n
  /\ contiguous' = n
  /\ stored' = stored \cup {n}
  /\ gaps' = Resolved(n)

\* Mutant: the checkpoint advances from the complete prefix.
IngestRecordFromContiguous(n) ==
  /\ RecordIsNext(n)
  /\ accounted' = contiguous + 1
  /\ contiguous' = Prefix(n)
  /\ stored' = stored \cup {n}
  /\ gaps' = Resolved(n)

\* ingest_fact and ingest_content: the record is the next one and nothing in it
\* is refused.
IngestRecord(n) ==
  /\ RecordIsNext(n)
  /\ accounted' = n
  /\ contiguous' = Prefix(n)
  /\ stored' = stored \cup {n}
  /\ gaps' = Resolved(n)

\* ingest_fact and ingest_content: the transaction is rolled back, or only the
\* refusal is recorded; a record that comes too early leaves the numbers before
\* it as a gap.
RefuseRecord(n) ==
  /\ gaps' = IF n > accounted + 1 THEN WithGap(accounted + 1, n - 1) ELSE gaps
  /\ UNCHANGED <<accounted, contiguous, stored>>

\* ingest_gap_heartbeat
IngestGap(first, last) ==
  /\ GapIsNext(first, last)
  /\ accounted' = last
  /\ gaps' = WithGap(first, last)
  /\ UNCHANGED <<contiguous, stored>>
=============================================================================
