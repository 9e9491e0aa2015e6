---------------------------- MODULE ProgressStore ----------------------------
(***************************************************************************)
(* The progress text of one run in the observation store                   *)
(* (crates/observation/src/managed_text/progress.rs): a header and the     *)
(* blocks of the current segment.  A text is a sequence of units; the      *)
(* blocks of a segment are joined into one "window", whose first unit has  *)
(* position "head" in the segment and whose last one ends at "end".        *)
(***************************************************************************)
EXTENDS Naturals, Sequences

CONSTANT RunBytes   \* PROGRESS_RUN_BYTES

ASSUME RunBytesAssumption == RunBytes \in Nat \ {0}

Text == Seq(Nat \ {0})

Header == [present : BOOLEAN, segment : Nat, head : Nat, end : Nat, window : Text]

NoHeader == [present |-> FALSE, segment |-> 0, head |-> 0, end |-> 0, window |-> <<>>]

\* s without its first n units.
Without(s, n) == SubSeq(s, n + 1, Len(s))

Excess(s, limit) == IF Len(s) > limit THEN Len(s) - limit ELSE 0

\* trim_block and delete_full_block: the oldest n units go, the head moves on.
Trimmed(h, n) ==
  [h EXCEPT !.head = @ + n, !.window = Without(@, n)]

\* Mutant: the new segment has the number of the old one.
OpenedAgain(h, reset) ==
  IF reset
    THEN [present |-> TRUE, segment |-> IF h.present THEN h.segment ELSE 1,
          head |-> 0, end |-> 0, window |-> <<>>]
    ELSE [h EXCEPT !.present = TRUE]

\* The header a batch is written under: the one there is or, for a batch that
\* announces missing text, that of a new segment.
Opened(h, reset) ==
  IF reset
    THEN [present |-> TRUE, segment |-> IF h.present THEN h.segment + 1 ELSE 1,
          head |-> 0, end |-> 0, window |-> <<>>]
    ELSE [h EXCEPT !.present = TRUE]

Appended(h, text) ==
  [h EXCEPT !.end = @ + Len(text), !.window = @ \o text]

\* managed_text_progress_write_batch, as its transaction leaves the run's text.
Written(h, text, reset) ==
  LET new == Appended(Opened(h, reset), text)
  IN  Trimmed(new, Excess(new.window, RunBytes))

\* The units from position p on, at most n of them.
PageFrom(h, p, n) ==
  SubSeq(h.window, p - h.head + 1,
         IF p + n > h.end THEN Len(h.window) ELSE p - h.head + n)

\* What managed_text_progress_read answers a cursor of the current generation.
CursorIsInvalid(h, segment, position) ==
  IF h.present
    THEN segment > h.segment \/ (segment = h.segment /\ position > h.end)
    ELSE segment # 0 \/ position # 0

CursorIsBehind(h, segment, position) ==
  h.present /\ (segment < h.segment \/ (segment = h.segment /\ position < h.head))
=============================================================================
