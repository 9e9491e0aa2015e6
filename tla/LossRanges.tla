---------------------------- MODULE LossRanges ----------------------------
(* The producer's list of undeclared losses: ranges of sequence numbers,     *)
(* ordered by their first number, neighbours of one reason merged, and the   *)
(* whole list compacted to a single range when it grows past its limit.      *)
EXTENDS Naturals, FiniteSets, FiniteSetsExt, Sequences, SequencesExt

CONSTANT MaxPendingLossRanges

LossRange(first, last, reason) ==
  [first |-> first, last |-> last, reason |-> reason]

Larger(a, b) == IF a >= b THEN a ELSE b

\* Behind every range that starts no later: where a stable sort by the first
\* number leaves a range that was pushed at the end of a sorted list.
Insert(pending, loss) ==
  LET earlier == {i \in DOMAIN pending : pending[i].first <= loss.first}
  IN  InsertAt(pending, Cardinality(earlier) + 1, loss)

\* The range joins the one before it when the reason is the same and no number
\* lies between them.
Join(merged, w) ==
  IF /\ merged # <<>>
     /\ Last(merged).reason = w.reason
     /\ Last(merged).last + 1 >= w.first
  THEN Front(merged) \o
         <<[Last(merged) EXCEPT !.last = Larger(@, w.last)]>>
  ELSE Append(merged, w)

Merged(pending) == FoldLeft(Join, <<>>, pending)

\* Mutant: the list grows without bound.
CompactedNever(pending) == pending

\* One range from the first number lost to the last: it also covers numbers
\* between them that nobody lost.
Compacted(pending) ==
  IF Len(pending) <= MaxPendingLossRanges
  THEN pending
  ELSE LET ends == {pending[i].last : i \in DOMAIN pending}
       IN  <<LossRange(Head(pending).first, Max(ends), "compacted")>>

RecordLoss(pending, loss) == Compacted(Merged(Insert(pending, loss)))

\* Ranges that end before the number the worker waits for are dropped.
Unsettled(pending, expected) ==
  LET open(w) == w.last >= expected
      ahead == SelectInSeq(pending, open)
  IN  IF ahead = 0 THEN <<>> ELSE SubSeq(pending, ahead, Len(pending))

\* The worker has a loss to declare when the first open range reaches the number
\* it waits for; it declares it from that number on.
LossDue(pending, expected) ==
  LET open == Unsettled(pending, expected)
  IN  open # <<>> /\ Head(open).first <= expected

\* Mutant: a range that was declared in part is declared whole again.
DueLossUntrimmed(pending, expected) == Head(Unsettled(pending, expected))

DueLoss(pending, expected) ==
  [Head(Unsettled(pending, expected)) EXCEPT !.first = expected]

AfterTaking(pending, expected) ==
  LET open == Unsettled(pending, expected)
  IN  IF LossDue(pending, expected) THEN Tail(open) ELSE open
=============================================================================
