------------------------ MODULE WorkerProgress_proofs ------------------------
(* A reader of a Worker's progress is handed consecutive text or told of a  *)
(* break, for any fragment sizes, buffer, page and store limits, and any    *)
(* number of failed writes, evictions and deletions.                        *)
(*                                                                          *)
(* No variable says which unit a position of the store stands for.  The     *)
(* invariant names the origins the parts of the program work with: the unit *)
(* before the current segment, before the batch under way, before the       *)
(* pending text and before the reader's snapshot.                           *)
EXTENDS WorkerProgress, SequenceTheorems, TLAPS

\* The units of s are those that follow the unit o.
Follows(s, o) == \A i \in 1..Len(s) : s[i] = o + i

\* What the control state of the task says of its batch.
TaskInv == ~Writing => batch = NoBatch

\* Segment 0 exists before anything is lost, and starts with the first unit.
HeaderInv(b) ==
  /\ Follows(header.window, b + header.head)
  /\ header.segment = 0 => b = 0
  /\ ~header.present => /\ header.segment = 0 /\ header.head = 0 /\ header.end = 0
                        /\ at = 0

\* From the store to the Worker: the batch under way begins at c and the pending
\* text at d.  Without a declared loss they continue what is before them.
PipelineInv(b, c, d) ==
  /\ b + header.end <= c
  /\ ~batch.reset => c = b + header.end
  /\ Follows(batch.text, c)
  /\ c + Len(batch.text) <= d
  /\ ~gap => d = c + Len(batch.text)
  /\ Follows(pending, d)
  /\ d + Len(pending) <= captured
  /\ accepting => captured = d + Len(pending)

\* A place of the reader in the text: the position p of a segment, which stands
\* for the unit o, and of which the next n units are meant.
Place(b, segment, p, o, n) ==
  /\ segment <= header.segment
  /\ segment = header.segment => o = b + p /\ p + n <= header.end
  /\ segment < header.segment => o + n <= b

CursorInv(b) ==
  /\ ~cursor.held => at = 0 /\ broken
  /\ cursor.held =>
       \E o \in Nat : /\ Place(b, cursor.segment, cursor.position, o, 0)
                      /\ at <= o
                      /\ ~broken => at = o
  /\ cursor.held /\ ~header.present => cursor.segment = 0 /\ cursor.position = 0

\* What the reader's snapshot says is still true of the text, or of an earlier
\* segment of it.
SnapshotInv(b) ==
  /\ snapshot.kind = "missing" => at = 0
  /\ snapshot.kind \in {"behind", "page"} =>
       /\ header.present
       /\ \E o \in Nat :
            /\ Place(b, snapshot.segment, snapshot.position, o, Len(snapshot.text))
            /\ Follows(snapshot.text, o)
            /\ at <= o
            /\ snapshot.kind = "page" /\ ~broken => at = o
  /\ snapshot.kind = "behind" => snapshot.text = <<>>

Aligned ==
  \E b, c, d \in Nat :
    HeaderInv(b) /\ PipelineInv(b, c, d) /\ CursorInv(b) /\ SnapshotInv(b)

Inv == TypeOK /\ TaskInv /\ Aligned

-----------------------------------------------------------------------------
(***************************************************************************)
(* What the operators on texts and headers do                              *)
(***************************************************************************)
\* A text without its first n units begins n units later.
LEMMA WithoutFirst ==
  ASSUME NEW s \in Text, NEW n \in 0..Len(s)
  PROVE  /\ Without(s, n) \in Text
         /\ Len(Without(s, n)) = Len(s) - n
         /\ \A o \in Nat : Follows(s, o) => Follows(Without(s, n), o + n)
<1>1. Len(s) \in Nat /\ n \in Nat
  BY LenProperties DEF Text
<1>2. \A i \in (n + 1)..Len(s) : s[i] \in Nat \ {0}
  BY <1>1, ElementOfSeq DEF Text
<1>3. /\ Without(s, n) \in Text
      /\ Len(Without(s, n)) = IF n + 1 <= Len(s) THEN Len(s) - (n + 1) + 1 ELSE 0
      /\ \A i \in 1..(Len(s) - (n + 1) + 1) : Without(s, n)[i] = s[n + 1 + i - 1]
  BY <1>1, <1>2, SubSeqProperties DEF Without, Text
<1>4. Len(Without(s, n)) = Len(s) - n
  BY <1>1, <1>3
<1>5. ASSUME NEW o \in Nat, Follows(s, o), NEW i \in 1..(Len(s) - n)
      PROVE  Without(s, n)[i] = o + n + i
  <2>1. n + i \in 1..Len(s) /\ n + 1 + i - 1 = n + i
    BY <1>1
  <2>2. s[n + i] = o + (n + i)
    BY <1>5, <2>1 DEF Follows
  <2> QED
    BY <1>1, <1>3, <2>1, <2>2
<1> QED
  BY <1>3, <1>4, <1>5 DEF Follows

\* Two texts that follow each other are one text.
LEMMA JoinedFollows ==
  ASSUME NEW s \in Text, NEW t \in Text
  PROVE  /\ s \o t \in Text
         /\ Len(s \o t) = Len(s) + Len(t)
         /\ \A o \in Nat : Follows(s, o) /\ Follows(t, o + Len(s)) => Follows(s \o t, o)
<1>1. Len(s) \in Nat /\ Len(t) \in Nat
  BY LenProperties DEF Text
<1>2. /\ s \o t \in Text
      /\ Len(s \o t) = Len(s) + Len(t)
      /\ \A i \in 1..(Len(s) + Len(t)) :
           (s \o t)[i] = IF i <= Len(s) THEN s[i] ELSE t[i - Len(s)]
  BY ConcatProperties DEF Text
<1>3. ASSUME NEW o \in Nat, Follows(s, o), Follows(t, o + Len(s)),
             NEW i \in 1..(Len(s) + Len(t))
      PROVE  (s \o t)[i] = o + i
  <2>1. CASE i <= Len(s)
    BY <1>1, <1>2, <1>3, <2>1 DEF Follows
  <2>2. CASE i > Len(s)
    <3>1. i - Len(s) \in 1..Len(t)
      BY <1>1, <2>2
    <3>2. t[i - Len(s)] = o + Len(s) + (i - Len(s))
      BY <1>3, <3>1 DEF Follows
    <3> QED
      BY <1>1, <1>2, <2>2, <3>2
  <2> QED
    BY <1>1, <2>1, <2>2
<1> QED
  BY <1>2, <1>3 DEF Follows

LEMMA EmptyFollows == <<>> \in Text /\ Len(<<>>) = 0 /\ \A o \in Nat : Follows(<<>>, o)
<1>1. <<>> \in Text /\ Len(<<>>) = 0
  BY EmptySeq DEF Text
<1> QED
  BY <1>1 DEF Follows

\* The n units after the unit o.
LEMMA NewText ==
  ASSUME NEW n \in Nat, NEW o \in Nat
  PROVE  /\ [i \in 1..n |-> o + i] \in Text
         /\ Len([i \in 1..n |-> o + i]) = n
         /\ Follows([i \in 1..n |-> o + i], o)
<1>1. \A i \in 1..n : o + i \in Nat \ {0}
  OBVIOUS
<1>2. [i \in 1..n |-> o + i] \in Text
  BY <1>1, IsASeq DEF Text
<1>3. Len([i \in 1..n |-> o + i]) = n
  OBVIOUS
<1> QED
  BY <1>2, <1>3 DEF Follows

GoodHeader(h) == h \in Header /\ h.end = h.head + Len(h.window)

\* Trimming leaves the segment and its end, and moves the head with the window.
LEMMA TrimmedHeader ==
  ASSUME NEW h, GoodHeader(h), NEW n \in 0..Len(h.window)
  PROVE  /\ GoodHeader(Trimmed(h, n))
         /\ Trimmed(h, n).present = h.present
         /\ Trimmed(h, n).segment = h.segment
         /\ Trimmed(h, n).end = h.end
         /\ Trimmed(h, n).head = h.head + n
         /\ Len(Trimmed(h, n).window) = Len(h.window) - n
         /\ \A b \in Nat : Follows(h.window, b + h.head)
               => Follows(Trimmed(h, n).window, b + Trimmed(h, n).head)
<1>1. h.window \in Text /\ h.head \in Nat /\ h.end \in Nat /\ n \in Nat
      /\ h.present \in BOOLEAN /\ h.segment \in Nat
  BY DEF GoodHeader, Header
<1>2. Len(h.window) \in Nat
  BY <1>1, LenProperties DEF Text
<1>3. /\ Without(h.window, n) \in Text
      /\ Len(Without(h.window, n)) = Len(h.window) - n
      /\ \A o \in Nat : Follows(h.window, o) => Follows(Without(h.window, n), o + n)
  BY <1>1, WithoutFirst
<1> DEFINE H == Trimmed(h, n)
<1>4. /\ H.present = h.present /\ H.segment = h.segment /\ H.end = h.end
      /\ H.head = h.head + n /\ H.window = Without(h.window, n)
  <2>1. DOMAIN h = {"present", "segment", "head", "end", "window"}
    BY DEF GoodHeader, Header
  <2> QED
    BY <2>1 DEF Trimmed
<1>5. GoodHeader(H)
  <2>1. h.head + n \in Nat /\ h \in Header
    BY <1>1 DEF GoodHeader
  <2>2. H \in Header
    BY <1>3, <2>1, Zenon DEF Trimmed, Header
  <2>3. H.end = H.head + Len(H.window)
    <3> HIDE DEF H
    <3> QED
      BY <1>1, <1>2, <1>3, <1>4 DEF GoodHeader
  <2> QED
    BY <2>2, <2>3 DEF GoodHeader
<1>6. ASSUME NEW b \in Nat, Follows(h.window, b + h.head)
      PROVE  Follows(H.window, b + H.head)
  <2>1. Follows(Without(h.window, n), (b + h.head) + n)
    BY <1>1, <1>3, <1>6
  <2>2. (b + h.head) + n = b + (h.head + n)
    BY <1>1
  <2> QED
    BY <1>4, <2>1, <2>2
<1> QED
  BY <1>3, <1>4, <1>5, <1>6

\* A written text is at the end of its segment: of the present one, or of a new
\* one if the batch announces a loss.
LEMMA WrittenHeader ==
  ASSUME NEW h, GoodHeader(h), NEW text \in Text, NEW reset \in BOOLEAN,
         ~h.present => h.segment = 0
  PROVE  LET w == Written(h, text, reset) IN
         /\ GoodHeader(w) /\ Len(w.window) <= RunBytes
         /\ w.present
         /\ ~reset => w.segment = h.segment /\ w.end = h.end + Len(text)
         /\ reset => w.segment > h.segment /\ w.end = Len(text)
         /\ \A b \in Nat :
              IF reset THEN Follows(text, b) => Follows(w.window, b + w.head)
              ELSE Follows(h.window, b + h.head) /\ Follows(text, b + h.end)
                     => Follows(w.window, b + w.head)
<1> DEFINE open == Opened(h, reset)
           new  == Appended(open, text)
           w    == Written(h, text, reset)
<1>1. h.window \in Text /\ h.head \in Nat /\ h.end \in Nat
      /\ h.present \in BOOLEAN /\ h.segment \in Nat /\ Len(h.window) \in Nat
      /\ Len(text) \in Nat /\ h.end = h.head + Len(h.window)
  BY LenProperties DEF GoodHeader, Header, Text
<1>2. /\ GoodHeader(open) /\ open.present
      /\ ~reset => /\ open.segment = h.segment /\ open.end = h.end
                   /\ open.head = h.head /\ open.window = h.window
      /\ reset => /\ open.segment > h.segment
                  /\ open.head = 0 /\ open.end = 0 /\ open.window = <<>>
  <2>1. CASE reset
    BY <1>1, <2>1, EmptyFollows DEF Opened, GoodHeader, Header
  <2>2. CASE ~reset
    BY <1>1, <2>2 DEF Opened, GoodHeader, Header
  <2> QED
    BY <2>1, <2>2
<1>3. open.window \in Text /\ open.head \in Nat /\ open.end \in Nat
      /\ open.present \in BOOLEAN /\ open.segment \in Nat /\ Len(open.window) \in Nat
      /\ open.end = open.head + Len(open.window)
  BY <1>2, LenProperties DEF GoodHeader, Header, Text
<1>4. /\ new.present = open.present /\ new.segment = open.segment
      /\ new.head = open.head
      /\ new.end = open.end + Len(text) /\ new.window = open.window \o text
  <2>1. DOMAIN open = {"present", "segment", "head", "end", "window"}
    <3> HIDE DEF open
    <3> QED
      BY <1>2 DEF GoodHeader, Header
  <2> HIDE DEF open
  <2> QED
    BY <2>1 DEF Appended
<1>5. /\ open.window \o text \in Text
      /\ Len(open.window \o text) = Len(open.window) + Len(text)
      /\ \A o \in Nat : Follows(open.window, o) /\ Follows(text, o + Len(open.window))
           => Follows(open.window \o text, o)
  BY <1>3, JoinedFollows
<1>6. GoodHeader(new)
  <2>1. open.end + Len(text) \in Nat /\ open \in Header
    BY <1>1, <1>2, <1>3 DEF GoodHeader
  <2> HIDE DEF open
  <2>2. new \in Header
    BY <1>5, <2>1, Zenon DEF Appended, Header
  <2>3. new.end = new.head + Len(new.window)
    <3> HIDE DEF new
    <3> QED
      BY <1>1, <1>3, <1>4, <1>5
  <2> QED
    BY <2>2, <2>3 DEF GoodHeader
<1>7. ASSUME NEW b \in Nat,
             Follows(open.window, b + open.head), Follows(text, b + open.end)
      PROVE  Follows(new.window, b + new.head)
  <2>1. b + open.head \in Nat /\ (b + open.head) + Len(open.window) = b + open.end
    BY <1>3
  <2> QED
    BY <1>4, <1>5, <1>7, <2>1
<1> HIDE DEF open
<1>8. /\ Len(new.window) \in Nat
      /\ Excess(new.window, RunBytes) \in 0..Len(new.window)
      /\ Len(new.window) - Excess(new.window, RunBytes) <= RunBytes
  <2>1. Len(new.window) \in Nat
    BY <1>6, LenProperties DEF GoodHeader, Header, Text
  <2> QED
    BY <2>1, RunBytesAssumption DEF Excess
<1>9. w = Trimmed(new, Excess(new.window, RunBytes))
  BY DEF Written, open
<1>10. /\ GoodHeader(w) /\ w.present = new.present /\ w.segment = new.segment
       /\ w.end = new.end /\ Len(w.window) <= RunBytes
       /\ \A b \in Nat : Follows(new.window, b + new.head)
            => Follows(w.window, b + w.head)
  <2> HIDE DEF new, w
  <2> QED
    BY <1>6, <1>8, <1>9, TrimmedHeader
<1>11. ASSUME NEW b \in Nat
       PROVE IF reset THEN Follows(text, b) => Follows(w.window, b + w.head)
             ELSE Follows(h.window, b + h.head) /\ Follows(text, b + h.end)
                    => Follows(w.window, b + w.head)
  <2> HIDE DEF new, w
  <2>1. CASE reset
    <3>1. b + 0 = b
      OBVIOUS
    <3> QED
      BY <1>2, <1>7, <1>10, <2>1, <3>1, EmptyFollows
  <2>2. CASE ~reset
    BY <1>2, <1>7, <1>10, <2>2
  <2> QED
    BY <2>1, <2>2
<1>12. new.present /\ new.segment = open.segment /\ new.end = open.end + Len(text)
  BY <1>2, <1>4
<1> HIDE DEF new, w
<1>13. /\ ~reset => w.segment = h.segment /\ w.end = h.end + Len(text)
       /\ reset => w.segment > h.segment /\ w.end = Len(text)
  BY <1>1, <1>2, <1>10, <1>12
<1> QED
  BY <1>10, <1>11, <1>12, <1>13 DEF w

\* The buffer never holds more than it may, and what it holds is the end of
\* what was captured; undeclared, nothing before it is lost.
LEMMA KeptText ==
  ASSUME TypeOK, NEW n \in Nat \ {0}
  PROVE  /\ Kept(n) \in Text
         /\ Len(Kept(n)) <= PendingBytes
         /\ \A d \in Nat : Follows(pending, d) /\ captured = d + Len(pending)
              => \E e \in Nat : /\ d <= e /\ captured + n = e + Len(Kept(n))
                                /\ ~Loses(n) => e = d
                                /\ Follows(Kept(n), e)
<1> DEFINE text == [i \in 1..n |-> captured + i]
<1>1. /\ PendingBytes \in Nat /\ captured \in Nat /\ n \in Nat
      /\ pending \in Text /\ Len(pending) <= PendingBytes /\ Len(pending) \in Nat
  BY ProgressAssumption, LenProperties DEF TypeOK, Text
<1>2. text \in Text /\ Len(text) = n /\ Follows(text, captured)
  BY <1>1, NewText
<1> HIDE DEF text
<1>3. CASE n >= PendingBytes
  <2>1. n - PendingBytes \in 0..Len(text)
    BY <1>1, <1>2, <1>3
  <2>2. Kept(n) = Without(text, n - PendingBytes)
    BY <1>3 DEF Kept, text
  <2>3. /\ Without(text, n - PendingBytes) \in Text
        /\ Len(Without(text, n - PendingBytes)) = Len(text) - (n - PendingBytes)
        /\ \A o \in Nat : Follows(text, o)
             => Follows(Without(text, n - PendingBytes), o + (n - PendingBytes))
    BY <1>2, <2>1, WithoutFirst
  <2>4. Len(Kept(n)) = PendingBytes
    BY <1>1, <1>2, <2>2, <2>3
  <2>5. ASSUME NEW d \in Nat, captured = d + Len(pending)
        PROVE  LET e == captured + (n - PendingBytes) IN
               /\ e \in Nat /\ d <= e /\ captured + n = e + PendingBytes
               /\ ~Loses(n) => e = d
               /\ Follows(Kept(n), e)
    <3>1. captured + (n - PendingBytes) \in Nat
      BY <1>1, <1>3
    <3>2. ~Loses(n) => n = PendingBytes /\ Len(pending) = 0
      BY <1>1, <1>3, EmptyFollows DEF Loses
    <3> QED
      BY <1>1, <1>2, <1>3, <2>2, <2>3, <2>5, <3>1, <3>2
  <2> QED
    BY <1>1, <2>2, <2>3, <2>4, <2>5
<1>4. CASE n < PendingBytes
  <2> DEFINE cut == Excess(pending, PendingBytes - n)
             old == Without(pending, cut)
  <2>1. cut \in 0..Len(pending) /\ Len(pending) - cut <= PendingBytes - n
    BY <1>1, <1>4 DEF Excess
  <2>2. ~Loses(n) => cut = 0
    BY <1>1, <1>4 DEF Loses, Excess
  <2> HIDE DEF cut
  <2>3. /\ old \in Text /\ Len(old) = Len(pending) - cut
        /\ \A o \in Nat : Follows(pending, o) => Follows(old, o + cut)
    BY <1>1, <2>1, WithoutFirst
  <2>4. Kept(n) = old \o text
    BY <1>1, <1>4 DEF Kept, text, cut
  <2> HIDE DEF old
  <2>5. /\ old \o text \in Text /\ Len(old \o text) = Len(old) + n
        /\ \A o \in Nat : Follows(old, o) /\ Follows(text, o + Len(old))
             => Follows(old \o text, o)
    BY <1>2, <2>3, JoinedFollows
  <2>6. ASSUME NEW d \in Nat, Follows(pending, d), captured = d + Len(pending)
        PROVE  LET e == d + cut IN
               /\ e \in Nat /\ d <= e /\ captured + n = e + Len(Kept(n))
               /\ ~Loses(n) => e = d
               /\ Follows(Kept(n), e)
    <3>1. d + cut \in Nat /\ (d + cut) + Len(old) = captured
      BY <1>1, <2>1, <2>3, <2>6
    <3>2. Follows(old, d + cut)
      BY <2>3, <2>6
    <3>3. Follows(old \o text, d + cut)
      BY <1>2, <2>5, <3>1, <3>2
    <3>4. captured + n = (d + cut) + Len(Kept(n))
      BY <1>1, <2>1, <2>3, <2>4, <2>5, <2>6
    <3> QED
      BY <2>1, <2>2, <2>4, <3>1, <3>3, <3>4
  <2>7. Len(Kept(n)) <= PendingBytes
    BY <1>1, <2>1, <2>3, <2>4, <2>5
  <2> QED
    BY <2>4, <2>5, <2>6, <2>7
<1> QED
  BY <1>1, <1>3, <1>4
-----------------------------------------------------------------------------
(***************************************************************************)
(* The invariant                                                           *)
(***************************************************************************)
LEMMA InitInv == Init => Inv
<1> SUFFICES ASSUME Init PROVE Inv
  OBVIOUS
<1> USE EmptyFollows DEF Init
<1>1. TypeOK
  <2>1. batch \in Batch /\ header \in Header /\ cursor \in Cursor /\ snapshot \in Snapshot
    BY DEF NoBatch, Batch, NoHeader, Header, NoCursor, Cursor, Idle, Snapshot
  <2>2. header.end = header.head + Len(header.window) /\ Len(header.window) <= RunBytes
        /\ Len(pending) <= PendingBytes
    BY ProgressAssumption, RunBytesAssumption DEF NoHeader
  <2> QED
    BY <2>1, <2>2 DEF TypeOK
<1>2. TaskInv
  BY DEF TaskInv
<1>3. HeaderInv(0) /\ PipelineInv(0, 0, 0) /\ CursorInv(0) /\ SnapshotInv(0)
  BY DEF HeaderInv, PipelineInv, CursorInv, SnapshotInv, NoHeader, NoBatch, NoCursor, Idle
<1> QED
  BY <1>1, <1>2, <1>3 DEF Inv, Aligned

\* The parts of the type invariant as facts about numbers and texts.
LEMMA TypeFacts ==
  ASSUME TypeOK
  PROVE  /\ captured \in Nat /\ at \in Nat /\ generation \in Nat /\ faults \in Nat
         /\ pending \in Text /\ Len(pending) \in Nat /\ Len(pending) <= PendingBytes
         /\ batch \in Batch /\ batch.text \in Text /\ Len(batch.text) \in Nat
         /\ batch.reset \in BOOLEAN
         /\ gap \in BOOLEAN /\ accepting \in BOOLEAN /\ broken \in BOOLEAN
         /\ hidden \in BOOLEAN /\ prompted \in BOOLEAN
         /\ GoodHeader(header) /\ Len(header.window) <= RunBytes
         /\ header.present \in BOOLEAN /\ header.segment \in Nat
         /\ header.head \in Nat /\ header.end \in Nat
         /\ header.window \in Text /\ Len(header.window) \in Nat
         /\ header.end = header.head + Len(header.window)
         /\ cursor.held \in BOOLEAN /\ cursor.generation \in Nat
         /\ cursor.segment \in Nat /\ cursor.position \in Nat
         /\ snapshot.segment \in Nat /\ snapshot.position \in Nat
         /\ snapshot.text \in Text /\ Len(snapshot.text) \in Nat
         /\ snapshot.sent \in BOOLEAN
<1>1. /\ batch.text \in Text /\ batch.reset \in BOOLEAN
      /\ header.present \in BOOLEAN /\ header.segment \in Nat
      /\ header.head \in Nat /\ header.end \in Nat /\ header.window \in Text
      /\ cursor.held \in BOOLEAN /\ cursor.generation \in Nat
      /\ cursor.segment \in Nat /\ cursor.position \in Nat
      /\ snapshot.segment \in Nat /\ snapshot.position \in Nat
      /\ snapshot.text \in Text /\ snapshot.sent \in BOOLEAN
      /\ pending \in Text
  BY DEF TypeOK, Batch, Header, Cursor, Snapshot
<1>2. \A s \in Text : Len(s) \in Nat
  BY LenProperties DEF Text
<1> QED
  BY <1>1, <1>2 DEF TypeOK, GoodHeader

\* What a fragment does to the origins: only that of the pending text moves.
LEMMA PushKeeps ==
  ASSUME Inv, NEW n \in Pieces, Push(n)
  PROVE  Inv'
<1>1. n \in Nat \ {0}
  BY ProgressAssumption
<1>2. TypeOK
  BY DEF Inv
<1> USE TypeFacts, <1>1, <1>2
<1>3. /\ Kept(n) \in Text /\ Len(Kept(n)) <= PendingBytes
      /\ \A d \in Nat : Follows(pending, d) /\ captured = d + Len(pending)
           => \E e \in Nat : /\ d <= e /\ captured + n = e + Len(Kept(n))
                             /\ ~Loses(n) => e = d
                             /\ Follows(Kept(n), e)
  BY KeptText
<1>4. TypeOK'
  <2>1. captured' \in Nat
    <3>1. captured \in Nat /\ n \in Nat
      OBVIOUS
    <3>2. captured' = captured + n
      BY DEF Push
    <3> QED
      BY ONLY <3>1, <3>2
  <2>2. pending' \in Text /\ Len(pending)' <= PendingBytes
        /\ {gap, notified, accepting, permit}' \subseteq BOOLEAN
    <3>1. CASE ~accepting
      BY <3>1 DEF Push, buffer, TypeOK
    <3>2. CASE accepting
      <4>1. pending' = Kept(n) /\ gap' = (gap \/ Loses(n)) /\ accepting' = accepting
        BY <3>2 DEF Push
      <4>2. notified' \in BOOLEAN /\ permit' \in BOOLEAN
        BY <3>2 DEF Push, TypeOK
      <4>3. gap' \in BOOLEAN /\ accepting' \in BOOLEAN
        BY <4>1
      <4> QED
        BY <1>3, <4>1, <4>2, <4>3
    <3> QED
      BY <3>1, <3>2
  <2> QED
    BY <2>1, <2>2 DEF TypeOK, Push, writer, store, reader
<1>5. TaskInv'
  BY DEF Inv, TaskInv, Writing, Push, writer
<1>6. PICK b \in Nat, c \in Nat, d \in Nat :
        HeaderInv(b) /\ PipelineInv(b, c, d) /\ CursorInv(b) /\ SnapshotInv(b)
  BY DEF Inv, Aligned
<1>7. \E e \in Nat : PipelineInv(b, c, e)'
  <2>1. CASE ~accepting
    <3>1. PipelineInv(b, c, d)'
      BY <1>6, <2>1 DEF PipelineInv, Push, buffer, writer, store, Follows
    <3> QED
      BY <3>1
  <2>2. CASE accepting
    <3>1. PICK e \in Nat : /\ d <= e /\ captured + n = e + Len(Kept(n))
                           /\ ~Loses(n) => e = d
                           /\ Follows(Kept(n), e)
      BY <1>3, <1>6, <2>2 DEF PipelineInv
    <3>2. pending' = Kept(n) /\ gap' = (gap \/ Loses(n)) /\ captured' = captured + n
          /\ UNCHANGED <<header, batch>>
      BY <2>2 DEF Push, writer, store
    <3>3. Len(Kept(n)) \in Nat
      BY <1>3, LenProperties DEF Text
    <3>4. /\ b + header.end <= c /\ (~batch.reset => c = b + header.end)
          /\ Follows(batch.text, c) /\ c + Len(batch.text) <= d
          /\ ~gap => d = c + Len(batch.text)
      BY <1>6 DEF PipelineInv
    <3>5. c + Len(batch.text) <= e /\ (~gap /\ ~Loses(n) => e = c + Len(batch.text))
      BY <3>1, <3>4
    <3>6. header' = header /\ batch' = batch /\ pending' = Kept(n) /\ captured' = captured + n
      BY <3>2
    <3>8. ~gap' => e = c + Len(batch.text)
      BY <3>2, <3>5
    <3>9. Follows(pending, e)' /\ Follows(batch.text, c)'
      BY <3>1, <3>4, <3>6 DEF Follows
    <3>10. e + Len(Kept(n)) <= captured + n
      BY <3>1, <3>3
    <3>11. PipelineInv(b, c, e)'
      BY <3>1, <3>4, <3>5, <3>6, <3>8, <3>9, <3>10 DEF PipelineInv
    <3> QED
      BY <3>11
  <2> QED
    BY <2>1, <2>2
<1>8. HeaderInv(b)' /\ CursorInv(b)' /\ SnapshotInv(b)'
  BY <1>6 DEF HeaderInv, CursorInv, SnapshotInv, Place, Push, store, reader, Follows
<1> QED
  BY <1>4, <1>5, <1>7, <1>8 DEF Inv, Aligned

\* A flush moves the pending text, with its origin, into the batch.
LEMMA TakeBatchKeeps ==
  ASSUME Inv, ~Writing, Flushable, TakeBatch, task' \in {"write", "last"},
         {permit', stop', backoff', accepting'} \subseteq BOOLEAN, accepting' = accepting,
         UNCHANGED <<captured, store, prompted, reader, faults>>
  PROVE  Inv'
<1>1. TypeOK /\ batch = NoBatch
  BY DEF Inv, TaskInv
<1> USE TypeFacts, <1>1
<1>2. batch' = [text |-> pending, reset |-> gap] /\ pending' = <<>> /\ ~gap' /\ gap' = FALSE
      /\ notified' = FALSE
  BY DEF TakeBatch
<1>3. TypeOK'
  <2>1. batch' \in Batch
    BY <1>2 DEF Batch
  <2>2. pending' \in Text /\ Len(pending)' <= PendingBytes
    BY <1>2, EmptyFollows, ProgressAssumption
  <2> QED
    BY <1>2, <2>1, <2>2 DEF TypeOK, store, reader
<1>4. TaskInv'
  BY DEF TaskInv, Writing
<1>5. PICK b \in Nat, c \in Nat, d \in Nat :
        HeaderInv(b) /\ PipelineInv(b, c, d) /\ CursorInv(b) /\ SnapshotInv(b)
  BY DEF Inv, Aligned
<1>6. PICK e \in Nat : e = d + Len(pending)
  OBVIOUS
<1>7. PipelineInv(b, d, e)'
  <2>1. c = b + header.end /\ Len(batch.text) = 0
    BY <1>5, EmptyFollows DEF PipelineInv, NoBatch
  <2>2. b + header.end <= d /\ (~gap => d = b + header.end)
    BY <1>5, <2>1 DEF PipelineInv
  <2>3. Follows(pending, d) /\ e <= captured /\ (accepting => captured = e)
    BY <1>5, <1>6 DEF PipelineInv
  <2>4. header' = header /\ captured' = captured /\ accepting' = accepting
    BY DEF store
  <2>5. batch'.text = pending /\ batch'.reset = gap /\ Len(pending') = 0
        /\ Follows(pending', e)
    BY <1>2, <1>6, EmptyFollows
  <2>6. Follows(batch.text, d)' /\ Follows(pending, e)'
    BY <2>3, <2>5 DEF Follows
  <2>7. batch'.reset \/ d = b + header'.end
    BY <2>2, <2>4, <2>5
  <2> QED
    BY <1>2, <1>6, <2>2, <2>3, <2>4, <2>5, <2>6, <2>7 DEF PipelineInv
<1>8. HeaderInv(b)' /\ CursorInv(b)' /\ SnapshotInv(b)'
  BY <1>5 DEF HeaderInv, CursorInv, SnapshotInv, Place, store, reader, Follows
<1> QED
  BY <1>3, <1>4, <1>6, <1>7, <1>8 DEF Inv, Aligned

\* A step that changes neither the texts nor the reader.
LEMMA NothingMoved ==
  ASSUME Inv, TypeOK',
         UNCHANGED <<captured, pending, gap, batch, header, task, cursor, snapshot, at, broken>>,
         accepting' => accepting
  PROVE  Inv'
<1>1. TaskInv'
  BY DEF Inv, TaskInv, Writing
<1>2. PICK b \in Nat, c \in Nat, d \in Nat :
        HeaderInv(b) /\ PipelineInv(b, c, d) /\ CursorInv(b) /\ SnapshotInv(b)
  BY DEF Inv, Aligned
<1>3. HeaderInv(b)' /\ PipelineInv(b, c, d)' /\ CursorInv(b)' /\ SnapshotInv(b)'
  BY <1>2 DEF HeaderInv, PipelineInv, CursorInv, SnapshotInv, Place, Follows
<1> QED
  BY <1>1, <1>3 DEF Inv, Aligned

\* The flushing task, up to its writes, and the stop.
LEMMA FlushKeeps ==
  ASSUME Inv, Tick \/ Wake \/ FinalFlush \/ EndBackoff \/ Stop
  PROVE  Inv'
<1>1. TypeOK
  BY DEF Inv
<1>2. {permit, stop, backoff, accepting} \subseteq BOOLEAN
  BY <1>1 DEF TypeOK
<1>3. CASE Tick
  BY <1>2, <1>3, TakeBatchKeeps DEF Tick, Waiting, Writing, Flush
<1>4. CASE Wake
  <2>1. CASE Len(pending) >= SizeFlushBytes /\ ~backoff
    BY <1>2, <1>4, <2>1, TakeBatchKeeps DEF Wake, Waiting, Writing, Flush
  <2>2. CASE ~(Len(pending) >= SizeFlushBytes /\ ~backoff)
    <3>1. TypeOK'
      BY <1>1, <1>4, <2>2 DEF TypeOK, Wake, store, reader
    <3> QED
      BY <1>4, <2>2, <3>1, NothingMoved DEF Wake, store, reader
  <2> QED
    BY <2>1, <2>2
<1>5. CASE FinalFlush
  <2>1. CASE Flush("last")
    BY <1>2, <1>5, <2>1, TakeBatchKeeps DEF FinalFlush, Writing, Flush
  <2>2. CASE task' = "done" /\ UNCHANGED <<batch, pending, gap, notified>>
    <3>1. TypeOK'
      BY <1>1, <1>5, <2>2 DEF TypeOK, FinalFlush, store, reader
    <3>2. TaskInv'
      BY <1>5, <2>2 DEF Inv, TaskInv, Writing, FinalFlush
    <3>3. Aligned'
      <4>1. PICK b \in Nat, c \in Nat, d \in Nat :
              HeaderInv(b) /\ PipelineInv(b, c, d) /\ CursorInv(b) /\ SnapshotInv(b)
        BY DEF Inv, Aligned
      <4>2. HeaderInv(b)' /\ PipelineInv(b, c, d)' /\ CursorInv(b)' /\ SnapshotInv(b)'
        BY <1>5, <2>2, <4>1 DEF FinalFlush, store, reader,
             HeaderInv, PipelineInv, CursorInv, SnapshotInv, Place, Follows
      <4> QED
        BY <4>2 DEF Aligned
    <3> QED
      BY <3>1, <3>2, <3>3 DEF Inv
  <2> QED
    BY <1>5, <2>1, <2>2 DEF FinalFlush
<1>6. CASE EndBackoff
  <2>1. TypeOK'
    BY <1>1, <1>6 DEF TypeOK, EndBackoff, buffer, store, reader
  <2> QED
    BY <1>6, <2>1, NothingMoved DEF EndBackoff, buffer, store, reader
<1>7. CASE Stop
  <2>1. TypeOK'
    BY <1>1, <1>7 DEF TypeOK, Stop, store, reader
  <2> QED
    BY <1>7, <2>1, NothingMoved DEF Stop, store, reader
<1> QED
  BY <1>3, <1>4, <1>5, <1>6, <1>7
-----------------------------------------------------------------------------
(***************************************************************************)
(* Writes and what else happens in the store                               *)
(***************************************************************************)
\* Places of the reader in the text, when the header becomes h and the unit
\* before its segment b2.
Survives(b1, h, b2) ==
  \A segment, p, o, n \in Nat :
    Place(b1, segment, p, o, n) =>
      /\ segment <= h.segment
      /\ segment = h.segment => o = b2 + p /\ p + n <= h.end
      /\ segment < h.segment => o + n <= b2

\* Text is only added behind the reader's places, or removed before them.
LEMMA PlacesSurvive ==
  ASSUME TypeOK, NEW h, GoodHeader(h), NEW b1 \in Nat, NEW b2 \in Nat,
         \/ h.segment = header.segment /\ h.end >= header.end /\ b2 = b1
         \/ h.segment > header.segment /\ b2 >= b1 + header.end
  PROVE  Survives(b1, h, b2)
<1>1. h.segment \in Nat /\ h.end \in Nat
  BY DEF GoodHeader, Header
<1>2. header.segment \in Nat /\ header.end \in Nat
  BY TypeFacts
<1>3. ASSUME NEW segment \in Nat, NEW p \in Nat, NEW o \in Nat, NEW n \in Nat,
             Place(b1, segment, p, o, n)
      PROVE  /\ segment <= h.segment
             /\ segment = h.segment => o = b2 + p /\ p + n <= h.end
             /\ segment < h.segment => o + n <= b2
  <2>1. CASE h.segment = header.segment /\ h.end >= header.end /\ b2 = b1
    BY <1>1, <1>2, <1>3, <2>1 DEF Place
  <2>2. CASE h.segment > header.segment /\ b2 >= b1 + header.end
    <3>1. CASE segment = header.segment
      BY <1>1, <1>2, <1>3, <2>2, <3>1 DEF Place
    <3>2. CASE segment < header.segment
      BY <1>1, <1>2, <1>3, <2>2, <3>2 DEF Place
    <3> QED
      BY <1>2, <1>3, <3>1, <3>2 DEF Place
  <2> QED
    BY <2>1, <2>2
<1> QED
  BY <1>3 DEF Survives

\* If every place survives and the header is still there, the reader's
\* invariants do.
LEMMA ReaderSurvives ==
  ASSUME TypeOK, NEW b1 \in Nat, NEW b2 \in Nat, CursorInv(b1), SnapshotInv(b1),
         Survives(b1, header', b2), header.present => header'.present,
         UNCHANGED reader
  PROVE  CursorInv(b2)' /\ SnapshotInv(b2)'
<1> USE TypeFacts DEF reader
<1>1. ASSUME cursor.held
      PROVE  \E o \in Nat : /\ Place(b2, cursor.segment, cursor.position, o, 0)'
                            /\ at' <= o
                            /\ ~broken' => at' = o
  <2>1. PICK o \in Nat : /\ Place(b1, cursor.segment, cursor.position, o, 0)
                         /\ at <= o
                         /\ ~broken => at = o
    BY <1>1 DEF CursorInv
  <2>2. LET segment == cursor.segment
            p == cursor.position
        IN  /\ segment <= header'.segment
            /\ segment = header'.segment => o = b2 + p /\ p + 0 <= header'.end
            /\ segment < header'.segment => o + 0 <= b2
    <3>1. cursor.segment \in Nat /\ cursor.position \in Nat /\ 0 \in Nat
      OBVIOUS
    <3> QED
      BY <2>1, <3>1 DEF Survives
  <2>3. Place(b2, cursor.segment, cursor.position, o, 0)'
    BY <2>2 DEF Place
  <2> QED
    BY <2>1, <2>3
<1>2. CursorInv(b2)'
  BY <1>1 DEF CursorInv
<1>3. ASSUME snapshot.kind \in {"behind", "page"}
      PROVE  \E o \in Nat :
               /\ Place(b2, snapshot.segment, snapshot.position, o, Len(snapshot.text))'
               /\ Follows(snapshot.text, o)'
               /\ at' <= o
               /\ snapshot'.kind = "page" /\ ~broken' => at' = o
  <2>1. PICK o \in Nat :
          /\ Place(b1, snapshot.segment, snapshot.position, o, Len(snapshot.text))
          /\ Follows(snapshot.text, o)
          /\ at <= o
          /\ snapshot.kind = "page" /\ ~broken => at = o
    BY <1>3 DEF SnapshotInv
  <2>2. LET segment == snapshot.segment
            p == snapshot.position
            n == Len(snapshot.text)
        IN  /\ segment <= header'.segment
            /\ segment = header'.segment => o = b2 + p /\ p + n <= header'.end
            /\ segment < header'.segment => o + n <= b2
    <3>1. snapshot.segment \in Nat /\ snapshot.position \in Nat /\ Len(snapshot.text) \in Nat
      OBVIOUS
    <3> QED
      BY <2>1, <3>1 DEF Survives
  <2>3. Place(b2, snapshot.segment, snapshot.position, o, Len(snapshot.text))'
    BY <2>2 DEF Place
  <2> QED
    BY <2>1, <2>3 DEF Follows
<1>4. SnapshotInv(b2)'
  BY <1>3 DEF SnapshotInv
<1> QED
  BY <1>2, <1>4

\* The batch is written: its origin becomes that of the segment, or continues it.
LEMMA CommitAligned ==
  ASSUME Inv, Commit, NEW b \in Nat, NEW c \in Nat, NEW d \in Nat,
         HeaderInv(b), PipelineInv(b, c, d), CursorInv(b), SnapshotInv(b),
         UNCHANGED reader
  PROVE  /\ header' \in Header /\ header'.end = header'.head + Len(header'.window)
         /\ Len(header'.window) <= RunBytes
         /\ \E b2 \in Nat : /\ HeaderInv(b2)' /\ CursorInv(b2)' /\ SnapshotInv(b2)'
                            /\ b2 + header'.end = c + Len(batch.text)
<1>1. TypeOK
  BY DEF Inv
<1>2. ~header.present => header.segment = 0
  BY DEF HeaderInv
<1>3. LET w == header' IN
      /\ GoodHeader(w) /\ Len(w.window) <= RunBytes
      /\ w.present
      /\ ~batch.reset => w.segment = header.segment /\ w.end = header.end + Len(batch.text)
      /\ batch.reset => w.segment > header.segment /\ w.end = Len(batch.text)
      /\ \A o \in Nat :
           IF batch.reset THEN Follows(batch.text, o) => Follows(w.window, o + w.head)
           ELSE Follows(header.window, o + header.head) /\ Follows(batch.text, o + header.end)
                  => Follows(w.window, o + w.head)
  <2>1. GoodHeader(header) /\ batch.text \in Text /\ batch.reset \in BOOLEAN
    BY <1>1, TypeFacts
  <2>2. header' = Written(header, batch.text, batch.reset)
    BY DEF Commit
  <2> QED
    BY ONLY <1>2, <2>1, <2>2, WrittenHeader
<1>4. b + header.end <= c /\ (~batch.reset => c = b + header.end) /\ Follows(batch.text, c)
  BY DEF PipelineInv
<1>5. header'.segment \in Nat /\ header'.end \in Nat
      /\ Len(batch.text) \in Nat /\ header.end \in Nat /\ header.segment \in Nat
  BY <1>1, <1>3, TypeFacts DEF GoodHeader, Header
<1>6. CASE batch.reset
  <2>1. Follows(header'.window, c + header'.head) /\ header'.segment # 0
    <3>1. header'.segment > header.segment
      BY <1>3, <1>6
    <3>2. Follows(header'.window, c + header'.head)
      BY <1>3, <1>4, <1>6
    <3> QED
      BY <1>5, <3>1, <3>2
  <2>2. HeaderInv(c)'
    BY <1>3, <2>1 DEF HeaderInv, Follows
  <2>3. Survives(b, header', c)
    BY <1>1, <1>3, <1>4, <1>6, PlacesSurvive
  <2>4. CursorInv(c)' /\ SnapshotInv(c)'
    BY <1>1, <1>3, <2>3, ReaderSurvives
  <2>5. c + header'.end = c + Len(batch.text)
    BY <1>3, <1>6
  <2> QED
    BY <1>3, <2>2, <2>4, <2>5 DEF GoodHeader
<1>7. CASE ~batch.reset
  <2>1. Follows(header.window, b + header.head) /\ (header.segment = 0 => b = 0)
    BY DEF HeaderInv
  <2>2. Follows(header'.window, b + header'.head) /\ header'.segment = header.segment
    BY <1>3, <1>4, <1>7, <2>1
  <2>3. HeaderInv(b)'
    BY <1>3, <2>1, <2>2 DEF HeaderInv, Follows
  <2>4. header'.end >= header.end
    BY <1>3, <1>5, <1>7
  <2>5. Survives(b, header', b)
    BY <1>1, <1>3, <2>2, <2>4, PlacesSurvive
  <2>6. CursorInv(b)' /\ SnapshotInv(b)'
    BY <1>1, <1>3, <2>5, ReaderSurvives
  <2>7. b + header'.end = c + Len(batch.text)
    <3>1. header'.end = header.end + Len(batch.text) /\ c = b + header.end
      BY <1>3, <1>4, <1>7
    <3> QED
      BY <1>5, <3>1
  <2> QED
    BY <1>3, <2>3, <2>6, <2>7 DEF GoodHeader
<1> QED
  BY <1>6, <1>7

\* Once the batch is gone the pending text continues the store's, or a loss is
\* declared, or the buffer is closed and empty.
LEMMA WriteKeeps ==
  ASSUME Inv, WriteCommits \/ WriteFails \/ WriteHidden
  PROVE  Inv'
<1>1. TypeOK
  BY DEF Inv
<1>2. PICK b \in Nat, c \in Nat, d \in Nat :
        HeaderInv(b) /\ PipelineInv(b, c, d) /\ CursorInv(b) /\ SnapshotInv(b)
  BY DEF Inv, Aligned
<1>3. /\ batch' = NoBatch /\ task' \in {"done", "wait"} /\ UNCHANGED <<reader, captured>>
      /\ batch'.reset = FALSE /\ batch'.text = <<>> /\ batch' \in Batch
  <2>1. Return /\ UNCHANGED <<reader, captured>>
    BY DEF WriteCommits, WriteFails, WriteHidden
  <2> QED
    BY <2>1, EmptyFollows DEF Return, NoBatch, Batch
<1>4. TaskInv'
  BY <1>3 DEF TaskInv, Writing
<1> USE TypeFacts, <1>1
<1>5. /\ b + header.end <= c /\ c + Len(batch.text) <= d /\ (~gap => d = c + Len(batch.text))
      /\ Follows(pending, d) /\ d + Len(pending) <= captured
      /\ accepting => captured = d + Len(pending)
  BY <1>2 DEF PipelineInv
<1>6. /\ header' \in Header /\ header'.end = header'.head + Len(header'.window)
      /\ Len(header'.window) <= RunBytes
      /\ \E b2 \in Nat : /\ HeaderInv(b2)' /\ CursorInv(b2)' /\ SnapshotInv(b2)'
                         /\ b2 + header'.end <= c + Len(batch.text)
                         /\ Commit => b2 + header'.end = c + Len(batch.text)
  <2>1. CASE Commit
    <3>1. /\ header' \in Header /\ header'.end = header'.head + Len(header'.window)
          /\ Len(header'.window) <= RunBytes
          /\ \E b2 \in Nat : /\ HeaderInv(b2)' /\ CursorInv(b2)' /\ SnapshotInv(b2)'
                             /\ b2 + header'.end = c + Len(batch.text)
      BY <1>2, <1>3, <2>1, CommitAligned
    <3>2. PICK b2 \in Nat : /\ HeaderInv(b2)' /\ CursorInv(b2)' /\ SnapshotInv(b2)'
                            /\ b2 + header'.end = c + Len(batch.text)
      BY <3>1
    <3>3. b2 + header'.end <= c + Len(batch.text)
      BY <3>2
    <3> QED
      BY <3>1, <3>2, <3>3
  <2>2. CASE UNCHANGED header /\ ~Commit
    <3>1. HeaderInv(b)' /\ CursorInv(b)' /\ SnapshotInv(b)'
      BY <1>2, <1>3, <2>2 DEF HeaderInv, CursorInv, SnapshotInv, Place, reader, Follows
    <3>2. b + header'.end <= c + Len(batch.text)
      BY <1>5, <2>2
    <3> QED
      BY <2>2, <3>1, <3>2 DEF GoodHeader
  <2> QED
    BY <2>1, <2>2 DEF WriteCommits, WriteFails, WriteHidden, store
<1>7. PICK b2 \in Nat : /\ HeaderInv(b2)' /\ CursorInv(b2)' /\ SnapshotInv(b2)'
                        /\ b2 + header'.end <= c + Len(batch.text)
                        /\ Commit => b2 + header'.end = c + Len(batch.text)
  BY <1>6
<1>8. header'.end \in Nat /\ b2 + header'.end \in Nat
  <2>1. header'.end \in Nat
    BY <1>6 DEF Header
  <2> QED
    BY ONLY <2>1, b2 \in Nat
<1>9. PICK c2 \in Nat : c2 = b2 + header'.end
  BY <1>8
<1>10. TypeOK'
  <2>1. pending' \in Text /\ Len(pending') <= PendingBytes
    <3>1. pending' \in {pending, <<>>}
      BY DEF WriteCommits, WriteFails, WriteHidden, buffer
    <3>2. PendingBytes \in Nat
      BY ProgressAssumption
    <3> QED
      BY <3>1, <3>2, EmptyFollows
  <2>2. {gap', notified', accepting', permit', stop', backoff', hidden', prompted', broken'}
          \subseteq BOOLEAN
    BY <1>3 DEF WriteCommits, WriteFails, WriteHidden, buffer, store, reader, Commit, TypeOK
  <2>3. faults' \in Nat /\ generation' \in Nat /\ captured' \in Nat
    <3>1. faults \in Nat
      OBVIOUS
    <3> QED
      BY <1>3, <3>1 DEF WriteCommits, WriteFails, WriteHidden, store, Commit, TypeOK
  <2> QED
    BY <1>3, <1>6, <2>1, <2>2, <2>3 DEF TypeOK, reader
<1>11. Follows(batch.text, c2)'
  BY <1>3, EmptyFollows DEF Follows
<1>12. \E d2 \in Nat : PipelineInv(b2, c2, d2)'
  <2>1. CASE WriteCommits
    <3>1. UNCHANGED <<pending, gap, accepting>> /\ c2 = c + Len(batch.text)
      BY <1>7, <1>9, <2>1 DEF WriteCommits, buffer
    <3>2. Follows(pending, d)'
      BY <1>5, <3>1 DEF Follows
    <3>3. /\ c2 + Len(batch'.text) <= d /\ b2 + header'.end <= c2
          /\ ~gap' => d = c2 + Len(batch'.text)
      <4>1. c2 + Len(batch'.text) = c2
        BY <1>3, EmptyFollows
      <4>2. c2 = c + Len(batch.text)
        BY <3>1
      <4>3. b2 + header'.end <= c2
        BY ONLY <1>8, <1>9
      <4> QED
        BY ONLY <1>5, <3>1, <4>1, <4>2, <4>3
    <3>4. PipelineInv(b2, c2, d)'
      BY ONLY <1>3, <1>5, <1>9, <1>11, <3>1, <3>2, <3>3 DEF PipelineInv
    <3> QED
      BY <3>4
  <2>2. CASE WriteFails
    <3>1. UNCHANGED <<pending, accepting>> /\ gap' = TRUE
      BY <2>2 DEF WriteFails
    <3>2. Follows(pending, d)' /\ c2 + 0 <= d
      BY <1>5, <1>7, <1>9, <3>1 DEF Follows
    <3>3. c2 + Len(batch'.text) <= d /\ b2 + header'.end <= c2
      BY <1>3, <1>8, <1>9, <3>2, EmptyFollows
    <3>4. PipelineInv(b2, c2, d)'
      BY ONLY <1>3, <1>5, <1>9, <1>11, <3>1, <3>2, <3>3 DEF PipelineInv
    <3> QED
      BY <3>4
  <2>3. CASE WriteHidden
    <3>1. pending' = <<>> /\ gap' = FALSE /\ accepting' = FALSE
      BY <2>3 DEF WriteHidden
    <3>2. Follows(pending, c2)' /\ c2 + 0 <= captured
      BY <1>5, <1>7, <1>9, <3>1, EmptyFollows DEF Follows
    <3>3. c2 + Len(batch'.text) = c2 /\ b2 + header'.end <= c2 /\ c2 + Len(pending') = c2
      <4>1. Len(batch'.text) = 0 /\ Len(pending') = 0
        BY ONLY <1>3, <3>1, EmptyFollows
      <4> QED
        BY ONLY <1>8, <1>9, <4>1
    <3>4. c2 + Len(pending') <= captured' /\ c2 + Len(batch'.text) <= c2
      BY <1>3, <3>2, <3>3
    <3>5. PipelineInv(b2, c2, c2)'
      BY ONLY <1>3, <1>9, <1>11, <3>1, <3>2, <3>3, <3>4 DEF PipelineInv
    <3> QED
      BY <3>5
  <2> QED
    BY <2>1, <2>2, <2>3
<1> QED
  BY <1>4, <1>7, <1>10, <1>12 DEF Inv, Aligned

\* Eviction takes text from before the reader's places or moves its head past
\* them; the places themselves stay where they are.
LEMMA EvictKeeps ==
  ASSUME Inv, NEW n \in 1..RunBytes, Evict(n)
  PROVE  Inv'
<1>1. TypeOK
  BY DEF Inv
<1> USE TypeFacts, <1>1
<1>2. PICK b \in Nat, c \in Nat, d \in Nat :
        HeaderInv(b) /\ PipelineInv(b, c, d) /\ CursorInv(b) /\ SnapshotInv(b)
  BY DEF Inv, Aligned
<1>3. n \in 0..Len(header.window)
  BY DEF Evict
<1>4. /\ GoodHeader(header')
      /\ header'.present = header.present
      /\ header'.segment = header.segment
      /\ header'.end = header.end
      /\ header'.head = header.head + n
      /\ Len(header'.window) = Len(header.window) - n
      /\ \A o \in Nat : Follows(header.window, o + header.head)
            => Follows(header'.window, o + header'.head)
  BY <1>3, TrimmedHeader DEF Evict
<1>5. TypeOK'
  <2>1. /\ header' \in Header /\ header'.end = header'.head + Len(header'.window)
        /\ Len(header'.window) <= RunBytes
    <3>1. Len(header.window) - n <= RunBytes
      BY <1>3, RunBytesAssumption
    <3> QED
      BY <1>4, <3>1 DEF GoodHeader
  <2> QED
    BY <2>1 DEF TypeOK, Evict, buffer, writer, reader
<1>6. TaskInv'
  BY DEF Inv, TaskInv, Writing, Evict, writer
<1>7. HeaderInv(b)'
  <2>1. header.present
    <3>1. n \in 1..Len(header.window)
      BY DEF Evict
    <3>2. header.end = header.head + Len(header.window) /\ header.head \in Nat
          /\ Len(header.window) \in Nat
      OBVIOUS
    <3>3. ~header.present => header.end = 0
      BY <1>2 DEF HeaderInv
    <3> QED
      BY ONLY <3>1, <3>2, <3>3
  <2> QED
    BY <1>2, <1>4, <2>1 DEF HeaderInv, Follows
<1>8. PipelineInv(b, c, d)'
  BY <1>2, <1>4 DEF PipelineInv, Evict, buffer, writer, Follows
<1>9. CursorInv(b)' /\ SnapshotInv(b)'
  <2>1. Survives(b, header', b)
    BY <1>4, PlacesSurvive
  <2> QED
    BY <1>2, <1>4, <2>1, ReaderSurvives DEF Evict
<1> QED
  BY <1>5, <1>6, <1>7, <1>8, <1>9 DEF Inv, Aligned

\* The prompt, deletions and the retention deadline touch no text.
LEMMA RestKeeps ==
  ASSUME Inv, SendPrompt \/ (\E hides \in BOOLEAN : Delete(hides)) \/ Expire
  PROVE  Inv'
<1>1. TypeOK
  BY DEF Inv
<1> USE TypeFacts, <1>1
<1>2. CASE SendPrompt
  <2>1. TypeOK'
    BY <1>1, <1>2 DEF TypeOK, SendPrompt, buffer, writer, store, reader
  <2> QED
    BY <1>2, <2>1, NothingMoved DEF SendPrompt, buffer, writer, store, reader
<1>3. CASE Expire
  <2>1. TypeOK'
    BY <1>1, <1>3 DEF TypeOK, Expire, buffer, writer, reader
  <2> QED
    BY <1>3, <2>1, NothingMoved DEF Expire, buffer, writer, reader
<1>4. ASSUME NEW hides \in BOOLEAN, Delete(hides)
      PROVE  Inv'
  <2>1. generation' \in Nat /\ hidden' \in BOOLEAN
    <3>1. generation \in Nat
      OBVIOUS
    <3> QED
      BY <1>4, <3>1 DEF Delete
  <2>2. TypeOK'
    BY <1>1, <1>4, <2>1 DEF TypeOK, Delete, buffer, writer, reader
  <2> QED
    BY <1>4, <2>2, NothingMoved DEF Delete, buffer, writer, reader
<1> QED
  BY <1>2, <1>3, <1>4
-----------------------------------------------------------------------------
(***************************************************************************)
(* The reader                                                              *)
(***************************************************************************)
\* A reader's step changes the reader alone.
LEMMA ReaderFrame ==
  ASSUME Inv, UNCHANGED readerOnly, NEW b \in Nat, NEW c \in Nat, NEW d \in Nat,
         HeaderInv(b), PipelineInv(b, c, d),
         cursor' \in Cursor, snapshot' \in Snapshot, at' \in Nat, broken' \in BOOLEAN,
         page' \in Text, ~header.present => at' = 0,
         CursorInv(b)', SnapshotInv(b)'
  PROVE  Inv'
<1>1. TypeOK'
  BY DEF Inv, TypeOK, readerOnly, buffer, writer, store
<1>2. TaskInv'
  BY DEF Inv, TaskInv, Writing, readerOnly, writer
<1>3. HeaderInv(b)'
  BY DEF HeaderInv, readerOnly, store, Follows
<1>4. PipelineInv(b, c, d)'
  BY DEF PipelineInv, readerOnly, buffer, writer, store, Follows
<1> QED
  BY <1>1, <1>2, <1>3, <1>4 DEF Inv, Aligned

LEMMA IdleFacts == Idle \in Snapshot /\ NoCursor \in Cursor /\ ~NoCursor.held
                   /\ Idle.kind = "idle" /\ Idle.text = <<>>
  BY EmptyFollows DEF Idle, Snapshot, NoCursor, Cursor

\* A reader who starts again has no place in the text.
LEMMA RefuseKeeps ==
  ASSUME Inv, Refuse, UNCHANGED readerOnly
  PROVE  Inv'
<1>1. PICK b \in Nat, c \in Nat, d \in Nat :
        HeaderInv(b) /\ PipelineInv(b, c, d) /\ CursorInv(b) /\ SnapshotInv(b)
  BY DEF Inv, Aligned
<1>2. CursorInv(b)' /\ SnapshotInv(b)'
  BY IdleFacts DEF Refuse, CursorInv, SnapshotInv
<1> QED
  BY <1>1, <1>2, ReaderFrame, IdleFacts, EmptyFollows DEF Refuse

LEMMA ReadRunKeeps ==
  ASSUME Inv, ReadRun
  PROVE  Inv'
<1>1. PICK b \in Nat, c \in Nat, d \in Nat :
        HeaderInv(b) /\ PipelineInv(b, c, d) /\ CursorInv(b) /\ SnapshotInv(b)
  BY DEF Inv, Aligned
<1>2. snapshot' \in Snapshot /\ snapshot'.kind = "asked" /\ snapshot'.text = <<>>
  BY EmptyFollows DEF Inv, TypeOK, ReadRun, Idle, Snapshot
<1>3. UNCHANGED <<cursor, at, broken, page, header>> /\ UNCHANGED readerOnly
  BY DEF ReadRun, readerOnly, store
<1>4. CursorInv(b)' /\ SnapshotInv(b)'
  BY <1>1, <1>2, <1>3 DEF CursorInv, SnapshotInv, Place
<1>5. at \in Nat /\ broken \in BOOLEAN /\ page \in Text /\ cursor \in Cursor
  BY DEF Inv, TypeOK
<1>6. ~header.present => at = 0
  BY <1>1 DEF HeaderInv
<1> QED
  BY <1>1, <1>2, <1>3, <1>4, <1>5, <1>6, ReaderFrame

\* The window from the position p on.
LEMMA PageText ==
  ASSUME TypeOK, NEW b \in Nat, Follows(header.window, b + header.head),
         NEW p \in header.head..header.end, NEW n \in Nat
  PROVE  LET text == PageFrom(header, p, n) IN
         text \in Text /\ Follows(text, b + p) /\ p + Len(text) <= header.end
<1>1. /\ header.head \in Nat /\ header.end \in Nat /\ header.window \in Text
      /\ Len(header.window) \in Nat /\ header.end = header.head + Len(header.window)
  BY TypeFacts
<1> DEFINE lo == p - header.head + 1
           hi == IF p + n > header.end THEN Len(header.window) ELSE p - header.head + n
           text == PageFrom(header, p, n)
<1>2. /\ lo \in Int /\ hi \in Int /\ lo >= 1 /\ hi <= Len(header.window)
      /\ hi - lo + 1 >= 0 /\ p + (hi - lo + 1) <= header.end
      /\ lo - 1 = p - header.head /\ p \in Nat
  <2>1. p \in Nat /\ header.head <= p /\ p <= header.end /\ n \in Nat
    BY <1>1
  <2>2. CASE p + n > header.end
    BY ONLY <1>1, <2>1, <2>2 DEF lo, hi
  <2>3. CASE ~(p + n > header.end)
    <3>1. hi = p - header.head + n /\ lo = p - header.head + 1
      BY <2>3
    <3> HIDE DEF lo, hi
    <3>2. PICK k \in Nat : p = header.head + k
      <4>1. p - header.head \in Nat
        BY ONLY <1>1, <2>1
      <4> QED
        BY ONLY <1>1, <2>1, <4>1
    <3>3. hi = k + n /\ lo = k + 1 /\ k + n <= Len(header.window)
      <4>1. p - header.head = k
        BY ONLY <1>1, <2>1, <3>2, k \in Nat
      <4>2. header.head + k + n <= header.head + Len(header.window)
        BY ONLY <1>1, <2>1, <2>3, <3>2, k \in Nat
      <4>3. k + n <= Len(header.window)
        BY ONLY <1>1, <2>1, <4>2, k \in Nat
      <4> QED
        BY <3>1, <4>1, <4>3
    <3> QED
      BY <1>1, <2>1, <2>3, <3>2, <3>3
  <2> QED
    BY <2>2, <2>3
<1>3. text = SubSeq(header.window, lo, hi)
  BY DEF PageFrom
<1> HIDE DEF lo, hi, text
<1>4. \A i \in lo..hi : header.window[i] \in Nat \ {0}
  BY <1>1, <1>2, ElementOfSeq DEF Text
<1>5. /\ text \in Text
      /\ Len(text) = IF lo <= hi THEN hi - lo + 1 ELSE 0
      /\ \A i \in 1..(hi - lo + 1) : text[i] = header.window[lo + i - 1]
  BY <1>2, <1>3, <1>4, SubSeqProperties DEF Text
<1>6. Len(text) = hi - lo + 1
  BY <1>2, <1>5
<1>7. ASSUME NEW i \in 1..Len(text)
      PROVE  text[i] = b + p + i
  <2>1. lo + i - 1 \in 1..Len(header.window)
    BY <1>1, <1>2, <1>6
  <2>2. header.window[lo + i - 1] = b + header.head + (lo + i - 1)
    BY <2>1 DEF Follows
  <2>3. b + header.head + (lo + i - 1) = b + p + i
    BY <1>1, <1>2, <1>6
  <2> QED
    BY <1>5, <1>6, <2>2, <2>3
<1>8. p + Len(text) <= header.end
  BY <1>2, <1>6
<1> QED
  BY <1>5, <1>7, <1>8 DEF Follows, text

\* A snapshot is a place of the reader: where its cursor is, or where the text
\* now begins.
LEMMA ReadSnapshotKeeps ==
  ASSUME Inv, NEW n \in PageSizes, ReadSnapshot(n)
  PROVE  Inv'
<1>1. PICK b \in Nat, c \in Nat, d \in Nat :
        HeaderInv(b) /\ PipelineInv(b, c, d) /\ CursorInv(b) /\ SnapshotInv(b)
  BY DEF Inv, Aligned
<1>2. TypeOK /\ n \in Nat
  BY ProgressAssumption DEF Inv
<1>3. /\ header.head \in Nat /\ header.end \in Nat /\ header.segment \in Nat
      /\ Len(header.window) \in Nat /\ header.end = header.head + Len(header.window)
      /\ generation \in Nat /\ at \in Nat /\ snapshot.sent \in BOOLEAN
      /\ cursor.segment \in Nat /\ cursor.position \in Nat
  BY <1>2, TypeFacts
<1>4. UNCHANGED <<cursor, at, broken, page, header>> /\ UNCHANGED readerOnly
  BY DEF ReadSnapshot, readerOnly, store
<1>5. at \in Nat /\ broken \in BOOLEAN /\ page \in Text /\ cursor \in Cursor
  BY <1>2 DEF TypeOK
<1>6. ~header.present => at = 0
  BY <1>1 DEF HeaderInv
<1> DEFINE behind == cursor.held /\ CursorIsBehind(header, cursor.segment, cursor.position)
           from   == IF cursor.held THEN cursor.position ELSE header.head
           text   == PageFrom(header, from, n)
<1>7. CASE ~header.present
  <2>1. Answer("missing", 0, <<>>)
    <3>1. ~behind
      BY <1>7 DEF CursorIsBehind
    <3> QED
      BY <1>7, <3>1, Zenon DEF ReadSnapshot
  <2>2. snapshot' \in Snapshot /\ snapshot'.kind = "missing" /\ snapshot'.text = <<>>
    BY <1>3, <2>1, EmptyFollows DEF Answer, Snapshot
  <2>3. CursorInv(b)' /\ SnapshotInv(b)'
    BY <1>1, <1>4, <1>6, <1>7, <2>2 DEF CursorInv, SnapshotInv, Place
  <2> QED
    BY <1>1, <1>4, <1>5, <1>6, <2>2, <2>3, ReaderFrame
<1>8. CASE header.present /\ behind
  <2>1. Answer("behind", header.head, <<>>)
    BY <1>8, Zenon DEF ReadSnapshot
  <2>2. snapshot' \in Snapshot /\ snapshot'.kind = "behind" /\ snapshot'.text = <<>>
        /\ snapshot'.segment = header.segment /\ snapshot'.position = header.head
    BY <1>3, <2>1, EmptyFollows DEF Answer, Snapshot
  <2>3. at <= b + header.head
    <3>1. PICK o \in Nat : Place(b, cursor.segment, cursor.position, o, 0) /\ at <= o
      BY <1>1, <1>8 DEF CursorInv
    <3>2. cursor.segment < header.segment
          \/ (cursor.segment = header.segment /\ cursor.position < header.head)
      BY <1>8 DEF CursorIsBehind
    <3> QED
      BY <1>3, <3>1, <3>2 DEF Place
  <2>4. PICK o \in Nat : o = b + header.head
    BY <1>3
  <2>5. Place(b, header.segment, header.head, o, 0) /\ Follows(<<>>, o)
    BY <1>3, <2>4, EmptyFollows DEF Place
  <2>6. SnapshotInv(b)'
    BY <1>4, <1>8, <2>2, <2>3, <2>4, <2>5, EmptyFollows DEF SnapshotInv, Place
  <2>7. CursorInv(b)'
    BY <1>1, <1>4 DEF CursorInv, Place
  <2> QED
    BY <1>1, <1>4, <1>5, <1>6, <2>2, <2>6, <2>7, ReaderFrame
<1>9. CASE header.present /\ ~behind
  <2>1. Answer("page", from, text)
    BY <1>9, Zenon DEF ReadSnapshot
  <2>2. cursor.held => ~CursorIsInvalid(header, cursor.segment, cursor.position)
    BY DEF ReadSnapshot
  <2>3. cursor.held => /\ cursor.segment = header.segment
                      /\ cursor.position \in header.head..header.end
    BY <1>3, <1>9, <2>2 DEF CursorIsBehind, CursorIsInvalid
  <2>4. from \in header.head..header.end
    BY <1>3, <2>3
  <2>5. PICK o \in Nat : o = b + from
    BY <1>3, <2>4
  <2>6. at <= o /\ (~broken => at = o)
    <3>1. CASE cursor.held
      <4>1. PICK q \in Nat : /\ Place(b, cursor.segment, cursor.position, q, 0)
                             /\ at <= q /\ (~broken => at = q)
        BY <1>1, <3>1 DEF CursorInv
      <4>2. q = o
        BY <2>3, <2>5, <3>1, <4>1 DEF Place
      <4> QED
        BY <4>1, <4>2
    <3>2. CASE ~cursor.held
      BY <1>1, <1>3, <3>2 DEF CursorInv
    <3> QED
      BY <3>1, <3>2
  <2> HIDE DEF from
  <2>7. text \in Text /\ Follows(text, o) /\ from + Len(text) <= header.end
    BY <1>1, <1>2, <2>4, <2>5, PageText DEF HeaderInv
  <2> HIDE DEF text
  <2>8. snapshot' \in Snapshot /\ snapshot'.kind = "page" /\ snapshot'.text = text
        /\ snapshot'.segment = header.segment /\ snapshot'.position = from
    BY <1>3, <2>1, <2>4, <2>7 DEF Answer, Snapshot
  <2>9. Place(b, header.segment, from, o, Len(text))
    BY <1>3, <2>5, <2>7 DEF Place
  <2>10. SnapshotInv(b)'
    BY <1>4, <1>9, <2>6, <2>7, <2>8, <2>9 DEF SnapshotInv, Place
  <2>11. CursorInv(b)'
    BY <1>1, <1>4 DEF CursorInv, Place
  <2> QED
    BY <1>1, <1>4, <1>5, <1>6, <2>8, <2>10, <2>11, ReaderFrame
<1> QED
  BY <1>7, <1>8, <1>9
\* An answer the reader is given moves its cursor to the end of the answer.
LEMMA AnswerKeeps ==
  ASSUME Inv, ReadMissing \/ ReadBehind \/ ReadPage
  PROVE  Inv'
<1>1. PICK b \in Nat, c \in Nat, d \in Nat :
        HeaderInv(b) /\ PipelineInv(b, c, d) /\ CursorInv(b) /\ SnapshotInv(b)
  BY DEF Inv, Aligned
<1>2. TypeOK
  BY DEF Inv
<1>3. /\ header.segment \in Nat /\ header.end \in Nat /\ generation \in Nat /\ at \in Nat
      /\ snapshot.segment \in Nat /\ snapshot.position \in Nat
      /\ snapshot.text \in Text /\ Len(snapshot.text) \in Nat
  BY <1>2, TypeFacts
<1>4. broken \in BOOLEAN /\ page \in Text /\ cursor \in Cursor
  BY <1>2 DEF TypeOK
<1>5. ~header.present => at = 0
  BY <1>1 DEF HeaderInv
<1>6. header' = header /\ UNCHANGED readerOnly
  BY DEF ReadMissing, ReadBehind, ReadPage, readerOnly, store
<1>7. ASSUME NEW segment \in Nat, NEW position \in Nat, Follow(segment, position)
      PROVE  /\ cursor' \in Cursor /\ snapshot' \in Snapshot
             /\ cursor'.held /\ cursor'.segment = segment /\ cursor'.position = position
             /\ SnapshotInv(b)'
  BY <1>3, <1>7, IdleFacts DEF Follow, Cursor, SnapshotInv
<1>8. CASE ReadMissing
  <2>1. at = 0 /\ at' = at
    BY <1>1, <1>8 DEF ReadMissing, SnapshotInv, Follow
  <2>2. CASE snapshot.sent
    <3>1. snapshot' = Idle /\ UNCHANGED <<cursor, at, broken, page>>
      BY <1>8, <2>2 DEF ReadMissing
    <3>2. CursorInv(b)' /\ SnapshotInv(b)'
      BY <1>1, <1>6, <3>1, IdleFacts DEF CursorInv, SnapshotInv, Place
    <3> QED
      BY <1>1, <1>3, <1>4, <1>5, <1>6, <3>1, <3>2, IdleFacts, ReaderFrame
  <2>3. CASE ~snapshot.sent
    <3>1. Follow(0, 0) /\ broken' = FALSE /\ page' = <<>>
      BY <1>8, <2>3 DEF ReadMissing
    <3>2. Place(b, 0, 0, 0, 0)
      BY <1>1, <1>3 DEF Place, HeaderInv
    <3>3. /\ cursor' \in Cursor /\ snapshot' \in Snapshot
          /\ cursor'.held /\ cursor'.segment = 0 /\ cursor'.position = 0
          /\ SnapshotInv(b)'
      BY <1>7, <3>1
    <3>4. CursorInv(b)'
      BY <1>6, <2>1, <3>2, <3>3 DEF CursorInv, Place
    <3> QED
      BY <1>1, <1>5, <1>6, <2>1, <3>1, <3>3, <3>4, EmptyFollows, ReaderFrame
  <2> QED
    BY <2>2, <2>3
<1>9. CASE ReadBehind
  <2>1. PICK o \in Nat :
          /\ Place(b, snapshot.segment, snapshot.position, o, Len(snapshot.text)) /\ at <= o
    BY <1>1, <1>9 DEF SnapshotInv, ReadBehind
  <2>2. Place(b, snapshot.segment, snapshot.position, o, 0)
    BY <1>3, <2>1 DEF Place
  <2>3. Follow(snapshot.segment, snapshot.position) /\ broken' = TRUE /\ page' = <<>>
        /\ at' = at /\ header.present
    BY <1>1, <1>9 DEF ReadBehind, SnapshotInv
  <2>4. /\ cursor' \in Cursor /\ snapshot' \in Snapshot
        /\ cursor'.held /\ cursor'.segment = snapshot.segment
        /\ cursor'.position = snapshot.position
        /\ SnapshotInv(b)'
    BY <1>3, <1>7, <2>3
  <2>5. CursorInv(b)'
    BY <1>6, <2>1, <2>2, <2>3, <2>4 DEF CursorInv, Place
  <2> QED
    BY <1>1, <1>3, <1>5, <1>6, <2>3, <2>4, <2>5, EmptyFollows, ReaderFrame
<1>10. CASE ReadPage
  <2>1. PICK o \in Nat :
          /\ Place(b, snapshot.segment, snapshot.position, o, Len(snapshot.text))
          /\ Follows(snapshot.text, o)
          /\ at <= o
          /\ ~broken => at = o
    BY <1>1, <1>10 DEF SnapshotInv, ReadPage
  <2>2. PICK position \in Nat, q \in Nat :
          position = snapshot.position + Len(snapshot.text) /\ q = o + Len(snapshot.text)
    BY <1>3
  <2>3. Place(b, snapshot.segment, position, q, 0)
    <3>1. q + 0 = o + Len(snapshot.text)
          /\ position + 0 = snapshot.position + Len(snapshot.text)
      BY <2>2
    <3>2. o = b + snapshot.position => q = b + position
      BY <1>3, <2>2
    <3> QED
      BY <2>1, <3>1, <3>2 DEF Place
  <2>4. Follow(snapshot.segment, position) /\ header.present
    BY <1>1, <1>10, <2>2 DEF ReadPage, SnapshotInv
  <2>5. /\ cursor' \in Cursor /\ snapshot' \in Snapshot
        /\ cursor'.held /\ cursor'.segment = snapshot.segment
        /\ cursor'.position = position
        /\ SnapshotInv(b)'
    BY <1>3, <1>7, <2>4
  <2>6. at' \in Nat /\ at' <= q /\ (~broken' => at' = q)
        /\ broken' \in BOOLEAN /\ page' \in Text
    <3>1. CASE snapshot.text = <<>>
      BY <1>3, <1>4, <1>10, <2>1, <2>2, <3>1, EmptyFollows DEF ReadPage
    <3>2. CASE snapshot.text # <<>>
      <4>1. Len(snapshot.text) \in 1..Len(snapshot.text)
        BY <1>3, <3>2, EmptySeq DEF Text
      <4>2. snapshot.text[Len(snapshot.text)] = q
        BY <2>1, <2>2, <4>1 DEF Follows
      <4>3. at' = q /\ page' = snapshot.text /\ broken' = FALSE
        BY <1>10, <3>2, <4>2 DEF ReadPage
      <4>4. q <= q /\ snapshot.text \in Text
        BY <1>3
      <4> QED
        BY <4>3, <4>4
    <3> QED
      BY <3>1, <3>2
  <2>7. CursorInv(b)'
    BY <1>6, <2>2, <2>3, <2>4, <2>5, <2>6 DEF CursorInv, Place
  <2> QED
    BY <1>1, <1>6, <2>4, <2>5, <2>6, <2>7, ReaderFrame
<1> QED
  BY <1>8, <1>9, <1>10

LEMMA NextInv == Inv /\ [Next]_vars => Inv'
<1> SUFFICES ASSUME Inv, [Next]_vars PROVE Inv'
  OBVIOUS
<1>1. CASE \E n \in Pieces : Push(n)
  BY <1>1, PushKeeps
<1>2. CASE Tick \/ Wake \/ FinalFlush \/ EndBackoff \/ Stop
  BY <1>2, FlushKeeps
<1>3. CASE WriteCommits \/ WriteFails \/ WriteHidden
  BY <1>3, WriteKeeps
<1>4. CASE \E n \in 1..RunBytes : Evict(n)
  BY <1>4, EvictKeeps
<1>5. CASE SendPrompt \/ (\E hides \in BOOLEAN : Delete(hides)) \/ Expire
  BY <1>5, RestKeeps
<1>6. CASE ReadRun
  BY <1>6, ReadRunKeeps
<1>7. CASE ReadRefused \/ ReadWithdrawn
  BY <1>7, RefuseKeeps DEF ReadRefused, ReadWithdrawn
<1>8. CASE \E n \in PageSizes : ReadSnapshot(n)
  BY <1>8, ReadSnapshotKeeps
<1>9. CASE ReadMissing \/ ReadBehind \/ ReadPage
  BY <1>9, AnswerKeeps
<1>10. CASE UNCHANGED vars
  <2>1. TypeOK'
    BY <1>10 DEF Inv, TypeOK, vars, buffer, writer, store, reader
  <2> QED
    BY <1>10, <2>1, NothingMoved DEF vars, buffer, writer, store, reader
<1> QED
  BY <1>1, <1>2, <1>3, <1>4, <1>5, <1>6, <1>7, <1>8, <1>9, <1>10 DEF Next

-----------------------------------------------------------------------------
(***************************************************************************)
(* The properties                                                          *)
(***************************************************************************)
\* The buffer stays within PENDING_BYTES and the text of a run within
\* PROGRESS_RUN_BYTES, and head, window and end of a header always agree.
THEOREM ProgressTypeCorrect == Spec => []TypeOK
<1>1. Inv => TypeOK
  BY DEF Inv
<1> QED
  BY <1>1, InitInv, NextInv, PTL DEF Spec

\* The units of a segment in the store are consecutive, however overflows,
\* failed writes, evictions and batches under way interleave.
THEOREM SegmentHasNoHole == Spec => []SegmentIsContiguous
<1>1. ASSUME Inv PROVE SegmentIsContiguous
  <2>1. PICK b \in Nat : Follows(header.window, b + header.head)
    BY <1>1 DEF Inv, Aligned, HeaderInv
  <2>2. header.head \in Nat /\ Len(header.window) \in Nat
    BY <1>1, TypeFacts DEF Inv
  <2>3. ASSUME NEW i \in 1..(Len(header.window) - 1)
        PROVE  header.window[i + 1] = header.window[i] + 1
    <3>1. i \in 1..Len(header.window) /\ i + 1 \in 1..Len(header.window)
      BY <2>2
    <3>2. header.window[i] = b + header.head + i
          /\ header.window[i + 1] = b + header.head + (i + 1)
      BY <2>1, <3>1 DEF Follows
    <3>3. i \in Nat /\ b + header.head \in Nat
      BY <2>2
    <3>4. \A e \in Nat : e + (i + 1) = (e + i) + 1
      BY <3>3
    <3> QED
      BY <3>2, <3>3, <3>4
  <2> QED
    BY <2>3 DEF SegmentIsContiguous
<1> QED
  BY <1>1, InitInv, NextInv, PTL DEF Spec

\* No cursor the reader was given is ever refused as malformed.
THEOREM CursorsStayValid == Spec => []CursorStaysValid
<1>1. ASSUME Inv, cursor.held
      PROVE  ~CursorIsInvalid(header, cursor.segment, cursor.position)
  <2>1. PICK b \in Nat : CursorInv(b)
    BY <1>1 DEF Inv, Aligned
  <2>2. PICK o \in Nat : Place(b, cursor.segment, cursor.position, o, 0)
    BY <1>1, <2>1 DEF CursorInv
  <2>3. /\ header.segment \in Nat /\ header.end \in Nat
        /\ cursor.segment \in Nat /\ cursor.position \in Nat
    BY <1>1, TypeFacts DEF Inv
  <2> QED
    BY <1>1, <2>1, <2>2, <2>3 DEF CursorIsInvalid, CursorInv, Place
<1>2. Inv => CursorStaysValid
  BY <1>1 DEF CursorStaysValid
<1> QED
  BY <1>2, InitInv, NextInv, PTL DEF Spec

\* A page is the text right after the last one, or after a break that was told.
LEMMA PageDelivers ==
  ASSUME Inv, ReadPage, snapshot.text # <<>>
  PROVE  Feed!Deliver
<1>1. PICK b \in Nat, c \in Nat, d \in Nat : PipelineInv(b, c, d) /\ SnapshotInv(b)
  BY DEF Inv, Aligned
<1>2. PICK o \in Nat :
        /\ Place(b, snapshot.segment, snapshot.position, o, Len(snapshot.text))
        /\ Follows(snapshot.text, o)
        /\ at <= o
        /\ ~broken => at = o
  BY <1>1 DEF SnapshotInv, ReadPage
<1>3. /\ header.segment \in Nat /\ header.end \in Nat /\ captured \in Nat /\ at \in Nat
      /\ snapshot.segment \in Nat /\ snapshot.position \in Nat
      /\ snapshot.text \in Text /\ Len(snapshot.text) \in Nat
      /\ Len(batch.text) \in Nat /\ Len(pending) \in Nat
  BY TypeFacts DEF Inv
<1>4. Len(snapshot.text) >= 1
  BY <1>3, EmptySeq DEF Text
<1>5. PICK hi \in Nat : hi = o + Len(snapshot.text)
  BY <1>3
<1>6. hi <= captured
  <2>1. b + header.end <= captured
    BY <1>1, <1>3 DEF PipelineInv
  <2>2. hi <= b + header.end
    <3>1. CASE snapshot.segment = header.segment
      <4>1. o = b + snapshot.position /\ snapshot.position + Len(snapshot.text) <= header.end
        BY <1>2, <3>1 DEF Place
      <4> QED
        BY <1>3, <1>5, <4>1
    <3>2. CASE snapshot.segment < header.segment
      <4>1. o + Len(snapshot.text) <= b
        BY <1>2, <3>2 DEF Place
      <4> QED
        BY <1>3, <1>5, <4>1
    <3> QED
      BY <1>2, <1>3, <3>1, <3>2 DEF Place
  <2> QED
    BY <1>3, <1>5, <2>1, <2>2
<1>7. o + 1 \in 1..captured /\ hi \in (o + 1)..captured
  BY <1>3, <1>4, <1>5, <1>6
<1>8. o + 1 = at + 1 \/ (broken /\ o + 1 > at)
  BY <1>2, <1>3
<1>9. snapshot.text = Feed!Units(o + 1, hi)
  <2> DEFINE units == [i \in 1..(hi - (o + 1) + 1) |-> (o + 1) + i - 1]
  <2>1. hi - (o + 1) + 1 = Len(snapshot.text)
    BY <1>3, <1>5
  <2>2. snapshot.text = [i \in 1..Len(snapshot.text) |-> snapshot.text[i]]
    BY <1>3 DEF Text
  <2>3. \A i \in 1..Len(snapshot.text) : snapshot.text[i] = (o + 1) + i - 1
    BY <1>2, <1>3 DEF Follows
  <2>4. snapshot.text = units
    BY <2>1, <2>2, <2>3
  <2> QED
    BY <2>4 DEF Feed!Units
<1>10. page' = snapshot.text /\ broken' = FALSE /\ at' = hi
  <2>1. Len(snapshot.text) \in 1..Len(snapshot.text)
    BY <1>3, <1>4
  <2>2. snapshot.text[Len(snapshot.text)] = hi
    BY <1>2, <1>5, <2>1 DEF Follows
  <2> QED
    BY <2>2 DEF ReadPage
<1>11. ~hidden /\ UNCHANGED <<captured, hidden>>
  BY DEF ReadPage, Withdrawn, readerOnly, store
<1> QED
  BY <1>7, <1>8, <1>9, <1>10, <1>11 DEF Feed!Deliver

\* Every step of buffer, task, store and reader is a step of the promised feed
\* or changes nothing of it.
LEMMA FeedStep ==
  ASSUME Inv, [Next]_vars
  PROVE  [Feed!Next]_(Feed!vars)
<1> USE DEF Feed!vars
<1>1. ASSUME NEW n \in Pieces, Push(n) PROVE Feed!Capture
  <2>1. n \in Nat /\ n > 0 /\ captured \in Nat
    BY ProgressAssumption, TypeFacts DEF Inv
  <2>2. captured' = captured + n /\ UNCHANGED <<hidden, at, broken, page>>
    BY <1>1 DEF Push, store, reader
  <2> QED
    BY <2>1, <2>2 DEF Feed!Capture
<1>2. CASE \/ SendPrompt \/ Tick \/ Wake \/ FinalFlush \/ EndBackoff \/ Stop
           \/ ReadRun \/ UNCHANGED vars
  BY <1>2 DEF SendPrompt, Tick, Wake, FinalFlush, EndBackoff, Stop, ReadRun, readerOnly,
              vars, store, reader
<1>3. CASE WriteCommits \/ WriteFails \/ WriteHidden
  BY <1>3 DEF WriteCommits, WriteFails, WriteHidden, Commit, store, reader
<1>4. ASSUME NEW n \in 1..RunBytes, Evict(n) PROVE UNCHANGED Feed!vars
  BY <1>4 DEF Evict, reader
<1>5. ASSUME NEW hides \in BOOLEAN, Delete(hides)
      PROVE  Feed!Delete \/ UNCHANGED Feed!vars
  <2>1. hidden \in BOOLEAN
    BY TypeFacts DEF Inv
  <2> QED
    BY <1>5, <2>1 DEF Delete, reader, Feed!Delete
<1>6. CASE Expire
  BY <1>6 DEF Expire, reader, Feed!Delete, Feed!Next
<1>7. CASE ReadRefused \/ ReadWithdrawn
  BY <1>7 DEF ReadRefused, ReadWithdrawn, Refuse, readerOnly, store, Feed!StartAgain, Feed!Next
<1>8. ASSUME NEW n \in PageSizes, ReadSnapshot(n) PROVE UNCHANGED Feed!vars
  BY <1>8 DEF ReadSnapshot, readerOnly, store
<1>9. CASE ReadMissing
  <2>1. at = 0
    BY <1>9 DEF Inv, Aligned, SnapshotInv, ReadMissing
  <2>2. CASE snapshot.sent
    BY <1>9, <2>2 DEF ReadMissing, readerOnly, store
  <2>3. CASE ~snapshot.sent
    BY <1>9, <2>1, <2>3 DEF ReadMissing, Withdrawn, readerOnly, store, Feed!Attend, Feed!Next
  <2> QED
    BY <2>2, <2>3
<1>10. CASE ReadBehind
  BY <1>10 DEF ReadBehind, readerOnly, store, Feed!TellBreak, Feed!Next
<1>11. CASE ReadPage
  <2>1. CASE snapshot.text = <<>>
    BY <1>11, <2>1 DEF ReadPage, readerOnly, store
  <2>2. CASE snapshot.text # <<>>
    BY <1>11, <2>2, PageDelivers DEF Feed!Next
  <2> QED
    BY <2>1, <2>2
<1> QED
  BY <1>1, <1>2, <1>3, <1>4, <1>5, <1>6, <1>7, <1>8, <1>9, <1>10, <1>11
     DEF Next, Feed!Next

\* What the reader of a Worker's progress is handed is consecutive or broken by
\* an announcement, never repeated, and nothing after a deletion.
THEOREM ProgressImplementsFeed == Spec => ImplementsFeed
<1>1. Init => Feed!Init
  BY DEF Init, Feed!Init
<1>2. Inv /\ [Next]_vars => [Feed!Next]_(Feed!vars)
  BY FeedStep
<1> QED
  BY <1>1, <1>2, InitInv, NextInv, PTL DEF Spec, ImplementsFeed, Feed!Spec
==============================================================================
