-------------------- MODULE TransactionCoordinator_proofs --------------------
(***************************************************************************)
(* The durable Operation engine for any Operations, plans and bounds: what *)
(* the Gateway serves is backed by active effects, success is recorded     *)
(* only for what was verified, and no cell is overwritten that is not the  *)
(* Operation's own.                                                        *)
(*                                                                         *)
(* The handler's program counter is the list of the calls still to make.   *)
(* The proofs see it as the set of those calls ("Ahead") in the order of a *)
(* rank: a call that is not ahead any more was made, and what it left is   *)
(* what the invariant says in its place.                                   *)
(***************************************************************************)
EXTENDS TransactionCoordinator, SequenceTheorems, TLAPS

-----------------------------------------------------------------------------
(***************************************************************************)
(* The calls and their order                                               *)
(***************************************************************************)
StepOf == [secret |-> "ApplySecrets", grant |-> "ApplySecrets",
           control |-> "MaterializeSources", publication |-> "CompilePublication",
           artifact |-> "ApplyAgentArtifacts", file |-> "ApplyAgentArtifacts",
           runtime |-> "Activate"]

\* Its place among the effects of the step.
PlaceOf == [secret |-> 1, grant |-> 2, control |-> 1, publication |-> 1,
            artifact |-> 1, file |-> 2, runtime |-> 1]

StepNo == [Prepare |-> 1, ApplySecrets |-> 2, MaterializeSources |-> 3,
           CompilePublication |-> 4, ApplyAgentArtifacts |-> 5, Activate |-> 6]

\* The calls a handler of o may have to make.
CallSet(o) ==
  ({"begin", "complete", "compensating", "settle"} \X Steps)
  \cup ({"stage", "record", "reconcile", "compensate"} \X Plan[o])
  \cup ({"activate"} \X (Plan[o] \cap Cells))
  \cup ({"switch"} \X (Plan[o] \cap Files))
  \cup ({"checkpoint", "install", "mark", "abort"} \X (Plan[o] \cap {"publication"}))
  \cup ({"seal", "park", "reclaim"} \X (Plan[o] \cap {"file"}))
  \cup ({"suspend"} \X {"control"})
  \cup ({"verify", "finish"} \X {"Succeeded"})
  \cup ({"resume"} \X {"Succeeded", "RolledBack"})
  \cup ({"enter"} \X {"run", "startup"})
  \cup {<<"rollback", "RollingBack">>, <<"close", "RolledBack">>}

ForwardNames == {"begin", "stage", "record", "suspend", "switch", "activate", "checkpoint",
                 "install", "mark", "seal", "complete", "reclaim", "verify", "finish", "resume"}
BackNames == {"abort", "rollback", "compensating", "reconcile", "compensate", "settle", "close",
              "resume"}
Single == {"enter", "park"}

\* Where a call comes: steps twenty apart, the activation in the last of them.
ActivationRank(o, k) ==
  IF k = "grant" /\ o \in Revokes THEN 135
  ELSE [secret |-> 126, grant |-> 127, control |-> 128, artifact |-> 130, runtime |-> 131,
        file |-> 138][k]

SwitchRank == [artifact |-> 129, file |-> 137]

NameRank == [suspend |-> 125, checkpoint |-> 132, install |-> 133, mark |-> 134,
             reclaim |-> 136, seal |-> 136, verify |-> 150, finish |-> 151,
             abort |-> 300, rollback |-> 301, close |-> 500, resume |-> 600,
             enter |-> 0, park |-> 0]

StepNameRank == [begin |-> 0, complete |-> 19, compensating |-> 0, settle |-> 5]

UndoRank(s) == 310 + 10 * (6 - StepNo[s])

Rank(o, c) ==
  IF c[1] \in {"begin", "complete"} THEN 20 * StepNo[c[2]] + StepNameRank[c[1]]
  ELSE IF c[1] = "stage" THEN 20 * StepNo[StepOf[c[2]]] + 2 * PlaceOf[c[2]] - 1
  ELSE IF c[1] = "record" THEN 20 * StepNo[StepOf[c[2]]] + 2 * PlaceOf[c[2]]
  ELSE IF c[1] \in {"compensating", "settle"} THEN UndoRank(c[2]) + StepNameRank[c[1]]
  ELSE IF c[1] = "reconcile" THEN UndoRank(StepOf[c[2]]) + PlaceOf[c[2]]
  ELSE IF c[1] = "compensate" THEN UndoRank(StepOf[c[2]]) + 5 - PlaceOf[c[2]]
  ELSE IF c[1] = "activate" THEN ActivationRank(o, c[2])
  ELSE IF c[1] = "switch" THEN SwitchRank[c[2]]
  ELSE NameRank[c[1]]

\* s lists calls of o in their order, with ranks from lo to hi.
Stretch(o, s, lo, hi) ==
  /\ s \in Seq(CallSet(o))
  /\ \A i \in 1..Len(s) : lo <= Rank(o, s[i]) /\ Rank(o, s[i]) <= hi
  /\ \A i, j \in 1..Len(s) : i < j => Rank(o, s[i]) < Rank(o, s[j])

\* A handler works forward or backward; what it has to do ends with its return.
OneWay(s) ==
  \/ \A c \in Range(s) : c[1] \in ForwardNames
  \/ \A c \in Range(s) : c[1] \in BackNames
  \/ \A c \in Range(s) : c[1] \in Single

CheckpointCall == <<"checkpoint", "publication">>
InstallCalls   == {<<"install", "publication">>, <<"mark", "publication">>}

Agenda(o, s) ==
  /\ Stretch(o, s, 0, 600)
  /\ OneWay(s)
  /\ CheckpointCall \in Range(s) => Range(s) \cap InstallCalls = {}
  /\ \E c \in Range(s) : c[1] \in Single \cup {"resume"}

-----------------------------------------------------------------------------
(***************************************************************************)
(* The inductive invariant                                                 *)
(***************************************************************************)
Ahead == Range(todo)

Known(o) == journal[o].state # "none"

AgendaInv == cur # Nobody => Agenda(cur, todo)

\* What a journal entry m of o says of itself.
EntryInv(o, m) ==
  /\ m.recorded \subseteq Plan[o]
  /\ "publication" \in Plan[o] /\ m.status["CompilePublication"] = "Applied"
       => "publication" \in m.recorded
  /\ m.receipt => "file" \in Plan[o]

JournalInv ==
  /\ \A o \in Operations : /\ EntryInv(o, journal[o])
                           /\ Known(o) => before[o]["publication"] # o
                           /\ \A c \in Cells : before[o][c] \in Values
  /\ \A o \in Range(order) \cup admitted \cup pending : Known(o)

\* The handler's copy is ahead of the journal only by what saves that failed
\* would have recorded, and never by the decision to abort.
CopyInv ==
  /\ cur # Nobody => /\ Known(cur) /\ mem.state # "none" /\ EntryInv(cur, mem)
                     /\ journal[cur].recorded \subseteq mem.recorded
                     /\ mem.decision = "Abort" => journal[cur].decision = "Abort"
                     /\ mode = "tail" => "file" \in Plan[cur]
  /\ cur = Nobody => mode = "steps"

\* While the handler works forward its copy is the journal; an outcome is
\* recorded last.
CurrentInv == cur # Nobody =>
  /\ (\E c \in Ahead : c[1] \in (ForwardNames \ {"resume"}) \cup {"enter"}) => mem = journal[cur]
  /\ (\E c \in Ahead : c[1] \notin {"enter", "resume"})
       => mem.state \notin {"Succeeded", "RolledBack"}

PublishCalls == InstallCalls \cup {CheckpointCall}

\* The activation: the effects behind a publication are active, or ahead.
ActivationInv == cur # Nobody =>
  /\ Ahead \cap PublishCalls # {} =>
       \A k \in Backing(cur) : marker[cur][k] = "active" \/ <<"activate", k>> \in Ahead
  /\ "publication" \in Plan[cur]
     /\ Ahead \cap (PublishCalls \cup {<<"complete", "CompilePublication">>}) # {}
       => "publication" \in mem.recorded \/ <<"record", "publication">> \in Ahead
  /\ Ahead \cap InstallCalls # {} => mem.decision = "Install"

\* What the terminal check saw is still so when success is recorded.
VerifiedInv ==
  /\ cur # Nobody
  /\ <<"finish", "Succeeded">> \in Ahead /\ <<"verify", "Succeeded">> \notin Ahead
  =>
    /\ \A c \in Ahead : c[1] \in {"finish", "resume"}
    /\ \A c \in Plan[cur] \cap Rows : marker[cur][c] = "active" /\ value[c] = cur
    /\ \A c \in Plan[cur] \cap Files : marker[cur][c] = "active"
    /\ "publication" \in Plan[cur] => active = cur /\ target = cur

\* Effects are undone only when the decision that the publication is not
\* installed was recorded, or it never was staged.
RollbackInv ==
  /\ cur # Nobody
  /\ (\E c \in Ahead : c[1] = "compensate") /\ <<"abort", "publication">> \notin Ahead
  => cur \notin {active, target}

\* A published root was recorded, is not aborted, and is backed.
PublishedInv == \A o \in {active, target} \ {Nobody} :
  /\ Known(o)
  /\ "publication" \in journal[o].recorded
  /\ journal[o].decision # "Abort"
  /\ \A k \in Backing(o) : marker[o][k] = "active"

\* What holds of a handler at work.
HandlerInv ==
  AgendaInv /\ CopyInv /\ CurrentInv /\ ActivationInv /\ VerifiedInv /\ RollbackInv

\* The inductive invariant is TypeOK /\ Rest.
Rest == JournalInv /\ PublishedInv /\ HandlerInv

-----------------------------------------------------------------------------
(***************************************************************************)
(* The lists of calls                                                      *)
(***************************************************************************)
StageSet(o, s) == {"stage", "record"} \X (Plan[o] \cap Range(Effects[s]))

ActivationSet(o) ==
  {<<"suspend", "control">>}
  \cup ({"activate"} \X (Plan[o] \cap Cells))
  \cup ({"switch"} \X (Plan[o] \cap Files))
  \cup ({"checkpoint"} \X (Plan[o] \cap {"publication"}))
  \cup ({"seal"} \X (Plan[o] \cap {"file"}))

StepSet(o, s) ==
  ({"begin", "complete"} \X {s}) \cup StageSet(o, s)
  \cup (IF s = "Activate" THEN ActivationSet(o) ELSE {})

FinishSet == {<<"verify", "Succeeded">>, <<"finish", "Succeeded">>, <<"resume", "Succeeded">>}

UndoSet(o, s) ==
  ({"compensating", "settle"} \X {s})
  \cup ({"reconcile", "compensate"} \X (Plan[o] \cap Range(Effects[s])))

ClosingSet == {<<"close", "RolledBack">>, <<"resume", "RolledBack">>}

\* s lists exactly the calls R of o, in their order, with ranks from lo to hi.
Piece(o, s, lo, hi, R) == Stretch(o, s, lo, hi) /\ Range(s) = R

USE DEF Steps

LEMMA StepFacts ==
  /\ Steps = {"Prepare", "ApplySecrets", "MaterializeSources", "CompilePublication",
              "ApplyAgentArtifacts", "Activate"}
  /\ \A s \in Steps : StepNo[s] \in 1..6
BY DEF Effects, StepNo

LEMMA KindFacts ==
  /\ Kinds = {"secret", "grant", "control", "runtime", "artifact", "file", "publication"}
  /\ Cells = {"secret", "grant", "control", "runtime", "artifact", "file"}
  /\ \A k \in Kinds : StepOf[k] \in Steps /\ PlaceOf[k] \in 1..2
BY StepFacts DEF Kinds, Cells, Rows, Files, StepOf, PlaceOf

LEMMA EffectFacts ==
  ASSUME NEW s \in Steps
  PROVE  /\ Effects[s] \in Seq(Kinds)
         /\ Len(Effects[s]) \in 0..2
         /\ \A i \in 1..Len(Effects[s]) : StepOf[Effects[s][i]] = s /\ PlaceOf[Effects[s][i]] = i
<1>1. CASE s = "Prepare"
  <2>1. Effects[s] = <<>>
    BY <1>1 DEF Effects
  <2>2. Effects[s] \in Seq(Kinds) /\ Len(Effects[s]) = 0
    BY <2>1, KindFacts
  <2> QED BY <2>2
<1>2. CASE s = "ApplySecrets"
  <2>1. Effects[s] = <<"secret", "grant">>
    BY <1>2 DEF Effects
  <2>2. Effects[s] \in Seq(Kinds) /\ Len(Effects[s]) = 2
    BY <2>1, KindFacts
  <2>3. /\ StepOf["secret"] = "ApplySecrets" /\ StepOf["grant"] = "ApplySecrets"
        /\ PlaceOf["secret"] = 1
        /\ PlaceOf["grant"] = 2
    BY DEF StepOf, PlaceOf
  <2> QED BY <2>1, <2>2, <2>3, <1>2
<1>3. CASE s = "MaterializeSources"
  <2>1. Effects[s] = <<"control">>
    BY <1>3 DEF Effects
  <2>2. Effects[s] \in Seq(Kinds) /\ Len(Effects[s]) = 1
    BY <2>1, KindFacts
  <2>3. /\ StepOf["control"] = "MaterializeSources"
        /\ PlaceOf["control"] = 1
    BY DEF StepOf, PlaceOf
  <2> QED BY <2>1, <2>2, <2>3, <1>3
<1>4. CASE s = "CompilePublication"
  <2>1. Effects[s] = <<"publication">>
    BY <1>4 DEF Effects
  <2>2. Effects[s] \in Seq(Kinds) /\ Len(Effects[s]) = 1
    BY <2>1, KindFacts
  <2>3. /\ StepOf["publication"] = "CompilePublication"
        /\ PlaceOf["publication"] = 1
    BY DEF StepOf, PlaceOf
  <2> QED BY <2>1, <2>2, <2>3, <1>4
<1>5. CASE s = "ApplyAgentArtifacts"
  <2>1. Effects[s] = <<"artifact", "file">>
    BY <1>5 DEF Effects
  <2>2. Effects[s] \in Seq(Kinds) /\ Len(Effects[s]) = 2
    BY <2>1, KindFacts
  <2>3. /\ StepOf["artifact"] = "ApplyAgentArtifacts" /\ StepOf["file"] = "ApplyAgentArtifacts"
        /\ PlaceOf["artifact"] = 1
        /\ PlaceOf["file"] = 2
    BY DEF StepOf, PlaceOf
  <2> QED BY <2>1, <2>2, <2>3, <1>5
<1>6. CASE s = "Activate"
  <2>1. Effects[s] = <<"runtime">>
    BY <1>6 DEF Effects
  <2>2. Effects[s] \in Seq(Kinds) /\ Len(Effects[s]) = 1
    BY <2>1, KindFacts
  <2>3. /\ StepOf["runtime"] = "Activate"
        /\ PlaceOf["runtime"] = 1
    BY DEF StepOf, PlaceOf
  <2> QED BY <2>1, <2>2, <2>3, <1>6
<1> QED BY <1>1, <1>2, <1>3, <1>4, <1>5, <1>6, StepFacts

LEMMA PlanFacts ==
  ASSUME NEW o \in Operations
  PROVE  /\ Plan[o] \subseteq Kinds
         /\ "control" \in Plan[o]
         /\ "file" \in Plan[o] => "publication" \in Plan[o]
BY PlanAssumption

\* Between which ranks a call of a kind is.
LEMMA RankBounds ==
  ASSUME NEW o \in Operations, NEW c \in CallSet(o)
  PROVE  /\ c[1] \in {"begin", "complete", "stage", "record"} => Rank(o, c) \in 20..139
         /\ c[1] \in {"suspend", "switch", "activate", "checkpoint", "install", "mark", "seal",
                      "reclaim"} => Rank(o, c) \in 125..138
         /\ c[1] \in {"compensating", "reconcile", "compensate", "settle"} => Rank(o, c) \in 310..365
         /\ c[1] \in DOMAIN NameRank => Rank(o, c) = NameRank[c[1]]
<1>1. \A k \in Plan[o] : StepNo[StepOf[k]] \in 1..6 /\ PlaceOf[k] \in 1..2
  BY PlanFacts, KindFacts, StepFacts
<1>2. \A s \in Steps : StepNo[s] \in 1..6
  BY StepFacts
<1>3. CASE c[1] \in {"begin", "complete"}
  <2>1. Rank(o, c) = 20 * StepNo[c[2]] + StepNameRank[c[1]] /\ c[2] \in Steps
    BY <1>3 DEF Rank, CallSet
  <2>2. StepNameRank[c[1]] \in 0..19
    BY <1>3 DEF StepNameRank
  <2>3. Rank(o, c) \in 20..139
    BY <2>1, <2>2, <1>2
  <2> QED BY <2>3, <1>3 DEF NameRank
<1>4. CASE c[1] \in {"compensating", "settle"}
  <2>1. Rank(o, c) = 310 + 10 * (6 - StepNo[c[2]]) + StepNameRank[c[1]] /\ c[2] \in Steps
    BY <1>4 DEF Rank, UndoRank, CallSet
  <2>2. StepNameRank[c[1]] \in 0..5
    BY <1>4 DEF StepNameRank
  <2>3. Rank(o, c) \in 310..365
    BY <2>1, <2>2, <1>2
  <2> QED BY <2>3, <1>4 DEF NameRank
<1>5. CASE c[1] \in {"stage", "record"}
  <2>1. /\ c[2] \in Plan[o]
        /\ \/ Rank(o, c) = 20 * StepNo[StepOf[c[2]]] + 2 * PlaceOf[c[2]] - 1
           \/ Rank(o, c) = 20 * StepNo[StepOf[c[2]]] + 2 * PlaceOf[c[2]]
    BY <1>5 DEF Rank, CallSet
  <2>2. Rank(o, c) \in 20..139
    BY <2>1, <1>1
  <2> QED BY <2>2, <1>5 DEF NameRank
<1>6. CASE c[1] \in {"reconcile", "compensate"}
  <2>1. /\ c[2] \in Plan[o]
        /\ \/ Rank(o, c) = 310 + 10 * (6 - StepNo[StepOf[c[2]]]) + PlaceOf[c[2]]
           \/ Rank(o, c) = 310 + 10 * (6 - StepNo[StepOf[c[2]]]) + 5 - PlaceOf[c[2]]
    BY <1>6 DEF Rank, UndoRank, CallSet
  <2>2. Rank(o, c) \in 310..365
    BY <2>1, <1>1
  <2> QED BY <2>2, <1>6 DEF NameRank
<1>7. CASE c[1] = "activate"
  <2>1. Rank(o, c) = ActivationRank(o, c[2]) /\ c[2] \in Cells
    BY <1>7 DEF Rank, CallSet
  <2>2. ActivationRank(o, c[2]) \in 126..138
    BY <2>1, KindFacts DEF ActivationRank
  <2> QED BY <2>1, <2>2, <1>7 DEF NameRank
<1>8. CASE c[1] = "switch"
  <2>1. Rank(o, c) = SwitchRank[c[2]] /\ c[2] \in Files
    BY <1>8 DEF Rank, CallSet
  <2>2. SwitchRank[c[2]] \in {129, 137}
    BY <2>1 DEF SwitchRank, Files
  <2> QED BY <2>1, <2>2, <1>8 DEF NameRank
<1>9. CASE c[1] \in DOMAIN NameRank
  <2>1. Rank(o, c) = NameRank[c[1]]
    BY <1>9 DEF Rank, NameRank
  <2> QED BY <2>1, <1>9 DEF NameRank
<1>10. \/ c[1] \in {"begin", "complete"}
       \/ c[1] \in {"compensating", "settle"}
       \/ c[1] \in {"stage", "record"}
       \/ c[1] \in {"reconcile", "compensate"}
       \/ c[1] = "activate"
       \/ c[1] = "switch"
       \/ c[1] \in DOMAIN NameRank
  BY DEF CallSet, NameRank
<1> QED BY <1>3, <1>4, <1>5, <1>6, <1>7, <1>8, <1>9, <1>10

\* A rank is a number from 0 to 600.
LEMMA RankType ==
  ASSUME NEW o \in Operations, NEW c \in CallSet(o)
  PROVE  Rank(o, c) \in 0..600
<1>1. \/ c[1] \in {"begin", "complete", "stage", "record"}
      \/ c[1] \in {"suspend", "switch", "activate", "checkpoint", "install", "mark", "seal", "reclaim"}
      \/ c[1] \in {"compensating", "reconcile", "compensate", "settle"}
      \/ c[1] \in DOMAIN NameRank
  BY DEF CallSet, NameRank
<1>2. \A n \in DOMAIN NameRank : NameRank[n] \in 0..600
  BY DEF NameRank
<1>3. \/ Rank(o, c) \in 20..139 \/ Rank(o, c) \in 125..138 \/ Rank(o, c) \in 310..365
      \/ Rank(o, c) \in 0..600
  BY <1>1, <1>2, RankBounds
<1> QED BY <1>3

LEMMA NoPiece ==
  ASSUME NEW o \in Operations, NEW lo, NEW hi
  PROVE  Piece(o, <<>>, lo, hi, {})
BY DEF Piece, Stretch, Range

LEMMA WiderPiece ==
  ASSUME NEW o \in Operations, NEW s, NEW R,
         NEW a \in Int, NEW b \in Int, NEW c \in Int, NEW d \in Int,
         Piece(o, s, a, b, R), c <= a, b <= d
  PROVE  Piece(o, s, c, d, R)
<1>1. s \in Seq(CallSet(o))
  BY DEF Piece, Stretch
<1>2. \A i \in 1..Len(s) : s[i] \in CallSet(o)
  BY <1>1, ElementOfSeq
<1>2a. ASSUME NEW x \in CallSet(o) PROVE Rank(o, x) \in Int
  <2>1. Rank(o, x) \in 0..600
    BY RankType
  <2> QED BY <2>1
<1>3. \A i \in 1..Len(s) : Rank(o, s[i]) \in Int
  BY <1>2a, <1>2
<1>4. \A i \in 1..Len(s) : a <= Rank(o, s[i]) /\ Rank(o, s[i]) <= b
  BY DEF Piece, Stretch
<1>5. \A i \in 1..Len(s) : c <= Rank(o, s[i]) /\ Rank(o, s[i]) <= d
  BY <1>3, <1>4
<1> QED BY <1>5 DEF Piece, Stretch

LEMMA OnePiece ==
  ASSUME NEW o \in Operations, NEW c \in CallSet(o), NEW r, Rank(o, c) = r
  PROVE  Piece(o, <<c>>, r, r, {c})
<1>1. r \in Nat
  BY RankType
<1>2. <<c>> \in Seq(CallSet(o)) /\ Len(<<c>>) = 1 /\ \A i \in 1..1 : <<c>>[i] = c
  OBVIOUS
<1>3. Range(<<c>>) = {c}
  BY <1>2 DEF Range
<1>4. Stretch(o, <<c>>, r, r)
  BY <1>1, <1>2 DEF Stretch
<1> QED BY <1>3, <1>4 DEF Piece

LEMMA JoinPieces ==
  ASSUME NEW o \in Operations, NEW s, NEW t, NEW R, NEW T,
         NEW a \in Int, NEW b \in Int, NEW c \in Int, NEW d \in Int,
         Piece(o, s, a, b, R), Piece(o, t, c, d, T), a <= b, b < c, c <= d
  PROVE  Piece(o, s \o t, a, d, R \cup T)
<1> DEFINE C == CallSet(o)
<1>1. s \in Seq(C) /\ t \in Seq(C)
  BY DEF Piece, Stretch
<1>2. /\ s \o t \in Seq(C) /\ Len(s \o t) = Len(s) + Len(t)
      /\ \A i \in 1..(Len(s) + Len(t)) :
           (s \o t)[i] = IF i <= Len(s) THEN s[i] ELSE t[i - Len(s)]
  BY <1>1, ConcatProperties, Zenon
<1>3. Range(s \o t) = R \cup T
  BY <1>1, RangeConcatenation DEF Piece
<1>4. Len(s) \in Nat /\ Len(t) \in Nat
  BY <1>1
<1> DEFINE r(i) == Rank(o, (s \o t)[i])
<1>4a. \A x \in C : Rank(o, x) \in 0..600
  BY RankType
<1> HIDE DEF C
<1>4b. \A x \in C : Rank(o, x) \in Int
  BY <1>4a
<1>5. \A i \in 1..Len(s) : s[i] \in C /\ Rank(o, s[i]) \in Int
  BY <1>1, <1>4b, ElementOfSeq
<1>6. \A i \in 1..Len(t) : t[i] \in C /\ Rank(o, t[i]) \in Int
  BY <1>1, <1>4b, ElementOfSeq
<1>7. /\ \A i \in 1..Len(s) : a <= Rank(o, s[i]) /\ Rank(o, s[i]) <= b
      /\ \A i, j \in 1..Len(s) : i < j => Rank(o, s[i]) < Rank(o, s[j])
      /\ \A i \in 1..Len(t) : c <= Rank(o, t[i]) /\ Rank(o, t[i]) <= d
      /\ \A i, j \in 1..Len(t) : i < j => Rank(o, t[i]) < Rank(o, t[j])
  BY DEF Piece, Stretch
<1>8. \A i \in 1..(Len(s) + Len(t)) :
        \/ i \in 1..Len(s) /\ (s \o t)[i] = s[i]
        \/ i - Len(s) \in 1..Len(t) /\ (s \o t)[i] = t[i - Len(s)]
  BY <1>2, <1>4
<1>9. ASSUME NEW i \in 1..(Len(s) + Len(t))
      PROVE  a <= r(i) /\ r(i) <= d
  <2>1. CASE i \in 1..Len(s) /\ (s \o t)[i] = s[i]
    BY <2>1, <1>5, <1>7
  <2>2. CASE i - Len(s) \in 1..Len(t) /\ (s \o t)[i] = t[i - Len(s)]
    BY <2>2, <1>6, <1>7
  <2> QED BY <1>8, <2>1, <2>2
<1>10. ASSUME NEW i \in 1..(Len(s) + Len(t)), NEW j \in 1..(Len(s) + Len(t)), i < j
       PROVE  r(i) < r(j)
  <2>1. CASE i \in 1..Len(s) /\ j \in 1..Len(s)
    BY <2>1, <1>10, <1>7, <1>2, <1>4
  <2>2. CASE i \in 1..Len(s) /\ j \notin 1..Len(s)
    <3>1. j - Len(s) \in 1..Len(t) /\ (s \o t)[j] = t[j - Len(s)] /\ (s \o t)[i] = s[i]
      BY <2>2, <1>8, <1>4
    <3>2. Rank(o, s[i]) <= b /\ c <= Rank(o, t[j - Len(s)])
      BY <3>1, <2>2, <1>7
    <3>3. Rank(o, s[i]) \in Int /\ Rank(o, t[j - Len(s)]) \in Int
      BY <3>1, <2>2, <1>5, <1>6
    <3>4. Rank(o, s[i]) < Rank(o, t[j - Len(s)])
      BY <3>2, <3>3
    <3> QED BY <3>1, <3>4
  <2>3. CASE i \notin 1..Len(s)
    <3>1. /\ i - Len(s) \in 1..Len(t) /\ j - Len(s) \in 1..Len(t)
          /\ i - Len(s) < j - Len(s)
          /\ (s \o t)[i] = t[i - Len(s)] /\ (s \o t)[j] = t[j - Len(s)]
      BY <2>3, <1>10, <1>2, <1>4
    <3> QED BY <3>1, <1>7
  <2> QED BY <2>1, <2>2, <2>3
<1>11. Stretch(o, s \o t, a, d)
  BY <1>2, <1>9, <1>10 DEF Stretch, C
<1> QED BY <1>3, <1>11 DEF Piece

LEMMA JoinedLiterals ==
  ASSUME NEW C, NEW c \in C, NEW d \in C, NEW e \in C
  PROVE  <<c>> \o <<d>> = <<c, d>> /\ <<c, d>> \o <<e>> = <<c, d, e>>
<1>1. <<c>> \in Seq(C) /\ <<d>> \in Seq(C) /\ <<e>> \in Seq(C) /\ <<c, d>> \in Seq(C)
      /\ <<c, d, e>> \in Seq(C)
  OBVIOUS
<1>2. <<c>> \o <<d>> = <<c, d>>
  <2>1. /\ <<c>> \o <<d>> \in Seq(C) /\ Len(<<c>> \o <<d>>) = 2
        /\ (<<c>> \o <<d>>)[1] = c /\ (<<c>> \o <<d>>)[2] = d
    BY <1>1, ConcatProperties
  <2>2. \A i \in 1..2 : (<<c>> \o <<d>>)[i] = <<c, d>>[i]
    BY <2>1
  <2>3. Len(<<c, d>>) = 2
    OBVIOUS
  <2>4. <<c>> \o <<d>> \in Seq(C) /\ Len(<<c>> \o <<d>>) = Len(<<c, d>>)
    BY <2>1, <2>3
  <2> QED BY <1>1, <2>2, <2>3, <2>4, SeqEqual
<1>3. <<c, d>> \o <<e>> = <<c, d, e>>
  <2>1. /\ <<c, d>> \o <<e>> \in Seq(C) /\ Len(<<c, d>> \o <<e>>) = 3
        /\ (<<c, d>> \o <<e>>)[1] = c /\ (<<c, d>> \o <<e>>)[2] = d
        /\ (<<c, d>> \o <<e>>)[3] = e
    BY <1>1, ConcatProperties
  <2>2. \A i \in 1..3 : (<<c, d>> \o <<e>>)[i] = <<c, d, e>>[i]
    BY <2>1
  <2>3. Len(<<c, d, e>>) = 3
    OBVIOUS
  <2>4. <<c, d>> \o <<e>> \in Seq(C) /\ Len(<<c, d>> \o <<e>>) = Len(<<c, d, e>>)
    BY <2>1, <2>3
  <2> QED BY <1>1, <2>2, <2>3, <2>4, SeqEqual
<1> QED BY <1>2, <1>3

LEMMA TwoPiece ==
  ASSUME NEW o \in Operations, NEW c \in CallSet(o), NEW d \in CallSet(o), NEW r, NEW q,
         Rank(o, c) = r, Rank(o, d) = q, r < q
  PROVE  Piece(o, <<c, d>>, r, q, {c, d})
<1>1. Piece(o, <<c>>, r, r, {c}) /\ Piece(o, <<d>>, q, q, {d})
  BY OnePiece
<1>2. r \in Int /\ q \in Int
  BY RankType
<1>3. Piece(o, <<c>> \o <<d>>, r, q, {c} \cup {d})
  BY <1>1, <1>2, JoinPieces
<1>4. <<c>> \o <<d>> = <<c, d>>
  BY JoinedLiterals
<1> QED BY <1>3, <1>4

LEMMA ThreePiece ==
  ASSUME NEW o \in Operations, NEW c \in CallSet(o), NEW d \in CallSet(o), NEW e \in CallSet(o),
         Rank(o, c) < Rank(o, d), Rank(o, d) < Rank(o, e)
  PROVE  Piece(o, <<c, d, e>>, Rank(o, c), Rank(o, e), {c, d, e})
<1>1. Piece(o, <<c, d>>, Rank(o, c), Rank(o, d), {c, d})
  BY TwoPiece
<1>2. Piece(o, <<e>>, Rank(o, e), Rank(o, e), {e})
  BY OnePiece
<1>3. Rank(o, c) \in Int /\ Rank(o, d) \in Int /\ Rank(o, e) \in Int
  BY RankType
<1>4. Piece(o, <<c, d>> \o <<e>>, Rank(o, c), Rank(o, e), {c, d} \cup {e})
  BY <1>1, <1>2, <1>3, JoinPieces
<1>5. <<c, d>> \o <<e>> = <<c, d, e>>
  BY JoinedLiterals
<1> QED BY <1>4, <1>5

LEMMA WhenPiece ==
  ASSUME NEW o \in Operations, NEW p \in BOOLEAN, NEW s, NEW lo, NEW hi, NEW R,
         p => Piece(o, s, lo, hi, R)
  PROVE  Piece(o, When(p, s), lo, hi, IF p THEN R ELSE {})
BY NoPiece DEF When

LEMMA OnePlanned ==
  ASSUME NEW o \in Operations, NEW n, NEW k, NEW r,
         k \in Plan[o] => <<n, k>> \in CallSet(o) /\ Rank(o, <<n, k>>) = r
  PROVE  Piece(o, Planned(o, k, <<<<n, k>>>>), r, r, {n} \X (Plan[o] \cap {k}))
<1>1. CASE k \in Plan[o]
  <2>1. Piece(o, <<<<n, k>>>>, r, r, {<<n, k>>})
    BY <1>1, OnePiece
  <2>2. {n} \X (Plan[o] \cap {k}) = {<<n, k>>}
    BY <1>1
  <2> QED BY <2>1, <2>2, <1>1 DEF Planned, When
<1>2. CASE k \notin Plan[o]
  <2>1. {n} \X (Plan[o] \cap {k}) = {}
    BY <1>2
  <2> QED BY <2>1, <1>2, NoPiece DEF Planned, When
<1> QED BY <1>1, <1>2

LEMMA TwoPlanned ==
  ASSUME NEW o \in Operations, NEW n, NEW m, NEW k, NEW r, NEW q,
         k \in Plan[o] => /\ <<n, k>> \in CallSet(o) /\ Rank(o, <<n, k>>) = r
                          /\ <<m, k>> \in CallSet(o) /\ Rank(o, <<m, k>>) = q /\ r < q
  PROVE  Piece(o, Planned(o, k, <<<<n, k>>, <<m, k>>>>), r, q, {n, m} \X (Plan[o] \cap {k}))
<1>1. CASE k \in Plan[o]
  <2>1. Piece(o, <<<<n, k>>, <<m, k>>>>, r, q, {<<n, k>>, <<m, k>>})
    BY <1>1, TwoPiece
  <2>2. {n, m} \X (Plan[o] \cap {k}) = {<<n, k>>, <<m, k>>}
    BY <1>1
  <2> QED BY <2>1, <2>2, <1>1 DEF Planned, When
<1>2. CASE k \notin Plan[o]
  <2>1. {n, m} \X (Plan[o] \cap {k}) = {}
    BY <1>2
  <2> QED BY <2>1, <1>2, NoPiece DEF Planned, When
<1> QED BY <1>1, <1>2

\* The two effects of a step one after the other, or against their order.
LEMMA EachPiece ==
  ASSUME NEW o \in Operations, NEW s \in Steps, NEW N, NEW u, NEW v,
         NEW a \in Int, NEW b \in Int, NEW c \in Int, NEW d \in Int, a <= b, c <= d,
         Len(Effects[s]) > 0 => Piece(o, u, a, b, N \X (Plan[o] \cap {Effects[s][1]})),
         Len(Effects[s]) > 1 => Piece(o, v, c, d, N \X (Plan[o] \cap {Effects[s][2]}))
  PROVE  LET first  == IF Len(Effects[s]) > 0 THEN u ELSE <<>>
             second == IF Len(Effects[s]) > 1 THEN v ELSE <<>>
         IN /\ b < c => Piece(o, first \o second, a, d, N \X (Plan[o] \cap Range(Effects[s])))
            /\ d < a => Piece(o, second \o first, c, b, N \X (Plan[o] \cap Range(Effects[s])))
<1> DEFINE e == Effects[s]
           first  == IF Len(e) > 0 THEN u ELSE <<>>
           second == IF Len(e) > 1 THEN v ELSE <<>>
           R == IF Len(e) > 0 THEN N \X (Plan[o] \cap {e[1]}) ELSE {}
           T == IF Len(e) > 1 THEN N \X (Plan[o] \cap {e[2]}) ELSE {}
<1>1. Len(e) \in 0..2 /\ e \in Seq(Kinds)
  BY EffectFacts
<1>2. Piece(o, first, a, b, R)
  <2>1. CASE Len(e) > 0
    BY <2>1, <1>1
  <2>2. CASE ~(Len(e) > 0)
    BY <2>2, NoPiece
  <2> QED BY <2>1, <2>2
<1>3. Piece(o, second, c, d, T)
  <2>1. CASE Len(e) > 1
    BY <2>1, <1>1
  <2>2. CASE ~(Len(e) > 1)
    BY <2>2, NoPiece
  <2> QED BY <2>1, <2>2
<1>4. R \cup T = N \X (Plan[o] \cap Range(e))
  <2>1. CASE Len(e) = 0
    <3>1. Range(e) = {}
      BY <2>1, <1>1 DEF Range
    <3> QED BY <3>1, <2>1
  <2>2. CASE Len(e) = 1
    <3>1. Range(e) = {e[1]}
      BY <2>2, <1>1 DEF Range
    <3> QED BY <3>1, <2>2
  <2>3. CASE Len(e) = 2
    <3>1. Range(e) = {e[1], e[2]}
      BY <2>3, <1>1 DEF Range
    <3> QED BY <3>1, <2>3
  <2> QED BY <2>1, <2>2, <2>3, <1>1
<1>5. /\ b < c => Piece(o, first \o second, a, d, R \cup T)
      /\ d < a => Piece(o, second \o first, c, b, T \cup R)
  <2> HIDE DEF first, second, R, T
  <2>1. ASSUME b < c PROVE Piece(o, first \o second, a, d, R \cup T)
    BY <1>2, <1>3, <2>1, JoinPieces
  <2>2. ASSUME d < a PROVE Piece(o, second \o first, c, b, T \cup R)
    BY <1>2, <1>3, <2>2, JoinPieces
  <2> QED BY <2>1, <2>2
<1>6. T \cup R = R \cup T
  OBVIOUS
<1> QED BY <1>4, <1>5, <1>6, Zenon

LEMMA ActivationPiece ==
  ASSUME NEW o \in Operations
  PROVE  Piece(o, Activation(o), 125, 138, ActivationSet(o))
<1> DEFINE P(k) == Plan[o] \cap {k}
           Now   == IF o \notin Revokes THEN {"activate"} \X P("grant") ELSE {}
           Later == IF o \in Revokes THEN {"activate"} \X P("grant") ELSE {}
           rest1 == <<<<"suspend", "control">>>> \o Planned(o, "secret", <<<<"activate", "secret">>>>)
           rest2 == rest1 \o When(o \notin Revokes, ActivateGrants(o))
           rest3 == rest2 \o <<<<"activate", "control">>>>
           rest4 == rest3 \o ActivateFile(o, "artifact")
           rest5 == rest4 \o Planned(o, "runtime", <<<<"activate", "runtime">>>>)
           rest6 == rest5 \o Planned(o, "publication", <<<<"checkpoint", "publication">>>>)
           rest7 == rest6 \o When(o \in Revokes, ActivateGrants(o))
           rest8 == rest7 \o Planned(o, "file", <<<<"seal", "file">>>>)
<1>1. Piece(o, <<<<"suspend", "control">>>>, 125, 125, {<<"suspend", "control">>})
  BY OnePiece DEF CallSet, Rank, NameRank
<1>2. \A k \in Cells : k \in Plan[o] => <<"activate", k>> \in CallSet(o)
                                        /\ Rank(o, <<"activate", k>>) = ActivationRank(o, k)
  BY DEF CallSet, Rank
<1>3. \A k \in Files : k \in Plan[o] => <<"switch", k>> \in CallSet(o)
                                        /\ Rank(o, <<"switch", k>>) = SwitchRank[k]
  BY DEF CallSet, Rank
<1>4. Piece(o, Planned(o, "secret", <<<<"activate", "secret">>>>), 126, 126,
            {"activate"} \X P("secret"))
  BY <1>2, KindFacts, OnePlanned DEF ActivationRank
<1>5. Piece(o, When(o \notin Revokes, ActivateGrants(o)), 127, 127, Now)
  <2>1. CASE o \notin Revokes
    <3>1. Piece(o, Planned(o, "grant", <<<<"activate", "grant">>>>), 127, 127,
                {"activate"} \X P("grant"))
      BY <1>2, <2>1, KindFacts, OnePlanned DEF ActivationRank
    <3> QED BY <2>1, <3>1 DEF When, ActivateGrants
  <2>2. CASE o \in Revokes
    BY <2>2, NoPiece DEF When
  <2> QED BY <2>1, <2>2
<1>6. Piece(o, <<<<"activate", "control">>>>, 128, 128, {<<"activate", "control">>})
  BY <1>2, KindFacts, PlanFacts, OnePiece DEF ActivationRank
<1>7. Piece(o, ActivateFile(o, "artifact"), 129, 130, {"switch", "activate"} \X P("artifact"))
  BY <1>2, <1>3, KindFacts, TwoPlanned DEF ActivationRank, SwitchRank, ActivateFile, Files
<1>8. Piece(o, Planned(o, "runtime", <<<<"activate", "runtime">>>>), 131, 131,
            {"activate"} \X P("runtime"))
  BY <1>2, KindFacts, OnePlanned DEF ActivationRank
<1>9. Piece(o, Planned(o, "publication", <<<<"checkpoint", "publication">>>>), 132, 132,
            {"checkpoint"} \X P("publication"))
  BY OnePlanned DEF CallSet, Rank, NameRank
<1>10. Piece(o, When(o \in Revokes, ActivateGrants(o)), 135, 135, Later)
  <2>1. CASE o \in Revokes
    <3>1. Piece(o, Planned(o, "grant", <<<<"activate", "grant">>>>), 135, 135,
                {"activate"} \X P("grant"))
      BY <1>2, <2>1, KindFacts, OnePlanned DEF ActivationRank
    <3> QED BY <2>1, <3>1 DEF When, ActivateGrants
  <2>2. CASE o \notin Revokes
    BY <2>2, NoPiece DEF When
  <2> QED BY <2>1, <2>2
<1>11. Piece(o, Planned(o, "file", <<<<"seal", "file">>>>), 136, 136, {"seal"} \X P("file"))
  BY OnePlanned DEF CallSet, Rank, NameRank
<1>12. Piece(o, ActivateFile(o, "file"), 137, 138, {"switch", "activate"} \X P("file"))
  BY <1>2, <1>3, KindFacts, TwoPlanned DEF ActivationRank, SwitchRank, ActivateFile, Files
<1> DEFINE R1 == {<<"suspend", "control">>} \cup ({"activate"} \X P("secret"))
           R2 == R1 \cup Now
           R3 == R2 \cup {<<"activate", "control">>}
           R4 == R3 \cup ({"switch", "activate"} \X P("artifact"))
           R5 == R4 \cup ({"activate"} \X P("runtime"))
           R6 == R5 \cup ({"checkpoint"} \X P("publication"))
           R7 == R6 \cup Later
           R8 == R7 \cup ({"seal"} \X P("file"))
           R9 == R8 \cup ({"switch", "activate"} \X P("file"))
<1>a. R9 = ActivationSet(o)
  <2>1. ASSUME NEW c PROVE c \in R9 <=> c \in ActivationSet(o)
    BY KindFacts, PlanFacts DEF ActivationSet, Files
  <2> QED BY <2>1
<1>b. Activation(o) = rest8 \o ActivateFile(o, "file")
  BY DEF Activation
<1> HIDE DEF P, Now, Later
<1>21. Piece(o, rest1, 125, 126, R1)
  BY <1>1, <1>4, JoinPieces
<1> HIDE DEF rest1, R1
<1>22. Piece(o, rest2, 125, 127, R2)
  BY <1>21, <1>5, JoinPieces
<1> HIDE DEF rest2, R2
<1>23. Piece(o, rest3, 125, 128, R3)
  BY <1>22, <1>6, JoinPieces
<1> HIDE DEF rest3, R3
<1>24. Piece(o, rest4, 125, 130, R4)
  BY <1>23, <1>7, JoinPieces
<1> HIDE DEF rest4, R4
<1>25. Piece(o, rest5, 125, 131, R5)
  BY <1>24, <1>8, JoinPieces
<1> HIDE DEF rest5, R5
<1>26. Piece(o, rest6, 125, 132, R6)
  BY <1>25, <1>9, JoinPieces
<1> HIDE DEF rest6, R6
<1>27. Piece(o, rest7, 125, 135, R7)
  BY <1>26, <1>10, JoinPieces
<1> HIDE DEF rest7, R7
<1>28. Piece(o, rest8, 125, 136, R8)
  BY <1>27, <1>11, JoinPieces
<1> HIDE DEF rest8, R8
<1>29. Piece(o, rest8 \o ActivateFile(o, "file"), 125, 138, R9)
  BY <1>28, <1>12, JoinPieces
<1> QED BY <1>29, <1>a, <1>b

LEMMA StepPiece ==
  ASSUME NEW o \in Operations, NEW s \in Steps
  PROVE  Piece(o, StepCalls(o, s), 20 * StepNo[s], 20 * StepNo[s] + 19, StepSet(o, s))
<1> DEFINE e == Effects[s]
           n == 20 * StepNo[s]
           stages == ForEach(e, LAMBDA k : Stage(o, k))
           activation == When(s = "Activate", Activation(o))
           head == <<<<"begin", s>>>> \o stages
<1>1. StepNo[s] \in 1..6 /\ (s = "Activate" => StepNo[s] = 6)
  BY StepFacts DEF StepNo
<1>2. Piece(o, <<<<"begin", s>>>>, n, n, {<<"begin", s>>})
  <2>1. <<"begin", s>> \in CallSet(o) /\ Rank(o, <<"begin", s>>) = n
    BY <1>1 DEF CallSet, Rank, StepNameRank
  <2> QED BY <2>1, OnePiece
<1>3. Piece(o, <<<<"complete", s>>>>, n + 19, n + 19, {<<"complete", s>>})
  <2>1. <<"complete", s>> \in CallSet(o) /\ Rank(o, <<"complete", s>>) = n + 19
    BY <1>1 DEF CallSet, Rank, StepNameRank
  <2> QED BY <2>1, OnePiece
<1>4. ASSUME NEW k \in Kinds, StepOf[k] = s
      PROVE  Piece(o, Stage(o, k), n + 2 * PlaceOf[k] - 1, n + 2 * PlaceOf[k], {"stage", "record"} \X (Plan[o] \cap {k}))
  <2>1. k \in Plan[o] =>
          /\ <<"stage", k>> \in CallSet(o) /\ Rank(o, <<"stage", k>>) = n + 2 * PlaceOf[k] - 1
          /\ <<"record", k>> \in CallSet(o) /\ Rank(o, <<"record", k>>) = n + 2 * PlaceOf[k]
    BY <1>4 DEF CallSet, Rank
  <2>2. n + 2 * PlaceOf[k] - 1 < n + 2 * PlaceOf[k]
    BY <1>1, <1>4, KindFacts
  <2> QED BY <2>1, <2>2, TwoPlanned DEF Stage
<1>5. Len(e) \in 0..2 /\ \A i \in 1..Len(e) : e[i] \in Kinds /\ StepOf[e[i]] = s /\ PlaceOf[e[i]] = i
  BY EffectFacts
<1>6. Piece(o, stages, n + 1, n + 4, StageSet(o, s))
  <2>1. Len(e) > 0 => Piece(o, Stage(o, e[1]), n + 1, n + 2, {"stage", "record"} \X (Plan[o] \cap {e[1]}))
    <3>1. Len(e) > 0 => e[1] \in Kinds /\ StepOf[e[1]] = s /\ PlaceOf[e[1]] = 1
      BY <1>5
    <3>2. n + 2 * 1 - 1 = n + 1 /\ n + 2 * 1 = n + 2
      BY <1>1
    <3> HIDE DEF e, n
    <3> QED BY <3>1, <3>2, <1>4
  <2>2. Len(e) > 1 => Piece(o, Stage(o, e[2]), n + 3, n + 4, {"stage", "record"} \X (Plan[o] \cap {e[2]}))
    <3>1. Len(e) > 1 => e[2] \in Kinds /\ StepOf[e[2]] = s /\ PlaceOf[e[2]] = 2
      BY <1>5
    <3>2. n + 2 * 2 - 1 = n + 3 /\ n + 2 * 2 = n + 4
      BY <1>1
    <3> HIDE DEF e, n
    <3> QED BY <3>1, <3>2, <1>4
  <2>3. /\ n + 1 \in Int /\ n + 2 \in Int /\ n + 3 \in Int /\ n + 4 \in Int
        /\ n + 1 <= n + 2 /\ n + 3 <= n + 4 /\ n + 2 < n + 3
    BY <1>1
  <2>4. Piece(o, (IF Len(e) > 0 THEN Stage(o, e[1]) ELSE <<>>)
                 \o (IF Len(e) > 1 THEN Stage(o, e[2]) ELSE <<>>), n + 1, n + 4, StageSet(o, s))
    <3> HIDE DEF n
    <3> QED BY <2>1, <2>2, <2>3, EachPiece DEF StageSet
  <2>5. stages = (IF Len(e) > 0 THEN Stage(o, e[1]) ELSE <<>>)
                 \o (IF Len(e) > 1 THEN Stage(o, e[2]) ELSE <<>>)
    BY DEF ForEach
  <2> QED BY <2>4, <2>5
<1>7. Piece(o, activation, n + 5, n + 18, IF s = "Activate" THEN ActivationSet(o) ELSE {})
  <2>1. CASE s = "Activate"
    <3>1. n + 5 = 125 /\ n + 18 = 138
      BY <1>1, <2>1
    <3> QED BY <3>1, <2>1, ActivationPiece DEF When
  <2>2. CASE s # "Activate"
    BY <2>2, NoPiece DEF When
  <2> QED BY <2>1, <2>2
<1>8. n \in Int
  BY <1>1
<1> DEFINE R1 == {<<"begin", s>>} \cup StageSet(o, s)
           R2 == R1 \cup (IF s = "Activate" THEN ActivationSet(o) ELSE {})
<1>9. StepCalls(o, s) = (head \o activation) \o <<<<"complete", s>>>>
  BY DEF StepCalls
<1>10. R2 \cup {<<"complete", s>>} = StepSet(o, s)
  BY DEF StepSet
<1> HIDE DEF n, stages, activation
<1>11. Piece(o, head, n, n + 4, R1)
  BY <1>2, <1>6, <1>8, JoinPieces
<1> HIDE DEF head, R1
<1>12. Piece(o, head \o activation, n, n + 18, R2)
  BY <1>11, <1>7, <1>8, JoinPieces
<1> HIDE DEF R2
<1>13. Piece(o, (head \o activation) \o <<<<"complete", s>>>>, n, n + 19, R2 \cup {<<"complete", s>>})
  BY <1>12, <1>3, <1>8, JoinPieces
<1> QED BY <1>9, <1>10, <1>13 DEF n

LEMMA FinishPiece ==
  ASSUME NEW o \in Operations
  PROVE  Piece(o, Finish, 150, 600, FinishSet)
<1>1. /\ <<"verify", "Succeeded">> \in CallSet(o) /\ Rank(o, <<"verify", "Succeeded">>) = 150
      /\ <<"finish", "Succeeded">> \in CallSet(o) /\ Rank(o, <<"finish", "Succeeded">>) = 151
      /\ <<"resume", "Succeeded">> \in CallSet(o) /\ Rank(o, <<"resume", "Succeeded">>) = 600
  BY DEF CallSet, Rank, NameRank
<1> QED BY <1>1, ThreePiece DEF Finish, FinishSet

RemainingSet(o, m, s) ==
  IF m.status[s] # "Applied" \/ s = "Activate" THEN StepSet(o, s) ELSE {}

ForwardSet(o, m) ==
  RemainingSet(o, m, "Prepare") \cup RemainingSet(o, m, "ApplySecrets")
  \cup RemainingSet(o, m, "MaterializeSources") \cup RemainingSet(o, m, "CompilePublication")
  \cup RemainingSet(o, m, "ApplyAgentArtifacts") \cup RemainingSet(o, m, "Activate")
  \cup FinishSet

LEMMA ForwardPiece ==
  ASSUME NEW o \in Operations, NEW m
  PROVE  Piece(o, Forward(o, m), 0, 600, ForwardSet(o, m))
<1> DEFINE F(s) == Remaining(o, m, s)
           R(s) == RemainingSet(o, m, s)
<1>1. \A s \in Steps : Piece(o, F(s), 20 * StepNo[s], 20 * StepNo[s] + 19, R(s))
  <2> TAKE s \in Steps
  <2>1. Piece(o, StepCalls(o, s), 20 * StepNo[s], 20 * StepNo[s] + 19, StepSet(o, s))
    BY StepPiece
  <2>2. CASE m.status[s] # "Applied" \/ s = "Activate"
    BY <2>1, <2>2 DEF Remaining, RemainingSet, When
  <2>3. CASE ~(m.status[s] # "Applied" \/ s = "Activate")
    BY <2>3, NoPiece DEF Remaining, RemainingSet, When
  <2> QED BY <2>2, <2>3
<1>2. /\ StepNo["Prepare"] = 1 /\ StepNo["ApplySecrets"] = 2 /\ StepNo["MaterializeSources"] = 3
      /\ StepNo["CompilePublication"] = 4 /\ StepNo["ApplyAgentArtifacts"] = 5
      /\ StepNo["Activate"] = 6
  BY DEF StepNo
<1>3. /\ Piece(o, F("Prepare"), 20, 39, R("Prepare"))
      /\ Piece(o, F("ApplySecrets"), 40, 59, R("ApplySecrets"))
      /\ Piece(o, F("MaterializeSources"), 60, 79, R("MaterializeSources"))
      /\ Piece(o, F("CompilePublication"), 80, 99, R("CompilePublication"))
      /\ Piece(o, F("ApplyAgentArtifacts"), 100, 119, R("ApplyAgentArtifacts"))
      /\ Piece(o, F("Activate"), 120, 139, R("Activate"))
  <2> HIDE DEF F, R
  <2>1. ASSUME NEW s \in Steps, NEW a, NEW b, a = 20 * StepNo[s], b = 20 * StepNo[s] + 19
        PROVE  Piece(o, F(s), a, b, R(s))
    BY <1>1, <2>1
  <2>2. Piece(o, F("Prepare"), 20, 39, R("Prepare"))
    BY <1>2, <2>1, StepFacts
  <2>3. Piece(o, F("ApplySecrets"), 40, 59, R("ApplySecrets"))
    BY <1>2, <2>1, StepFacts
  <2>4. Piece(o, F("MaterializeSources"), 60, 79, R("MaterializeSources"))
    BY <1>2, <2>1, StepFacts
  <2>5. Piece(o, F("CompilePublication"), 80, 99, R("CompilePublication"))
    BY <1>2, <2>1, StepFacts
  <2>6. Piece(o, F("ApplyAgentArtifacts"), 100, 119, R("ApplyAgentArtifacts"))
    BY <1>2, <2>1, StepFacts
  <2>7. Piece(o, F("Activate"), 120, 139, R("Activate"))
    BY <1>2, <2>1, StepFacts
  <2> QED BY <2>2, <2>3, <2>4, <2>5, <2>6, <2>7
<1>4. Piece(o, Finish, 150, 600, FinishSet)
  BY FinishPiece
<1>5. Forward(o, m) = ((((((F("Prepare") \o F("ApplySecrets")) \o F("MaterializeSources"))
                         \o F("CompilePublication")) \o F("ApplyAgentArtifacts"))
                         \o F("Activate")) \o Finish)
  BY DEF Forward
<1>6. (((((R("Prepare") \cup R("ApplySecrets")) \cup R("MaterializeSources"))
           \cup R("CompilePublication")) \cup R("ApplyAgentArtifacts"))
           \cup R("Activate")) \cup FinishSet = ForwardSet(o, m)
  BY DEF ForwardSet
<1> HIDE DEF F, R
<1>7. Piece(o, F("Prepare") \o F("ApplySecrets"), 20, 59, R("Prepare") \cup R("ApplySecrets"))
  BY <1>3, JoinPieces
<1>8. Piece(o, (F("Prepare") \o F("ApplySecrets")) \o F("MaterializeSources"), 20, 79,
            (R("Prepare") \cup R("ApplySecrets")) \cup R("MaterializeSources"))
  BY <1>3, <1>7, JoinPieces
<1>9. Piece(o, ((F("Prepare") \o F("ApplySecrets")) \o F("MaterializeSources"))
               \o F("CompilePublication"), 20, 99,
            ((R("Prepare") \cup R("ApplySecrets")) \cup R("MaterializeSources"))
               \cup R("CompilePublication"))
  BY <1>3, <1>8, JoinPieces
<1>10. Piece(o, (((F("Prepare") \o F("ApplySecrets")) \o F("MaterializeSources"))
               \o F("CompilePublication")) \o F("ApplyAgentArtifacts"), 20, 119,
            (((R("Prepare") \cup R("ApplySecrets")) \cup R("MaterializeSources"))
               \cup R("CompilePublication")) \cup R("ApplyAgentArtifacts"))
  BY <1>3, <1>9, JoinPieces
<1>11. Piece(o, ((((F("Prepare") \o F("ApplySecrets")) \o F("MaterializeSources"))
               \o F("CompilePublication")) \o F("ApplyAgentArtifacts")) \o F("Activate"), 20, 139,
            ((((R("Prepare") \cup R("ApplySecrets")) \cup R("MaterializeSources"))
               \cup R("CompilePublication")) \cup R("ApplyAgentArtifacts")) \cup R("Activate"))
  BY <1>3, <1>10, JoinPieces
<1>12. Piece(o, Forward(o, m), 20, 600, ForwardSet(o, m))
  BY <1>4, <1>5, <1>6, <1>11, JoinPieces
<1> QED BY <1>12, WiderPiece

LEMMA UndoPiece ==
  ASSUME NEW o \in Operations, NEW m, NEW s \in Steps
  PROVE  Piece(o, Undo(o, m, s), UndoRank(s), UndoRank(s) + 5,
               IF m.status[s] # "Compensated" THEN UndoSet(o, s) ELSE {})
<1> DEFINE e == Effects[s]
           n == UndoRank(s)
           P == Plan[o]
           reconciling == ForEach(e, LAMBDA k : Reconcile(o, k))
           compensating == ForEachBack(e, LAMBDA k : Compensate(o, k))
           rest1 == <<<<"compensating", s>>>> \o reconciling
           rest2 == rest1 \o compensating
           calls == rest2 \o <<<<"settle", s>>>>
<1>1. n \in Int
  BY StepFacts DEF UndoRank
<1>2. Piece(o, <<<<"compensating", s>>>>, n, n, {<<"compensating", s>>})
  <2>1. <<"compensating", s>> \in CallSet(o) /\ Rank(o, <<"compensating", s>>) = n
    BY <1>1 DEF CallSet, Rank, StepNameRank, UndoRank
  <2> QED BY <2>1, OnePiece
<1>3. Piece(o, <<<<"settle", s>>>>, n + 5, n + 5, {<<"settle", s>>})
  <2>1. <<"settle", s>> \in CallSet(o) /\ Rank(o, <<"settle", s>>) = n + 5
    BY <1>1 DEF CallSet, Rank, StepNameRank, UndoRank
  <2> QED BY <2>1, OnePiece
<1>4. ASSUME NEW k \in Kinds, StepOf[k] = s
      PROVE  /\ Piece(o, Reconcile(o, k), n + PlaceOf[k], n + PlaceOf[k], {"reconcile"} \X (P \cap {k}))
             /\ Piece(o, Compensate(o, k), n + 5 - PlaceOf[k], n + 5 - PlaceOf[k], {"compensate"} \X (P \cap {k}))
  <2>1. k \in P => <<"reconcile", k>> \in CallSet(o) /\ Rank(o, <<"reconcile", k>>) = n + PlaceOf[k]
    BY <1>4, <1>1 DEF CallSet, Rank, UndoRank
  <2>2. k \in P => <<"compensate", k>> \in CallSet(o) /\ Rank(o, <<"compensate", k>>) = n + 5 - PlaceOf[k]
    BY <1>4, <1>1 DEF CallSet, Rank, UndoRank
  <2> QED BY <2>1, <2>2, OnePlanned DEF Reconcile, Compensate
<1>5. Len(e) \in 0..2 /\ \A i \in 1..Len(e) : e[i] \in Kinds /\ StepOf[e[i]] = s /\ PlaceOf[e[i]] = i
  BY EffectFacts
<1>6. Piece(o, reconciling, n + 1, n + 2, {"reconcile"} \X (P \cap Range(e)))
  <2>1. Len(e) > 0 => Piece(o, Reconcile(o, e[1]), n + 1, n + 1, {"reconcile"} \X (P \cap {e[1]}))
    <3>1. Len(e) > 0 => e[1] \in Kinds /\ StepOf[e[1]] = s /\ PlaceOf[e[1]] = 1
      BY <1>5
    <3>2. n + 1 \in Int /\ n + 5 - 1 = n + 4 /\ n + 5 - 2 = n + 3
      BY <1>1
    <3> HIDE DEF e, n, P
    <3> QED BY <3>1, <3>2, <1>4
  <2>2. Len(e) > 1 => Piece(o, Reconcile(o, e[2]), n + 2, n + 2, {"reconcile"} \X (P \cap {e[2]}))
    <3>1. Len(e) > 1 => e[2] \in Kinds /\ StepOf[e[2]] = s /\ PlaceOf[e[2]] = 2
      BY <1>5
    <3>2. n + 1 \in Int /\ n + 5 - 1 = n + 4 /\ n + 5 - 2 = n + 3
      BY <1>1
    <3> HIDE DEF e, n, P
    <3> QED BY <3>1, <3>2, <1>4
  <2>3. n + 1 \in Int /\ n + 2 \in Int /\ n + 1 <= n + 1 /\ n + 2 <= n + 2 /\ n + 1 < n + 2
    BY <1>1
  <2>4. Piece(o, (IF Len(e) > 0 THEN Reconcile(o, e[1]) ELSE <<>>)
                 \o (IF Len(e) > 1 THEN Reconcile(o, e[2]) ELSE <<>>), n + 1, n + 2,
              {"reconcile"} \X (P \cap Range(e)))
    <3> HIDE DEF n
    <3> QED BY <2>1, <2>2, <2>3, EachPiece
  <2>5. reconciling = (IF Len(e) > 0 THEN Reconcile(o, e[1]) ELSE <<>>)
                      \o (IF Len(e) > 1 THEN Reconcile(o, e[2]) ELSE <<>>)
    BY DEF ForEach
  <2> QED BY <2>4, <2>5
<1>7. Piece(o, compensating, n + 3, n + 4, {"compensate"} \X (P \cap Range(e)))
  <2>1. Len(e) > 0 => Piece(o, Compensate(o, e[1]), n + 4, n + 4, {"compensate"} \X (P \cap {e[1]}))
    <3>1. Len(e) > 0 => e[1] \in Kinds /\ StepOf[e[1]] = s /\ PlaceOf[e[1]] = 1
      BY <1>5
    <3>2. n + 1 \in Int /\ n + 5 - 1 = n + 4 /\ n + 5 - 2 = n + 3
      BY <1>1
    <3> HIDE DEF e, n, P
    <3> QED BY <3>1, <3>2, <1>4
  <2>2. Len(e) > 1 => Piece(o, Compensate(o, e[2]), n + 3, n + 3, {"compensate"} \X (P \cap {e[2]}))
    <3>1. Len(e) > 1 => e[2] \in Kinds /\ StepOf[e[2]] = s /\ PlaceOf[e[2]] = 2
      BY <1>5
    <3>2. n + 1 \in Int /\ n + 5 - 1 = n + 4 /\ n + 5 - 2 = n + 3
      BY <1>1
    <3> HIDE DEF e, n, P
    <3> QED BY <3>1, <3>2, <1>4
  <2>3. n + 3 \in Int /\ n + 4 \in Int /\ n + 3 <= n + 3 /\ n + 4 <= n + 4 /\ n + 3 < n + 4
    BY <1>1
  <2>4. Piece(o, (IF Len(e) > 1 THEN Compensate(o, e[2]) ELSE <<>>)
                 \o (IF Len(e) > 0 THEN Compensate(o, e[1]) ELSE <<>>), n + 3, n + 4,
              {"compensate"} \X (P \cap Range(e)))
    <3> HIDE DEF n
    <3> QED BY <2>1, <2>2, <2>3, EachPiece
  <2>5. compensating = (IF Len(e) > 1 THEN Compensate(o, e[2]) ELSE <<>>)
                       \o (IF Len(e) > 0 THEN Compensate(o, e[1]) ELSE <<>>)
    BY DEF ForEachBack
  <2> QED BY <2>4, <2>5
<1> DEFINE R1 == {<<"compensating", s>>} \cup ({"reconcile"} \X (P \cap Range(e)))
           R2 == R1 \cup ({"compensate"} \X (P \cap Range(e)))
<1>8. Undo(o, m, s) = When(m.status[s] # "Compensated", calls)
  BY DEF Undo
<1>9. R2 \cup {<<"settle", s>>} = UndoSet(o, s)
  <2>1. ASSUME NEW c PROVE c \in R2 \cup {<<"settle", s>>} <=> c \in UndoSet(o, s)
    <3> DEFINE K == P \cap Range(e)
    <3>1. UndoSet(o, s) = ({"compensating", "settle"} \X {s}) \cup ({"reconcile", "compensate"} \X K)
      BY DEF UndoSet
    <3> HIDE DEF K
    <3>2. R2 = {<<"compensating", s>>} \cup ({"reconcile"} \X K) \cup ({"compensate"} \X K)
      BY DEF K
    <3> HIDE DEF R2
    <3> QED BY <3>1, <3>2
  <2> QED BY <2>1
<1> HIDE DEF n, reconciling, compensating
<1>11. Piece(o, rest1, n, n + 2, R1)
  BY <1>1, <1>2, <1>6, JoinPieces
<1> HIDE DEF rest1, R1
<1>12. Piece(o, rest2, n, n + 4, R2)
  BY <1>1, <1>11, <1>7, JoinPieces
<1> HIDE DEF rest2, R2
<1>13. Piece(o, calls, n, n + 5, R2 \cup {<<"settle", s>>})
  BY <1>1, <1>12, <1>3, JoinPieces
<1>14. Piece(o, calls, n, n + 5, UndoSet(o, s))
  BY <1>13, <1>9
<1> HIDE DEF calls
<1>15. Piece(o, When(m.status[s] # "Compensated", calls), n, n + 5,
             IF m.status[s] # "Compensated" THEN UndoSet(o, s) ELSE {})
  BY <1>14, WhenPiece
<1> QED BY <1>8, <1>15 DEF n

LEMMA ClosingPiece ==
  ASSUME NEW o \in Operations
  PROVE  Piece(o, Closing, 500, 600, ClosingSet)
<1>1. /\ <<"close", "RolledBack">> \in CallSet(o) /\ Rank(o, <<"close", "RolledBack">>) = 500
      /\ <<"resume", "RolledBack">> \in CallSet(o) /\ Rank(o, <<"resume", "RolledBack">>) = 600
  BY DEF CallSet, Rank, NameRank
<1> QED BY <1>1, TwoPiece DEF Closing, ClosingSet

UndoingSet(o, m, s) == IF m.status[s] # "Compensated" THEN UndoSet(o, s) ELSE {}

RollbackSet(o, m) ==
  (IF "publication" \in m.recorded THEN {<<"abort", "publication">>} ELSE {})
  \cup {<<"rollback", "RollingBack">>}
  \cup UndoingSet(o, m, "Activate") \cup UndoingSet(o, m, "ApplyAgentArtifacts")
  \cup UndoingSet(o, m, "CompilePublication") \cup UndoingSet(o, m, "MaterializeSources")
  \cup UndoingSet(o, m, "ApplySecrets") \cup UndoingSet(o, m, "Prepare")
  \cup ClosingSet

LEMMA RollbackPiece ==
  ASSUME NEW o \in Operations, NEW m, m.recorded \subseteq Plan[o]
  PROVE  Piece(o, Rollback(o, m), 0, 600, RollbackSet(o, m))
<1> DEFINE F(s) == Undo(o, m, s)
           R(s) == UndoingSet(o, m, s)
           A == IF "publication" \in m.recorded THEN {<<"abort", "publication">>} ELSE {}
           abort == When("publication" \in m.recorded, <<<<"abort", "publication">>>>)
           rolling == <<<<"rollback", "RollingBack">>>>
<1>1. /\ UndoRank("Prepare") = 360 /\ UndoRank("ApplySecrets") = 350
      /\ UndoRank("MaterializeSources") = 340 /\ UndoRank("CompilePublication") = 330
      /\ UndoRank("ApplyAgentArtifacts") = 320 /\ UndoRank("Activate") = 310
  BY DEF StepNo, UndoRank
<1>2. /\ Piece(o, F("Activate"), 310, 315, R("Activate"))
      /\ Piece(o, F("ApplyAgentArtifacts"), 320, 325, R("ApplyAgentArtifacts"))
      /\ Piece(o, F("CompilePublication"), 330, 335, R("CompilePublication"))
      /\ Piece(o, F("MaterializeSources"), 340, 345, R("MaterializeSources"))
      /\ Piece(o, F("ApplySecrets"), 350, 355, R("ApplySecrets"))
      /\ Piece(o, F("Prepare"), 360, 365, R("Prepare"))
  <2>1. ASSUME NEW s \in Steps, NEW a, NEW b, a = UndoRank(s), b = UndoRank(s) + 5
        PROVE  Piece(o, F(s), a, b, R(s))
    BY <2>1, UndoPiece DEF UndoingSet
  <2> HIDE DEF F, R
  <2> QED BY <1>1, <2>1, StepFacts
<1>3. Piece(o, abort, 300, 300, A)
  <2>1. "publication" \in m.recorded => Piece(o, <<<<"abort", "publication">>>>, 300, 300,
                                               {<<"abort", "publication">>})
    <3>1. "publication" \in m.recorded => <<"abort", "publication">> \in CallSet(o)
      BY DEF CallSet
    <3>2. Rank(o, <<"abort", "publication">>) = 300
      BY DEF Rank, NameRank
    <3> QED BY <3>1, <3>2, OnePiece
  <2> QED BY <2>1, NoPiece DEF When
<1>4. Piece(o, rolling, 301, 301, {<<"rollback", "RollingBack">>})
  BY OnePiece DEF CallSet, Rank, NameRank
<1>5. Rollback(o, m) = (((((((abort \o rolling) \o F("Activate")) \o F("ApplyAgentArtifacts"))
                          \o F("CompilePublication")) \o F("MaterializeSources"))
                          \o F("ApplySecrets")) \o F("Prepare")) \o Closing
  BY DEF Rollback
<1>6. (((((((A \cup {<<"rollback", "RollingBack">>}) \cup R("Activate"))
           \cup R("ApplyAgentArtifacts")) \cup R("CompilePublication"))
           \cup R("MaterializeSources")) \cup R("ApplySecrets")) \cup R("Prepare"))
           \cup ClosingSet = RollbackSet(o, m)
  BY DEF RollbackSet
<1> HIDE DEF F, R, A, abort, rolling
<1>7. Piece(o, abort \o rolling, 300, 301, A \cup {<<"rollback", "RollingBack">>})
  BY <1>3, <1>4, JoinPieces
<1> DEFINE l1 == (abort \o rolling) \o F("Activate")
           S1 == (A \cup {<<"rollback", "RollingBack">>}) \cup R("Activate")
<1>8. Piece(o, l1, 300, 315, S1)
  BY <1>2, <1>7, JoinPieces
<1> DEFINE l2 == l1 \o F("ApplyAgentArtifacts")
           S2 == S1 \cup R("ApplyAgentArtifacts")
           l3 == l2 \o F("CompilePublication")
           S3 == S2 \cup R("CompilePublication")
           l4 == l3 \o F("MaterializeSources")
           S4 == S3 \cup R("MaterializeSources")
           l5 == l4 \o F("ApplySecrets")
           S5 == S4 \cup R("ApplySecrets")
           l6 == l5 \o F("Prepare")
           S6 == S5 \cup R("Prepare")
<1>9. Rollback(o, m) = l6 \o Closing /\ S6 \cup ClosingSet = RollbackSet(o, m)
  BY <1>5, <1>6
<1> HIDE DEF l1, S1
<1>10. Piece(o, l2, 300, 325, S2)
  BY <1>2, <1>8, JoinPieces
<1> HIDE DEF l2, S2
<1>11. Piece(o, l3, 300, 335, S3)
  BY <1>2, <1>10, JoinPieces
<1> HIDE DEF l3, S3
<1>12. Piece(o, l4, 300, 345, S4)
  BY <1>2, <1>11, JoinPieces
<1> HIDE DEF l4, S4
<1>13. Piece(o, l5, 300, 355, S5)
  BY <1>2, <1>12, JoinPieces
<1> HIDE DEF l5, S5
<1>14. Piece(o, l6, 300, 365, S6)
  BY <1>2, <1>13, JoinPieces
<1> HIDE DEF l6, S6
<1>15. Piece(o, l6 \o Closing, 300, 600, S6 \cup ClosingSet)
  BY <1>14, ClosingPiece, JoinPieces
<1>16. Piece(o, Rollback(o, m), 300, 600, RollbackSet(o, m))
  BY <1>15, <1>9
<1> QED BY <1>16, WiderPiece

-----------------------------------------------------------------------------
(***************************************************************************)
(* The list of calls as the handler works through it                       *)
(***************************************************************************)
\* The first call is the least, and is not in the rest.
LEMMA StretchTail ==
  ASSUME NEW o \in Operations, NEW s, NEW a \in Int, NEW b \in Int, Stretch(o, s, a, b), s # <<>>
  PROVE  /\ Head(s) \in CallSet(o) /\ Head(s) \in Range(s)
         /\ Range(s) \subseteq CallSet(o)
         /\ Stretch(o, Tail(s), a, b)
         /\ Range(Tail(s)) = Range(s) \ {Head(s)}
         /\ \A c \in Range(Tail(s)) : Rank(o, Head(s)) < Rank(o, c)
<1> DEFINE C == CallSet(o)
           n == Len(s)
<1>1. s \in Seq(C) /\ n \in Nat /\ n > 0
  BY DEF Stretch
<1>2. /\ Head(s) = s[1] /\ Tail(s) \in Seq(C) /\ Len(Tail(s)) = n - 1
      /\ \A i \in 1..(n - 1) : Tail(s)[i] = s[i + 1]
  BY <1>1, HeadTailProperties
<1>3. \A i \in 1..n : s[i] \in C /\ a <= Rank(o, s[i]) /\ Rank(o, s[i]) <= b
  BY <1>1, ElementOfSeq DEF Stretch
<1>4. \A i, j \in 1..n : i < j => Rank(o, s[i]) < Rank(o, s[j])
  BY DEF Stretch
<1>5. \A x \in C : Rank(o, x) \in 0..600
  BY RankType
<1>6. Range(s) = {s[i] : i \in 1..n}
  BY <1>1 DEF Range
<1>7. Range(Tail(s)) = {s[i + 1] : i \in 1..(n - 1)}
  <2>1. DOMAIN Tail(s) = 1..(n - 1)
    BY <1>1, <1>2
  <2> QED BY <2>1, <1>2 DEF Range
<1>14. 1 \in 1..n
  BY <1>1
<1> HIDE DEF C
<1>8. ASSUME NEW c \in Range(Tail(s)) PROVE Rank(o, Head(s)) < Rank(o, c) /\ c \in Range(s)
  <2>1. PICK i \in 1..(n - 1) : c = s[i + 1]
    BY <1>7
  <2>2. i + 1 \in 1..n /\ 1 \in 1..n /\ 1 < i + 1
    BY <1>1, <2>1
  <2> QED BY <2>1, <2>2, <1>2, <1>4, <1>6
<1>9. Head(s) \notin Range(Tail(s))
  <2>1. Rank(o, Head(s)) \in 0..600
    BY <1>14, <1>2, <1>3, <1>5
  <2>2. \A x \in 0..600 : ~(x < x)
    OBVIOUS
  <2> QED BY <1>8, <2>1, <2>2
<1>10. ASSUME NEW c \in Range(s), c # Head(s) PROVE c \in Range(Tail(s))
  <2>1. PICK i \in 1..n : c = s[i]
    BY <1>6
  <2>2. i # 1
    BY <2>1, <1>2, <1>10
  <2>3. i - 1 \in 1..(n - 1) /\ c = s[(i - 1) + 1]
    BY <2>1, <2>2, <1>1
  <2> QED BY <2>3, <1>7
<1>11. \A i \in 1..Len(Tail(s)) : a <= Rank(o, Tail(s)[i]) /\ Rank(o, Tail(s)[i]) <= b
  <2> TAKE i \in 1..Len(Tail(s))
  <2>1. i + 1 \in 1..n /\ Tail(s)[i] = s[i + 1]
    BY <1>1, <1>2
  <2> QED BY <2>1, <1>3
<1>12. \A i, j \in 1..Len(Tail(s)) : i < j => Rank(o, Tail(s)[i]) < Rank(o, Tail(s)[j])
  <2> TAKE i, j \in 1..Len(Tail(s))
  <2>1. /\ i + 1 \in 1..n /\ Tail(s)[i] = s[i + 1]
        /\ j + 1 \in 1..n /\ Tail(s)[j] = s[j + 1]
    BY <1>1, <1>2
  <2>2. i < j => i + 1 < j + 1
    OBVIOUS
  <2> QED BY <2>1, <2>2, <1>4
<1>13. Stretch(o, Tail(s), a, b)
  BY <1>2, <1>11, <1>12 DEF Stretch, C
<1>15. Head(s) \in C /\ Head(s) \in Range(s) /\ Range(s) \subseteq C
  BY <1>2, <1>3, <1>6, <1>14
<1> QED BY <1>8, <1>9, <1>10, <1>13, <1>15 DEF C

\* A handler always has a call to make, and what it is says which way it works.
LEMMA AgendaHead ==
  ASSUME NEW o \in Operations, NEW s, Agenda(o, s)
  PROVE  /\ s # <<>>
         /\ Head(s) \in CallSet(o) /\ Head(s) \in Range(s) /\ Range(s) \subseteq CallSet(o)
         /\ Range(Tail(s)) = Range(s) \ {Head(s)}
         /\ \A c \in Range(Tail(s)) : Rank(o, Head(s)) < Rank(o, c)
         /\ Head(s)[1] \in ForwardNames \ {"resume"} => \A c \in Range(s) : c[1] \in ForwardNames
         /\ Head(s)[1] \in BackNames \ {"resume"} => \A c \in Range(s) : c[1] \in BackNames
         /\ Head(s)[1] \in Single => \A c \in Range(s) : c[1] \in Single
<1>1. s # <<>>
  <2>1. Range(<<>>) = {}
    BY DEF Range
  <2> QED BY <2>1 DEF Agenda
<1>2. /\ Head(s) \in CallSet(o) /\ Head(s) \in Range(s) /\ Range(s) \subseteq CallSet(o)
      /\ Range(Tail(s)) = Range(s) \ {Head(s)}
      /\ \A c \in Range(Tail(s)) : Rank(o, Head(s)) < Rank(o, c)
  <2>1. Stretch(o, s, 0, 600) /\ 0 \in Int /\ 600 \in Int
    BY DEF Agenda
  <2> HIDE DEF Agenda
  <2>2. /\ Head(s) \in CallSet(o) /\ Head(s) \in Range(s)
        /\ Range(s) \subseteq CallSet(o)
        /\ Stretch(o, Tail(s), 0, 600)
        /\ Range(Tail(s)) = Range(s) \ {Head(s)}
        /\ \A c \in Range(Tail(s)) : Rank(o, Head(s)) < Rank(o, c)
    BY <2>1, <1>1, StretchTail
  <2> QED BY <2>2
<1>3. OneWay(s)
  BY DEF Agenda
<1> QED BY <1>1, <1>2, <1>3 DEF OneWay, ForwardNames, BackNames, Single

LEMMA AgendaTail ==
  ASSUME NEW o \in Operations, NEW s, Agenda(o, s), Head(s)[1] \notin Single \cup {"resume"}
  PROVE  Agenda(o, Tail(s))
<1>1. s # <<>> /\ Range(Tail(s)) = Range(s) \ {Head(s)}
  BY AgendaHead
<1>2. Stretch(o, Tail(s), 0, 600)
  BY <1>1, StretchTail DEF Agenda
<1>3. OneWay(Tail(s))
  BY <1>1 DEF Agenda, OneWay
<1>4. \E c \in Range(Tail(s)) : c[1] \in Single \cup {"resume"}
  BY <1>1 DEF Agenda
<1>5. CheckpointCall \in Range(Tail(s)) => Range(Tail(s)) \cap InstallCalls = {}
  BY <1>1 DEF Agenda
<1> QED BY <1>2, <1>3, <1>4, <1>5 DEF Agenda

\* Only the installation comes between the checkpoint and what follows it.
LEMMA InstallGap ==
  ASSUME NEW o \in Operations, NEW c \in CallSet(o), 132 < Rank(o, c), c \notin InstallCalls
  PROVE  135 <= Rank(o, c)
<1>1. \A k \in Plan[o] : StepNo[StepOf[k]] \in 1..6 /\ PlaceOf[k] \in 1..2
  BY PlanFacts, KindFacts, StepFacts
<1>2. \A s \in Steps : StepNo[s] \in 1..6
  BY StepFacts
<1>3. CASE c[1] \in {"begin", "complete"} /\ c[2] \in Steps
  <2>1. Rank(o, c) = 20 * StepNo[c[2]] + StepNameRank[c[1]]
    BY <1>3 DEF Rank
  <2>2. StepNameRank[c[1]] \in {0, 19}
    BY <1>3 DEF StepNameRank
  <2> QED BY <2>1, <2>2, <1>2, <1>3
<1>4. CASE c[1] \in {"compensating", "settle"} /\ c[2] \in Steps
  <2>1. Rank(o, c) = 310 + 10 * (6 - StepNo[c[2]]) + StepNameRank[c[1]]
    BY <1>4 DEF Rank, UndoRank
  <2>2. StepNameRank[c[1]] \in 0..19
    BY <1>4 DEF StepNameRank
  <2> QED BY <2>1, <2>2, <1>2, <1>4
<1>5. CASE c[1] \in {"stage", "record"} /\ c[2] \in Plan[o]
  <2>1. \/ Rank(o, c) = 20 * StepNo[StepOf[c[2]]] + 2 * PlaceOf[c[2]] - 1
        \/ Rank(o, c) = 20 * StepNo[StepOf[c[2]]] + 2 * PlaceOf[c[2]]
    BY <1>5 DEF Rank
  <2> QED BY <2>1, <1>1, <1>5
<1>6. CASE c[1] \in {"reconcile", "compensate"} /\ c[2] \in Plan[o]
  <2>1. \/ Rank(o, c) = 310 + 10 * (6 - StepNo[StepOf[c[2]]]) + PlaceOf[c[2]]
        \/ Rank(o, c) = 310 + 10 * (6 - StepNo[StepOf[c[2]]]) + 5 - PlaceOf[c[2]]
    BY <1>6 DEF Rank, UndoRank
  <2> QED BY <2>1, <1>1, <1>6
<1>7. CASE c[1] = "activate" /\ c[2] \in Cells
  <2>1. Rank(o, c) = ActivationRank(o, c[2])
    BY <1>7 DEF Rank
  <2>2. ActivationRank(o, c[2]) \in {126, 127, 128, 130, 131, 135, 138}
    BY <1>7, KindFacts DEF ActivationRank
  <2> QED BY <2>1, <2>2
<1>8. CASE c[1] = "switch" /\ c[2] \in Files
  <2>1. Rank(o, c) = SwitchRank[c[2]]
    BY <1>8 DEF Rank
  <2>2. SwitchRank[c[2]] \in {129, 137}
    BY <1>8 DEF SwitchRank, Files
  <2> QED BY <2>1, <2>2
<1> DEFINE Others == {"checkpoint", "abort", "seal", "park", "reclaim", "suspend",
                      "verify", "finish", "resume", "enter", "rollback", "close"}
<1>9. CASE c[1] \in Others
  <2>1. Rank(o, c) = NameRank[c[1]]
    BY <1>9 DEF Rank
  <2>2. NameRank[c[1]] \in {0, 125, 132, 136, 150, 151, 300, 301, 500, 600}
    BY <1>9 DEF NameRank
  <2> QED BY <2>1, <2>2
<1>10. \/ c[1] \in {"begin", "complete"} /\ c[2] \in Steps
       \/ c[1] \in {"compensating", "settle"} /\ c[2] \in Steps
       \/ c[1] \in {"stage", "record"} /\ c[2] \in Plan[o]
       \/ c[1] \in {"reconcile", "compensate"} /\ c[2] \in Plan[o]
       \/ c[1] = "activate" /\ c[2] \in Cells
       \/ c[1] = "switch" /\ c[2] \in Files
       \/ c[1] \in Others
  BY DEF CallSet, InstallCalls
<1> QED BY <1>3, <1>4, <1>5, <1>6, <1>7, <1>8, <1>9, <1>10

\* The checkpoint is replaced by the two calls that carry it out.
LEMMA AgendaInstall ==
  ASSUME NEW o \in Operations, NEW s, Agenda(o, s), Head(s) = CheckpointCall
  PROVE  LET t == <<<<"install", "publication">>, <<"mark", "publication">>>> \o Tail(s)
         IN Agenda(o, t) /\ Range(t) = InstallCalls \cup (Range(s) \ {CheckpointCall})
<1> DEFINE pair == <<<<"install", "publication">>, <<"mark", "publication">>>>
           rest == Tail(s)
           t == pair \o rest
<1>1. /\ s # <<>> /\ CheckpointCall \in CallSet(o) /\ Range(s) \subseteq CallSet(o)
      /\ Range(rest) = Range(s) \ {CheckpointCall} /\ CheckpointCall \in Range(s)
      /\ \A c \in Range(rest) : Rank(o, CheckpointCall) < Rank(o, c)
  BY AgendaHead
<1>2. Rank(o, CheckpointCall) = 132
  BY DEF Rank, NameRank, CheckpointCall
<1>3. Range(rest) \cap InstallCalls = {}
  BY <1>1 DEF Agenda
<1>4. ASSUME NEW c \in Range(rest) PROVE 135 <= Rank(o, c) /\ Rank(o, c) <= 600
  <2>1. c \in CallSet(o) /\ 132 < Rank(o, c) /\ c \notin InstallCalls
    BY <1>1, <1>2, <1>3
  <2>2. Rank(o, c) \in 0..600
    BY <2>1, RankType
  <2> QED BY <2>1, <2>2, InstallGap
<1>5. Stretch(o, rest, 0, 600)
  BY <1>1, StretchTail DEF Agenda
<1>6. \A i \in 1..Len(rest) : rest[i] \in Range(rest)
  BY <1>5 DEF Stretch, Range
<1>7. Stretch(o, rest, 135, 600)
  BY <1>4, <1>5, <1>6 DEF Stretch
<1>8. Piece(o, pair, 133, 134, InstallCalls)
  <2>1. /\ <<"install", "publication">> \in CallSet(o) /\ <<"mark", "publication">> \in CallSet(o)
        /\ Rank(o, <<"install", "publication">>) = 133 /\ Rank(o, <<"mark", "publication">>) = 134
    BY <1>1 DEF CallSet, CheckpointCall, Rank, NameRank
  <2> QED BY <2>1, TwoPiece DEF InstallCalls
<1>9. Piece(o, rest, 135, 600, Range(rest))
  BY <1>7 DEF Piece
<1> HIDE DEF rest, pair
<1>10. Piece(o, t, 133, 600, InstallCalls \cup Range(rest))
  BY <1>8, <1>9, JoinPieces
<1>11. Range(t) = InstallCalls \cup (Range(s) \ {CheckpointCall})
  BY <1>10, <1>1 DEF Piece
<1>12. Stretch(o, t, 0, 600)
  BY <1>10, WiderPiece DEF Piece
<1>13. \A c \in Range(t) : c[1] \in ForwardNames
  <2>1. \A c \in Range(s) : c[1] \in ForwardNames
    <3>1. Head(s)[1] \in ForwardNames \ {"resume"}
      BY DEF CheckpointCall, ForwardNames
    <3> QED BY <3>1, AgendaHead
  <2> QED BY <2>1, <1>11 DEF InstallCalls, ForwardNames
<1>14. \E c \in Range(t) : c[1] \in Single \cup {"resume"}
  <2>1. PICK c \in Range(s) : c[1] \in Single \cup {"resume"}
    BY DEF Agenda
  <2>2. c # CheckpointCall
    BY <2>1 DEF CheckpointCall, Single
  <2> QED BY <2>1, <2>2, <1>11
<1>15. CheckpointCall \notin Range(t)
  BY <1>11 DEF CheckpointCall, InstallCalls
<1>16. Agenda(o, t)
  BY <1>12, <1>13, <1>14, <1>15 DEF Agenda, OneWay
<1> QED BY <1>11, <1>16 DEF t, pair, rest

LEMMA ForwardAgenda ==
  ASSUME NEW o \in Operations, NEW m
  PROVE  Agenda(o, Forward(o, m)) /\ Range(Forward(o, m)) = ForwardSet(o, m)
<1> DEFINE s == Forward(o, m)
<1>1. Stretch(o, s, 0, 600) /\ Range(s) = ForwardSet(o, m)
  BY ForwardPiece DEF Piece
<1>2. ASSUME NEW p \in Steps, NEW c \in RemainingSet(o, m, p)
      PROVE  c[1] \in ForwardNames /\ c \notin InstallCalls
  <2>1. c \in StepSet(o, p)
    BY <1>2 DEF RemainingSet
  <2> QED BY <2>1 DEF StepSet, StageSet, ActivationSet, ForwardNames, InstallCalls
<1>3. \A c \in FinishSet : c[1] \in ForwardNames /\ c \notin InstallCalls
  BY DEF FinishSet, ForwardNames, InstallCalls
<1>4. \A c \in ForwardSet(o, m) : c[1] \in ForwardNames /\ c \notin InstallCalls
  BY <1>2, <1>3, StepFacts DEF ForwardSet
<1>5. <<"resume", "Succeeded">> \in ForwardSet(o, m)
  BY DEF ForwardSet, FinishSet
<1>6. <<"resume", "Succeeded">>[1] \in Single \cup {"resume"}
  OBVIOUS
<1> HIDE DEF s
<1> QED BY <1>1, <1>4, <1>5, <1>6 DEF Agenda, OneWay, s

LEMMA RollbackAgenda ==
  ASSUME NEW o \in Operations, NEW m, m.recorded \subseteq Plan[o]
  PROVE  Agenda(o, Rollback(o, m)) /\ Range(Rollback(o, m)) = RollbackSet(o, m)
<1> DEFINE s == Rollback(o, m)
<1>1. Stretch(o, s, 0, 600) /\ Range(s) = RollbackSet(o, m)
  BY RollbackPiece DEF Piece
<1>2. ASSUME NEW p \in Steps, NEW c \in UndoingSet(o, m, p)
      PROVE  c[1] \in BackNames /\ c # CheckpointCall
  <2>1. c \in UndoSet(o, p)
    BY <1>2 DEF UndoingSet
  <2> QED BY <2>1 DEF UndoSet, BackNames, CheckpointCall
<1>3. \A c \in ClosingSet : c[1] \in BackNames /\ c # CheckpointCall
  BY DEF ClosingSet, BackNames, CheckpointCall
<1>4. \A c \in RollbackSet(o, m) : c[1] \in BackNames /\ c # CheckpointCall
  <2>1. \A c \in (IF "publication" \in m.recorded THEN {<<"abort", "publication">>} ELSE {})
                 \cup {<<"rollback", "RollingBack">>} : c[1] \in BackNames /\ c # CheckpointCall
    BY DEF BackNames, CheckpointCall
  <2> QED BY <2>1, <1>2, <1>3, StepFacts DEF RollbackSet
<1>5. <<"resume", "RolledBack">> \in RollbackSet(o, m)
  BY DEF RollbackSet, ClosingSet
<1>6. <<"resume", "RolledBack">>[1] \in Single \cup {"resume"}
  OBVIOUS
<1> HIDE DEF s
<1> QED BY <1>1, <1>4, <1>5, <1>6 DEF Agenda, OneWay, s

LEMMA ClosingAgenda ==
  ASSUME NEW o \in Operations
  PROVE  Agenda(o, Closing) /\ Range(Closing) = ClosingSet
<1>1. Piece(o, Closing, 0, 600, ClosingSet)
  BY ClosingPiece, WiderPiece
<1>2. \A c \in ClosingSet : c[1] \in BackNames /\ c # CheckpointCall
  BY DEF ClosingSet, BackNames, CheckpointCall
<1>3. \E c \in ClosingSet : c[1] \in Single \cup {"resume"}
  BY DEF ClosingSet
<1> HIDE DEF Closing
<1> QED BY <1>1, <1>2, <1>3 DEF Agenda, OneWay, Piece

TailSet == {<<"reclaim", "file">>, <<"switch", "file">>, <<"activate", "file">>}

LEMMA RetryTailAgenda ==
  ASSUME NEW o \in Operations, "file" \in Plan[o]
  PROVE  Agenda(o, RetryTail) /\ Range(RetryTail) = TailSet \cup FinishSet
<1> DEFINE tail == <<<<"reclaim", "file">>, <<"switch", "file">>, <<"activate", "file">>>>
<1>1. /\ <<"reclaim", "file">> \in CallSet(o) /\ Rank(o, <<"reclaim", "file">>) = 136
      /\ <<"switch", "file">> \in CallSet(o) /\ Rank(o, <<"switch", "file">>) = 137
      /\ <<"activate", "file">> \in CallSet(o) /\ Rank(o, <<"activate", "file">>) = 138
  BY KindFacts DEF CallSet, Rank, NameRank, SwitchRank, ActivationRank, Files
<1>2. Piece(o, tail, 136, 138, TailSet)
  BY <1>1, ThreePiece DEF TailSet
<1>3. RetryTail = tail \o Finish
  BY DEF RetryTail
<1> HIDE DEF tail
<1>4. Piece(o, RetryTail, 136, 600, TailSet \cup FinishSet)
  BY <1>2, <1>3, FinishPiece, JoinPieces
<1>5. Piece(o, RetryTail, 0, 600, TailSet \cup FinishSet)
  BY <1>4, WiderPiece
<1>6. \A c \in TailSet \cup FinishSet : c[1] \in ForwardNames /\ c # CheckpointCall
  BY DEF TailSet, FinishSet, ForwardNames, CheckpointCall
<1>7. \E c \in TailSet \cup FinishSet : c[1] \in Single \cup {"resume"}
  <2>1. <<"resume", "Succeeded">> \in FinishSet /\ <<"resume", "Succeeded">>[1] = "resume"
    BY DEF FinishSet
  <2> QED BY <2>1
<1> HIDE DEF RetryTail
<1> QED BY <1>5, <1>6, <1>7 DEF Agenda, OneWay, Piece

LEMMA SingleAgenda ==
  ASSUME NEW o \in Operations, NEW c \in CallSet(o), c[1] \in Single
  PROVE  Agenda(o, <<c>>) /\ Range(<<c>>) = {c}
<1>1. Rank(o, c) = 0
  BY DEF Rank, NameRank, Single
<1>2. Piece(o, <<c>>, 0, 600, {c})
  BY <1>1, OnePiece, WiderPiece
<1>3. c # CheckpointCall
  BY DEF CheckpointCall, Single
<1> QED BY <1>2, <1>3 DEF Agenda, OneWay, Piece

-----------------------------------------------------------------------------
(***************************************************************************)
(* What a handler knows of its next call                                   *)
(***************************************************************************)
LEMMA HandlerFacts ==
  ASSUME TypeOK, AgendaInv, cur # Nobody
  PROVE  /\ cur \in Operations /\ Agenda(cur, todo) /\ todo # <<>>
         /\ Head(todo) = <<Call, On>> /\ <<Call, On>> \in CallSet(cur)
         /\ <<Call, On>> \in Ahead /\ Ahead \subseteq CallSet(cur)
         /\ Range(Tail(todo)) = Ahead \ {<<Call, On>>}
         /\ \A c \in Ahead \ {<<Call, On>>} : Rank(cur, <<Call, On>>) < Rank(cur, c)
<1>1. cur \in Operations /\ Agenda(cur, todo)
  BY DEF TypeOK, AgendaInv
<1>2. /\ todo # <<>>
      /\ Head(todo) \in CallSet(cur) /\ Head(todo) \in Ahead /\ Ahead \subseteq CallSet(cur)
      /\ Range(Tail(todo)) = Ahead \ {Head(todo)}
      /\ \A c \in Range(Tail(todo)) : Rank(cur, Head(todo)) < Rank(cur, c)
  BY <1>1, AgendaHead DEF Ahead
<1>3. \A c \in CallSet(cur) : c = <<c[1], c[2]>>
  BY DEF CallSet
<1>4. Head(todo) = <<Call, On>>
  BY <1>2, <1>3 DEF Call, On
<1> HIDE DEF Ahead
<1> QED BY <1>1, <1>2, <1>4

\* What each call is on.
LEMMA OnFacts ==
  ASSUME TypeOK, AgendaInv, cur # Nobody
  PROVE  /\ Call \in {"begin", "complete", "compensating", "settle"} => On \in Steps
         /\ Call \in {"stage", "record", "reconcile", "compensate"} => On \in Plan[cur]
         /\ Call = "activate" => On \in Plan[cur] \cap Cells
         /\ Call = "switch" => On \in Plan[cur] \cap Files
         /\ Call \in {"checkpoint", "install", "mark", "abort"} =>
              On = "publication" /\ On \in Plan[cur]
         /\ Call \in {"seal", "park", "reclaim"} => On = "file" /\ On \in Plan[cur]
         /\ Call \in {"verify", "finish"} => On = "Succeeded"
         /\ Call = "rollback" => On = "RollingBack"
         /\ Call = "close" => On = "RolledBack"
         /\ Plan[cur] \subseteq Kinds
<1>1. cur \in Operations /\ <<Call, On>> \in CallSet(cur)
  BY HandlerFacts
<1>2. Plan[cur] \subseteq Kinds
  BY <1>1, PlanFacts
<1> QED BY <1>1, <1>2 DEF CallSet

\* The way a handler works.
LEMMA WayFacts ==
  ASSUME TypeOK, AgendaInv, cur # Nobody
  PROVE  /\ Call \in ForwardNames \ {"resume"} => \A c \in Ahead : c[1] \in ForwardNames
         /\ Call \in BackNames \ {"resume"} => \A c \in Ahead : c[1] \in BackNames
         /\ Call \in Single => \A c \in Ahead : c[1] \in Single
<1>1. cur \in Operations /\ Agenda(cur, todo) /\ Head(todo)[1] = Call
  BY HandlerFacts DEF Call
<1> QED BY <1>1, AgendaHead DEF Ahead

\* Ranks that calls are told apart by.
LEMMA RankFacts ==
  ASSUME NEW o \in Operations
  PROVE  /\ \A k \in Backing(o) : /\ k \in Plan[o] \cap Cells
                                  /\ Rank(o, <<"activate", k>>) \in 126..131
         /\ Rank(o, <<"record", "publication">>) = 82
         /\ Rank(o, <<"complete", "CompilePublication">>) = 99
         /\ Rank(o, CheckpointCall) = 132
         /\ \A c \in InstallCalls : Rank(o, c) \in 133..134
         /\ Rank(o, <<"verify", "Succeeded">>) = 150
         /\ Rank(o, <<"finish", "Succeeded">>) = 151
         /\ Rank(o, <<"abort", "publication">>) = 300
         /\ Rank(o, <<"close", "RolledBack">>) = 500
<1>1. \A k \in Backing(o) : k \in Plan[o] \cap Cells
  BY PlanFacts, KindFacts DEF Backing
<1>2. ASSUME NEW k \in Backing(o) PROVE Rank(o, <<"activate", k>>) \in 126..131
  <2>1. Rank(o, <<"activate", k>>) = ActivationRank(o, k)
    BY DEF Rank
  <2>2. ActivationRank(o, k) \in 126..131
    <3>1. k \in {"secret", "control", "artifact", "runtime"} \/ (k = "grant" /\ o \notin Revokes)
      BY DEF Backing
    <3> QED BY <3>1 DEF ActivationRank
  <2> QED BY <2>1, <2>2
<1>3. /\ Rank(o, <<"record", "publication">>) = 82
      /\ Rank(o, <<"complete", "CompilePublication">>) = 99
  BY DEF Rank, StepNo, StepOf, PlaceOf, StepNameRank
<1>4. /\ Rank(o, CheckpointCall) = 132
      /\ \A c \in InstallCalls : Rank(o, c) \in 133..134
      /\ Rank(o, <<"verify", "Succeeded">>) = 150
      /\ Rank(o, <<"finish", "Succeeded">>) = 151
      /\ Rank(o, <<"abort", "publication">>) = 300
      /\ Rank(o, <<"close", "RolledBack">>) = 500
  BY DEF Rank, NameRank, CheckpointCall, InstallCalls
<1> QED BY <1>1, <1>2, <1>3, <1>4

\* Only the return comes after the record of an outcome.
LEMMA LastFacts ==
  ASSUME TypeOK, AgendaInv, cur # Nobody
  PROVE  Call \in {"finish", "close"} => \A c \in Ahead \ {<<Call, On>>} : c[1] = "resume"
<1> SUFFICES ASSUME Call \in {"finish", "close"}, NEW c \in Ahead \ {<<Call, On>>}
             PROVE  c[1] = "resume"
  OBVIOUS
<1>1. /\ cur \in Operations /\ c \in CallSet(cur)
      /\ Rank(cur, <<Call, On>>) < Rank(cur, c)
  BY HandlerFacts
<1>2. /\ Call = "finish" => Rank(cur, <<Call, On>>) = 151 /\ c[1] \in ForwardNames
      /\ Call = "close" => Rank(cur, <<Call, On>>) = 500 /\ c[1] \in BackNames
  BY <1>1, OnFacts, RankFacts, WayFacts DEF ForwardNames, BackNames
<1>3. CASE Call = "finish"
  <2>1. 151 < Rank(cur, c) /\ c[1] \in ForwardNames
    BY <1>1, <1>2, <1>3
  <2> QED BY <1>1, <2>1, RankBounds DEF ForwardNames, NameRank
<1>4. CASE Call = "close"
  <2>1. 500 < Rank(cur, c) /\ c[1] \in BackNames
    BY <1>1, <1>2, <1>4
  <2> QED BY <1>1, <2>1, RankBounds DEF BackNames, NameRank
<1> QED BY <1>3, <1>4

-----------------------------------------------------------------------------
(***************************************************************************)
(* Types                                                                   *)
(***************************************************************************)
LEMMA EntryTypes ==
  ASSUME NEW m \in Entry
  PROVE  /\ \A s \in States : Fresh(s) \in Entry /\ [m EXCEPT !.state = s] \in Entry
         /\ [m EXCEPT !.receipt = FALSE] \in Entry
         /\ \A s \in Steps, t \in Statuses : [m EXCEPT !.status[s] = t] \in Entry
BY DEF Entry, Fresh, States, Statuses

\* The entry a call writes.
LEMMA WrittenType ==
  ASSUME TypeOK, AgendaInv, cur # Nobody
  PROVE  /\ Written(Call, On) \in Entry
         /\ Call \in {"stage", "reconcile"} => Written("record", On) \in Entry
<1>1. mem \in Entry
  BY DEF TypeOK
<1>2. \A s \in Steps : [mem EXCEPT !.state = s, !.status[s] = "Started"] \in Entry
  BY <1>1 DEF Entry, States, Statuses
<1>3. \A k \in Kinds : [mem EXCEPT !.recorded = @ \cup {k}] \in Entry
  BY <1>1 DEF Entry
<1>4. \A s \in Steps, t \in Statuses : [mem EXCEPT !.status[s] = t] \in Entry
  BY <1>1, EntryTypes
<1>5. /\ [mem EXCEPT !.decision = "Install"] \in Entry /\ [mem EXCEPT !.decision = "Abort"] \in Entry
      /\ [mem EXCEPT !.receipt = TRUE] \in Entry /\ [mem EXCEPT !.state = "RollingBack"] \in Entry
  BY <1>1 DEF Entry, States
<1>6. /\ Call \in {"begin", "complete", "compensating"} => On \in Steps
      /\ Call \in {"record", "stage", "reconcile"} => On \in Kinds
  BY OnFacts
<1>7. "Applied" \in Statuses /\ "Compensating" \in Statuses
  BY DEF Statuses
<1> QED BY <1>1, <1>2, <1>3, <1>4, <1>5, <1>6, <1>7, Zenon DEF Written

\* What a compensation leaves.
LEMMA CompensationType ==
  ASSUME NEW c \in Cells, NEW o \in Operations, NEW m \in Markers, NEW v \in Values,
         NEW b \in Values \cup {Nobody}
  PROVE  /\ Compensation(c, o, m, v, b).marker \in (Markers \ {"staged"}) \cup {m}
         /\ Compensation(c, o, m, v, b).value \in {v, b, Restored(o)}
         /\ Compensation(c, o, m, v, b).value # v => v \in {b, o}
<1>1. c \in {"secret", "control", "runtime", "grant", "artifact", "file"}
  BY KindFacts
<1>2. m \in {"none", "undone", "staged", "active"}
  BY DEF Markers
<1>3. CASE m = "none"
  BY <1>3 DEF Compensation, Answer, Markers
<1>4. CASE m = "undone"
  BY <1>4 DEF Compensation, Answer, Markers
<1>5. CASE m \in {"staged", "active"} /\ c = "grant"
  <2>1. Compensation(c, o, m, v, b) = CompensateGrant(o, m, v, b)
    BY <1>5 DEF Compensation, Rows, Files
  <2> QED BY <2>1, <1>5 DEF CompensateGrant, Answer, Markers
<1>6. CASE m \in {"staged", "active"} /\ c \in Rows \ {"grant"}
  <2>1. Compensation(c, o, m, v, b) = CompensateRow(o, m, v)
    BY <1>6 DEF Compensation, Rows, Files
  <2>2. CASE m = "staged"
    BY <2>1, <2>2 DEF CompensateRow, Answer, Markers
  <2>3. CASE m = "active" /\ v = o
    BY <2>1, <2>3 DEF CompensateRow, Answer, Markers
  <2>4. CASE m = "active" /\ v # o
    BY <2>1, <2>4 DEF CompensateRow, Answer, Markers
  <2> QED BY <1>6, <2>2, <2>3, <2>4
<1>7. CASE m \in {"staged", "active"} /\ c \in Files
  <2>1. Compensation(c, o, m, v, b) = CompensateFile(o, m, v, b)
    BY <1>7 DEF Compensation, Rows, Files
  <2>2. CASE m = "staged" /\ v = b
    BY <2>1, <2>2 DEF CompensateFile, Answer, Markers
  <2>3. CASE m = "active" /\ v = o
    BY <2>1, <2>3 DEF CompensateFile, Answer, Markers
  <2>4. CASE m = "active" /\ v = b /\ v # o
    BY <2>1, <2>4 DEF CompensateFile, Answer, Markers
  <2>5. CASE v \notin (IF m = "staged" THEN {b} ELSE {b, o})
    BY <2>1, <2>5, <1>7 DEF CompensateFile, Answer, Markers
  <2> QED BY <1>7, <2>2, <2>3, <2>4, <2>5
<1> QED BY <1>1, <1>2, <1>3, <1>4, <1>5, <1>6, <1>7 DEF Rows, Files

-----------------------------------------------------------------------------
(***************************************************************************)
(* The answers of the stores and the outcomes of the calls                 *)
(***************************************************************************)
\* What is seen as applied is active and holds what the Operation wrote.
LEMMA SeenApplied ==
  ASSUME TypeOK, cur \in Operations, NEW k \in Kinds, Seen(k) = "Applied"
  PROVE  /\ k \in Cells => marker[cur][k] = "active" /\ value[k] = cur
         /\ k = "publication" => active = cur /\ target = cur
<1>1. CASE k = "publication"
  <2>1. ObservePublication = "Applied"
    BY <1>1 DEF Seen
  <2>2. mem.status["CompilePublication"] # "Compensated"
    BY <2>1, Zenon DEF ObservePublication
  <2>3. (IF active = cur
           THEN IF uncertain THEN "Error" ELSE IF target = cur THEN "Applied" ELSE "Staged"
           ELSE IF prepared = cur THEN "Staged"
           ELSE IF active = before[cur]["publication"] THEN "Missing" ELSE "OwnershipLost")
        = "Applied"
    BY <2>1, <2>2, Zenon DEF ObservePublication
  <2> QED BY <2>3, <1>1, KindFacts
<1>2. CASE k \in Cells
  <2> DEFINE m == marker[cur][k]
             v == value[k]
             b == before[cur][k]
  <2>1. m \in {"none", "undone", "staged", "active"}
    BY <1>2 DEF TypeOK, Markers
  <2>2. Observe(k, cur, m, v, b) = "Applied"
    BY <1>2, KindFacts DEF Seen
  <2>3. k \in PinsBefore \/ k \in Rows \ PinsBefore \/ k \in Files
    BY <1>2 DEF Cells, Rows, PinsBefore
  <2>4. ASSUME ObserveRow(cur, m, v) = "Applied" PROVE m = "active" /\ v = cur
    <3>1. CASE m \in {"none", "undone"}
      <4>1. Observe(k, cur, m, v, b) = "Missing"
        BY <3>1, Zenon DEF Observe
      <4> QED BY <4>1, <2>2
    <3>2. CASE m = "staged"
      <4>1. ObserveRow(cur, m, v) = "Staged"
        BY <3>2 DEF ObserveRow
      <4> QED BY <4>1, <2>4
    <3>3. CASE m = "active" /\ v # cur
      <4>1. ObserveRow(cur, m, v) = "OwnershipLost"
        BY <3>3 DEF ObserveRow
      <4> QED BY <4>1, <2>4
    <3> QED BY <2>1, <3>1, <3>2, <3>3
  <2>5. CASE m \in {"none", "undone"}
    <3>1. Observe(k, cur, m, v, b) = "Missing"
      BY <2>5 DEF Observe
    <3> QED BY <3>1, <2>2
  <2>6. CASE m \in {"staged", "active"}
    <3>1. \/ Observe(k, cur, m, v, b) = ObservePinned(cur, m, v, b)
          \/ Observe(k, cur, m, v, b) = ObserveRow(cur, m, v)
          \/ Observe(k, cur, m, v, b) = ObserveFile(cur, m, v, b)
      BY <2>6, <2>3 DEF Observe, PinsBefore, Rows, Files
    <3>2. Observe(k, cur, m, v, b) \in {"OwnershipLost", ObserveRow(cur, m, v)}
      BY <3>1 DEF ObservePinned, ObserveFile
    <3>3. ObserveRow(cur, m, v) = "Applied"
      BY <3>2, <2>2
    <3> QED BY <3>3, <2>4, <1>2, KindFacts
  <2> QED BY <2>1, <2>5, <2>6
<1> QED BY <1>1, <1>2 DEF Kinds

LEMMA StageEffectCases ==
  ASSUME StageEffect
  PROVE  /\ Calls("stage") /\ On \in Cells
         /\ UNCHANGED <<gateway, process, counters>>
         /\ \/ Advance /\ UNCHANGED <<durable, stores, product, mem, doubt>>
            \/ /\ CanStage(marker[cur][On], value[On], before[cur][On])
               /\ marker' = [marker EXCEPT ![cur][On] = "staged"]
               /\ Advance
               /\ UNCHANGED <<durable, value, product, mem, doubt>>
            \/ FailRecorded(On)
            \/ Fail(mem) /\ UNCHANGED <<durable, stores, product>>
BY Zenon DEF StageEffect

LEMMA StagePublicationCases ==
  ASSUME StagePublication
  PROVE  /\ Calls("stage") /\ On = "publication"
         /\ UNCHANGED <<gateway, process, counters>>
         /\ \/ Advance /\ UNCHANGED <<durable, stores, product, mem, doubt>>
            \/ /\ Seen(On) = "Missing" /\ prepared = Nobody /\ prepared' = cur
               /\ Advance
               /\ UNCHANGED <<durable, stores, active, lkg, mem, doubt>>
            \/ FailRecorded(On)
            \/ Fail(mem) /\ UNCHANGED <<durable, stores, product>>
BY Zenon DEF StagePublication

LEMMA ActivateEffectCases ==
  ASSUME ActivateEffect
  PROVE  /\ Calls("activate")
         /\ UNCHANGED <<durable, product, gateway, process, counters>>
         /\ \/ Seen(On) = "Applied" /\ Advance /\ UNCHANGED <<stores, mem, doubt>>
            \/ /\ Seen(On) = "Staged"
               /\ CanActivate(On, cur, marker[cur][On], value[On], before[cur][On])
               /\ marker' = [marker EXCEPT ![cur][On] = "active"]
               /\ value' = [value EXCEPT ![On] = cur]
               /\ Advance
               /\ UNCHANGED <<mem, doubt>>
            \/ Fail(mem) /\ UNCHANGED stores
BY Zenon DEF ActivateEffect

LEMMA CheckpointCases ==
  ASSUME PreparePublicationActivation
  PROVE  /\ Calls("checkpoint")
         /\ UNCHANGED <<order, before, claim, stores, product, gateway, process, counters>>
         /\ \/ Seen(On) = "Applied" /\ Advance /\ UNCHANGED <<mem, journal, doubt>>
            \/ /\ mem.decision # "Abort"
               /\ Save(Written(Call, On))
               /\ todo' = <<<<"install", On>>, <<"mark", On>>>> \o Tail(todo)
               /\ UNCHANGED <<cur, mode, doubt>>
            \/ Fail(mem) /\ UNCHANGED journal
BY Zenon DEF PreparePublicationActivation

LEMMA MarkCases ==
  ASSUME MarkPublicationActive
  PROVE  /\ Calls("mark")
         /\ UNCHANGED <<durable, stores, gateway, process, counters>>
         /\ \/ active = cur /\ Advance /\ UNCHANGED <<product, mem, doubt>>
            \/ /\ active # cur /\ prepared = cur
               /\ active' = cur /\ lkg' = active /\ prepared' = Nobody
               /\ Advance
               /\ UNCHANGED <<mem, doubt>>
            \/ Fail(mem) /\ UNCHANGED product
BY Zenon DEF MarkPublicationActive

LEMMA ResumeCases ==
  ASSUME FinishPublicationActivation
  PROVE  /\ Calls("resume")
         /\ UNCHANGED <<durable, stores, product, counters>>
         /\ \/ ReturnOperation(mem)
            \/ /\ mem.state # "NeedsAttention"
               /\ Return /\ target' = active /\ suspended' = FALSE /\ UNCHANGED <<uncertain, process>>
            \/ ReturnError
<1>1. CASE mem.state = "NeedsAttention" \/ "publication" \notin Plan[cur]
  BY <1>1, Zenon DEF FinishPublicationActivation
<1>2. CASE ~(mem.state = "NeedsAttention" \/ "publication" \notin Plan[cur])
  BY <1>2, Zenon DEF FinishPublicationActivation
<1> QED BY <1>1, <1>2

\* An abort that is decided leaves the Operation published nowhere; every other
\* outcome ends the handler.
LEMMA AbortCases ==
  ASSUME PreparePublicationRollback
  PROVE  /\ Calls("abort")
         /\ UNCHANGED <<order, before, claim, stores, product, counters>>
         /\ \/ /\ IsCurrent /\ (mem.decision = "Abort" \/ StillBefore)
               /\ Save(Written(Call, On)) /\ Advance /\ UNCHANGED <<process, gateway, doubt>>
            \/ /\ \/ UNCHANGED journal
                  \/ /\ ~IsCurrent
                     /\ journal' = [journal EXCEPT ![cur] = [mem EXCEPT !.state = "NeedsAttention"]]
               /\ \/ ReturnError
                  \/ writesOpen' = FALSE /\ Return /\ UNCHANGED <<phase, pending, admitted, gateway>>
<1>1. CASE IsCurrent /\ (mem.decision = "Abort" \/ StillBefore)
  BY <1>1, Zenon DEF PreparePublicationRollback
<1>2. CASE IsCurrent /\ mem.decision # "Abort" /\ ~StillBefore
  BY <1>2, Zenon DEF PreparePublicationRollback
<1>3. CASE ~IsCurrent
  BY <1>3, Zenon DEF PreparePublicationRollback
<1> QED BY <1>1, <1>2, <1>3

LEMMA EnterCases ==
  ASSUME EnterOperation
  PROVE  /\ Calls("enter") /\ ~(mem.state = "Activate" /\ mem.receipt)
         /\ UNCHANGED <<durable, stores, product, counters>>
         /\ \/ ReturnOperation(mem)
            \/ /\ mem.state \notin {"Succeeded", "RolledBack"}
               /\ \/ mem.state = "NeedsAttention" /\ RollbackProven /\ todo' = Closing
                  \/ mem.state = "RollingBack" /\ todo' = Rollback(cur, mem)
                  \/ mem.state \notin {"NeedsAttention", "RollingBack"} /\ todo' = Forward(cur, mem)
               /\ UNCHANGED <<process, gateway, cur, mem, mode, doubt>>
<1>1. CASE mem.state \in {"Succeeded", "RolledBack"}
  BY <1>1 DEF EnterOperation
<1>2. CASE mem.state = "NeedsAttention" /\ ~RollbackProven
  BY <1>2, Zenon DEF EnterOperation
<1>3. CASE mem.state = "NeedsAttention" /\ RollbackProven
  <2>1. mem.state \notin {"Succeeded", "RolledBack"}
    BY <1>3
  <2> QED BY <1>3, <2>1, Zenon DEF EnterOperation
<1>4. CASE mem.state = "RollingBack"
  <2>1. mem.state \notin {"Succeeded", "RolledBack"} /\ mem.state # "NeedsAttention"
    BY <1>4
  <2> QED BY <1>4, <2>1, Zenon DEF EnterOperation
<1>5. CASE mem.state \notin {"Succeeded", "RolledBack", "NeedsAttention", "RollingBack"}
  <2>1. /\ mem.state \notin {"Succeeded", "RolledBack"} /\ mem.state # "NeedsAttention"
        /\ mem.state # "RollingBack" /\ mem.state \notin {"NeedsAttention", "RollingBack"}
    BY <1>5
  <2> QED BY <2>1, Zenon DEF EnterOperation
<1> QED BY <1>1, <1>2, <1>3, <1>4, <1>5

LEMMA ResumeTailCases ==
  ASSUME ResumeSettingsTail
  PROVE  /\ Calls("enter") /\ mem.state = "Activate" /\ mem.receipt
         /\ UNCHANGED <<order, before, claim, stores, product, counters>>
         /\ \/ ReturnError /\ UNCHANGED journal
            \/ /\ UNCHANGED <<process, gateway, cur, doubt>>
               /\ \/ /\ Seen("publication") \in {"Staged", "Missing"}
                     /\ Save([mem EXCEPT !.receipt = FALSE])
                     /\ todo' = Forward(cur, [mem EXCEPT !.receipt = FALSE])
                     /\ mode' = "strict"
                  \/ /\ Seen("publication") \notin {"Error", "Staged", "Missing"}
                     /\ UNCHANGED <<mem, journal>>
                     /\ \/ todo' = <<<<"park", "file">>>> /\ mode' = "tail"
                        \/ /\ Seen("publication") # "OwnershipLost"
                           /\ \/ todo' = RetryTail /\ mode' = "tail"
                              \/ todo' = Forward(cur, mem) /\ mode' = "strict"
<1>1. CASE Seen("publication") = "Error"
  BY <1>1, Zenon DEF ResumeSettingsTail
<1>2. CASE Seen("publication") \in {"Staged", "Missing"}
  <2>1. Seen("publication") # "Error"
    BY <1>2
  <2> QED BY <1>2, <2>1, Zenon DEF ResumeSettingsTail
<1>3. CASE Seen("publication") \notin {"Error", "Staged", "Missing"}
  <2>1. Seen("publication") # "Error" /\ Seen("publication") \notin {"Staged", "Missing"}
    BY <1>3
  <2> QED BY <1>3, <2>1, Zenon DEF ResumeSettingsTail
<1> QED BY <1>1, <1>2, <1>3

-----------------------------------------------------------------------------
\* Every step keeps the types.
LEMMA TypeStep ==
  ASSUME TypeOK, AgendaInv, JournalInv, Next
  PROVE  TypeOK'
<1> DEFINE C == Operations \cup {Nobody}
<1>a. /\ journal \in [Operations -> Entry] /\ order \in Seq(Operations)
      /\ before \in [Operations -> [Kinds -> Values \cup {Nobody}]]
      /\ claim \in C /\ active \in C /\ lkg \in C /\ prepared \in C /\ target \in C /\ cur \in C
      /\ marker \in [Operations -> [Cells -> Markers]] /\ value \in [Cells -> Values]
      /\ suspended \in BOOLEAN /\ uncertain \in BOOLEAN /\ writesOpen \in BOOLEAN
      /\ doubt \in BOOLEAN /\ phase \in {"down", "starting", "up"}
      /\ pending \subseteq Operations /\ admitted \subseteq Operations
      /\ mem \in Entry /\ mode \in {"steps", "strict", "tail"}
      /\ faults \in 0..MaxFaults /\ crashes \in 0..MaxCrashes /\ edits \in 0..MaxEdits
  BY DEF TypeOK
<1>b. /\ \A s \in States : Fresh(s) \in Entry
      /\ \A m \in Entry : /\ \A s \in States : [m EXCEPT !.state = s] \in Entry
                          /\ [m EXCEPT !.receipt = FALSE] \in Entry
                          /\ \A s \in Steps, t \in Statuses : [m EXCEPT !.status[s] = t] \in Entry
  BY <1>a, EntryTypes
<1>c. /\ {"none", "Accepted", "NeedsAttention", "Succeeded", "RolledBack"} \subseteq States
      /\ {"Attention", "Compensated"} \subseteq Statuses
      /\ {"staged", "active"} \subseteq Markers
  BY DEF States, Statuses, Terminal, Markers
<1>d. cur # Nobody => /\ cur \in Operations
                      /\ Written(Call, On) \in Entry
                      /\ Call \in {"stage", "reconcile"} => Written("record", On) \in Entry
                      /\ Call \in {"activate", "switch"} => On \in Cells
                      /\ Call = "settle" => On \in Steps
  BY <1>a, HandlerFacts, WrittenType, OnFacts DEF Cells
<1>e. Fresh("none") \in Entry /\ \A o \in Operations : o \in Values
  BY <1>b, <1>c DEF Values
<1>f. MaxFaults \in Nat /\ MaxCrashes \in Nat /\ MaxEdits \in Nat
  BY BoundAssumption

<1>1. CASE \E o \in Operations : Accept(o)
  <2>1. PICK o \in Operations : Accept(o)
    BY <1>1
  <2>2. order' \in Seq(Operations)
    BY <1>a, <2>1 DEF Accept
  <2>3. before' \in [Operations -> [Kinds -> Values \cup {Nobody}]]
    <3>1. \A k \in Kinds : k # "publication" => value[k] \in Values
      BY <1>a DEF Kinds
    <3>2. [k \in Kinds |-> IF k = "publication" THEN active ELSE value[k]]
            \in [Kinds -> Values \cup {Nobody}]
      BY <3>1, <1>a, <1>e
    <3> QED BY <3>2, <1>a, <2>1 DEF Accept
  <2>4. journal' \in [Operations -> Entry] /\ claim' = o /\ admitted' \subseteq Operations
    BY <1>a, <1>b, <1>c, <2>1 DEF Accept
  <2> QED BY <1>a, <2>1, <2>2, <2>3, <2>4 DEF TypeOK, Accept, durable, stores, product, gateway, process, handler, counters
<1>2. CASE \E o \in Operations : AcceptAgain(o)
  BY <1>a, <1>b, <1>c, <1>d, <1>e, <1>f, <1>2
     DEF TypeOK, AcceptAgain, durable, stores, product, gateway, process, handler, counters
<1>3. CASE \E o \in Operations : RunAccepted(o)
  BY <1>a, <1>b, <1>c, <1>d, <1>e, <1>f, <1>3
     DEF TypeOK, RunAccepted, Take, durable, stores, product, gateway, process, handler, counters
<1>4. CASE Restart
  <2>1. pending' \subseteq Operations
    <3>1. Range(order) \subseteq Operations
      BY <1>a DEF Range
    <3> QED BY <3>1, <1>4 DEF Restart
  <2> QED BY <1>a, <1>4, <2>1 DEF TypeOK, Restart, durable, stores, product, gateway, process, handler, counters
<1>5. CASE Recover
  BY <1>a, <1>b, <1>c, <1>d, <1>e, <1>f, <1>5
     DEF TypeOK, Recover, Take, durable, stores, product, gateway, process, handler, counters
<1>6. CASE OpenWrites
  BY <1>a, <1>b, <1>c, <1>d, <1>e, <1>f, <1>6
     DEF TypeOK, OpenWrites, Stop, durable, stores, product, gateway, process, handler, counters
<1>7. CASE EnterOperation
  BY <1>a, <1>b, <1>c, <1>d, <1>e, <1>f, <1>7, EnterCases, ZenonT(60)
     DEF TypeOK, ReturnOperation, Return, Stop, durable, stores, product, gateway, process, handler, counters
<1>8. CASE ResumeSettingsTail
  BY <1>a, <1>b, <1>c, <1>d, <1>e, <1>f, <1>8, ResumeTailCases, ZenonT(60)
     DEF TypeOK, ReturnError, Return, Stop, Save, durable, stores, product, gateway, process, handler, counters
<1>9. CASE SaveProgress
  BY <1>a, <1>b, <1>c, <1>d, <1>e, <1>f, <1>9
     DEF TypeOK, SaveProgress, Calls, Save, Advance, durable, stores, product, gateway, process, handler, counters
<1>10. CASE StageEffect
  <2>1. /\ cur # Nobody /\ Call = "stage" /\ On \in Cells /\ cur \in Operations
        /\ UNCHANGED <<gateway, process, counters>>
    BY <1>10, <1>d, StageEffectCases DEF Calls
  <2>2. CASE Advance /\ UNCHANGED <<durable, stores, product, mem, doubt>>
    BY <1>a, <2>1, <2>2 DEF TypeOK, Advance, durable, stores, product, gateway, process, handler, counters
  <2>3. CASE /\ marker' = [marker EXCEPT ![cur][On] = "staged"]
             /\ Advance
             /\ UNCHANGED <<durable, value, product, mem, doubt>>
    BY <1>a, <1>c, <2>1, <2>3 DEF TypeOK, Advance, durable, stores, product, gateway, process, handler, counters
  <2>4. CASE FailRecorded(On)
    BY <1>a, <1>d, <2>1, <2>4 DEF TypeOK, FailRecorded, Fail, durable, stores, product, gateway, process, handler, counters
  <2>5. CASE Fail(mem) /\ UNCHANGED <<durable, stores, product>>
    BY <1>a, <2>1, <2>5 DEF TypeOK, Fail, durable, stores, product, gateway, process, handler, counters
  <2> QED BY <1>10, StageEffectCases, <2>2, <2>3, <2>4, <2>5
<1>11. CASE StagePublication
  <2>1. /\ cur # Nobody /\ Call = "stage" /\ cur \in Operations
        /\ UNCHANGED <<gateway, process, counters>>
    BY <1>11, <1>d, StagePublicationCases DEF Calls
  <2>2. CASE Advance /\ UNCHANGED <<durable, stores, product, mem, doubt>>
    BY <1>a, <2>1, <2>2 DEF TypeOK, Advance, durable, stores, product, gateway, process, handler, counters
  <2>3. CASE /\ prepared' = cur
             /\ Advance
             /\ UNCHANGED <<durable, stores, active, lkg, mem, doubt>>
    BY <1>a, <2>1, <2>3 DEF TypeOK, Advance, durable, stores, product, gateway, process, handler, counters
  <2>4. CASE FailRecorded(On)
    BY <1>a, <1>d, <2>1, <2>4 DEF TypeOK, FailRecorded, Fail, durable, stores, product, gateway, process, handler, counters
  <2>5. CASE Fail(mem) /\ UNCHANGED <<durable, stores, product>>
    BY <1>a, <2>1, <2>5 DEF TypeOK, Fail, durable, stores, product, gateway, process, handler, counters
  <2> QED BY <1>11, StagePublicationCases, <2>2, <2>3, <2>4, <2>5
<1>12. CASE RecordEffect
  BY <1>a, <1>b, <1>c, <1>d, <1>e, <1>f, <1>12
     DEF TypeOK, RecordEffect, Calls, Save, Advance, durable, stores, product, gateway, process, handler, counters
<1>13. CASE BeginPublicationActivation
  BY <1>a, <1>b, <1>c, <1>d, <1>e, <1>f, <1>13, ZenonT(60)
     DEF TypeOK, BeginPublicationActivation, Fail, Advance, durable, stores, product, gateway, process, handler, counters
<1>14. CASE SwitchFile
  BY <1>a, <1>b, <1>c, <1>d, <1>e, <1>f, <1>14, ZenonT(60)
     DEF TypeOK, SwitchFile, Calls, Fail, Advance, durable, stores, product, gateway, process, handler, counters
<1>15. CASE ActivateEffect
  <2>1. /\ cur # Nobody /\ Call = "activate" /\ On \in Cells /\ cur \in Operations
        /\ UNCHANGED <<durable, product, gateway, process, counters>>
    BY <1>15, <1>d, ActivateEffectCases DEF Calls
  <2>2. CASE Advance /\ UNCHANGED <<stores, mem, doubt>>
    BY <1>a, <2>1, <2>2 DEF TypeOK, Advance, durable, stores, product, gateway, process, handler, counters
  <2>3. CASE /\ marker' = [marker EXCEPT ![cur][On] = "active"]
             /\ value' = [value EXCEPT ![On] = cur]
             /\ Advance
             /\ UNCHANGED <<mem, doubt>>
    BY <1>a, <1>c, <1>e, <2>1, <2>3 DEF TypeOK, Advance, durable, stores, product, gateway, process, handler, counters
  <2>4. CASE Fail(mem) /\ UNCHANGED stores
    BY <1>a, <2>1, <2>4 DEF TypeOK, Fail, durable, stores, product, gateway, process, handler, counters
  <2> QED BY <1>15, ActivateEffectCases, <2>2, <2>3, <2>4
<1>16. CASE PreparePublicationActivation
  BY <1>a, <1>b, <1>c, <1>d, <1>e, <1>f, <1>16, CheckpointCases, ZenonT(60)
     DEF TypeOK, Calls, Save, Fail, Advance, durable, stores, product, gateway, process, handler, counters
<1>17. CASE InstallPublication
  BY <1>a, <1>b, <1>c, <1>d, <1>e, <1>f, <1>17
     DEF TypeOK, InstallPublication, Fail, Advance, durable, stores, product, gateway, process, handler, counters
<1>18. CASE MarkPublicationActive
  BY <1>a, <1>b, <1>c, <1>d, <1>e, <1>f, <1>18, MarkCases
     DEF TypeOK, Fail, Advance, durable, stores, product, gateway, process, handler, counters
<1>19. CASE SealSettingsServiceCompletion
  BY <1>a, <1>b, <1>c, <1>d, <1>e, <1>f, <1>19, ZenonT(60)
     DEF TypeOK, SealSettingsServiceCompletion, Calls, Save, Fail, Advance, durable, stores, product, gateway, process, handler, counters
<1>20. CASE ReconcileTerminalSuccess
  BY <1>a, <1>b, <1>c, <1>d, <1>e, <1>f, <1>20
     DEF TypeOK, ReconcileTerminalSuccess, durable, stores, product, gateway, process, handler, counters
<1>21. CASE FinishSuccess
  <2>1. /\ cur \in Operations
        /\ UNCHANGED <<order, before, stores, product, counters>>
    BY <1>21, <1>d DEF FinishSuccess, Calls
  <2>2. FinishReleasing("Succeeded")
    BY <1>21 DEF FinishSuccess
  <2>3. CASE claim = cur
    <3>1. [mem EXCEPT !.state = "Succeeded"] \in Entry
      BY <1>a, <1>b, <1>c
    <3> QED BY <1>a, <3>1, <2>1, <2>2, <2>3, ZenonT(60) DEF TypeOK, FinishReleasing, Save, Advance, durable, stores, product, gateway, process, handler, counters
  <2>4. CASE claim # cur
    BY <1>a, <1>e, <2>1, <2>2, <2>4 DEF TypeOK, FinishReleasing, ReturnError, Return, Stop, durable, stores, product, gateway, process, handler, counters
  <2> QED BY <2>3, <2>4
<1>22. CASE FinishPublicationActivation
  BY <1>a, <1>b, <1>c, <1>d, <1>e, <1>f, <1>22, ResumeCases, ZenonT(60)
     DEF TypeOK, ReturnOperation, ReturnError, Return, Stop, durable, stores, product, gateway, process, handler, counters
<1>23. CASE SaveOperationTail
  BY <1>a, <1>b, <1>c, <1>d, <1>e, <1>f, <1>23, ZenonT(60)
     DEF TypeOK, SaveOperationTail, ReturnOperation, ReturnError, Return, Stop, Calls, durable, stores, product, gateway, process, handler, counters
<1>24. CASE ReclaimOperationWriter
  BY <1>a, <1>b, <1>c, <1>d, <1>e, <1>f, <1>24, ZenonT(60)
     DEF TypeOK, ReclaimOperationWriter, ReturnError, Return, Stop, Advance, Calls, durable, stores, product, gateway, process, handler, counters
<1>25. CASE PreparePublicationRollback
  <2>1. cur \in Operations /\ UNCHANGED <<order, before, claim, stores, product, counters>>
    BY <1>25, <1>d, AbortCases DEF Calls
  <2>2. CASE Save(Written(Call, On)) /\ Advance /\ UNCHANGED <<process, gateway, doubt>>
    <3>1. Written(Call, On) \in Entry
      BY <1>25, <1>d, AbortCases DEF Calls
    <3> QED BY <1>a, <2>1, <2>2, <3>1 DEF TypeOK, Save, Advance, durable, stores, product, gateway, process, handler, counters
  <2>3. CASE /\ \/ UNCHANGED journal
                \/ journal' = [journal EXCEPT ![cur] = [mem EXCEPT !.state = "NeedsAttention"]]
             /\ \/ ReturnError
                \/ writesOpen' = FALSE /\ Return /\ UNCHANGED <<phase, pending, admitted, gateway>>
    <3>1. journal' \in [Operations -> Entry]
      <4>1. [mem EXCEPT !.state = "NeedsAttention"] \in Entry
        BY <1>a, <1>b, <1>c
      <4> QED BY <1>a, <2>1, <2>3, <4>1
    <3> QED BY <1>a, <1>e, <2>1, <2>3, <3>1 DEF TypeOK, ReturnError, Return, Stop, durable, stores, product, gateway, process, handler, counters
  <2> QED BY <1>25, AbortCases, <2>2, <2>3
<1>26. CASE SaveRollbackProgress
  BY <1>a, <1>b, <1>c, <1>d, <1>e, <1>f, <1>26
     DEF TypeOK, SaveRollbackProgress, Calls, Save, Advance, durable, stores, product, gateway, process, handler, counters
<1>27. CASE ReconcileForRollback
  BY <1>a, <1>b, <1>c, <1>d, <1>e, <1>f, <1>27
     DEF TypeOK, ReconcileForRollback, Calls, Save, durable, stores, product, gateway, process, handler, counters
<1>28. CASE CompensateEffect
  <2> DEFINE result == Compensation(On, cur, marker[cur][On], value[On], before[cur][On])
  <2>1. cur \in Operations /\ On \in Cells /\ Call = "compensate"
    BY <1>28, <1>d DEF CompensateEffect, Calls
  <2>2. /\ marker[cur][On] \in Markers /\ value[On] \in Values /\ before[cur][On] \in Values
        /\ Restored(cur) \in Values
    BY <1>a, <2>1 DEF JournalInv, Values
  <2>3. result.marker \in Markers /\ result.value \in Values
    BY <2>1, <2>2, CompensationType
  <2> HIDE DEF result
  <2>4. \/ /\ marker' = [marker EXCEPT ![cur][On] = result.marker]
           /\ value' = [value EXCEPT ![On] = result.value]
        \/ UNCHANGED stores
    BY <1>28 DEF CompensateEffect, result
  <2>5. marker' \in [Operations -> [Cells -> Markers]] /\ value' \in [Cells -> Values]
    <3>1. marker \in [Operations -> [Cells -> Markers]] /\ value \in [Cells -> Values]
      BY <1>a
    <3>2. CASE UNCHANGED stores
      BY <3>1, <3>2 DEF stores
    <3>3. CASE /\ marker' = [marker EXCEPT ![cur][On] = result.marker]
               /\ value' = [value EXCEPT ![On] = result.value]
      <4>1. value' \in [Cells -> Values]
        BY <3>1, <3>3, <2>3
      <4>2. [marker[cur] EXCEPT ![On] = result.marker] \in [Cells -> Markers]
        BY <3>1, <2>1, <2>3
      <4>3. marker' = [marker EXCEPT ![cur] = [marker[cur] EXCEPT ![On] = result.marker]]
        BY <3>3
      <4> QED BY <3>1, <4>1, <4>2, <4>3
    <3> QED BY <2>4, <3>2, <3>3
  <2>6. doubt' \in BOOLEAN
    BY <1>28 DEF CompensateEffect
  <2>7. UNCHANGED <<durable, product, gateway, process, cur, mem, mode, counters>>
    BY <1>28 DEF CompensateEffect
  <2> QED BY <1>a, <2>5, <2>6, <2>7 DEF TypeOK, durable, stores, product, gateway, process, handler, counters
<1>29. CASE CompensatePublication
  BY <1>a, <1>b, <1>c, <1>d, <1>e, <1>f, <1>29, ZenonT(60)
     DEF TypeOK, CompensatePublication, Calls, durable, stores, product, gateway, process, handler, counters
<1>30. CASE SettleCompensation
  BY <1>a, <1>b, <1>c, <1>d, <1>e, <1>f, <1>30
     DEF TypeOK, SettleCompensation, Calls, Save, Advance, durable, stores, product, gateway, process, handler, counters
<1>31. CASE FinishRollback
  <2>1. /\ cur \in Operations
        /\ UNCHANGED <<order, before, stores, product, counters>>
    BY <1>31, <1>d DEF FinishRollback, Calls
  <2>2. [mem EXCEPT !.state = "RolledBack"] \in Entry /\ [mem EXCEPT !.state = "NeedsAttention"] \in Entry
    BY <1>a, <1>b, <1>c
  <2>3. CASE FinishReleasing("RolledBack")
    <3>1. CASE claim = cur
      BY <1>a, <2>1, <2>2, <2>3, <3>1, ZenonT(60) DEF TypeOK, FinishReleasing, Save, Advance, durable, stores, product, gateway, process, handler, counters
    <3>2. CASE claim # cur
      BY <1>a, <1>e, <2>1, <2>3, <3>2 DEF TypeOK, FinishReleasing, ReturnError, Return, Stop, durable, stores, product, gateway, process, handler, counters
    <3> QED BY <3>1, <3>2
  <2>4. CASE /\ Save([mem EXCEPT !.state = "NeedsAttention"])
             /\ Advance
             /\ UNCHANGED <<claim, process, gateway, doubt>>
    BY <1>a, <2>1, <2>2, <2>4 DEF TypeOK, Save, Advance, durable, stores, product, gateway, process, handler, counters
  <2> QED BY <1>31, <2>3, <2>4 DEF FinishRollback
<1>32. CASE InstallUncertain
  BY <1>a, <1>b, <1>c, <1>d, <1>e, <1>f, <1>32
     DEF TypeOK, InstallUncertain, Calls, Fail, durable, stores, product, gateway, process, handler, counters
<1>33. CASE StepFails
  BY <1>a, <1>b, <1>c, <1>d, <1>e, <1>f, <1>33
     DEF TypeOK, StepFails, Fail, durable, stores, product, gateway, process, handler, counters
<1>34. CASE VerificationFails
  <2>1. /\ cur \in Operations
        /\ UNCHANGED <<order, before, claim, stores, product, gateway, process, cur, mode, doubt,
                       crashes, edits>>
    BY <1>34, <1>d DEF VerificationFails, Calls
  <2>2. faults' \in 0..MaxFaults
    BY <1>a, <1>f, <1>34 DEF VerificationFails
  <2>3. \/ UNCHANGED <<mem, journal>>
        \/ Save([mem EXCEPT !.state = "NeedsAttention"])
    BY <1>34 DEF VerificationFails
  <2>4. mem' \in Entry /\ journal' \in [Operations -> Entry]
    <3>1. [mem EXCEPT !.state = "NeedsAttention"] \in Entry
      BY <1>a, <1>b, <1>c
    <3> QED BY <1>a, <2>1, <2>3, <3>1 DEF Save
  <2> QED BY <1>a, <2>1, <2>2, <2>4 DEF TypeOK, durable, stores, product, gateway, process, handler, counters
<1>35. CASE CompensationFails
  BY <1>a, <1>b, <1>c, <1>d, <1>e, <1>f, <1>35
     DEF TypeOK, CompensationFails, Calls, durable, stores, product, gateway, process, handler, counters
<1>36. CASE HandlerFails
  <2>1. faults' \in 0..MaxFaults
    BY <1>a, <1>f, <1>36 DEF HandlerFails
  <2>2. ReturnError /\ UNCHANGED <<durable, stores, product, crashes, edits>>
    BY <1>36 DEF HandlerFails
  <2> QED BY <1>a, <1>e, <2>1, <2>2 DEF TypeOK, ReturnError, Return, Stop, durable, stores, product, gateway, process, handler, counters
<1>37. CASE Crash
  <2>1. crashes' \in 0..MaxCrashes
    BY <1>a, <1>f, <1>37 DEF Crash
  <2>2. Stop /\ UNCHANGED <<durable, stores, product, target, faults, edits>>
    BY <1>37 DEF Crash
  <2> QED BY <1>a, <1>e, <2>1, <2>2 DEF TypeOK, Stop, durable, stores, product, gateway, process, handler, counters
<1>38. CASE \E f \in Files : EditFile(f)
  BY <1>a, <1>b, <1>c, <1>d, <1>e, <1>f, <1>38
     DEF TypeOK, EditFile, Values, Cells, durable, stores, product, gateway, process, handler, counters
<1> QED BY <1>1, <1>2, <1>3, <1>4, <1>5, <1>6, <1>7, <1>8, <1>9, <1>10, <1>11, <1>12, <1>13, <1>14, <1>15, <1>16, <1>17, <1>18, <1>19, <1>20, <1>21, <1>22, <1>23, <1>24, <1>25, <1>26, <1>27, <1>28, <1>29, <1>30, <1>31, <1>32, <1>33, <1>34, <1>35, <1>36, <1>37, <1>38 DEF Next, Continue, Startup, Environment, Request

-----------------------------------------------------------------------------
(***************************************************************************)
(* What holds of a handler after a step, by what the step made of the list *)
(* of calls                                                                *)
(***************************************************************************)
LEMMA Returned ==
  ASSUME cur' = Nobody, mode' = "steps"
  PROVE  HandlerInv'
BY DEF HandlerInv, AgendaInv, CopyInv, CurrentInv, ActivationInv, VerifiedInv, RollbackInv

\* Nothing is undone and nothing is published without a list that says so.
LEMMA QuietList ==
  ASSUME cur' \in Operations, Agenda(cur', todo'), CopyInv', CurrentInv',
         \A c \in Ahead' : c[1] \notin {"checkpoint", "install", "mark", "complete",
                                        "finish", "compensate"}
  PROVE  HandlerInv'
<1>1. AgendaInv'
  BY DEF AgendaInv
<1>2. /\ Ahead' \cap PublishCalls = {} /\ Ahead' \cap InstallCalls = {}
      /\ <<"complete", "CompilePublication">> \notin Ahead'
      /\ <<"finish", "Succeeded">> \notin Ahead'
  BY DEF PublishCalls, InstallCalls, CheckpointCall
<1>3. ActivationInv' /\ VerifiedInv' /\ RollbackInv'
  BY <1>2 DEF ActivationInv, VerifiedInv, RollbackInv
<1> QED BY <1>1, <1>3 DEF HandlerInv

\* The handler takes an Operation.
LEMMA Taken ==
  ASSUME cur' \in Operations, NEW how \in {"run", "startup"}, todo' = <<<<"enter", how>>>>,
         mem' = journal'[cur'], CopyInv'
  PROVE  HandlerInv'
<1>1. <<"enter", how>> \in CallSet(cur')
  BY DEF CallSet
<1>2. Agenda(cur', todo') /\ Ahead' = {<<"enter", how>>}
  BY <1>1, SingleAgenda DEF Single, Ahead
<1>3. CurrentInv'
  BY <1>2 DEF CurrentInv
<1> QED BY <1>2, <1>3, QuietList

LEMMA NewPark ==
  ASSUME cur' \in Operations, "file" \in Plan[cur'], todo' = <<<<"park", "file">>>>,
         mem'.state \notin {"Succeeded", "RolledBack"}, CopyInv'
  PROVE  HandlerInv'
<1>1. <<"park", "file">> \in CallSet(cur')
  BY DEF CallSet
<1>2. Agenda(cur', todo') /\ Ahead' = {<<"park", "file">>}
  BY <1>1, SingleAgenda DEF Single, Ahead
<1>3. CurrentInv'
  BY <1>2 DEF CurrentInv, ForwardNames
<1> QED BY <1>2, <1>3, QuietList

LEMMA NewClosing ==
  ASSUME cur' \in Operations, todo' = Closing,
         mem'.state \notin {"Succeeded", "RolledBack"}, CopyInv'
  PROVE  HandlerInv'
<1>1. Agenda(cur', todo') /\ Ahead' = ClosingSet
  BY ClosingAgenda DEF Ahead
<1>2. CurrentInv'
  BY <1>1 DEF CurrentInv, ClosingSet, ForwardNames
<1> QED BY <1>1, <1>2, QuietList DEF ClosingSet

LEMMA NewRetryTail ==
  ASSUME cur' \in Operations, "file" \in Plan[cur'], todo' = RetryTail,
         mem' = journal'[cur'], mem'.state \notin {"Succeeded", "RolledBack"}, CopyInv'
  PROVE  HandlerInv'
<1>1. Agenda(cur', todo') /\ Ahead' = TailSet \cup FinishSet
  BY RetryTailAgenda DEF Ahead
<1>2. CurrentInv'
  BY DEF CurrentInv
<1>3. /\ Ahead' \cap PublishCalls = {} /\ Ahead' \cap InstallCalls = {}
      /\ <<"complete", "CompilePublication">> \notin Ahead'
      /\ <<"verify", "Succeeded">> \in Ahead'
      /\ \A c \in Ahead' : c[1] # "compensate"
  BY <1>1 DEF PublishCalls, InstallCalls, CheckpointCall, TailSet, FinishSet
<1>4. AgendaInv' /\ ActivationInv' /\ VerifiedInv' /\ RollbackInv'
  BY <1>1, <1>3 DEF AgendaInv, ActivationInv, VerifiedInv, RollbackInv
<1> QED BY <1>2, <1>4 DEF HandlerInv

LEMMA NewForward ==
  ASSUME cur' \in Operations, todo' = Forward(cur', mem'),
         mem' = journal'[cur'], mem'.state \notin {"Succeeded", "RolledBack"}, CopyInv'
  PROVE  HandlerInv'
<1>1. Agenda(cur', todo') /\ Ahead' = ForwardSet(cur', mem')
  BY ForwardAgenda DEF Ahead
<1>2. CurrentInv'
  BY DEF CurrentInv
<1>3. StepSet(cur', "Activate") \subseteq Ahead' /\ FinishSet \subseteq Ahead'
  BY <1>1 DEF ForwardSet, RemainingSet
<1>4. \A k \in Backing(cur') : <<"activate", k>> \in Ahead'
  <2>1. \A k \in Backing(cur') : k \in Plan[cur'] \cap Cells
    BY KindFacts DEF Backing
  <2>2. \A k \in Plan[cur'] \cap Cells : <<"activate", k>> \in StepSet(cur', "Activate")
    BY DEF StepSet, ActivationSet
  <2> QED BY <2>1, <2>2, <1>3
<1>5. "publication" \in Plan[cur'] =>
        "publication" \in mem'.recorded \/ <<"record", "publication">> \in Ahead'
  <2>1. CASE mem'.status["CompilePublication"] = "Applied"
    BY <2>1, PlanAssumption DEF CopyInv, EntryInv
  <2>2. CASE mem'.status["CompilePublication"] # "Applied"
    <3>1. StepSet(cur', "CompilePublication") \subseteq Ahead'
      BY <1>1, <2>2 DEF ForwardSet, RemainingSet
    <3>2. "publication" \in Range(Effects["CompilePublication"])
      <4>1. Effects["CompilePublication"] = <<"publication">>
        BY DEF Effects
      <4> QED BY <4>1 DEF Range
    <3>3. "publication" \in Plan[cur'] =>
            <<"record", "publication">> \in StepSet(cur', "CompilePublication")
      BY <3>2 DEF StepSet, StageSet
    <3> QED BY <3>1, <3>3
  <2> QED BY <2>1, <2>2
<1>6. Ahead' \cap InstallCalls = {}
  <2>1. ASSUME NEW p \in Steps, NEW c \in RemainingSet(cur', mem', p) PROVE c \notin InstallCalls
    <3>1. c \in StepSet(cur', p)
      BY <2>1 DEF RemainingSet
    <3> QED BY <3>1 DEF StepSet, StageSet, ActivationSet, InstallCalls
  <2>2. \A c \in FinishSet : c \notin InstallCalls
    BY DEF FinishSet, InstallCalls
  <2> QED BY <2>1, <2>2, <1>1, StepFacts DEF ForwardSet
<1>7. <<"verify", "Succeeded">> \in Ahead'
  BY <1>3 DEF FinishSet
<1>8. \A c \in Ahead' : c[1] # "compensate"
  <2>1. <<"verify", "Succeeded">>[1] \in ForwardNames /\ <<"verify", "Succeeded">>[1] \notin BackNames
        /\ <<"verify", "Succeeded">>[1] \notin Single
    BY DEF ForwardNames, BackNames, Single
  <2>2. OneWay(todo')
    BY <1>1 DEF Agenda
  <2> QED BY <1>7, <2>1, <2>2 DEF OneWay, ForwardNames, Ahead
<1>9. AgendaInv' /\ ActivationInv' /\ VerifiedInv' /\ RollbackInv'
  BY <1>1, <1>4, <1>5, <1>6, <1>7, <1>8 DEF AgendaInv, ActivationInv, VerifiedInv, RollbackInv
<1> QED BY <1>2, <1>9 DEF HandlerInv

LEMMA NewRollback ==
  ASSUME cur' \in Operations, todo' = Rollback(cur', mem'),
         mem'.state \notin {"Succeeded", "RolledBack"}, CopyInv', PublishedInv'
  PROVE  HandlerInv'
<1>1. cur' # Nobody /\ mem'.recorded \subseteq Plan[cur']
  BY PlanAssumption DEF CopyInv, EntryInv
<1>2. Agenda(cur', todo') /\ Ahead' = RollbackSet(cur', mem')
  BY <1>1, RollbackAgenda DEF Ahead
<1>3. \A c \in Ahead' : c[1] \in BackNames
  <2>1. OneWay(todo') /\ <<"close", "RolledBack">> \in Ahead'
    BY <1>2 DEF Agenda, RollbackSet, ClosingSet
  <2> QED BY <2>1 DEF OneWay, Ahead, ForwardNames, BackNames, Single
<1>4. CurrentInv'
  BY <1>3 DEF CurrentInv, ForwardNames, BackNames
<1>5. /\ Ahead' \cap PublishCalls = {} /\ Ahead' \cap InstallCalls = {}
      /\ <<"complete", "CompilePublication">> \notin Ahead'
      /\ <<"finish", "Succeeded">> \notin Ahead'
  BY <1>3 DEF PublishCalls, InstallCalls, CheckpointCall, BackNames
<1>6. RollbackInv'
  <2>1. CASE "publication" \in mem'.recorded
    <3>1. <<"abort", "publication">> \in Ahead'
      BY <1>2, <2>1 DEF RollbackSet
    <3> QED BY <3>1 DEF RollbackInv
  <2>2. CASE "publication" \notin mem'.recorded
    <3>1. "publication" \notin journal'[cur'].recorded
      BY <1>1, <2>2 DEF CopyInv
    <3>2. cur' \notin {active', target'}
      BY <1>1, <3>1 DEF PublishedInv
    <3> QED BY <3>2 DEF RollbackInv
  <2> QED BY <2>1, <2>2
<1>7. AgendaInv' /\ ActivationInv' /\ VerifiedInv'
  BY <1>2, <1>5 DEF AgendaInv, ActivationInv, VerifiedInv
<1> QED BY <1>4, <1>6, <1>7 DEF HandlerInv

\* A step of the run failed.
LEMMA Failed ==
  ASSUME TypeOK, HandlerInv, cur # Nobody, NEW m, Fail(m),
         m.state \notin {"Succeeded", "RolledBack"}, CopyInv', PublishedInv'
  PROVE  HandlerInv'
<1>1. cur' = cur /\ mem' = m /\ mode' = mode /\ cur' \in Operations
  BY DEF Fail, TypeOK
<1>2. CASE mode = "tail" \/ (mode = "steps" /\ m.receipt)
  <2>1. "file" \in Plan[cur']
    BY <1>1, <1>2, PlanAssumption DEF HandlerInv, CopyInv, EntryInv
  <2>2. todo' = <<<<"park", "file">>>>
    BY <1>2 DEF Fail
  <2> QED BY <1>1, <2>1, <2>2, NewPark
<1>3. CASE ~(mode = "tail" \/ (mode = "steps" /\ m.receipt))
  <2>1. todo' = Rollback(cur', mem')
    BY <1>1, <1>3 DEF Fail
  <2> QED BY <1>1, <2>1, NewRollback
<1> QED BY <1>2, <1>3

\* The next call of a handler that works forward succeeded.
LEMMA ForwardAdvance ==
  ASSUME TypeOK, HandlerInv, cur # Nobody, Call \in ForwardNames \ {"resume"}, Advance,
         mem' = journal'[cur], CopyInv',
         Call = "finish" \/ mem'.state \notin {"Succeeded", "RolledBack"},
         mem.recorded \subseteq mem'.recorded, Call = "record" => On \in mem'.recorded,
         mem.decision = "Install" => mem'.decision = "Install",
         \A k \in Backing(cur) : marker[cur][k] = "active" \/ <<Call, On>> = <<"activate", k>>
                                   => marker'[cur][k] = "active",
         Call = "verify" =>
           /\ \A c \in Plan[cur] \cap Rows : marker'[cur][c] = "active" /\ value'[c] = cur
           /\ \A c \in Plan[cur] \cap Files : marker'[cur][c] = "active"
           /\ "publication" \in Plan[cur] => active' = cur /\ target' = cur
  PROVE  HandlerInv'
<1>1. AgendaInv /\ CurrentInv /\ ActivationInv /\ VerifiedInv
  BY DEF HandlerInv
<1>2. /\ cur \in Operations /\ Agenda(cur, todo) /\ Head(todo) = <<Call, On>>
      /\ Range(Tail(todo)) = Ahead \ {<<Call, On>>} /\ Ahead \subseteq CallSet(cur)
      /\ \A c \in Ahead \ {<<Call, On>>} : Rank(cur, <<Call, On>>) < Rank(cur, c)
  BY <1>1, HandlerFacts
<1>3. cur' = cur /\ todo' = Tail(todo) /\ Ahead' = Ahead \ {<<Call, On>>}
  BY <1>2 DEF Advance, Ahead
<1>4. Agenda(cur', todo')
  <2>1. Head(todo)[1] \notin Single \cup {"resume"}
    BY <1>2 DEF ForwardNames, Single
  <2> QED BY <1>2, <1>3, <2>1, AgendaTail
<1>5. \A c \in Ahead : c[1] \in ForwardNames
  BY <1>1, WayFacts
<1>6. CurrentInv'
  <2>1. CASE Call = "finish"
    <3>1. \A c \in Ahead' : c[1] = "resume"
      BY <1>1, <1>3, <2>1, LastFacts
    <3> QED BY <3>1 DEF CurrentInv
  <2>2. CASE Call # "finish"
    BY <2>2, <1>3 DEF CurrentInv
  <2> QED BY <2>1, <2>2
<1>7. ActivationInv'
  <2>1. ASSUME Ahead' \cap PublishCalls # {}, NEW k \in Backing(cur)
        PROVE  marker'[cur][k] = "active" \/ <<"activate", k>> \in Ahead'
    <3>1. marker[cur][k] = "active" \/ <<"activate", k>> \in Ahead
      BY <1>1, <1>3, <2>1 DEF ActivationInv
    <3> QED BY <3>1, <1>3
  <2>2. ASSUME "publication" \in Plan[cur],
               Ahead' \cap (PublishCalls \cup {<<"complete", "CompilePublication">>}) # {}
        PROVE  "publication" \in mem'.recorded \/ <<"record", "publication">> \in Ahead'
    <3>1. "publication" \in mem.recorded \/ <<"record", "publication">> \in Ahead
      BY <1>1, <1>3, <2>2 DEF ActivationInv
    <3> QED BY <3>1, <1>3
  <2>3. ASSUME Ahead' \cap InstallCalls # {} PROVE mem'.decision = "Install"
    BY <1>1, <1>3, <2>3 DEF ActivationInv
  <2> QED BY <1>3, <2>1, <2>2, <2>3 DEF ActivationInv
<1>8. VerifiedInv'
  <2> SUFFICES ASSUME <<"finish", "Succeeded">> \in Ahead', <<"verify", "Succeeded">> \notin Ahead'
               PROVE  /\ Call = "verify"
                      /\ \A c \in Ahead' : c[1] \in {"finish", "resume"}
    BY <1>3 DEF VerifiedInv
  <2>1. Call = "verify"
    <3>1. SUFFICES ASSUME Call # "verify" PROVE FALSE
      OBVIOUS
    <3>2. <<"finish", "Succeeded">> \in Ahead /\ <<"verify", "Succeeded">> \notin Ahead
      BY <1>3, <3>1
    <3>3. Call \in {"finish", "resume"}
      BY <1>1, <3>2, HandlerFacts DEF VerifiedInv
    <3>4. <<Call, On>> = <<"finish", "Succeeded">>
      BY <1>1, <3>3, OnFacts
    <3> QED BY <3>4, <1>3
  <2>2. ASSUME NEW c \in Ahead' PROVE c[1] \in {"finish", "resume"}
    <3>1. c \in CallSet(cur) /\ c[1] \in ForwardNames
      BY <1>2, <1>3, <1>5
    <3>2. <<Call, On>> = <<"verify", "Succeeded">>
      BY <1>1, <2>1, OnFacts
    <3>3. 150 < Rank(cur, c)
      BY <1>2, <1>3, <3>2, RankFacts
    <3> QED BY <1>2, <3>1, <3>3, RankBounds DEF ForwardNames, NameRank
  <2> QED BY <2>1, <2>2
<1>9. RollbackInv'
  BY <1>3, <1>5 DEF RollbackInv, ForwardNames
<1>10. AgendaInv'
  BY <1>4 DEF AgendaInv
<1> QED BY <1>6, <1>7, <1>8, <1>9, <1>10 DEF HandlerInv

\* The checkpoint was recorded, and the installation is next.
LEMMA InstallAdvance ==
  ASSUME TypeOK, HandlerInv, cur # Nobody, Call = "checkpoint", cur' = cur,
         todo' = <<<<"install", On>>, <<"mark", On>>>> \o Tail(todo),
         mem' = journal'[cur], CopyInv', mem'.state \notin {"Succeeded", "RolledBack"},
         mem.recorded \subseteq mem'.recorded, mem'.decision = "Install", marker' = marker
  PROVE  HandlerInv'
<1>1. AgendaInv /\ CurrentInv /\ ActivationInv /\ VerifiedInv
  BY DEF HandlerInv
<1>2. /\ cur \in Operations /\ Agenda(cur, todo) /\ Head(todo) = <<Call, On>>
      /\ <<Call, On>> \in Ahead
  BY <1>1, HandlerFacts
<1>3. On = "publication" /\ Head(todo) = CheckpointCall
  BY <1>1, <1>2, OnFacts DEF CheckpointCall
<1>4. Agenda(cur', todo') /\ Ahead' = InstallCalls \cup (Ahead \ {CheckpointCall})
  BY <1>2, <1>3, AgendaInstall DEF Ahead
<1>5. CheckpointCall \in Ahead /\ CheckpointCall \in PublishCalls
  BY <1>2, <1>3 DEF PublishCalls
<1>6. \A c \in Ahead : c[1] \in ForwardNames
  BY <1>1, WayFacts DEF ForwardNames
<1>7. ActivationInv'
  <2>1. \A k \in Backing(cur) : marker[cur][k] = "active" \/ <<"activate", k>> \in Ahead
    BY <1>1, <1>5 DEF ActivationInv
  <2>2. "publication" \in Plan[cur] =>
          "publication" \in mem.recorded \/ <<"record", "publication">> \in Ahead
    BY <1>1, <1>5 DEF ActivationInv
  <2>3. \A c \in Ahead : c[1] # "checkpoint" => c \in Ahead'
    BY <1>4 DEF CheckpointCall
  <2> QED BY <2>1, <2>2, <2>3 DEF ActivationInv
<1>8. VerifiedInv'
  <2>1. <<"finish", "Succeeded">> \in Ahead' => <<"finish", "Succeeded">> \in Ahead
    BY <1>4 DEF InstallCalls
  <2>2. <<"verify", "Succeeded">> \in Ahead => <<"verify", "Succeeded">> \in Ahead'
    BY <1>4 DEF CheckpointCall
  <2>3. <<"finish", "Succeeded">> \in Ahead => <<"verify", "Succeeded">> \in Ahead
    BY <1>1, <1>2, <1>3 DEF VerifiedInv
  <2> QED BY <2>1, <2>2, <2>3 DEF VerifiedInv
<1>9. RollbackInv'
  BY <1>4, <1>6 DEF RollbackInv, ForwardNames, InstallCalls
<1>10. AgendaInv' /\ CurrentInv'
  BY <1>4 DEF AgendaInv, CurrentInv
<1> QED BY <1>7, <1>8, <1>9, <1>10 DEF HandlerInv

\* A call of a handler that works backward was made.
LEMMA BackAdvance ==
  ASSUME TypeOK, HandlerInv, cur # Nobody, Call \in BackNames \ {"resume"}, cur' = cur,
         \/ todo' = Tail(todo)
         \/ /\ todo' = Tail(Tail(todo)) /\ Tail(todo) # <<>>
            /\ Head(Tail(todo))[1] = "reconcile",
         CopyInv', Call = "close" \/ mem'.state \notin {"Succeeded", "RolledBack"},
         active' = active, target' = target, Call = "abort" => cur \notin {active, target}
  PROVE  HandlerInv'
<1>1. AgendaInv /\ CurrentInv /\ RollbackInv
  BY DEF HandlerInv
<1>2. /\ cur \in Operations /\ Agenda(cur, todo) /\ Head(todo) = <<Call, On>>
      /\ Range(Tail(todo)) = Ahead \ {<<Call, On>>}
  BY <1>1, HandlerFacts
<1>3. Agenda(cur, Tail(todo))
  <2>1. Head(todo)[1] \notin Single \cup {"resume"}
    BY <1>2 DEF BackNames, Single
  <2> QED BY <1>2, <2>1, AgendaTail
<1>4. Agenda(cur', todo')
  <2>1. CASE todo' = Tail(todo)
    BY <1>3, <2>1
  <2>2. CASE /\ todo' = Tail(Tail(todo)) /\ Tail(todo) # <<>>
             /\ Head(Tail(todo))[1] = "reconcile"
    <3>1. Head(Tail(todo))[1] \notin Single \cup {"resume"}
      BY <2>2 DEF Single
    <3> QED BY <1>2, <1>3, <2>2, <3>1, AgendaTail
  <2> QED BY <2>1, <2>2
<1>5. /\ Ahead' \subseteq Ahead \ {<<Call, On>>}
      /\ \A c \in Ahead \ {<<Call, On>>} : c[1] # "reconcile" => c \in Ahead'
  <2>1. CASE todo' = Tail(todo)
    BY <1>2, <2>1 DEF Ahead
  <2>2. CASE /\ todo' = Tail(Tail(todo)) /\ Tail(todo) # <<>>
             /\ Head(Tail(todo))[1] = "reconcile"
    <3>1. Range(Tail(Tail(todo))) = Range(Tail(todo)) \ {Head(Tail(todo))}
      BY <1>2, <1>3, AgendaHead
    <3> QED BY <1>2, <2>2, <3>1 DEF Ahead
  <2> QED BY <2>1, <2>2
<1>6. \A c \in Ahead' : c[1] \in BackNames
  BY <1>1, <1>5, WayFacts
<1>7. CurrentInv'
  <2>1. CASE Call = "close"
    <3>1. \A c \in Ahead' : c[1] = "resume"
      BY <1>1, <1>5, <2>1, LastFacts
    <3> QED BY <3>1 DEF CurrentInv
  <2>2. CASE Call # "close"
    BY <2>2, <1>6 DEF CurrentInv, ForwardNames, BackNames
  <2> QED BY <2>1, <2>2
<1>8. /\ Ahead' \cap PublishCalls = {} /\ Ahead' \cap InstallCalls = {}
      /\ <<"complete", "CompilePublication">> \notin Ahead'
      /\ <<"finish", "Succeeded">> \notin Ahead'
  BY <1>6 DEF PublishCalls, InstallCalls, CheckpointCall, BackNames
<1>9. AgendaInv' /\ ActivationInv' /\ VerifiedInv'
  BY <1>4, <1>8 DEF AgendaInv, ActivationInv, VerifiedInv
<1>10. RollbackInv'
  <2> SUFFICES ASSUME \E c \in Ahead' : c[1] = "compensate", <<"abort", "publication">> \notin Ahead'
               PROVE  cur \notin {active, target}
    BY DEF RollbackInv
  <2>1. CASE Call = "abort"
    BY <2>1
  <2>2. CASE Call # "abort"
    <3>1. <<"abort", "publication">> \notin Ahead
      BY <1>5, <2>2
    <3>2. \E c \in Ahead : c[1] = "compensate"
      BY <1>5
    <3> QED BY <1>1, <3>1, <3>2 DEF RollbackInv
  <2> QED BY <2>1, <2>2
<1> QED BY <1>7, <1>9, <1>10 DEF HandlerInv

\* Nothing the handler relies on has changed.
LEMMA Undisturbed ==
  ASSUME TypeOK, HandlerInv, UNCHANGED <<handler, journal, marker, active, target>>,
         \A c \in Rows : value'[c] = value[c]
  PROVE  HandlerInv'
<1>1. UNCHANGED <<cur, mem, todo, mode, doubt>>
  BY DEF handler
<1>2. Ahead' = Ahead
  BY <1>1 DEF Ahead
<1>3. AgendaInv' /\ CopyInv' /\ CurrentInv'
  BY <1>1, <1>2 DEF HandlerInv, AgendaInv, CopyInv, CurrentInv, Known
<1>4. ActivationInv' /\ VerifiedInv' /\ RollbackInv'
  BY <1>1, <1>2 DEF HandlerInv, ActivationInv, VerifiedInv, RollbackInv
<1> QED BY <1>3, <1>4 DEF HandlerInv

-----------------------------------------------------------------------------
(***************************************************************************)
(* The journal entries a handler writes                                    *)
(***************************************************************************)
\* m may follow the handler's copy: nothing recorded is forgotten, and an abort
\* is decided only of what is not published.
Grown(m) ==
  /\ EntryInv(cur, m) /\ m.state # "none"
  /\ mem.recorded \subseteq m.recorded
  /\ m.decision = "Abort" => mem.decision = "Abort" \/ cur \notin {active, target}

LEMMA WrittenFields ==
  ASSUME mem \in Entry, NEW n, NEW on,
         n \in {"begin", "complete", "compensating"} => on \in Steps
  PROVE  LET w == Written(n, on) IN
         /\ w.state = IF n = "begin" THEN on ELSE IF n = "rollback" THEN "RollingBack" ELSE mem.state
         /\ w.recorded = IF n = "record" THEN mem.recorded \cup {on} ELSE mem.recorded
         /\ w.decision = IF n = "checkpoint" THEN "Install"
                         ELSE IF n = "abort" THEN "Abort" ELSE mem.decision
         /\ w.receipt = (n = "seal" \/ mem.receipt)
         /\ w.status["CompilePublication"] = "Applied" =>
              mem.status["CompilePublication"] = "Applied"
              \/ (n = "complete" /\ on = "CompilePublication")
<1> DEFINE w == Written(n, on)
<1>1. /\ mem.status \in [Steps -> Statuses] /\ "CompilePublication" \in Steps
      /\ mem.receipt \in BOOLEAN
  BY StepFacts DEF Entry
<1>2. CASE n = "begin"
  <2>1. w = [mem EXCEPT !.state = on, !.status[on] = "Started"]
    BY <1>2, Zenon DEF Written
  <2> QED BY <1>1, <1>2, <2>1 DEF Entry
<1>3. CASE n = "record"
  <2>1. w = [mem EXCEPT !.recorded = @ \cup {on}]
    BY <1>3, Zenon DEF Written
  <2> QED BY <1>1, <1>3, <2>1 DEF Entry
<1>4. CASE n = "complete"
  <2>1. w = [mem EXCEPT !.status[on] = "Applied"]
    BY <1>4, Zenon DEF Written
  <2> QED BY <1>1, <1>4, <2>1 DEF Entry
<1>5. CASE n = "checkpoint"
  <2>1. w = [mem EXCEPT !.decision = "Install"]
    BY <1>5, Zenon DEF Written
  <2> QED BY <1>1, <1>5, <2>1 DEF Entry
<1>6. CASE n = "abort"
  <2>1. w = [mem EXCEPT !.decision = "Abort"]
    BY <1>6, Zenon DEF Written
  <2> QED BY <1>1, <1>6, <2>1 DEF Entry
<1>7. CASE n = "seal"
  <2>1. w = [mem EXCEPT !.receipt = TRUE]
    BY <1>7, Zenon DEF Written
  <2> QED BY <1>1, <1>7, <2>1 DEF Entry
<1>8. CASE n = "rollback"
  <2>1. w = [mem EXCEPT !.state = "RollingBack"]
    BY <1>8, Zenon DEF Written
  <2> QED BY <1>1, <1>8, <2>1 DEF Entry
<1>9. CASE n = "compensating"
  <2>1. w = [mem EXCEPT !.status[on] = "Compensating"]
    BY <1>9, Zenon DEF Written
  <2> QED BY <1>1, <1>9, <2>1 DEF Entry
<1>10. CASE n \notin {"begin", "record", "complete", "checkpoint", "abort", "seal", "rollback",
                      "compensating"}
  <2>1. w = mem
    BY <1>10, Zenon DEF Written
  <2> QED BY <1>1, <1>10, <2>1
<1> QED BY <1>2, <1>3, <1>4, <1>5, <1>6, <1>7, <1>8, <1>9, <1>10

LEMMA WrittenGrown ==
  ASSUME TypeOK, HandlerInv, cur # Nobody
  PROVE  /\ Grown(mem)
         /\ Call # "abort" => Grown(Written(Call, On))
         /\ cur \notin {active, target} => Grown(Written(Call, On))
         /\ Call \in {"stage", "reconcile"} => Grown(Written("record", On))
<1>1. /\ mem \in Entry /\ AgendaInv /\ CopyInv /\ ActivationInv
      /\ mem.state # "none" /\ EntryInv(cur, mem)
  BY DEF TypeOK, HandlerInv, CopyInv
<1>2. /\ Call \in {"begin", "complete", "compensating"} => On \in Steps
      /\ Call \in {"record", "stage", "reconcile"} => On \in Plan[cur]
      /\ Call = "seal" => "file" \in Plan[cur]
  BY <1>1, OnFacts
<1>3. Grown(mem)
  BY <1>1 DEF Grown
<1>4. Call = "complete" /\ On = "CompilePublication" /\ "publication" \in Plan[cur]
        => "publication" \in mem.recorded
  <2> SUFFICES ASSUME Call = "complete", On = "CompilePublication", "publication" \in Plan[cur]
               PROVE  "publication" \in mem.recorded
    OBVIOUS
  <2>1. /\ cur \in Operations /\ <<"complete", "CompilePublication">> \in Ahead
        /\ \A c \in Ahead \ {<<"complete", "CompilePublication">>} :
             Rank(cur, <<"complete", "CompilePublication">>) < Rank(cur, c)
    BY <1>1, HandlerFacts
  <2>2. <<"record", "publication">> \notin Ahead
    <3>1. ~(99 < 82)
      OBVIOUS
    <3> QED BY <2>1, <3>1, RankFacts
  <2> QED BY <1>1, <2>1, <2>2 DEF ActivationInv
<1>5. \A s \in Steps : s # "none"
  BY StepFacts
<1>6. Call # "abort" \/ cur \notin {active, target} => Grown(Written(Call, On))
  <2> DEFINE w == Written(Call, On)
  <2>1. /\ w.state = IF Call = "begin" THEN On
                    ELSE IF Call = "rollback" THEN "RollingBack" ELSE mem.state
        /\ w.recorded = IF Call = "record" THEN mem.recorded \cup {On} ELSE mem.recorded
        /\ w.decision = IF Call = "checkpoint" THEN "Install"
                       ELSE IF Call = "abort" THEN "Abort" ELSE mem.decision
        /\ w.receipt = (Call = "seal" \/ mem.receipt)
        /\ w.status["CompilePublication"] = "Applied" =>
             mem.status["CompilePublication"] = "Applied"
             \/ (Call = "complete" /\ On = "CompilePublication")
    BY <1>1, <1>2, WrittenFields, ZenonT(60)
  <2> HIDE DEF w
  <2>2. EntryInv(cur, w) /\ w.state # "none" /\ mem.recorded \subseteq w.recorded
    BY <1>1, <1>2, <1>4, <1>5, <2>1 DEF EntryInv
  <2>3. Call # "abort" \/ cur \notin {active, target} => Grown(w)
    BY <2>1, <2>2 DEF Grown
  <2> QED BY <2>3 DEF w
<1>7. Call \in {"stage", "reconcile"} => Grown(Written("record", On))
  <2> DEFINE w == Written("record", On)
  <2>1. /\ w.state = mem.state
        /\ w.recorded = mem.recorded \cup {On}
        /\ w.decision = mem.decision
        /\ w.receipt = mem.receipt
        /\ w.status["CompilePublication"] = "Applied" =>
             mem.status["CompilePublication"] = "Applied"
    <3>1. LET v == Written("record", On) IN
          /\ v.state = IF "record" = "begin" THEN On
                      ELSE IF "record" = "rollback" THEN "RollingBack" ELSE mem.state
          /\ v.recorded = IF "record" = "record" THEN mem.recorded \cup {On} ELSE mem.recorded
          /\ v.decision = IF "record" = "checkpoint" THEN "Install"
                         ELSE IF "record" = "abort" THEN "Abort" ELSE mem.decision
          /\ v.receipt = ("record" = "seal" \/ mem.receipt)
          /\ v.status["CompilePublication"] = "Applied" =>
               mem.status["CompilePublication"] = "Applied"
               \/ ("record" = "complete" /\ On = "CompilePublication")
      BY <1>1, WrittenFields
    <3>2. mem.receipt \in BOOLEAN
      BY <1>1 DEF Entry
    <3> QED BY <3>1, <3>2
  <2> HIDE DEF w
  <2>2. Call \in {"stage", "reconcile"} => Grown(w)
    BY <1>1, <1>2, <2>1 DEF Grown, EntryInv
  <2> QED BY <2>2 DEF w
<1> QED BY <1>3, <1>6, <1>7

\* The other entries: another state, an undone step, a receipt that is taken back.
LEMMA OtherGrown ==
  ASSUME TypeOK, HandlerInv, cur # Nobody
  PROVE  /\ \A s \in States \ {"none"} : Grown([mem EXCEPT !.state = s])
         /\ Grown([mem EXCEPT !.receipt = FALSE])
         /\ \A s \in Steps, t \in Statuses \ {"Applied"} : Grown([mem EXCEPT !.status[s] = t])
<1>1. /\ mem \in Entry /\ CopyInv /\ mem.state # "none" /\ EntryInv(cur, mem)
      /\ mem.status \in [Steps -> Statuses] /\ "CompilePublication" \in Steps
  BY StepFacts DEF TypeOK, HandlerInv, CopyInv, Entry
<1>2. ASSUME NEW s \in States \ {"none"} PROVE Grown([mem EXCEPT !.state = s])
  BY <1>1 DEF Grown, EntryInv, Entry
<1>3. Grown([mem EXCEPT !.receipt = FALSE])
  BY <1>1 DEF Grown, EntryInv, Entry
<1>4. ASSUME NEW s \in Steps, NEW t \in Statuses \ {"Applied"}
      PROVE  Grown([mem EXCEPT !.status[s] = t])
  <2> DEFINE w == [mem EXCEPT !.status[s] = t]
  <2>1. /\ w.recorded = mem.recorded /\ w.receipt = mem.receipt /\ w.decision = mem.decision
        /\ w.state = mem.state /\ w.status = [mem.status EXCEPT ![s] = t]
    BY <1>1 DEF Entry
  <2>2. w.status["CompilePublication"] = "Applied" => mem.status["CompilePublication"] = "Applied"
    BY <1>1, <2>1
  <2> QED BY <1>1, <2>1, <2>2 DEF Grown, EntryInv
<1> QED BY <1>2, <1>3, <1>4

\* The rest of the journal, and the plans, stay.
LEMMA JournalKept ==
  ASSUME JournalInv, UNCHANGED <<journal, order, before>>,
         admitted' \subseteq admitted, pending' \subseteq pending \cup Range(order)
  PROVE  JournalInv'
BY DEF JournalInv, Known

LEMMA JournalSaved ==
  ASSUME TypeOK, JournalInv, CopyInv, cur \in Operations, NEW m \in Entry, Grown(m),
         journal' = [journal EXCEPT ![cur] = m], UNCHANGED <<order, before>>,
         admitted' \subseteq admitted, pending' \subseteq pending
  PROVE  JournalInv'
<1>1. /\ journal'[cur] = m /\ \A o \in Operations \ {cur} : journal'[o] = journal[o]
      /\ \A o \in Operations : journal'[o].state = "none" => journal[o].state = "none"
  BY DEF TypeOK, Grown
<1>2. \A o \in Operations : EntryInv(o, journal'[o])
  BY <1>1 DEF JournalInv, Grown
<1>3. Range(order) \subseteq Operations /\ admitted \subseteq Operations /\ pending \subseteq Operations
  BY DEF TypeOK, Range
<1>4. Known(cur)
  BY PlanAssumption DEF CopyInv
<1>5. \A o \in Operations : Known(o)' => Known(o)
  BY <1>1, <1>4 DEF Known
<1>6. \A o \in Operations : Known(o) => Known(o)'
  BY <1>1 DEF Known
<1> QED BY <1>2, <1>3, <1>5, <1>6 DEF JournalInv

\* A root stays published, recorded and backed.
LEMMA PublishedKept ==
  ASSUME PublishedInv, {active', target'} \subseteq {active, target, Nobody},
         journal' = journal, marker' = marker
  PROVE  PublishedInv'
BY DEF PublishedInv, Known

LEMMA PublishedSaved ==
  ASSUME TypeOK, HandlerInv, PublishedInv, cur \in Operations, NEW m \in Entry, Grown(m),
         journal' = [journal EXCEPT ![cur] = m],
         active' = active, {target'} \subseteq {active, target, Nobody}, marker' = marker
  PROVE  PublishedInv'
<1>1. journal'[cur] = m /\ \A o \in Operations \ {cur} : journal'[o] = journal[o]
  BY DEF TypeOK
<1>2. {active, target} \subseteq Operations \cup {Nobody} /\ cur # Nobody
  BY PlanAssumption DEF TypeOK
<1>3. /\ journal[cur].recorded \subseteq m.recorded /\ m.state # "none"
      /\ cur \in {active, target} => m.decision # "Abort"
  BY <1>2 DEF HandlerInv, CopyInv, PublishedInv, Grown
<1> QED BY <1>1, <1>2, <1>3 DEF PublishedInv, Known

\* What the handler holds after a save, and after a save that failed.
LEMMA CopySaved ==
  ASSUME TypeOK, cur \in Operations, cur' = cur, mem' \in Entry, Grown(mem'),
         journal' = [journal EXCEPT ![cur] = mem'], mode' = "tail" => "file" \in Plan[cur]
  PROVE  CopyInv'
<1>1. journal'[cur] = mem'
  BY DEF TypeOK
<1>2. cur # Nobody
  BY PlanAssumption
<1> QED BY <1>1, <1>2 DEF CopyInv, Grown, Known

LEMMA CopyUnsaved ==
  ASSUME TypeOK, CopyInv, cur \in Operations, cur' = cur, Grown(mem'), journal' = journal,
         mem'.decision = "Abort" => mem.decision = "Abort",
         mode' = "tail" => "file" \in Plan[cur]
  PROVE  CopyInv'
<1>1. cur # Nobody
  BY PlanAssumption
<1> QED BY <1>1 DEF CopyInv, Grown, Known

\* What a written entry keeps of the copy it was made from.
LEMMA WrittenKeeps ==
  ASSUME TypeOK, HandlerInv, cur # Nobody
  PROVE  /\ mem.state \notin {"Succeeded", "RolledBack"} =>
              Written(Call, On).state \notin {"Succeeded", "RolledBack"}
         /\ Call # "abort" /\ Written(Call, On).decision = "Abort" => mem.decision = "Abort"
         /\ Call # "abort" /\ mem.decision = "Install" => Written(Call, On).decision = "Install"
         /\ Call = "checkpoint" => Written(Call, On).decision = "Install"
         /\ mem.recorded \subseteq Written(Call, On).recorded
         /\ Call = "record" => On \in Written(Call, On).recorded
         /\ Written("record", On).state = mem.state
         /\ Written("record", On).decision = mem.decision
<1>1. mem \in Entry /\ AgendaInv
  BY DEF TypeOK, HandlerInv
<1>2. Call \in {"begin", "complete", "compensating"} => On \in Steps
  BY <1>1, OnFacts
<1> DEFINE w == Written(Call, On)
<1>3. /\ w.state = IF Call = "begin" THEN On
                   ELSE IF Call = "rollback" THEN "RollingBack" ELSE mem.state
      /\ w.recorded = IF Call = "record" THEN mem.recorded \cup {On} ELSE mem.recorded
      /\ w.decision = IF Call = "checkpoint" THEN "Install"
                      ELSE IF Call = "abort" THEN "Abort" ELSE mem.decision
      /\ w.receipt = (Call = "seal" \/ mem.receipt)
      /\ w.status["CompilePublication"] = "Applied" =>
           mem.status["CompilePublication"] = "Applied"
           \/ (Call = "complete" /\ On = "CompilePublication")
  BY <1>1, <1>2, WrittenFields, ZenonT(60)
<1>4. Written("record", On) = [mem EXCEPT !.recorded = @ \cup {On}]
  BY Zenon DEF Written
<1>5. Written("record", On).state = mem.state /\ Written("record", On).decision = mem.decision
  BY <1>1, <1>4 DEF Entry
<1>6. "Succeeded" \notin Steps /\ "RolledBack" \notin Steps
  BY StepFacts
<1> QED BY <1>2, <1>3, <1>5, <1>6

\* What is left when the handler returned.
LEMMA ReturnFacts ==
  ASSUME NEW m, ReturnError \/ ReturnOperation(m)
  PROVE  /\ cur' = Nobody /\ mode' = "steps" /\ target' = target
         /\ pending' \subseteq pending /\ admitted' \subseteq admitted
BY DEF ReturnError, ReturnOperation, Return, Stop, process, gateway

\* A step of the run failed and left m in memory, saved or not.
LEMMA RunFailed ==
  ASSUME TypeOK, JournalInv, HandlerInv, cur # Nobody, Call \notin {"enter", "resume"},
         NEW m \in Entry, Grown(m), m.decision = "Abort" => mem.decision = "Abort",
         m.state \notin {"Succeeded", "RolledBack"}, Fail(m),
         journal' = journal \/ journal' = [journal EXCEPT ![cur] = m],
         UNCHANGED <<order, before, admitted, pending>>, PublishedInv'
  PROVE  JournalInv' /\ HandlerInv'
<1>1. cur' = cur /\ mem' = m /\ mode' = mode /\ cur \in Operations /\ CopyInv
  BY DEF Fail, TypeOK, HandlerInv
<1>2. mode' = "tail" => "file" \in Plan[cur]
  BY <1>1 DEF CopyInv
<1>3. CASE journal' = journal
  <2>1. JournalInv'
    BY <1>3, JournalKept
  <2>2. CopyInv'
    BY <1>1, <1>2, <1>3, CopyUnsaved
  <2> QED BY <2>1, <2>2, Failed
<1>4. CASE journal' = [journal EXCEPT ![cur] = m]
  <2>1. JournalInv'
    BY <1>1, <1>4, JournalSaved
  <2>2. CopyInv'
    BY <1>1, <1>2, <1>4, CopySaved
  <2> QED BY <2>1, <2>2, Failed
<1> QED BY <1>3, <1>4

\* A call of the run was made that saves nothing.
LEMMA RunMoved ==
  ASSUME TypeOK, JournalInv, HandlerInv, cur # Nobody, Call \in ForwardNames \ {"resume", "finish"},
         Advance, UNCHANGED <<mem, journal, order, before, admitted, pending>>,
         Call = "record" => On \in mem.recorded,
         \A k \in Backing(cur) : marker[cur][k] = "active" \/ <<Call, On>> = <<"activate", k>>
                                   => marker'[cur][k] = "active",
         Call = "verify" =>
           /\ \A c \in Plan[cur] \cap Rows : marker'[cur][c] = "active" /\ value'[c] = cur
           /\ \A c \in Plan[cur] \cap Files : marker'[cur][c] = "active"
           /\ "publication" \in Plan[cur] => active' = cur /\ target' = cur
  PROVE  JournalInv' /\ HandlerInv'
<1>1. /\ AgendaInv /\ CopyInv /\ CurrentInv /\ cur' = cur /\ mode' = mode
      /\ cur \in Operations
  BY DEF HandlerInv, Advance, TypeOK
<1>2. <<Call, On>> \in Ahead
  BY <1>1, HandlerFacts
<1>3. mem = journal[cur] /\ mem.state \notin {"Succeeded", "RolledBack"}
  BY <1>1, <1>2 DEF CurrentInv, ForwardNames
<1>4. Grown(mem)
  BY WrittenGrown
<1>5. CopyInv'
  BY <1>1, <1>4, CopyUnsaved DEF CopyInv
<1>6. HandlerInv'
  BY <1>1, <1>3, <1>5, ForwardAdvance
<1> QED BY <1>6, JournalKept

\* A save of the run succeeded.
LEMMA RunSaved ==
  ASSUME TypeOK, JournalInv, HandlerInv, PublishedInv, cur # Nobody,
         Call \in {"begin", "record", "complete", "seal"},
         Save(Written(Call, On)), Advance,
         UNCHANGED <<order, before, admitted, pending, marker, active, target>>
  PROVE  JournalInv' /\ PublishedInv' /\ HandlerInv'
<1>1. /\ AgendaInv /\ CopyInv /\ CurrentInv /\ cur' = cur /\ mode' = mode
      /\ cur \in Operations /\ journal \in [Operations -> Entry]
  BY DEF HandlerInv, Advance, TypeOK
<1>2. <<Call, On>> \in Ahead
  BY <1>1, HandlerFacts
<1>3. mem.state \notin {"Succeeded", "RolledBack"}
  BY <1>1, <1>2 DEF CurrentInv
<1> DEFINE w == Written(Call, On)
<1>4. w \in Entry /\ Grown(w)
  BY <1>1, WrittenType, WrittenGrown
<1>5. /\ w.state \notin {"Succeeded", "RolledBack"}
      /\ mem.recorded \subseteq w.recorded /\ (Call = "record" => On \in w.recorded)
      /\ mem.decision = "Install" => w.decision = "Install"
  BY <1>3, WrittenKeeps
<1>6. mem' = w /\ journal' = [journal EXCEPT ![cur] = w]
  BY DEF Save
<1> HIDE DEF w
<1>7. journal'[cur] = w
  BY <1>1, <1>6
<1>8. JournalInv'
  BY <1>1, <1>4, <1>6, JournalSaved
<1>9. PublishedInv'
  BY <1>1, <1>4, <1>6, PublishedSaved
<1>10. CopyInv'
  BY <1>1, <1>4, <1>6, CopySaved DEF CopyInv
<1>11. HandlerInv'
  BY <1>1, <1>5, <1>6, <1>7, <1>10, ForwardAdvance DEF ForwardNames
<1> QED BY <1>8, <1>9, <1>11

\* A save of the rollback succeeded.
LEMMA RollbackSaved ==
  ASSUME TypeOK, JournalInv, HandlerInv, PublishedInv, cur # Nobody,
         Call \in BackNames \ {"resume"}, NEW m \in Entry, Grown(m), Save(m),
         Call = "close" \/ m.state \notin {"Succeeded", "RolledBack"},
         cur' = cur, mode' = mode,
         \/ todo' = Tail(todo)
         \/ /\ todo' = Tail(Tail(todo)) /\ Tail(todo) # <<>>
            /\ Head(Tail(todo))[1] = "reconcile",
         Call = "abort" => cur \notin {active, target},
         UNCHANGED <<order, before, admitted, pending, marker, active, target>>
  PROVE  JournalInv' /\ PublishedInv' /\ HandlerInv'
<1>1. CopyInv /\ cur \in Operations /\ mem' = m /\ journal' = [journal EXCEPT ![cur] = m]
  BY DEF HandlerInv, TypeOK, Save
<1>2. JournalInv'
  BY <1>1, JournalSaved
<1>3. PublishedInv'
  BY <1>1, PublishedSaved
<1>4. CopyInv'
  BY <1>1, CopySaved DEF CopyInv
<1>5. HandlerInv'
  BY <1>1, <1>4, BackAdvance
<1> QED BY <1>2, <1>3, <1>5

\* A call of the rollback was made that saves nothing.
LEMMA RollbackMoved ==
  ASSUME TypeOK, JournalInv, HandlerInv, cur # Nobody,
         Call \in BackNames \ {"resume", "abort", "close"},
         mem' = mem \/ (mem' = Written("record", On) /\ Call = "reconcile"),
         journal' = journal, cur' = cur, mode' = mode,
         \/ todo' = Tail(todo)
         \/ /\ todo' = Tail(Tail(todo)) /\ Tail(todo) # <<>>
            /\ Head(Tail(todo))[1] = "reconcile",
         UNCHANGED <<order, before, admitted, pending, active, target>>
  PROVE  JournalInv' /\ HandlerInv'
<1>1. AgendaInv /\ CopyInv /\ CurrentInv /\ cur \in Operations
  BY DEF HandlerInv, TypeOK
<1>2. <<Call, On>> \in Ahead
  BY <1>1, HandlerFacts
<1>3. mem.state \notin {"Succeeded", "RolledBack"}
  BY <1>1, <1>2 DEF CurrentInv, BackNames
<1>4. /\ Grown(mem') /\ mem'.state \notin {"Succeeded", "RolledBack"}
      /\ mem'.decision = "Abort" => mem.decision = "Abort"
  BY <1>3, WrittenGrown, WrittenKeeps
<1>5. CopyInv'
  BY <1>1, <1>4, CopyUnsaved DEF CopyInv
<1>6. HandlerInv'
  BY <1>4, <1>5, BackAdvance
<1> QED BY <1>6, JournalKept

-----------------------------------------------------------------------------
(***************************************************************************)
(* Every step keeps the invariant                                          *)
(***************************************************************************)
LEMMA ReturnKeeps ==
  ASSUME JournalInv, PublishedInv, cur' = Nobody, mode' = "steps",
         target' \in {active, target}, UNCHANGED <<journal, order, before, marker, active>>,
         pending' \subseteq pending, admitted' \subseteq admitted
  PROVE  Rest'
<1>1. JournalInv'
  BY JournalKept
<1>2. PublishedInv'
  BY PublishedKept
<1>3. HandlerInv'
  BY Returned
<1> QED BY <1>1, <1>2, <1>3 DEF Rest

LEMMA RequestStep ==
  ASSUME TypeOK, Rest, NEW o \in Operations, Request(o)
  PROVE  Rest'
<1>1. JournalInv /\ PublishedInv /\ HandlerInv /\ CopyInv
  BY DEF Rest, HandlerInv
<1>2. CASE Accept(o)
  <2>1. /\ cur = Nobody /\ journal[o].state = "none" /\ UNCHANGED <<handler, marker, active, target>>
        /\ journal' = [journal EXCEPT ![o] = Fresh("Accepted")]
        /\ order' = Append(order, o) /\ admitted' = admitted \cup {o} /\ pending' = pending
        /\ before' = [before EXCEPT ![o] =
             [k \in Kinds |-> IF k = "publication" THEN active ELSE value[k]]]
    BY <1>2 DEF Accept, stores, product, gateway
  <2>2. /\ journal \in [Operations -> Entry] /\ order \in Seq(Operations)
        /\ before \in [Operations -> [Kinds -> Values \cup {Nobody}]] /\ value \in [Cells -> Values]
        /\ admitted \subseteq Operations /\ pending \subseteq Operations
    BY DEF TypeOK
  <2>3. o \notin {active, target}
    BY <1>1, <2>1, PlanAssumption DEF PublishedInv, Known
  <2>4. /\ journal'[o] = Fresh("Accepted")
        /\ \A p \in Operations \ {o} : journal'[p] = journal[p]
    BY <2>1, <2>2
  <2>5. EntryInv(o, Fresh("Accepted")) /\ Fresh("Accepted").state # "none"
    BY StepFacts DEF EntryInv, Fresh
  <2>6. /\ "publication" \in Kinds /\ Cells \subseteq Kinds /\ "publication" \notin Cells
    BY KindFacts
  <2>7. /\ before'[o]["publication"] = active
        /\ \A c \in Cells : before'[o][c] = value[c]
        /\ \A p \in Operations \ {o} : before'[p] = before[p]
    BY <2>1, <2>2, <2>6
  <2>8. Range(order') = Range(order) \cup {o}
    <3>1. /\ Len(order') = Len(order) + 1 /\ order' \in Seq(Operations) /\ Len(order) \in Nat
          /\ \A i \in 1..Len(order) : order'[i] = order[i]
          /\ order'[Len(order) + 1] = o
      BY <2>1, <2>2
    <3>2. DOMAIN order' = 1..(Len(order) + 1) /\ DOMAIN order = 1..Len(order)
      BY <2>2, <3>1
    <3>3. 1..(Len(order) + 1) = (1..Len(order)) \cup {Len(order) + 1}
      BY <3>1
    <3> QED BY <3>1, <3>2, <3>3 DEF Range
  <2>9. \A p \in Operations : Known(p) => Known(p)'
    BY <2>4, <2>5 DEF Known
  <2>10. Range(order) \subseteq Operations
    BY <2>2 DEF Range
  <2>11. JournalInv'
    <3>1. \A p \in Operations : /\ EntryInv(p, journal'[p])
                                /\ Known(p)' => before'[p]["publication"] # p
                                /\ \A c \in Cells : before'[p][c] \in Values
      BY <1>1, <2>2, <2>3, <2>4, <2>5, <2>7, ZenonT(60) DEF JournalInv, Known
    <3>2. \A p \in Range(order') \cup admitted' \cup pending' : Known(p)'
      BY <1>1, <2>1, <2>2, <2>4, <2>5, <2>8, <2>9, <2>10 DEF JournalInv, Known
    <3> QED BY <3>1, <3>2 DEF JournalInv
  <2>12. PublishedInv'
    <3>1. {active, target} \subseteq Operations \cup {Nobody}
      BY DEF TypeOK
    <3> QED BY <1>1, <2>1, <2>3, <2>4, <2>9, <3>1 DEF PublishedInv
  <2>13. HandlerInv'
    BY <1>1, <2>1, Returned DEF handler, CopyInv
  <2> QED BY <2>11, <2>12, <2>13 DEF Rest
<1>3. CASE AcceptAgain(o)
  <2>1. /\ journal[o].state # "none" /\ admitted' = admitted \cup {o}
        /\ UNCHANGED <<handler, journal, order, before, marker, value, active, target, pending>>
    BY <1>3 DEF AcceptAgain, durable, stores, product, gateway
  <2>2. JournalInv'
    BY <1>1, <2>1 DEF JournalInv, Known
  <2>3. PublishedInv'
    BY <1>1, <2>1, PublishedKept
  <2>4. HandlerInv'
    BY <1>1, <2>1, Undisturbed
  <2> QED BY <2>2, <2>3, <2>4 DEF Rest
<1>4. CASE RunAccepted(o)
  <2>1. /\ cur = Nobody /\ o \in admitted /\ admitted' = admitted \ {o}
        /\ cur' = o /\ mem' = journal[o] /\ todo' = <<<<"enter", "run">>>>
        /\ UNCHANGED <<mode, journal, order, before, marker, active, target, pending>>
    BY <1>4 DEF RunAccepted, Take, durable, stores, product, gateway
  <2>2. JournalInv'
    BY <1>1, <2>1, JournalKept
  <2>3. PublishedInv'
    BY <1>1, <2>1, PublishedKept
  <2>4. CopyInv'
    BY <1>1, <2>1, PlanAssumption DEF JournalInv, CopyInv, Known
  <2>5. HandlerInv'
    BY <2>1, <2>4, Taken
  <2> QED BY <2>2, <2>3, <2>5 DEF Rest
<1> QED BY <1>2, <1>3, <1>4 DEF Request

LEMMA StartupStep ==
  ASSUME TypeOK, Rest, Startup
  PROVE  Rest'
<1>1. JournalInv /\ PublishedInv /\ HandlerInv /\ CopyInv
  BY DEF Rest, HandlerInv
<1>2. CASE Restart
  <2>1. /\ pending' \subseteq Range(order) /\ admitted' = admitted
        /\ UNCHANGED <<handler, journal, order, before, marker, value, active, target>>
    BY <1>2 DEF Restart, durable, stores, product, gateway
  <2>2. JournalInv'
    BY <1>1, <2>1, JournalKept
  <2>3. PublishedInv'
    BY <1>1, <2>1, PublishedKept
  <2>4. HandlerInv'
    BY <1>1, <2>1, Undisturbed
  <2> QED BY <2>2, <2>3, <2>4 DEF Rest
<1>3. CASE Recover
  <2>1. PICK i \in DOMAIN order :
          /\ order[i] \in pending /\ pending' = pending \ {order[i]}
          /\ Take(order[i], "startup")
    BY <1>3 DEF Recover
  <2> DEFINE o == order[i]
  <2>2. o \in pending /\ o \in Operations
    BY <2>1 DEF TypeOK
  <2>3. /\ cur = Nobody /\ pending' \subseteq pending
        /\ cur' = o /\ mem' = journal[o] /\ todo' = <<<<"enter", "startup">>>>
        /\ UNCHANGED <<mode, journal, order, before, marker, active, target, admitted>>
    BY <1>3, <2>1 DEF Recover, Take, durable, stores, product, gateway
  <2> HIDE DEF o
  <2>4. JournalInv'
    BY <1>1, <2>3, JournalKept
  <2>5. PublishedInv'
    BY <1>1, <2>3, PublishedKept
  <2>6. CopyInv'
    BY <1>1, <2>2, <2>3, PlanAssumption DEF JournalInv, CopyInv, Known
  <2>7. HandlerInv'
    BY <2>2, <2>3, <2>6, Taken
  <2> QED BY <2>4, <2>5, <2>7 DEF Rest
<1>4. CASE OpenWrites
  <2>1. /\ cur' = Nobody /\ mode' = "steps" /\ target' \in {active, target}
        /\ UNCHANGED <<journal, order, before, marker, active>>
        /\ pending' \subseteq pending /\ admitted' \subseteq admitted
    BY <1>1, <1>4 DEF OpenWrites, Stop, CopyInv, handler, durable, stores, product
  <2> QED BY <1>1, <2>1, ReturnKeeps
<1> QED BY <1>2, <1>3, <1>4 DEF Startup

\* Entering an Operation, its parked tail, and the ways out.
LEMMA EnterStep ==
  ASSUME TypeOK, Rest,
         \/ EnterOperation \/ ResumeSettingsTail \/ FinishPublicationActivation
         \/ SaveOperationTail \/ ReclaimOperationWriter
  PROVE  Rest'
<1>1. /\ JournalInv /\ PublishedInv /\ HandlerInv
      /\ AgendaInv /\ CopyInv /\ CurrentInv
  BY DEF Rest, HandlerInv
<1>2. cur # Nobody => cur \in Operations /\ <<Call, On>> \in Ahead /\ Grown(mem)
  BY <1>1, HandlerFacts, WrittenGrown
<1>3. mem \in Entry /\ journal \in [Operations -> Entry]
  BY DEF TypeOK
<1>4. Call = "enter" /\ cur # Nobody => mem = journal[cur]
  BY <1>1, <1>2 DEF CurrentInv
<1>5. CASE EnterOperation
  <2>1. /\ cur # Nobody /\ Call = "enter"
        /\ UNCHANGED <<journal, order, before, marker, active>>
    BY <1>5, EnterCases DEF Calls, durable, stores, product
  <2>2. CASE ReturnOperation(mem)
    BY <1>1, <2>1, <2>2, ReturnFacts, ReturnKeeps
  <2>3. CASE /\ mem.state \notin {"Succeeded", "RolledBack"}
             /\ todo' = Closing \/ todo' = Rollback(cur, mem) \/ todo' = Forward(cur, mem)
             /\ UNCHANGED <<process, gateway, cur, mem, mode, doubt>>
    <3>1. UNCHANGED <<pending, admitted, target, cur, mem, mode>>
      BY <2>3 DEF process, gateway
    <3>2. JournalInv' /\ PublishedInv'
      BY <1>1, <2>1, <3>1, JournalKept, PublishedKept
    <3>3. CopyInv'
      BY <1>1, <1>2, <2>1, <3>1, CopyUnsaved DEF CopyInv
    <3>4. mem' = journal'[cur']
      BY <1>4, <2>1, <3>1
    <3>5. HandlerInv'
      BY <1>2, <2>1, <2>3, <3>1, <3>2, <3>3, <3>4, NewClosing, NewRollback, NewForward
    <3> QED BY <3>2, <3>5 DEF Rest
  <2> QED BY <1>5, <2>2, <2>3, EnterCases
<1>6. CASE ResumeSettingsTail
  <2>1. /\ cur # Nobody /\ Call = "enter" /\ mem.receipt /\ mem.state = "Activate"
        /\ UNCHANGED <<order, before, marker, active>>
    BY <1>6, ResumeTailCases DEF Calls, stores, product
  <2>2. "file" \in Plan[cur]
    BY <1>1, <2>1 DEF CopyInv, EntryInv
  <2>3. CASE ReturnError /\ UNCHANGED journal
    <3>1. ReturnError \/ ReturnOperation(mem)
      BY <2>3
    <3> QED BY <1>1, <2>1, <2>3, <3>1, ReturnFacts, ReturnKeeps
  <2> DEFINE m == [mem EXCEPT !.receipt = FALSE]
  <2>4. CASE /\ UNCHANGED <<process, gateway, cur, doubt>>
             /\ Save(m) /\ todo' = Forward(cur, m) /\ mode' = "strict"
    <3>1. UNCHANGED <<pending, admitted, target, cur>>
      BY <2>4 DEF process, gateway
    <3>2. m \in Entry /\ Grown(m) /\ m.state = "Activate"
      BY <1>3, <2>1, EntryTypes, OtherGrown, <1>1 DEF Entry
    <3>3. mem' = m /\ journal' = [journal EXCEPT ![cur] = m]
      BY <2>4 DEF Save
    <3> HIDE DEF m
    <3>4. JournalInv' /\ PublishedInv'
      BY <1>1, <1>2, <2>1, <3>1, <3>2, <3>3, JournalSaved, PublishedSaved
    <3>5. CopyInv'
      BY <1>2, <2>1, <2>4, <3>1, <3>2, <3>3, CopySaved
    <3>6. mem' = journal'[cur'] /\ mem'.state \notin {"Succeeded", "RolledBack"}
      BY <1>2, <1>3, <2>1, <3>1, <3>2, <3>3
    <3>7. HandlerInv'
      BY <1>2, <2>1, <2>4, <3>1, <3>3, <3>5, <3>6, NewForward
    <3> QED BY <3>4, <3>7 DEF Rest
  <2>5. CASE /\ UNCHANGED <<process, gateway, cur, doubt, mem, journal>>
             /\ \/ todo' = <<<<"park", "file">>>> /\ mode' = "tail"
                \/ todo' = RetryTail /\ mode' = "tail"
                \/ todo' = Forward(cur, mem) /\ mode' = "strict"
    <3>1. UNCHANGED <<pending, admitted, target, cur, mem, journal>>
      BY <2>5 DEF process, gateway
    <3>2. JournalInv' /\ PublishedInv'
      BY <1>1, <2>1, <3>1, JournalKept, PublishedKept
    <3>3. CopyInv'
      BY <1>1, <1>2, <2>1, <2>2, <3>1, CopyUnsaved
    <3>4. mem' = journal'[cur'] /\ mem'.state \notin {"Succeeded", "RolledBack"}
      BY <1>4, <2>1, <3>1
    <3>5. HandlerInv'
      BY <1>2, <2>1, <2>2, <2>5, <3>1, <3>3, <3>4, NewPark, NewRetryTail, NewForward
    <3> QED BY <3>2, <3>5 DEF Rest
  <2> QED BY <1>6, <2>3, <2>4, <2>5, ResumeTailCases
<1>7. CASE FinishPublicationActivation
  <2>1. UNCHANGED <<journal, order, before, marker, active>>
    BY <1>7, ResumeCases DEF durable, stores, product
  <2>2. /\ cur' = Nobody /\ mode' = "steps" /\ target' \in {active, target}
        /\ pending' \subseteq pending /\ admitted' \subseteq admitted
    BY <1>7, ResumeCases, ReturnFacts DEF Return, process
  <2> QED BY <1>1, <2>1, <2>2, ReturnKeeps
<1>8. CASE SaveOperationTail
  <2>1. /\ cur # Nobody /\ UNCHANGED <<order, before, marker, active>>
    BY <1>8 DEF SaveOperationTail, Calls, stores, product
  <2>2. /\ journal' = journal \/ journal' = [journal EXCEPT ![cur] = mem]
        /\ ReturnOperation(mem) \/ ReturnError
    BY <1>8 DEF SaveOperationTail
  <2>3. /\ cur' = Nobody /\ mode' = "steps" /\ target' = target
        /\ pending' \subseteq pending /\ admitted' \subseteq admitted
    BY <2>2, ReturnFacts
  <2>4. CASE journal' = journal
    BY <1>1, <2>1, <2>3, <2>4, ReturnKeeps
  <2>5. CASE journal' = [journal EXCEPT ![cur] = mem]
    <3>1. JournalInv' /\ PublishedInv'
      BY <1>1, <1>2, <1>3, <2>1, <2>3, <2>5, JournalSaved, PublishedSaved
    <3> QED BY <2>3, <3>1, Returned DEF Rest
  <2> QED BY <2>2, <2>4, <2>5
<1>9. CASE ReclaimOperationWriter
  <2>1. /\ cur # Nobody /\ Call = "reclaim"
        /\ UNCHANGED <<journal, order, before, marker, value, active>>
    BY <1>9 DEF ReclaimOperationWriter, Calls, stores, product
  <2>2. \/ mem' = journal[cur] /\ Advance /\ UNCHANGED <<process, gateway>>
        \/ ReturnError
    BY <1>9 DEF ReclaimOperationWriter
  <2>3. CASE ReturnError
    <3>1. ReturnError \/ ReturnOperation(mem)
      BY <2>3
    <3> QED BY <1>1, <2>1, <3>1, ReturnFacts, ReturnKeeps
  <2>4. CASE mem' = journal[cur] /\ Advance /\ UNCHANGED <<process, gateway>>
    <3>1. UNCHANGED <<pending, admitted, target>>
      BY <2>4 DEF process, gateway
    <3>2. mem' = mem
      BY <1>1, <1>2, <2>1, <2>4 DEF CurrentInv, ForwardNames
    <3>3. JournalInv' /\ HandlerInv'
      BY <1>1, <2>1, <2>4, <3>1, <3>2, RunMoved DEF ForwardNames
    <3>4. PublishedInv'
      BY <1>1, <2>1, <3>1, PublishedKept
    <3> QED BY <3>3, <3>4 DEF Rest
  <2> QED BY <2>2, <2>3, <2>4
<1> QED BY <1>5, <1>6, <1>7, <1>8, <1>9

\* A step of the run that fails with nothing saved.
LEMMA FailKeeps ==
  ASSUME TypeOK, Rest, cur # Nobody, Call \notin {"enter", "resume"}, Fail(mem),
         UNCHANGED <<journal, order, before, marker, active, admitted, pending>>, PublishedInv'
  PROVE  Rest'
<1>1. JournalInv /\ HandlerInv /\ AgendaInv /\ CurrentInv /\ mem \in Entry
  BY DEF Rest, HandlerInv, TypeOK
<1>2. <<Call, On>> \in Ahead
  BY <1>1, HandlerFacts
<1>3. mem.state \notin {"Succeeded", "RolledBack"}
  BY <1>1, <1>2 DEF CurrentInv
<1>4. Grown(mem)
  BY <1>1, WrittenGrown
<1>5. JournalInv' /\ HandlerInv'
  BY <1>1, <1>3, <1>4, RunFailed
<1> QED BY <1>5 DEF Rest

\* Staging an effect, and finding that it is not ours.
LEMMA StageStep ==
  ASSUME TypeOK, Rest, StageEffect \/ StagePublication
  PROVE  Rest'
<1>1. /\ JournalInv /\ PublishedInv /\ HandlerInv /\ AgendaInv /\ CurrentInv
      /\ mem \in Entry /\ cur # Nobody /\ Call = "stage" /\ cur \in Operations
      /\ UNCHANGED <<admitted, pending, target, suspended, uncertain>>
  BY StageEffectCases, StagePublicationCases, HandlerFacts
     DEF Rest, HandlerInv, TypeOK, Calls, process, gateway
<1>2. \/ Advance /\ UNCHANGED <<durable, stores, active, lkg, mem, doubt>>
      \/ /\ StageEffect
         /\ CanStage(marker[cur][On], value[On], before[cur][On])
         /\ marker' = [marker EXCEPT ![cur][On] = "staged"]
         /\ Advance
         /\ UNCHANGED <<durable, value, product, mem, doubt>>
      \/ FailRecorded(On)
      \/ Fail(mem) /\ UNCHANGED <<durable, stores, product>>
  BY StageEffectCases, StagePublicationCases DEF product
<1>3. <<Call, On>> \in Ahead
  BY <1>1, HandlerFacts
<1>4. CASE Advance /\ UNCHANGED <<durable, stores, active, lkg, mem, doubt>>
  <2>1. UNCHANGED <<journal, order, before, marker, value, active, mem>>
    BY <1>4 DEF durable, stores
  <2>2. JournalInv' /\ HandlerInv'
    BY <1>1, <1>4, <2>1, RunMoved DEF ForwardNames
  <2>3. PublishedInv'
    BY <1>1, <2>1, PublishedKept
  <2> QED BY <2>2, <2>3 DEF Rest
<1>5. CASE /\ StageEffect
           /\ CanStage(marker[cur][On], value[On], before[cur][On])
           /\ marker' = [marker EXCEPT ![cur][On] = "staged"]
           /\ Advance
           /\ UNCHANGED <<durable, value, product, mem, doubt>>
  <2>1. UNCHANGED <<journal, order, before, value, active, mem>> /\ marker[cur][On] = "none"
    BY <1>5 DEF durable, product, CanStage
  <2>2. \A o \in Operations, c \in Cells : marker[o][c] = "active" => marker'[o][c] = "active"
    <3>1. /\ marker \in [Operations -> [Cells -> Markers]] /\ On \in Cells
      BY <1>5, StageEffectCases DEF TypeOK
    <3> QED BY <1>1, <1>5, <2>1, <3>1
  <2>3. \A o \in Operations : \A k \in Backing(o) : k \in Cells
    BY RankFacts
  <2>4. JournalInv' /\ HandlerInv'
    <3>1. \A k \in Backing(cur) : marker[cur][k] = "active" \/ <<Call, On>> = <<"activate", k>>
                                    => marker'[cur][k] = "active"
      BY <1>1, <2>2, <2>3
    <3> QED BY <1>1, <1>5, <2>1, <3>1, RunMoved DEF ForwardNames
  <2>5. PublishedInv'
    <3>1. {active, target} \subseteq Operations \cup {Nobody}
      BY DEF TypeOK
    <3> QED BY <1>1, <2>1, <2>2, <2>3, <3>1 DEF PublishedInv, Known
  <2> QED BY <2>4, <2>5 DEF Rest
<1>6. CASE FailRecorded(On)
  <2> DEFINE m == Written("record", On)
  <2>1. m \in Entry /\ Grown(m)
    BY <1>1, WrittenType, WrittenGrown
  <2>2. /\ m.state \notin {"Succeeded", "RolledBack"}
        /\ m.decision = "Abort" => mem.decision = "Abort"
    BY <1>1, <1>3, WrittenKeeps DEF CurrentInv
  <2>3. /\ journal' = [journal EXCEPT ![cur] = m] /\ Fail(m)
        /\ UNCHANGED <<order, before, marker, active>>
    BY <1>6 DEF FailRecorded, stores, product
  <2> HIDE DEF m
  <2>4. PublishedInv'
    BY <1>1, <2>1, <2>3, PublishedSaved
  <2>5. JournalInv' /\ HandlerInv'
    BY <1>1, <2>1, <2>2, <2>3, <2>4, RunFailed
  <2> QED BY <2>4, <2>5 DEF Rest
<1>7. CASE Fail(mem) /\ UNCHANGED <<durable, stores, product>>
  <2>1. UNCHANGED <<journal, order, before, marker, active>>
    BY <1>7 DEF durable, stores, product
  <2>2. PublishedInv'
    BY <1>1, <2>1, PublishedKept
  <2> QED BY <1>1, <1>7, <2>1, <2>2, FailKeeps
<1> QED BY <1>2, <1>4, <1>5, <1>6, <1>7

\* The saves of the run, and what it does to the files and the requests.
LEMMA ProgressStep ==
  ASSUME TypeOK, Rest,
         \/ SaveProgress \/ RecordEffect \/ SealSettingsServiceCompletion
         \/ BeginPublicationActivation \/ SwitchFile
  PROVE  Rest'
<1>1. JournalInv /\ PublishedInv /\ HandlerInv
  BY DEF Rest
<1>2. CASE SaveProgress
  <2>1. /\ cur # Nobody /\ Call \in {"begin", "complete"}
        /\ Save(Written(Call, On)) /\ Advance
        /\ UNCHANGED <<order, before, admitted, pending, marker, active, target>>
    BY <1>2 DEF SaveProgress, Calls, stores, product, gateway, process
  <2> QED BY <1>1, <2>1, RunSaved DEF Rest
<1>3. CASE RecordEffect
  <2>1. /\ cur # Nobody /\ Call = "record" /\ Advance
        /\ UNCHANGED <<order, before, admitted, pending, marker, value, active, target>>
    BY <1>3 DEF RecordEffect, Calls, stores, product, gateway, process
  <2>2. CASE On \in mem.recorded
    <3>1. UNCHANGED <<mem, journal>>
      BY <1>3, <2>2 DEF RecordEffect
    <3>2. JournalInv' /\ HandlerInv'
      BY <1>1, <2>1, <2>2, <3>1, RunMoved DEF ForwardNames
    <3>3. PublishedInv'
      BY <1>1, <2>1, <3>1, PublishedKept
    <3> QED BY <3>2, <3>3 DEF Rest
  <2>3. CASE On \notin mem.recorded
    <3>1. Save(Written(Call, On))
      BY <1>3, <2>1, <2>3 DEF RecordEffect
    <3> QED BY <1>1, <2>1, <3>1, RunSaved DEF Rest
  <2> QED BY <2>2, <2>3
<1>4. CASE SealSettingsServiceCompletion
  <2>1. /\ cur # Nobody /\ Call = "seal"
        /\ UNCHANGED <<order, before, admitted, pending, marker, active, target>>
        /\ \/ Save(Written(Call, On)) /\ Advance
           \/ Fail(mem) /\ UNCHANGED journal
    BY <1>4 DEF SealSettingsServiceCompletion, Calls, stores, product, gateway, process
  <2>2. CASE Save(Written(Call, On)) /\ Advance
    BY <1>1, <2>1, <2>2, RunSaved DEF Rest
  <2>3. CASE Fail(mem) /\ UNCHANGED journal
    <3>1. PublishedInv'
      BY <1>1, <2>1, <2>3, PublishedKept
    <3> QED BY <2>1, <2>3, <3>1, FailKeeps
  <2> QED BY <2>1, <2>2, <2>3
<1>5. CASE BeginPublicationActivation \/ SwitchFile
  <2>1. /\ cur # Nobody /\ Call \in {"suspend", "switch"}
        /\ UNCHANGED <<journal, order, before, admitted, pending, marker, active, target>>
        /\ \/ Advance /\ UNCHANGED mem
           \/ Fail(mem)
    BY <1>5 DEF BeginPublicationActivation, SwitchFile, Calls, durable, stores, product, gateway,
                process
  <2>2. PublishedInv'
    BY <1>1, <2>1, PublishedKept
  <2>3. CASE Advance /\ UNCHANGED mem
    <3>1. JournalInv' /\ HandlerInv'
      BY <1>1, <2>1, <2>3, RunMoved DEF ForwardNames
    <3> QED BY <2>2, <3>1 DEF Rest
  <2>4. CASE Fail(mem)
    BY <2>1, <2>2, <2>4, FailKeeps
  <2> QED BY <2>1, <2>3, <2>4
<1> QED BY <1>2, <1>3, <1>4, <1>5

\* An effect is activated: it is active afterwards, and was ours to activate.
LEMMA ActivateStep ==
  ASSUME TypeOK, Rest, ActivateEffect
  PROVE  Rest'
<1>1. /\ JournalInv /\ PublishedInv /\ HandlerInv /\ AgendaInv
      /\ cur # Nobody /\ Call = "activate" /\ cur \in Operations
      /\ UNCHANGED <<journal, order, before, active, target, admitted, pending>>
  BY ActivateEffectCases, HandlerFacts
     DEF Rest, HandlerInv, TypeOK, Calls, durable, product, process, gateway
<1>2. On \in Plan[cur] \cap Cells /\ On \in Kinds
  BY <1>1, OnFacts
<1>3. marker \in [Operations -> [Cells -> Markers]] /\ {active, target} \subseteq Operations \cup {Nobody}
  BY DEF TypeOK
<1>4. \A o \in Operations : \A k \in Backing(o) : k \in Cells
  BY RankFacts
<1>5. ASSUME Advance, UNCHANGED mem, marker'[cur][On] = "active",
             \A o \in Operations, c \in Cells : marker[o][c] = "active" => marker'[o][c] = "active"
      PROVE  Rest'
  <2>2. \A k \in Backing(cur) : marker[cur][k] = "active" \/ <<Call, On>> = <<"activate", k>>
                                  => marker'[cur][k] = "active"
    BY <1>1, <1>4, <1>5
  <2>3. JournalInv' /\ HandlerInv'
    BY <1>1, <1>5, <2>2, RunMoved DEF ForwardNames
  <2>4. PublishedInv'
    BY <1>1, <1>3, <1>4, <1>5 DEF PublishedInv, Known
  <2> QED BY <2>3, <2>4 DEF Rest
<1>6. CASE Fail(mem) /\ UNCHANGED stores
  <2>1. marker' = marker
    BY <1>6 DEF stores
  <2>2. PublishedInv'
    BY <1>1, <2>1, PublishedKept
  <2> QED BY <1>1, <1>6, <2>1, <2>2, FailKeeps
<1>7. Seen(On) = "Applied" => marker[cur][On] = "active"
  BY <1>1, <1>2, SeenApplied
<1>8. \/ Seen(On) = "Applied" /\ Advance /\ UNCHANGED <<stores, mem, doubt>>
      \/ marker' = [marker EXCEPT ![cur][On] = "active"] /\ Advance /\ UNCHANGED <<mem, doubt>>
      \/ Fail(mem) /\ UNCHANGED stores
  BY ActivateEffectCases, Zenon
<1>9. CASE Seen(On) = "Applied" /\ Advance /\ UNCHANGED <<stores, mem, doubt>>
  <2>1. UNCHANGED mem /\ marker' = marker /\ marker[cur][On] = "active"
    BY <1>7, <1>9 DEF stores
  <2> QED BY <1>5, <1>9, <2>1
<1>10. CASE marker' = [marker EXCEPT ![cur][On] = "active"] /\ Advance /\ UNCHANGED <<mem, doubt>>
  <2>1. /\ marker'[cur][On] = "active"
        /\ \A o \in Operations, c \in Cells : marker[o][c] = "active" => marker'[o][c] = "active"
    BY <1>1, <1>2, <1>3, <1>10
  <2>2. UNCHANGED mem
    BY <1>10
  <2> QED BY <1>5, <1>10, <2>1, <2>2
<1> QED BY <1>6, <1>8, <1>9, <1>10

\* Publishing: the checkpoint, the installation, the record of the Product.
LEMMA PublishStep ==
  ASSUME TypeOK, Rest,
         \/ PreparePublicationActivation \/ InstallPublication \/ InstallUncertain
         \/ MarkPublicationActive
  PROVE  Rest'
<1>1. /\ JournalInv /\ PublishedInv /\ HandlerInv /\ AgendaInv /\ CopyInv /\ CurrentInv
      /\ ActivationInv /\ mem \in Entry /\ journal \in [Operations -> Entry]
  BY DEF Rest, HandlerInv, TypeOK
<1>2. cur # Nobody => /\ cur \in Operations /\ <<Call, On>> \in Ahead /\ Grown(mem)
                      /\ \A c \in Ahead \ {<<Call, On>>} :
                           Rank(cur, <<Call, On>>) < Rank(cur, c)
  BY <1>1, HandlerFacts, WrittenGrown
<1>3. ASSUME PreparePublicationActivation PROVE Rest'
  <2>1. /\ cur # Nobody /\ Call = "checkpoint"
        /\ UNCHANGED <<order, before, marker, value, active, target, admitted, pending>>
    BY <1>3, CheckpointCases DEF Calls, stores, product, gateway, process
  <2>2. CASE Advance /\ UNCHANGED <<mem, journal, doubt>>
    <3>1. JournalInv' /\ HandlerInv'
      BY <1>1, <2>1, <2>2, RunMoved DEF ForwardNames
    <3>2. PublishedInv'
      BY <1>1, <2>1, <2>2, PublishedKept
    <3> QED BY <3>1, <3>2 DEF Rest
  <2> DEFINE m == Written(Call, On)
  <2>3. CASE /\ Save(m)
             /\ todo' = <<<<"install", On>>, <<"mark", On>>>> \o Tail(todo)
             /\ UNCHANGED <<cur, mode, doubt>>
    <3>1. m \in Entry /\ Grown(m)
      BY <1>1, <2>1, WrittenType, WrittenGrown
    <3>2. /\ m.state \notin {"Succeeded", "RolledBack"} /\ m.decision = "Install"
          /\ mem.recorded \subseteq m.recorded
      BY <1>1, <1>2, <2>1, WrittenKeeps DEF CurrentInv
    <3>3. mem' = m /\ journal' = [journal EXCEPT ![cur] = m] /\ cur' = cur /\ mode' = mode
      BY <2>3 DEF Save
    <3> HIDE DEF m
    <3>4. JournalInv' /\ PublishedInv'
      BY <1>1, <1>2, <2>1, <3>1, <3>3, JournalSaved, PublishedSaved
    <3>5. CopyInv'
      BY <1>1, <1>2, <2>1, <3>1, <3>3, CopySaved DEF CopyInv
    <3>6. mem' = journal'[cur]
      BY <1>1, <1>2, <2>1, <3>3
    <3>7. HandlerInv'
      BY <1>1, <2>1, <2>3, <3>2, <3>3, <3>5, <3>6, InstallAdvance
    <3> QED BY <3>4, <3>7 DEF Rest
  <2>4. CASE Fail(mem) /\ UNCHANGED journal
    <3>1. PublishedInv'
      BY <1>1, <2>1, <2>4, PublishedKept
    <3> QED BY <2>1, <2>4, <3>1, FailKeeps
  <2> QED BY <1>3, <2>2, <2>3, <2>4, CheckpointCases
<1>4. cur # Nobody /\ Call \in {"install", "mark"} =>
        /\ Known(cur) /\ "publication" \in journal[cur].recorded
        /\ journal[cur].decision = "Install"
        /\ \A k \in Backing(cur) : marker[cur][k] = "active"
  <2> SUFFICES ASSUME cur # Nobody, Call \in {"install", "mark"}
               PROVE  /\ Known(cur) /\ "publication" \in journal[cur].recorded
                      /\ journal[cur].decision = "Install"
                      /\ \A k \in Backing(cur) : marker[cur][k] = "active"
    OBVIOUS
  <2>1. On = "publication" /\ On \in Plan[cur]
    BY <1>1, OnFacts
  <2>2. <<Call, On>> \in InstallCalls /\ <<Call, On>> \in PublishCalls
    BY <2>1 DEF InstallCalls, PublishCalls
  <2>3. mem = journal[cur] /\ mem.decision = "Install"
    BY <1>1, <1>2, <2>2 DEF CurrentInv, ActivationInv, ForwardNames
  <2>4. Rank(cur, <<Call, On>>) \in 133..134
    BY <1>2, <2>2, RankFacts
  <2>5. "publication" \in mem.recorded
    <3>1. Rank(cur, <<"record", "publication">>) = 82
      BY <1>2, RankFacts
    <3>2. <<"record", "publication">> # <<Call, On>>
      OBVIOUS
    <3>3. <<"record", "publication">> \notin Ahead
      BY <1>2, <2>4, <3>1, <3>2
    <3> QED BY <1>1, <1>2, <2>1, <2>2, <3>3 DEF ActivationInv
  <2>6. ASSUME NEW k \in Backing(cur) PROVE marker[cur][k] = "active"
    <3>1. Rank(cur, <<"activate", k>>) \in 126..131
      BY <1>2, RankFacts
    <3>2. <<"activate", k>> # <<Call, On>>
      OBVIOUS
    <3>3. <<"activate", k>> \notin Ahead
      BY <1>2, <2>4, <3>1, <3>2
    <3> QED BY <1>1, <1>2, <2>2, <3>3 DEF ActivationInv
  <2> QED BY <1>1, <2>3, <2>5, <2>6 DEF CopyInv
<1>5. ASSUME cur # Nobody, Call \in {"install", "mark"}, {active', target'} \subseteq {active, target, cur},
             UNCHANGED <<journal, marker>>
      PROVE  PublishedInv'
  BY <1>1, <1>4, <1>5 DEF PublishedInv, Known
<1>6. ASSUME InstallPublication \/ InstallUncertain PROVE Rest'
  <2>1. /\ cur # Nobody /\ Call = "install" /\ {active', target'} \subseteq {active, target, cur}
        /\ UNCHANGED <<journal, order, before, marker, value, active, admitted, pending>>
        /\ \/ Advance /\ UNCHANGED mem
           \/ Fail(mem)
    BY <1>6 DEF InstallPublication, InstallUncertain, Calls, durable, stores, product, process
  <2>2. PublishedInv'
    BY <1>5, <2>1
  <2>3. CASE Advance /\ UNCHANGED mem
    <3>1. JournalInv' /\ HandlerInv'
      BY <1>1, <2>1, <2>3, RunMoved DEF ForwardNames
    <3> QED BY <2>2, <3>1 DEF Rest
  <2>4. CASE Fail(mem)
    BY <2>1, <2>2, <2>4, FailKeeps
  <2> QED BY <2>1, <2>3, <2>4
<1>7. ASSUME MarkPublicationActive PROVE Rest'
  <2>1. /\ cur # Nobody /\ Call = "mark"
        /\ UNCHANGED <<journal, order, before, marker, value, target, admitted, pending>>
        /\ \/ Advance /\ UNCHANGED mem /\ active' \in {active, cur}
           \/ Fail(mem) /\ active' = active
    BY <1>7, MarkCases DEF Calls, durable, stores, product, gateway, process
  <2>2. PublishedInv'
    BY <1>5, <2>1
  <2>3. CASE Advance /\ UNCHANGED mem
    <3>1. JournalInv' /\ HandlerInv'
      BY <1>1, <2>1, <2>3, RunMoved DEF ForwardNames
    <3> QED BY <2>2, <3>1 DEF Rest
  <2>4. CASE Fail(mem) /\ active' = active
    BY <2>1, <2>2, <2>4, FailKeeps
  <2> QED BY <2>1, <2>3, <2>4
<1> QED BY <1>3, <1>6, <1>7

\* The terminal check, and the record of success.
LEMMA SuccessStep ==
  ASSUME TypeOK, Rest, ReconcileTerminalSuccess \/ FinishSuccess
  PROVE  Rest'
<1>1. /\ JournalInv /\ PublishedInv /\ HandlerInv /\ AgendaInv /\ CopyInv /\ CurrentInv
      /\ mem \in Entry /\ journal \in [Operations -> Entry] /\ cur # Nobody
  BY DEF Rest, HandlerInv, TypeOK, ReconcileTerminalSuccess, FinishSuccess, Calls
<1>2. /\ cur \in Operations /\ <<Call, On>> \in Ahead /\ Grown(mem)
  BY <1>1, HandlerFacts, WrittenGrown
<1>3. Call \in {"verify", "finish"} =>
        mem = journal[cur] /\ mem.state \notin {"Succeeded", "RolledBack"}
  BY <1>1, <1>2 DEF CurrentInv, ForwardNames
<1>4. CASE ReconcileTerminalSuccess
  <2>1. /\ Call = "verify"
        /\ UNCHANGED <<journal, order, before, marker, value, active, target, admitted, pending,
                       cur, mem, mode, doubt>>
        /\ todo' = IF \A k \in Plan[cur] : Seen(k) = "Applied"
                     THEN Tail(todo) ELSE Rollback(cur, mem)
    BY <1>4 DEF ReconcileTerminalSuccess, Calls, durable, stores, product, gateway, process
  <2>2. PublishedInv' /\ JournalInv'
    BY <1>1, <2>1, PublishedKept, JournalKept
  <2>3. CASE \A k \in Plan[cur] : Seen(k) = "Applied"
    <3>1. Plan[cur] \subseteq Kinds
      BY <1>2, PlanFacts
    <3>2. \A k \in Plan[cur] : /\ k \in Cells => marker[cur][k] = "active" /\ value[k] = cur
                               /\ k = "publication" => active = cur /\ target = cur
      BY <1>2, <2>3, <3>1, SeenApplied
    <3>3. /\ \A c \in Plan[cur] \cap Rows : marker'[cur][c] = "active" /\ value'[c] = cur
          /\ \A c \in Plan[cur] \cap Files : marker'[cur][c] = "active"
          /\ "publication" \in Plan[cur] => active' = cur /\ target' = cur
      BY <2>1, <3>2 DEF Cells
    <3>4. Advance
      BY <2>1, <2>3 DEF Advance
    <3>5. \A k \in Backing(cur) : marker[cur][k] = "active" \/ <<Call, On>> = <<"activate", k>>
                                    => marker'[cur][k] = "active"
      BY <2>1
    <3>6. HandlerInv'
      BY <1>1, <2>1, <3>3, <3>4, <3>5, RunMoved DEF ForwardNames
    <3> QED BY <2>2, <3>6 DEF Rest
  <2>4. CASE ~(\A k \in Plan[cur] : Seen(k) = "Applied")
    <3>1. todo' = Rollback(cur', mem')
      BY <2>1, <2>4
    <3>2. CopyInv'
      BY <1>1, <1>2, <2>1, CopyUnsaved DEF CopyInv
    <3>3. HandlerInv'
      BY <1>2, <1>3, <2>1, <2>2, <3>1, <3>2, NewRollback
    <3> QED BY <2>2, <3>3 DEF Rest
  <2> QED BY <2>3, <2>4
<1>5. CASE FinishSuccess
  <2>1. /\ Call = "finish" /\ FinishReleasing("Succeeded")
        /\ UNCHANGED <<order, before, marker, value, active>>
    BY <1>5 DEF FinishSuccess, Calls, stores, product
  <2> DEFINE m == [mem EXCEPT !.state = "Succeeded"]
  <2>2. CASE claim = cur
    <3>1. /\ Save(m) /\ Advance /\ UNCHANGED <<target, admitted, pending>>
      BY <2>1, <2>2 DEF FinishReleasing, process, gateway
    <3>2. m \in Entry /\ Grown(m)
      BY <1>1, EntryTypes, OtherGrown DEF States, Terminal
    <3>3. m.recorded = mem.recorded /\ m.decision = mem.decision
      BY <1>1 DEF Entry
    <3>4. mem' = m /\ journal' = [journal EXCEPT ![cur] = m] /\ cur' = cur /\ mode' = mode
      BY <3>1 DEF Save, Advance
    <3> HIDE DEF m
    <3>5. JournalInv' /\ PublishedInv'
      BY <1>1, <1>2, <2>1, <3>1, <3>2, <3>4, JournalSaved, PublishedSaved
    <3>6. CopyInv'
      BY <1>1, <1>2, <2>1, <3>2, <3>4, CopySaved DEF CopyInv
    <3>7. mem' = journal'[cur]
      BY <1>1, <1>2, <3>4
    <3>8. HandlerInv'
      BY <1>1, <2>1, <3>1, <3>3, <3>4, <3>6, <3>7, ForwardAdvance DEF ForwardNames
    <3> QED BY <3>5, <3>8 DEF Rest
  <2>3. CASE claim # cur
    <3>1. ReturnError /\ UNCHANGED journal
      BY <2>1, <2>3 DEF FinishReleasing
    <3>2. ReturnError \/ ReturnOperation(mem)
      BY <3>1
    <3> QED BY <1>1, <2>1, <3>1, <3>2, ReturnFacts, ReturnKeeps
  <2> QED BY <2>2, <2>3
<1> QED BY <1>4, <1>5

\* Rolling back.
LEMMA RollbackStep ==
  ASSUME TypeOK, Rest,
         \/ PreparePublicationRollback \/ SaveRollbackProgress \/ ReconcileForRollback
         \/ CompensateEffect \/ CompensatePublication \/ SettleCompensation \/ FinishRollback
  PROVE  Rest'
<1>1. /\ JournalInv /\ PublishedInv /\ HandlerInv /\ AgendaInv /\ CopyInv /\ CurrentInv /\ RollbackInv
      /\ mem \in Entry /\ journal \in [Operations -> Entry]
  BY DEF Rest, HandlerInv, TypeOK
<1>2. cur # Nobody => /\ cur \in Operations /\ <<Call, On>> \in Ahead /\ Grown(mem)
                      /\ \A c \in Ahead \ {<<Call, On>>} :
                           Rank(cur, <<Call, On>>) < Rank(cur, c)
  BY <1>1, HandlerFacts, WrittenGrown
<1>3. cur # Nobody /\ Call \in BackNames \ {"resume"} =>
        mem.state \notin {"Succeeded", "RolledBack"}
  BY <1>1, <1>2 DEF CurrentInv, BackNames
<1>4. ASSUME PreparePublicationRollback PROVE Rest'
  <2>1. /\ cur # Nobody /\ Call = "abort"
        /\ UNCHANGED <<order, before, marker, active>>
    BY <1>4, AbortCases DEF Calls, stores, product
  <2>2. CASE /\ IsCurrent /\ (mem.decision = "Abort" \/ StillBefore)
             /\ Save(Written(Call, On)) /\ Advance /\ UNCHANGED <<process, gateway, doubt>>
    <3>1. cur \notin {active, target}
      <4>1. CASE mem.decision = "Abort"
        <5>1. journal[cur].decision = "Abort"
          BY <1>1, <2>1, <4>1 DEF CopyInv
        <5> QED BY <1>1, <1>2, <2>1, <5>1 DEF PublishedInv
      <4>2. CASE StillBefore
        <5>1. active # cur /\ target = before[cur]["publication"]
          BY <4>2 DEF StillBefore
        <5>2. before[cur]["publication"] # cur
          BY <1>1, <1>2, <2>1 DEF JournalInv, CopyInv
        <5> QED BY <5>1, <5>2
      <4> QED BY <2>2, <4>1, <4>2
    <3> DEFINE m == Written(Call, On)
    <3>2. m \in Entry /\ Grown(m) /\ m.state \notin {"Succeeded", "RolledBack"}
      BY <1>1, <1>3, <2>1, <3>1, WrittenType, WrittenGrown, WrittenKeeps DEF BackNames
    <3>3. /\ cur' = cur /\ mode' = mode /\ todo' = Tail(todo) /\ Save(m)
          /\ UNCHANGED <<target, admitted, pending>>
      BY <2>2 DEF Advance, process, gateway
    <3> HIDE DEF m
    <3> QED BY <1>1, <2>1, <3>1, <3>2, <3>3, RollbackSaved DEF Rest, BackNames
  <2>3. CASE /\ \/ UNCHANGED journal
                \/ journal' = [journal EXCEPT ![cur] = [mem EXCEPT !.state = "NeedsAttention"]]
             /\ \/ ReturnError
                \/ writesOpen' = FALSE /\ Return /\ UNCHANGED <<phase, pending, admitted, gateway>>
    <3> DEFINE m == [mem EXCEPT !.state = "NeedsAttention"]
    <3>1. /\ cur' = Nobody /\ mode' = "steps" /\ target' = target
          /\ pending' \subseteq pending /\ admitted' \subseteq admitted
      <4>1. CASE ReturnError
        <5>1. ReturnError \/ ReturnOperation(mem)
          BY <4>1
        <5> QED BY <5>1, ReturnFacts
      <4>2. CASE Return /\ UNCHANGED <<phase, pending, admitted, gateway>>
        BY <4>2 DEF Return, gateway
      <4> QED BY <2>3, <4>1, <4>2
    <3>2. CASE UNCHANGED journal
      BY <1>1, <2>1, <3>1, <3>2, ReturnKeeps
    <3>3. CASE journal' = [journal EXCEPT ![cur] = m]
      <4>1. m \in Entry /\ Grown(m)
        BY <1>1, <2>1, EntryTypes, OtherGrown DEF States, Terminal
      <4> HIDE DEF m
      <4>2. JournalInv' /\ PublishedInv'
        BY <1>1, <1>2, <2>1, <3>1, <3>3, <4>1, JournalSaved, PublishedSaved
      <4> QED BY <3>1, <4>2, Returned DEF Rest
    <3> QED BY <2>3, <3>2, <3>3
  <2> QED BY <1>4, <2>2, <2>3, AbortCases
<1>5. ASSUME SaveRollbackProgress PROVE Rest'
  <2> DEFINE m == Written(Call, On)
  <2>1. /\ cur # Nobody /\ Call \in {"rollback", "compensating"} /\ Save(m)
        /\ cur' = cur /\ mode' = mode /\ todo' = Tail(todo)
        /\ UNCHANGED <<order, before, admitted, pending, marker, active, target>>
    BY <1>5 DEF SaveRollbackProgress, Calls, Advance, stores, product, gateway, process
  <2>2. m \in Entry /\ Grown(m) /\ m.state \notin {"Succeeded", "RolledBack"}
    BY <1>1, <1>3, <2>1, WrittenType, WrittenGrown, WrittenKeeps DEF BackNames
  <2> HIDE DEF m
  <2> QED BY <1>1, <2>1, <2>2, RollbackSaved DEF Rest, BackNames
<1>6. ASSUME ReconcileForRollback PROVE Rest'
  <2> DEFINE m == Written("record", On)
  <2>1. /\ cur # Nobody /\ Call = "reconcile"
        /\ UNCHANGED <<order, before, admitted, pending, marker, active, target, cur, mode>>
        /\ Save(m) \/ UNCHANGED <<mem, journal>>
        /\ \/ todo' = Tail(todo)
           \/ /\ todo' = Tail(Tail(todo)) /\ Tail(todo) # <<>>
              /\ Head(Tail(todo))[1] = "reconcile"
    BY <1>6 DEF ReconcileForRollback, SkipReconciling, Calls, stores, product, gateway, process
  <2>2. m \in Entry /\ Grown(m) /\ m.state \notin {"Succeeded", "RolledBack"}
    BY <1>1, <1>3, <2>1, WrittenType, WrittenGrown, WrittenKeeps DEF BackNames
  <2> HIDE DEF m
  <2>3. CASE Save(m)
    BY <1>1, <2>1, <2>2, <2>3, RollbackSaved DEF Rest, BackNames
  <2>4. CASE UNCHANGED <<mem, journal>>
    <3>1. JournalInv' /\ HandlerInv'
      BY <1>1, <2>1, <2>4, RollbackMoved DEF BackNames
    <3>2. PublishedInv'
      BY <1>1, <2>1, <2>4, PublishedKept
    <3> QED BY <3>1, <3>2 DEF Rest
  <2> QED BY <2>1, <2>3, <2>4
<1>7. cur # Nobody /\ Call = "compensate" => cur \notin {active, target}
  <2> SUFFICES ASSUME cur # Nobody, Call = "compensate" PROVE cur \notin {active, target}
    OBVIOUS
  <2>1. On \in Plan[cur] /\ <<Call, On>> \in CallSet(cur)
    BY <1>1, OnFacts, HandlerFacts
  <2>2. Rank(cur, <<Call, On>>) \in 310..365
    BY <1>2, <2>1, RankBounds
  <2>3. <<"abort", "publication">> \notin Ahead
    <3>1. Rank(cur, <<"abort", "publication">>) = 300
      BY <1>2, RankFacts
    <3>2. <<"abort", "publication">> # <<Call, On>>
      OBVIOUS
    <3> QED BY <1>2, <2>2, <3>1, <3>2
  <2>4. \E c \in Ahead : c[1] = "compensate"
    BY <1>2
  <2> QED BY <1>1, <2>3, <2>4 DEF RollbackInv
<1>8. ASSUME CompensateEffect \/ CompensatePublication PROVE Rest'
  <2>1. /\ cur # Nobody /\ Call = "compensate" /\ todo' = Tail(todo)
        /\ UNCHANGED <<journal, order, before, admitted, pending, active, target, cur, mem, mode>>
    BY <1>8 DEF CompensateEffect, CompensatePublication, Calls, durable, product, gateway, process
  <2>2. JournalInv' /\ HandlerInv'
    BY <1>1, <2>1, RollbackMoved DEF BackNames
  <2>3. \A o \in Operations \ {cur} : marker'[o] = marker[o]
    <3>1. \/ UNCHANGED stores
          \/ marker' = [marker EXCEPT ![cur][On] =
               Compensation(On, cur, marker[cur][On], value[On], before[cur][On]).marker]
      BY <1>8 DEF CompensateEffect, CompensatePublication
    <3>2. marker \in [Operations -> [Cells -> Markers]]
      BY DEF TypeOK
    <3> QED BY <3>1, <3>2 DEF stores
  <2>4. PublishedInv'
    <3>1. {active, target} \subseteq Operations \cup {Nobody}
      BY DEF TypeOK
    <3>2. \A o \in {active, target} \ {Nobody} : marker'[o] = marker[o]
      BY <1>7, <2>1, <2>3, <3>1
    <3> QED BY <1>1, <2>1, <3>2 DEF PublishedInv, Known
  <2> QED BY <2>2, <2>4 DEF Rest
<1>9. ASSUME SettleCompensation PROVE Rest'
  <2> DEFINE m == [mem EXCEPT !.status[On] = IF doubt THEN "Attention" ELSE "Compensated"]
  <2>1. /\ cur # Nobody /\ Call = "settle" /\ Save(m)
        /\ cur' = cur /\ mode' = mode /\ todo' = Tail(todo)
        /\ UNCHANGED <<order, before, admitted, pending, marker, active, target>>
    BY <1>9 DEF SettleCompensation, Calls, Advance, stores, product, gateway, process
  <2>2. m \in Entry /\ Grown(m) /\ m.state = mem.state
    <3>1. On \in Steps
      BY <1>1, <2>1, OnFacts
    <3>2. \A t \in {"Attention", "Compensated"} :
            /\ t \in Statuses \ {"Applied"}
            /\ [mem EXCEPT !.status[On] = t] \in Entry /\ Grown([mem EXCEPT !.status[On] = t])
            /\ [mem EXCEPT !.status[On] = t].state = mem.state
      <4>1. \A t \in {"Attention", "Compensated"} : t \in Statuses \ {"Applied"}
        BY DEF Statuses
      <4>2. \A t \in {"Attention", "Compensated"} : [mem EXCEPT !.status[On] = t] \in Entry
        BY <1>1, <3>1, <4>1, EntryTypes
      <4>3. \A t \in {"Attention", "Compensated"} : Grown([mem EXCEPT !.status[On] = t])
        BY <1>1, <2>1, <3>1, <4>1, OtherGrown
      <4>4. \A t \in {"Attention", "Compensated"} : [mem EXCEPT !.status[On] = t].state = mem.state
        BY <1>1 DEF Entry
      <4> QED BY <4>1, <4>2, <4>3, <4>4
    <3>3. CASE doubt
      <4>1. m = [mem EXCEPT !.status[On] = "Attention"]
        BY <3>3
      <4> QED BY <3>2, <4>1
    <3>4. CASE ~doubt
      <4>1. m = [mem EXCEPT !.status[On] = "Compensated"]
        BY <3>4
      <4> QED BY <3>2, <4>1
    <3> QED BY <3>3, <3>4
  <2> HIDE DEF m
  <2> QED BY <1>1, <1>3, <2>1, <2>2, RollbackSaved DEF Rest, BackNames
<1>10. ASSUME FinishRollback PROVE Rest'
  <2>1. /\ cur # Nobody /\ Call = "close"
        /\ UNCHANGED <<order, before, marker, active>>
    BY <1>10 DEF FinishRollback, Calls, stores, product
  <2>2. ASSUME NEW s \in {"RolledBack", "NeedsAttention"}, Save([mem EXCEPT !.state = s]), Advance,
               UNCHANGED <<process, gateway>>
        PROVE  Rest'
    <3> DEFINE m == [mem EXCEPT !.state = s]
    <3>1. m \in Entry /\ Grown(m)
      <4>1. s \in States \ {"none"}
        BY DEF States, Terminal
      <4> QED BY <1>1, <2>1, <4>1, EntryTypes, OtherGrown
    <3>2. /\ cur' = cur /\ mode' = mode /\ todo' = Tail(todo) /\ Save(m)
          /\ UNCHANGED <<target, admitted, pending>>
      BY <2>2 DEF Advance, process, gateway
    <3> HIDE DEF m
    <3> QED BY <1>1, <2>1, <3>1, <3>2, RollbackSaved DEF Rest, BackNames
  <2>3. CASE ReturnError /\ UNCHANGED journal
    <3>1. ReturnError \/ ReturnOperation(mem)
      BY <2>3
    <3> QED BY <1>1, <2>1, <2>3, <3>1, ReturnFacts, ReturnKeeps
  <2> QED BY <1>10, <2>2, <2>3 DEF FinishRollback, FinishReleasing
<1> QED BY <1>4, <1>5, <1>6, <1>8, <1>9, <1>10

\* The environment.
LEMMA EnvironmentStep ==
  ASSUME TypeOK, Rest,
         \/ StepFails \/ VerificationFails \/ CompensationFails \/ HandlerFails
         \/ Crash \/ \E f \in Files : EditFile(f)
  PROVE  Rest'
<1>1. /\ JournalInv /\ PublishedInv /\ HandlerInv /\ AgendaInv /\ CopyInv /\ CurrentInv
      /\ mem \in Entry /\ journal \in [Operations -> Entry]
  BY DEF Rest, HandlerInv, TypeOK
<1>2. cur # Nobody => cur \in Operations /\ <<Call, On>> \in Ahead /\ Grown(mem)
  BY <1>1, HandlerFacts, WrittenGrown
<1>3. cur # Nobody /\ Call \notin {"enter", "resume"} =>
        mem.state \notin {"Succeeded", "RolledBack"}
  BY <1>1, <1>2 DEF CurrentInv
<1>4. ASSUME StepFails PROVE Rest'
  <2> DEFINE m == Written(Call, On)
  <2>1. /\ cur # Nobody /\ Call \in ForwardCalls /\ Fail(m)
        /\ UNCHANGED <<journal, order, before, admitted, pending, marker, active, target>>
    BY <1>4 DEF StepFails, durable, stores, product, gateway, process
  <2>2. /\ m \in Entry /\ Grown(m) /\ m.state \notin {"Succeeded", "RolledBack"}
        /\ m.decision = "Abort" => mem.decision = "Abort"
    BY <1>1, <1>3, <2>1, WrittenType, WrittenGrown, WrittenKeeps DEF ForwardCalls
  <2> HIDE DEF m
  <2>3. PublishedInv'
    BY <1>1, <2>1, PublishedKept
  <2>4. JournalInv' /\ HandlerInv'
    BY <1>1, <2>1, <2>2, <2>3, RunFailed DEF ForwardCalls
  <2> QED BY <2>3, <2>4 DEF Rest
<1>5. ASSUME VerificationFails PROVE Rest'
  <2>1. /\ UNCHANGED <<order, before, admitted, pending, marker, active, target, cur, mode>>
        /\ \/ /\ Calls("verify") /\ todo' = Rollback(cur, mem) /\ UNCHANGED <<mem, journal>>
           \/ /\ Calls("close") /\ Save([mem EXCEPT !.state = "NeedsAttention"])
              /\ todo' = Tail(todo)
    BY <1>5 DEF VerificationFails, stores, product, gateway, process
  <2>2. CASE Calls("verify") /\ todo' = Rollback(cur, mem) /\ UNCHANGED <<mem, journal>>
    <3>1. cur # Nobody /\ Call = "verify" /\ todo' = Rollback(cur', mem')
      BY <2>1, <2>2 DEF Calls
    <3>2. PublishedInv' /\ JournalInv'
      BY <1>1, <2>1, <2>2, PublishedKept, JournalKept
    <3>3. CopyInv'
      BY <1>1, <1>2, <2>1, <2>2, <3>1, CopyUnsaved DEF CopyInv
    <3>4. HandlerInv'
      BY <1>2, <1>3, <2>1, <2>2, <3>1, <3>2, <3>3, NewRollback
    <3> QED BY <3>2, <3>4 DEF Rest
  <2>3. CASE /\ Calls("close") /\ Save([mem EXCEPT !.state = "NeedsAttention"])
             /\ todo' = Tail(todo)
    <3> DEFINE m == [mem EXCEPT !.state = "NeedsAttention"]
    <3>1. cur # Nobody /\ Call = "close" /\ Save(m) /\ todo' = Tail(todo)
      BY <2>3 DEF Calls
    <3>2. m \in Entry /\ Grown(m)
      BY <1>1, <3>1, EntryTypes, OtherGrown DEF States, Terminal
    <3> HIDE DEF m
    <3> QED BY <1>1, <2>1, <3>1, <3>2, RollbackSaved DEF Rest, BackNames
  <2> QED BY <2>1, <2>2, <2>3
<1>6. ASSUME CompensationFails PROVE Rest'
  <2>1. /\ cur # Nobody /\ Call \in {"reconcile", "compensate"}
        /\ mem' = mem \/ (mem' = Written("record", On) /\ Call = "reconcile")
        /\ UNCHANGED <<journal, order, before, admitted, pending, marker, active, target, cur, mode>>
        /\ \/ todo' = Tail(todo)
           \/ /\ todo' = Tail(Tail(todo)) /\ Tail(todo) # <<>>
              /\ Head(Tail(todo))[1] = "reconcile"
    BY <1>6 DEF CompensationFails, SkipReconciling, Calls, durable, stores, product, gateway, process
  <2>2. JournalInv' /\ HandlerInv'
    BY <1>1, <2>1, RollbackMoved DEF BackNames
  <2>3. PublishedInv'
    BY <1>1, <2>1, PublishedKept
  <2> QED BY <2>2, <2>3 DEF Rest
<1>7. ASSUME HandlerFails \/ Crash PROVE Rest'
  <2>1. /\ UNCHANGED <<journal, order, before, marker, active>>
        /\ ReturnError \/ (Stop /\ UNCHANGED target)
    BY <1>7 DEF HandlerFails, Crash, durable, stores, product
  <2>2. /\ cur' = Nobody /\ mode' = "steps" /\ target' = target
        /\ pending' \subseteq pending /\ admitted' \subseteq admitted
    <3>1. CASE ReturnError
      <4>1. ReturnError \/ ReturnOperation(mem)
        BY <3>1
      <4> QED BY <4>1, ReturnFacts
    <3>2. CASE Stop /\ UNCHANGED target
      BY <3>2 DEF Stop
    <3> QED BY <2>1, <3>1, <3>2
  <2> QED BY <1>1, <2>1, <2>2, ReturnKeeps
<1>8. ASSUME NEW f \in Files, EditFile(f) PROVE Rest'
  <2>1. /\ UNCHANGED <<journal, order, before, marker, active, target, admitted, pending, handler>>
        /\ value' = [value EXCEPT ![f] = Foreign]
    BY <1>8 DEF EditFile, durable, product, gateway, process
  <2>2. \A c \in Rows : value'[c] = value[c]
    <3>1. value \in [Cells -> Values] /\ Rows \subseteq Cells /\ f \notin Rows
      BY DEF TypeOK, Cells, Rows, Files
    <3> QED BY <2>1, <3>1
  <2>3. HandlerInv'
    BY <1>1, <2>1, <2>2, Undisturbed
  <2>4. JournalInv' /\ PublishedInv'
    BY <1>1, <2>1, JournalKept, PublishedKept
  <2> QED BY <2>3, <2>4 DEF Rest
<1> QED BY <1>4, <1>5, <1>6, <1>7, <1>8

LEMMA InitInv ==
  ASSUME Init
  PROVE  TypeOK /\ Rest
<1>1. Fresh("none") \in Entry
  BY DEF Entry, Fresh, States, Statuses
<1>2. 0 \in 0..MaxFaults /\ 0 \in 0..MaxCrashes /\ 0 \in 0..MaxEdits
  BY BoundAssumption
<1>3. TypeOK
  <2>1. /\ journal \in [Operations -> Entry] /\ order \in Seq(Operations) /\ mem \in Entry
        /\ before \in [Operations -> [Kinds -> Values \cup {Nobody}]]
        /\ marker \in [Operations -> [Cells -> Markers]] /\ value \in [Cells -> Values]
    <3>1. "none" \in Markers /\ InitialValue \in Values
      BY DEF Markers, Values
    <3>2. [k \in Kinds |-> InitialValue] \in [Kinds -> Values \cup {Nobody}]
      BY <3>1
    <3>3. [c \in Cells |-> "none"] \in [Cells -> Markers]
      BY <3>1
    <3> QED BY <1>1, <3>1, <3>2, <3>3 DEF Init
  <2>2. /\ {claim, active, lkg, prepared, target, cur} \subseteq Operations \cup {Nobody}
        /\ {suspended, uncertain, writesOpen, doubt} \subseteq BOOLEAN
        /\ phase \in {"down", "starting", "up"}
        /\ pending \subseteq Operations /\ admitted \subseteq Operations
        /\ mode \in {"steps", "strict", "tail"}
    BY DEF Init
  <2>3. faults \in 0..MaxFaults /\ crashes \in 0..MaxCrashes /\ edits \in 0..MaxEdits
    BY <1>2 DEF Init
  <2> QED BY <2>1, <2>2, <2>3 DEF TypeOK
<1>4. JournalInv
  <2>1. \A o \in Operations : EntryInv(o, Fresh("none"))
    BY StepFacts DEF EntryInv, Fresh
  <2>2. \A o \in Operations : journal[o] = Fresh("none") /\ ~Known(o)
    BY DEF Init, Known, Fresh
  <2>3. \A o \in Operations, c \in Cells : before[o][c] \in Values
    BY KindFacts DEF Init, Values
  <2>4. Range(order) = {} /\ admitted = {} /\ pending = {}
    BY DEF Init, Range
  <2> QED BY <2>1, <2>2, <2>3, <2>4 DEF JournalInv
<1>5. HandlerInv /\ PublishedInv
  BY DEF Init, HandlerInv, AgendaInv, CopyInv, CurrentInv, ActivationInv, VerifiedInv, RollbackInv,
         PublishedInv
<1> QED BY <1>3, <1>4, <1>5 DEF Rest

LEMMA NextInv ==
  ASSUME TypeOK, Rest, [Next]_vars
  PROVE  TypeOK' /\ Rest'
<1>1. CASE Next
  <2>1. AgendaInv /\ JournalInv
    BY DEF Rest, HandlerInv
  <2>2. TypeOK'
    BY <1>1, <2>1, TypeStep
  <2>3. CASE \E o \in Operations : Request(o)
    BY <2>2, <2>3, RequestStep
  <2>4. CASE Startup
    BY <2>2, <2>4, StartupStep
  <2>5. CASE Continue
    BY <2>2, <2>5, EnterStep, StageStep, ProgressStep, ActivateStep, PublishStep, SuccessStep,
       RollbackStep DEF Continue
  <2>6. CASE Environment
    BY <2>2, <2>6, PublishStep, EnvironmentStep DEF Environment
  <2> QED BY <1>1, <2>2, <2>3, <2>4, <2>5, <2>6 DEF Next
<1>2. CASE UNCHANGED vars
  <2>1. UNCHANGED <<journal, order, before, claim, marker, value, active, lkg, prepared, target,
                    suspended, uncertain, phase, writesOpen, pending, admitted, cur, mem, todo,
                    mode, doubt, faults, crashes, edits>>
    BY <1>2 DEF vars, durable, stores, product, gateway, process, handler, counters
  <2>2. TypeOK'
    BY <2>1 DEF TypeOK
  <2>3. JournalInv' /\ PublishedInv'
    BY <2>1 DEF Rest, JournalInv, PublishedInv, Known
  <2>4. HandlerInv'
    BY <2>1, Undisturbed DEF Rest, handler
  <2> QED BY <2>2, <2>3, <2>4 DEF Rest
<1> QED BY <1>1, <1>2

LEMMA InvHolds == Spec => [](TypeOK /\ Rest)
BY InitInv, NextInv, PTL DEF Spec

-----------------------------------------------------------------------------
(***************************************************************************)
(* What the engine promises                                                *)
(***************************************************************************)
\* The journal, the stores, the Product, the Gateway's target and the handler
\* keep to their types through every run, rollback, failure and crash.
THEOREM EngineTypeCorrect == Spec => []TypeOK
BY InvHolds, PTL

\* The root the Gateway serves, or would serve after a restart, is backed by
\* active effects, however installs, rollbacks and crashes interleave: the
\* activation order of activate_exact_effects and the abort decision of
\* finish_rollback suffice.
THEOREM ServedRootStaysBacked == Spec => []ServedRootIsBacked
<1>1. TypeOK /\ Rest => ServedRootIsBacked
  BY DEF Rest, PublishedInv, ServedRootIsBacked
<1> QED BY <1>1, InvHolds, PTL

\* Only finish_operation records a success, and only for an Operation that
\* holds the claim.
LEMMA OnlyFinishSucceeds ==
  ASSUME TypeOK, Rest, Next, NEW o \in Operations,
         journal[o].state # "Succeeded", journal'[o].state = "Succeeded"
  PROVE  FinishSuccess /\ o = cur /\ claim = cur
<1>1. /\ HandlerInv /\ AgendaInv /\ CopyInv /\ CurrentInv /\ mem \in Entry
      /\ journal \in [Operations -> Entry]
  BY DEF Rest, HandlerInv, TypeOK
<1>2. cur # Nobody => cur \in Operations /\ <<Call, On>> \in Ahead
  BY <1>1, HandlerFacts
<1>3. cur # Nobody /\ Call \notin {"enter", "resume"} =>
        mem.state \notin {"Succeeded", "RolledBack"}
  BY <1>1, <1>2 DEF CurrentInv
<1>4. cur # Nobody /\ Call \notin {"enter", "resume"} =>
        /\ Written(Call, On).state # "Succeeded" /\ Written("record", On).state # "Succeeded"
        /\ \A t : [mem EXCEPT !.status[On] = t].state # "Succeeded"
        /\ [mem EXCEPT !.state = "NeedsAttention"].state # "Succeeded"
        /\ [mem EXCEPT !.state = "RolledBack"].state # "Succeeded"
        /\ mem.state # "Succeeded"
  <2> SUFFICES ASSUME cur # Nobody, Call \notin {"enter", "resume"}
               PROVE  /\ Written(Call, On).state # "Succeeded"
                      /\ Written("record", On).state # "Succeeded"
                      /\ \A t : [mem EXCEPT !.status[On] = t].state # "Succeeded"
                      /\ [mem EXCEPT !.state = "NeedsAttention"].state # "Succeeded"
                      /\ [mem EXCEPT !.state = "RolledBack"].state # "Succeeded"
                      /\ mem.state # "Succeeded"
    OBVIOUS
  <2>1. mem.state \notin {"Succeeded", "RolledBack"}
    BY <1>3
  <2>2. Written(Call, On).state \notin {"Succeeded", "RolledBack"} /\ Written("record", On).state = mem.state
    BY <1>1, <2>1, WrittenKeeps
  <2>3. \A t : [mem EXCEPT !.status[On] = t].state = mem.state
    BY <1>1 DEF Entry
  <2>4. /\ [mem EXCEPT !.state = "NeedsAttention"].state = "NeedsAttention"
        /\ [mem EXCEPT !.state = "RolledBack"].state = "RolledBack"
    BY <1>1 DEF Entry
  <2> QED BY <2>1, <2>2, <2>3, <2>4
<1>5. ASSUME NEW p \in Operations, NEW m, journal' = [journal EXCEPT ![p] = m],
             m.state # "Succeeded"
      PROVE  FALSE
  BY <1>1, <1>5
<1>6. journal' # journal
  OBVIOUS
<1>7. ASSUME cur # Nobody, Call \notin {"enter", "resume"},
             \/ Save(Written(Call, On)) \/ Save(Written("record", On))
             \/ Save([mem EXCEPT !.state = "NeedsAttention"])
             \/ Save([mem EXCEPT !.state = "RolledBack"])
             \/ FailRecorded(On)
             \/ journal' = [journal EXCEPT ![cur] = [mem EXCEPT !.state = "NeedsAttention"]]
             \/ journal' = [journal EXCEPT ![cur] = mem]
      PROVE  FALSE
  BY <1>2, <1>4, <1>5, <1>7 DEF Save, FailRecorded
<1>8. CASE \E p \in Operations : Request(p)
  <2>1. PICK p \in Operations : Request(p)
    BY <1>8
  <2>2. CASE Accept(p)
    <3>1. journal' = [journal EXCEPT ![p] = Fresh("Accepted")]
      BY <2>2 DEF Accept
    <3>2. Fresh("Accepted").state # "Succeeded"
      BY DEF Fresh
    <3> QED BY <1>5, <3>1, <3>2
  <2>3. CASE AcceptAgain(p) \/ RunAccepted(p)
    BY <1>6, <2>3 DEF AcceptAgain, RunAccepted, durable
  <2> QED BY <2>1, <2>2, <2>3 DEF Request
<1>9. CASE Startup
  BY <1>6, <1>9 DEF Startup, Restart, Recover, OpenWrites, durable
<1>10. CASE EnterOperation \/ FinishPublicationActivation \/ ReclaimOperationWriter
  BY <1>6, <1>10, EnterCases, ResumeCases DEF ReclaimOperationWriter, durable
<1>11. CASE ResumeSettingsTail
  <2>1. /\ cur # Nobody /\ mem.state = "Activate"
        /\ journal' = [journal EXCEPT ![cur] = [mem EXCEPT !.receipt = FALSE]]
    BY <1>6, <1>11, ResumeTailCases DEF Save, Calls
  <2>2. [mem EXCEPT !.receipt = FALSE].state = mem.state
    BY <1>1 DEF Entry
  <2> QED BY <1>2, <1>5, <2>1, <2>2
<1>12. CASE SaveOperationTail \/ SaveProgress \/ RecordEffect \/ SealSettingsServiceCompletion
            \/ BeginPublicationActivation \/ SwitchFile
  BY <1>6, <1>7, <1>12
     DEF SaveOperationTail, SaveProgress, RecordEffect, SealSettingsServiceCompletion,
         BeginPublicationActivation, SwitchFile, Calls, durable
<1>13. CASE StageEffect \/ StagePublication
  <2>1. cur # Nobody /\ Call = "stage" /\ FailRecorded(On)
    BY <1>6, <1>13, StageEffectCases, StagePublicationCases DEF Calls, durable
  <2> QED BY <1>7, <2>1
<1>14. CASE ActivateEffect \/ InstallPublication \/ InstallUncertain \/ MarkPublicationActive
  BY <1>6, <1>14, ActivateEffectCases, MarkCases DEF InstallPublication, InstallUncertain, durable
<1>15. CASE PreparePublicationActivation
  <2>1. cur # Nobody /\ Call = "checkpoint" /\ Save(Written(Call, On))
    BY <1>6, <1>15, CheckpointCases DEF Calls
  <2> QED BY <1>7, <2>1
<1>16. CASE ReconcileTerminalSuccess \/ CompensateEffect \/ CompensatePublication
  BY <1>6, <1>16 DEF ReconcileTerminalSuccess, CompensateEffect, CompensatePublication, durable
<1>17. CASE FinishSuccess
  <2>1. claim = cur /\ Save([mem EXCEPT !.state = "Succeeded"]) /\ cur # Nobody
    BY <1>6, <1>17 DEF FinishSuccess, FinishReleasing, Calls
  <2>2. o = cur
    BY <1>1, <1>2, <2>1 DEF Save
  <2> QED BY <1>17, <2>1, <2>2
<1>18. CASE PreparePublicationRollback
  <2>1. /\ cur # Nobody /\ Call = "abort"
        /\ \/ Save(Written(Call, On))
           \/ journal' = [journal EXCEPT ![cur] = [mem EXCEPT !.state = "NeedsAttention"]]
    BY <1>6, <1>18, AbortCases DEF Calls
  <2> QED BY <1>7, <2>1
<1>19. CASE SaveRollbackProgress \/ ReconcileForRollback
  <2>1. /\ cur # Nobody /\ Call \in {"rollback", "compensating", "reconcile"}
        /\ Save(Written(Call, On)) \/ Save(Written("record", On))
    BY <1>6, <1>19 DEF SaveRollbackProgress, ReconcileForRollback, Calls
  <2> QED BY <1>7, <2>1
<1>20. CASE SettleCompensation
  <2>1. /\ cur # Nobody /\ Call = "settle"
        /\ journal' = [journal EXCEPT ![cur] =
             [mem EXCEPT !.status[On] = IF doubt THEN "Attention" ELSE "Compensated"]]
    BY <1>20 DEF SettleCompensation, Calls, Save
  <2> QED BY <1>2, <1>4, <1>5, <2>1
<1>21. CASE FinishRollback
  <2>1. /\ cur # Nobody /\ Call = "close"
        /\ \/ Save([mem EXCEPT !.state = "RolledBack"])
           \/ Save([mem EXCEPT !.state = "NeedsAttention"])
    BY <1>6, <1>21 DEF FinishRollback, FinishReleasing, Calls
  <2> QED BY <1>7, <2>1
<1>22. CASE VerificationFails
  <2>1. /\ cur # Nobody /\ Call = "close" /\ Save([mem EXCEPT !.state = "NeedsAttention"])
    BY <1>6, <1>22 DEF VerificationFails, Calls
  <2> QED BY <1>7, <2>1
<1>23. CASE StepFails \/ CompensationFails \/ HandlerFails \/ Crash \/ \E f \in Files : EditFile(f)
  BY <1>6, <1>23 DEF StepFails, CompensationFails, HandlerFails, Crash, EditFile, durable
<1> QED BY <1>8, <1>9, <1>10, <1>11, <1>12, <1>13, <1>14, <1>15, <1>16, <1>17, <1>18, <1>19, <1>20,
           <1>21, <1>22, <1>23 DEF Next, Continue, Environment

\* Success is recorded only for what the terminal check saw: between the check
\* and the record nothing moves the rows, the markers or the publication.
THEOREM SuccessStaysReal == Spec => SuccessIsReal
<1> DEFINE Real == \A o \in Operations :
             journal[o].state # "Succeeded" /\ journal'[o].state = "Succeeded" =>
               /\ \A c \in Plan[o] \cap Rows : marker[o][c] = "active" /\ value[c] = o
               /\ \A c \in Plan[o] \cap Files : marker[o][c] = "active"
               /\ "publication" \in Plan[o] => active = o /\ target = o
<1>1. ASSUME TypeOK, Rest, [Next]_vars PROVE Real
  <2> SUFFICES ASSUME NEW o \in Operations,
                      journal[o].state # "Succeeded", journal'[o].state = "Succeeded"
               PROVE  /\ \A c \in Plan[o] \cap Rows : marker[o][c] = "active" /\ value[c] = o
                      /\ \A c \in Plan[o] \cap Files : marker[o][c] = "active"
                      /\ "publication" \in Plan[o] => active = o /\ target = o
    OBVIOUS
  <2>1. Next
    BY <1>1 DEF vars, durable
  <2>2. FinishSuccess /\ o = cur /\ claim = cur
    BY <1>1, <2>1, OnlyFinishSucceeds
  <2>3. cur # Nobody /\ Call = "finish"
    BY <2>2 DEF FinishSuccess, Calls
  <2>4. AgendaInv /\ VerifiedInv
    BY <1>1 DEF Rest, HandlerInv
  <2>5. /\ cur \in Operations /\ <<Call, On>> \in Ahead /\ On = "Succeeded"
        /\ \A c \in Ahead \ {<<Call, On>>} : Rank(cur, <<Call, On>>) < Rank(cur, c)
    BY <1>1, <2>3, <2>4, HandlerFacts, OnFacts
  <2>6. <<"verify", "Succeeded">> \notin Ahead
    <3>1. /\ Rank(cur, <<"verify", "Succeeded">>) = 150
          /\ Rank(cur, <<"finish", "Succeeded">>) = 151
      BY <2>5, RankFacts
    <3>2. ~(151 < 150) /\ <<"verify", "Succeeded">> # <<"finish", "Succeeded">>
      OBVIOUS
    <3> QED BY <2>3, <2>5, <3>1, <3>2
  <2> QED BY <2>2, <2>3, <2>4, <2>5, <2>6 DEF VerifiedInv
<1> QED BY <1>1, InvHolds, PTL DEF SuccessIsReal, Spec

\* A managed file that is seen as staged or applied holds what it held when the
\* plan was made, or what the Operation put there.
LEMMA FileOwned ==
  ASSUME TypeOK, cur \in Operations, NEW k \in Files, Seen(k) \in {"Staged", "Applied"}
  PROVE  value[k] \in {before[cur][k], cur}
<1> DEFINE m == marker[cur][k]
           v == value[k]
           b == before[cur][k]
<1>1. m \in {"none", "undone", "staged", "active"} /\ k # "publication"
  BY DEF TypeOK, Markers, Cells, Files
<1>2. Observe(k, cur, m, v, b) \in {"Staged", "Applied"}
  BY <1>1 DEF Seen
<1>3. k \notin PinsBefore /\ k \notin Rows
  BY DEF Files, Rows, PinsBefore
<1>4. CASE m \in {"none", "undone"}
  <2>1. Observe(k, cur, m, v, b) = "Missing"
    BY <1>4, Zenon DEF Observe
  <2> QED BY <1>2, <2>1
<1>5. CASE m = "staged"
  <2>1. Observe(k, cur, m, v, b) = ObserveFile(cur, m, v, b)
    BY <1>3, <1>5 DEF Observe
  <2> QED BY <1>2, <1>5, <2>1 DEF ObserveFile
<1>6. CASE m = "active" /\ v # cur
  <2>1. Observe(k, cur, m, v, b) = ObserveFile(cur, m, v, b)
    BY <1>3, <1>6 DEF Observe
  <2>2. ObserveFile(cur, m, v, b) = ObserveRow(cur, m, v)
    BY <1>6 DEF ObserveFile
  <2>3. ObserveRow(cur, m, v) = "OwnershipLost"
    BY <1>6 DEF ObserveRow
  <2> QED BY <1>2, <2>1, <2>2, <2>3
<1> QED BY <1>1, <1>4, <1>5, <1>6

\* Only three calls write a cell, and each looks at it first.
LEMMA WritesOwned ==
  ASSUME TypeOK, Rest, Next, edits' = edits, NEW c \in Cells, value'[c] # value[c]
  PROVE  cur # Nobody /\ value[c] \in {before[cur][c], cur}
<1>1. /\ AgendaInv /\ JournalInv /\ value \in [Cells -> Values]
      /\ marker \in [Operations -> [Cells -> Markers]]
  BY DEF Rest, HandlerInv, TypeOK
<1>2. cur # Nobody => cur \in Operations /\ (Call = "switch" => On \in Files)
  BY <1>1, HandlerFacts, OnFacts
<1>3. value' # value
  OBVIOUS
<1>4. CASE SwitchFile
  <2>1. cur # Nobody /\ Call = "switch" /\ Seen(On) \in {"Staged", "Applied"}
    BY <1>3, <1>4 DEF SwitchFile, Calls
  <2>2. value' = [value EXCEPT ![On] = cur]
    BY <1>3, <1>4 DEF SwitchFile
  <2>3. c = On
    BY <1>1, <2>2
  <2> QED BY <1>2, <2>1, <2>3, FileOwned
<1>5. CASE ActivateEffect
  <2>1. /\ cur # Nobody /\ value' = [value EXCEPT ![On] = cur]
        /\ CanActivate(On, cur, marker[cur][On], value[On], before[cur][On])
    BY <1>3, <1>5, ActivateEffectCases DEF Calls, stores
  <2>2. c = On
    BY <1>1, <2>1
  <2> QED BY <2>1, <2>2 DEF CanActivate, CanActivateRow, CanActivateFile
<1>6. CASE CompensateEffect
  <2> DEFINE v == Compensation(On, cur, marker[cur][On], value[On], before[cur][On]).value
  <2>1. cur # Nobody /\ On \in Cells /\ value' = [value EXCEPT ![On] = v]
    BY <1>3, <1>6 DEF CompensateEffect, Calls, stores
  <2>2. c = On /\ v # value[On]
    BY <1>1, <2>1
  <2>3. /\ cur \in Operations /\ marker[cur][On] \in Markers /\ value[On] \in Values
        /\ before[cur][On] \in Values \cup {Nobody}
    BY <1>1, <1>2, <2>1 DEF JournalInv
  <2>4. v # value[On] => value[On] \in {before[cur][On], cur}
    BY <2>1, <2>3, CompensationType
  <2> QED BY <2>1, <2>2, <2>4
<1>7. CASE \E f \in Files : EditFile(f)
  BY <1>7 DEF EditFile, TypeOK
<1>8. CASE \/ \E o \in Operations : Request(o)
           \/ Startup
  BY <1>3, <1>8 DEF Request, Accept, AcceptAgain, RunAccepted, Startup, Restart, Recover, OpenWrites,
                    stores
<1>9. CASE \/ EnterOperation \/ ResumeSettingsTail \/ SaveProgress \/ StageEffect \/ StagePublication
           \/ RecordEffect \/ BeginPublicationActivation
  BY <1>3, <1>9, EnterCases, ResumeTailCases, StageEffectCases, StagePublicationCases
     DEF SaveProgress, RecordEffect, BeginPublicationActivation, FailRecorded, stores
<1>10. CASE \/ PreparePublicationActivation \/ InstallPublication \/ MarkPublicationActive
            \/ SealSettingsServiceCompletion \/ ReconcileTerminalSuccess \/ FinishSuccess
            \/ FinishPublicationActivation \/ SaveOperationTail \/ ReclaimOperationWriter
  BY <1>3, <1>10, CheckpointCases, MarkCases, ResumeCases
     DEF InstallPublication, SealSettingsServiceCompletion, ReconcileTerminalSuccess, FinishSuccess,
         SaveOperationTail, ReclaimOperationWriter, stores
<1>11. CASE \/ PreparePublicationRollback \/ SaveRollbackProgress \/ ReconcileForRollback
            \/ CompensatePublication \/ SettleCompensation \/ FinishRollback
  BY <1>3, <1>11, AbortCases
     DEF SaveRollbackProgress, ReconcileForRollback, CompensatePublication, SettleCompensation,
         FinishRollback, stores
<1>12. CASE \/ InstallUncertain \/ StepFails \/ VerificationFails \/ CompensationFails \/ HandlerFails
            \/ Crash
  BY <1>3, <1>12 DEF InstallUncertain, StepFails, VerificationFails, CompensationFails, HandlerFails,
                     Crash, stores
<1> QED BY <1>4, <1>5, <1>6, <1>7, <1>8, <1>9, <1>10, <1>11, <1>12 DEF Next, Continue, Environment

\* Exact ownership: a run, a rollback or a recovery overwrites a cell only if it
\* still holds what the plan was made against, or the Operation's own value;
\* only the user writes a managed file otherwise.
THEOREM OnlyOwnIsOverwritten == Spec => OverwritesOnlyItsOwn
<1> DEFINE Owned == \A c \in Cells : value'[c] # value[c] /\ edits' = edits
                      => cur # Nobody /\ value[c] \in {before[cur][c], cur}
<1>1. ASSUME TypeOK, Rest, [Next]_vars PROVE Owned
  <2>1. CASE Next
    BY <1>1, <2>1, WritesOwned
  <2>2. CASE UNCHANGED vars
    BY <2>2 DEF vars, stores
  <2> QED BY <1>1, <2>1, <2>2
<1> QED BY <1>1, InvHolds, PTL DEF OverwritesOnlyItsOwn, Spec
=============================================================================
