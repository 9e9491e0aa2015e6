--------------------- MODULE TransactionHistory_proofs ----------------------
(***************************************************************************)
(* The durable Operation engine across Operations, for any Operations,     *)
(* plans and bounds: no service is torn, what was protected is revoked     *)
(* only behind the publication that replaced it, a file is written only    *)
(* behind a sealed receipt, a rollback leaves nothing behind, and all of   *)
(* it moves the Operations as the lifecycle promises.                      *)
(*                                                                         *)
(* TransactionCoordinator_proofs says of one handler what its calls do and *)
(* what is ahead of it ("Rest").  Here that is extended by what the        *)
(* Operations before it left ("Held"): an entry of the journal says by     *)
(* itself which publications, cells and markers are there, and whose the   *)
(* claim is.                                                               *)
(***************************************************************************)
EXTENDS TransactionCoordinator_proofs

-----------------------------------------------------------------------------
(***************************************************************************)
(* The way of a run: what is ahead of a handler and what its entry says    *)
(***************************************************************************)
\* How far an Operation that works forward has come.
No(state) == IF state \in Steps THEN StepNo[state] ELSE 0

Working == {"Accepted"} \cup Steps

\* An entry that works forward has done the steps before its state and none after
\* it; only the last step is sealed.
Shape(m) == m.state \in Working =>
  /\ \A p \in Steps : /\ StepNo[p] < No(m.state) => m.status[p] = "Applied"
                      /\ StepNo[p] = No(m.state) => m.status[p] \in {"Started", "Applied"}
                      /\ StepNo[p] > No(m.state) => m.status[p] = "Pending"
  /\ m.receipt => m.state = "Activate"

ShapeInv == /\ \A o \in Operations : Shape(journal[o])
            /\ cur # Nobody => Shape(mem)

AbortCall  == <<"abort", "publication">>
SealCall   == <<"seal", "file">>
MarkCall   == <<"mark", "publication">>
RollingCall == <<"rollback", "RollingBack">>

Forwards  == \E c \in Ahead : c[1] \in ForwardNames \ {"resume"}
Backwards == \E c \in Ahead : c[1] \in BackNames \ {"resume"}

\* What is ahead of a handler that works forward is what its entry lacks.
ForwardInv == cur # Nobody /\ Forwards =>
  /\ mem.state \in Working /\ <<"finish", "Succeeded">> \in Ahead
  /\ \A p \in Steps :
       /\ StepNo[p] > No(mem.state) => <<"begin", p>> \in Ahead
       /\ <<"begin", p>> \in Ahead => <<"complete", p>> \in Ahead
       /\ p # "Activate" =>
            (<<"complete", p>> \in Ahead <=> mem.status[p] # "Applied")
  /\ <<"stage", "publication">> \in Ahead => mem.status["CompilePublication"] # "Applied"

\* A rollback is recorded before anything is undone.
BackInv == cur # Nobody /\ Backwards =>
  /\ <<"close", "RolledBack">> \in Ahead
  /\ AbortCall \in Ahead => RollingCall \in Ahead
  /\ IF RollingCall \in Ahead
       THEN {journal[cur].state, mem.state} \subseteq Working \cup {"RollingBack"}
       ELSE mem.state = journal[cur].state /\ mem.state \in {"RollingBack", "NeedsAttention"}

\* What is parked is a sealed tail.
ParkInv == cur # Nobody =>
  /\ mode = "tail" => mem.receipt
  /\ (\E c \in Ahead : c[1] = "park") =>
       journal[cur].state = "Activate" /\ mem.state = "Activate" /\ mem.receipt

\* When only the requests are left to be resumed, the outcome is recorded.
DoneInv == cur # Nobody /\ (\A c \in Ahead : c[1] = "resume") =>
  mem = journal[cur] /\ mem.state \in Terminal

WayInv == ForwardInv /\ BackInv /\ ParkInv /\ DoneInv

Path == ShapeInv /\ WayInv

-----------------------------------------------------------------------------
(***************************************************************************)
(* The claim and the roots                                                 *)
(***************************************************************************)
\* Its publication is, or once was, the active one.
Once(o) == o = active \/ \E p \in Operations : Known(p) /\ before[p]["publication"] = o

\* What an entry m of o says of the publications.
RootEntry(o, m) ==
  /\ Once(o) => m.status["CompilePublication"] \notin {"Pending", "Started"}
  /\ m.receipt => /\ m.state \in {"Activate", "NeedsAttention", "Succeeded"}
                  /\ m.status["CompilePublication"] = "Applied"
                  /\ "publication" \in m.recorded /\ m.decision # "Abort"
                  /\ active # before[o]["publication"] /\ prepared # o
  /\ m.status["CompilePublication"] = "Compensated" => o \notin {active, prepared, target}
  /\ m.state = "RolledBack" => m.status["CompilePublication"] = "Compensated"

EntriesInv ==
  /\ \A o \in Operations : /\ RootEntry(o, journal[o])
                           /\ ~Known(o) => journal[o] = Fresh("none")
  /\ cur # Nobody => RootEntry(cur, mem) /\ (journal[cur].receipt => mem.receipt)

\* An Operation under way holds the claim, unless its tail was parked.
ClaimInv == \A o \in Operations :
  \/ journal[o].state \in (Working \ {"Activate"}) \cup {"RollingBack"}
  \/ journal[o].state \in {"Activate", "NeedsAttention"} /\ ~journal[o].receipt
  => claim = o

\* The claim is held by an Operation under way.
HolderInv == claim # Nobody => journal[claim].state \in Working \cup {"RollingBack", "NeedsAttention"}

\* A prepared record belongs to the writer and was never published; the target
\* holds the active record, or the prepared one.
RootInv ==
  /\ prepared # Nobody => /\ claim = prepared /\ "publication" \in Plan[prepared]
                          /\ ~Once(prepared)
  /\ target = active \/ (target = prepared /\ prepared # Nobody)

\* A record is marked after the target was installed, and the record is marked
\* before the service is sealed or a grant is revoked.
SealInv == cur # Nobody =>
  /\ <<"install", "publication">> \in Ahead => MarkCall \in Ahead
  /\ MarkCall \in Ahead /\ <<"install", "publication">> \notin Ahead => target = cur
  /\ Ahead \cap PublishCalls = {} =>
       /\ SealCall \in Ahead => active = cur
       /\ <<"activate", "grant">> \in Ahead /\ cur \in Revokes /\ "publication" \in Plan[cur]
            => active = cur

\* A handler without the claim works on a parked tail whose publication is
\* active: it goes on to the end, or its rollback is refused.
LoneInv == cur # Nobody /\ claim # cur =>
  /\ (\E c \in Ahead : c[1] \notin {"enter", "resume", "park"}) =>
       /\ claim = Nobody /\ active = cur
       /\ Backwards => AbortCall \in Ahead
  /\ (\A c \in Ahead : c[1] = "resume") => claim = Nobody

Reconciling  == <<"reconcile", "publication">>
Compensating == <<"compensate", "publication">>
Settling     == <<"settle", "CompilePublication">>

\* No call comes before c.
Next1(c) == \A d \in Ahead : Rank(cur, c) <= Rank(cur, d)

\* A step of the rollback that is settled as compensated leaves no prepared record.
UndoInv == cur # Nobody =>
  /\ Reconciling \in Ahead => Compensating \in Ahead
  /\ Compensating \in Ahead => Settling \in Ahead
  /\ Reconciling \in Ahead /\ <<"compensating", "CompilePublication">> \notin Ahead
       => Next1(Reconciling)
  /\ Compensating \in Ahead /\ Reconciling \notin Ahead
       => /\ Next1(Compensating)
          /\ doubt \/ "publication" \in mem.recorded \/ prepared # cur
  /\ Settling \in Ahead /\ Compensating \notin Ahead /\ "publication" \in Plan[cur]
       => /\ Next1(Settling)
          /\ doubt \/ prepared # cur

\* What is undone is neither served nor sealed.
UndoneInv == cur # Nobody /\ Backwards /\ AbortCall \notin Ahead =>
  cur \notin {active, target} /\ ~mem.receipt

Roots == EntriesInv /\ ClaimInv /\ HolderInv /\ RootInv /\ SealInv /\ LoneInv /\ UndoInv /\ UndoneInv

-----------------------------------------------------------------------------
(***************************************************************************)
(* The effects                                                             *)
(***************************************************************************)
\* What o wrote stays: nothing rolls it back any more.
Kept(o) == journal[o].state = "Succeeded" \/ journal[o].receipt

\* A cell holds what an Operation wrote only while its marker says so, and so does
\* the state a later plan was made against.
ValueInv == \A o \in Operations, c \in Cells :
  /\ marker[o][c] # "none" => c \in Plan[o] /\ Known(o)
  /\ value[c] = o => /\ marker[o][c] \in {"staged", "active"}
                     /\ c \in Rows => marker[o][c] = "active"
                     /\ c = "file" => journal[o].receipt
  /\ \A p \in Operations : before[p][c] = o =>
       /\ Kept(o) /\ marker[o][c] \in {"staged", "active"}
       /\ c \in Rows => marker[o][c] = "active"
       /\ c = "file" => journal[o].receipt

\* The effects of the service segment of o.
Service(o) == (Plan[o] \cap Cells) \ {"file"}

SealedInv ==
  /\ \A o \in Operations : journal[o].receipt => \A k \in Service(o) : marker[o][k] = "active"
  /\ cur # Nobody =>
       /\ mem.receipt => \A k \in Service(cur) : marker[cur][k] = "active"
       /\ SealCall \in Ahead =>
            \A k \in Service(cur) : marker[cur][k] = "active" \/ <<"activate", k>> \in Ahead
       /\ {<<"switch", "file">>, <<"activate", "file">>} \cap Ahead # {} /\ SealCall \notin Ahead
            => mem.receipt

\* What is rolled back is undone.
GoneInv == \A o \in Operations : journal[o].state = "RolledBack" =>
  \A c \in Cells : marker[o][c] \notin {"staged", "active"}

\* A revocation takes effect when what it revokes is not published any more.
RevokeInv == \A o \in Revokes :
  "publication" \in Plan[o] /\ marker[o]["grant"] = "active" => active # before[o]["publication"]

Worth == ValueInv /\ SealedInv /\ GoneInv /\ RevokeInv

-----------------------------------------------------------------------------
(***************************************************************************)
(* The requests                                                            *)
(***************************************************************************)
\* An ordinary Operation activates nothing before the requests are suspended.
SuspendInv ==
  /\ cur # Nobody
  /\ \E c \in Ahead : c[1] = "activate"
  /\ <<"suspend", "control">> \notin Ahead
  /\ "publication" \in Plan[cur] /\ ~Settings(cur)
  => suspended

Held == Path /\ Roots /\ Worth /\ SuspendInv

-----------------------------------------------------------------------------
(***************************************************************************)
(* What a step does: the handler and the journal, the publications, the    *)
(* cells and the requests                                                  *)
(***************************************************************************)
\* What is left once the first call was made.
Later == Ahead \ {<<Call, On>>}

Sealed(m) == m.state = "Activate" /\ m.receipt

\* The handler does nothing.
Idles == UNCHANGED <<journal, before, claim, handler>>

\* A handler takes an Operation.
Takes ==
  /\ cur = Nobody /\ cur' \in Operations /\ Known(cur')
  /\ mem' = journal[cur'] /\ \E how \in {"run", "startup"} : todo' = <<<<"enter", how>>>>
  /\ UNCHANGED <<mode, doubt, journal, before, claim>>

\* The handler returns, or ends with the process.
Leaves ==
  /\ cur' = Nobody /\ mode' = "steps" /\ before' = before
  /\ \/ UNCHANGED <<journal, claim>>
     \/ /\ Calls("park") /\ claim \in {cur, Nobody}
        /\ journal' = [journal EXCEPT ![cur] = mem] /\ claim' = Nobody
     \/ /\ Calls("abort") /\ ~IsCurrent
        /\ journal' = [journal EXCEPT ![cur] = [mem EXCEPT !.state = "NeedsAttention"]]
        /\ claim' = claim

\* The handler decides what it has to do, or that it all is to be undone.
Decides ==
  /\ cur # Nobody
  /\ \/ /\ Call = "enter" /\ mem.state = "NeedsAttention" /\ RollbackProven
        /\ todo' = Closing /\ mode' = mode
     \/ /\ (Call = "enter" /\ mem.state = "RollingBack") \/ Call = "verify"
        /\ todo' = Rollback(cur, mem) /\ mode' = mode
     \/ /\ Call = "enter" /\ mem.state \in Working /\ ~Sealed(mem)
        /\ todo' = Forward(cur, mem) /\ mode' = mode
     \/ /\ Call = "enter" /\ Sealed(mem)
        /\ todo' = <<<<"park", "file">>>> /\ mode' = "tail"
     \/ /\ Call = "enter" /\ Sealed(mem) /\ Seen("publication") = "Applied"
        /\ \/ todo' = Forward(cur, mem) /\ mode' = "strict"
           \/ todo' = RetryTail /\ mode' = "tail"
  /\ UNCHANGED <<journal, before, claim, cur, mem, doubt>>

\* A step of the run failed, leaving m in memory.
Fails(m) ==
  /\ cur # Nobody /\ Call \in ForwardCalls /\ Fail(m)
  /\ \/ m = mem /\ journal' = journal
     \/ m = Written(Call, On) /\ journal' = journal
     \/ Call = "stage" /\ m = Written("record", On) /\ journal' = [journal EXCEPT ![cur] = m]
  /\ UNCHANGED <<before, claim>>

\* The next call of the run was made.
Goes ==
  /\ cur # Nobody /\ Call \in ForwardCalls \cup {"verify"}
  /\ \/ Save(Written(Call, On)) /\ Call \in {"begin", "complete", "record", "seal", "checkpoint"}
     \/ UNCHANGED <<mem, journal>> /\ Call \notin {"begin", "complete", "seal"}
  /\ Agenda(cur, todo')
  /\ \/ Ahead' = Later
     \/ Call = "checkpoint" /\ Ahead' = InstallCalls \cup Later
  /\ Call = "checkpoint" /\ Ahead' = Later => active = cur
  /\ Call = "install" => target' = cur
  /\ Call = "mark" => active' = cur
  /\ Call = "activate" => marker'[cur][On] = "active"
  /\ Call = "suspend" /\ "publication" \in Plan[cur] /\ ~Settings(cur) => suspended'
  /\ UNCHANGED <<before, claim, cur, mode, doubt>>

Reclaims ==
  /\ Calls("reclaim") /\ claim \in {cur, Nobody} /\ claim' = cur
  /\ Agenda(cur, todo') /\ Ahead' = Later
  /\ UNCHANGED <<journal, mem, before, cur, mode, doubt>>

Finishes ==
  /\ Calls("finish") /\ claim = cur /\ claim' = Nobody
  /\ Save([mem EXCEPT !.state = "Succeeded"])
  /\ Agenda(cur, todo') /\ Ahead' = Later
  /\ UNCHANGED <<before, cur, mode, doubt>>

\* The next call of the rollback was made; a reconciliation may skip another.
Undoes ==
  /\ \/ /\ Calls("abort") /\ IsCurrent /\ (mem.decision = "Abort" \/ StillBefore)
        /\ Save(Written(Call, On)) /\ doubt' = doubt
     \/ /\ Calls("rollback") \/ Calls("compensating")
        /\ Save(Written(Call, On)) /\ doubt' = doubt
     \/ /\ Calls("reconcile")
        /\ \/ UNCHANGED <<mem, journal>>
           \/ mem' = Written("record", On) /\ journal' = journal
           \/ Save(Written("record", On))
        /\ doubt' \/ (~doubt /\ (Seen(On) = "Missing" \/ On \in mem'.recorded))
     \/ /\ Calls("compensate") /\ UNCHANGED <<mem, journal>>
        /\ doubt' \/ (~doubt /\ (On = "publication" => On \notin mem.recorded \/ prepared' # cur))
     \/ /\ Calls("settle") /\ doubt' = FALSE
        /\ Save([mem EXCEPT !.status[On] = IF doubt THEN "Attention" ELSE "Compensated"])
  /\ Agenda(cur, todo')
  /\ \/ Ahead' = Later
     \/ Call = "reconcile" /\ \E k \in Kinds :
          Ahead' = Later \ {<<"reconcile", k>>}
          /\ \A d \in Later : Rank(cur, <<"reconcile", k>>) <= Rank(cur, d)
  /\ UNCHANGED <<before, claim, cur, mode>>

Closes ==
  /\ Calls("close")
  /\ \/ /\ RollbackProven /\ claim = cur /\ claim' = Nobody
        /\ Save([mem EXCEPT !.state = "RolledBack"])
     \/ claim' = claim /\ Save([mem EXCEPT !.state = "NeedsAttention"])
  /\ Agenda(cur, todo') /\ Ahead' = Later
  /\ UNCHANGED <<before, cur, mode>>

Handles ==
  \/ Idles \/ Takes \/ Leaves \/ Decides \/ Goes \/ Reclaims \/ Finishes \/ Undoes \/ Closes
  \/ cur # Nobody /\ \E m \in {mem, Written(Call, On), Written("record", On)} : Fails(m)
  \/ \E o \in Operations : Accept(o)

\* What becomes of the publications.
Publishes ==
  \/ UNCHANGED <<active, prepared, target>>
  \/ cur' = Nobody /\ target' = active /\ UNCHANGED <<active, prepared, journal, before>>
  \/ /\ Calls("stage") /\ On = "publication" /\ Seen(On) = "Missing" /\ prepared = Nobody
     /\ prepared' = cur /\ UNCHANGED <<active, target, journal, before, claim, mem, cur>>
  \/ /\ Calls("install") /\ IsCurrent /\ cur \in {active, prepared}
     /\ target' \in {target, cur} /\ UNCHANGED <<active, prepared, journal, before, claim, mem, cur>>
  \/ /\ Calls("mark") /\ active # cur /\ prepared = cur
     /\ active' = cur /\ prepared' = Nobody
     /\ UNCHANGED <<target, journal, before, claim, mem, cur>>
  \/ /\ Calls("compensate") /\ On = "publication" /\ prepared = cur
     /\ prepared' = Nobody /\ UNCHANGED <<active, target, journal, before, claim, mem, cur>>

\* What becomes of the cells.
Stores ==
  \/ UNCHANGED stores
  \/ /\ Calls("stage") /\ On \in Cells /\ CanStage(marker[cur][On], value[On], before[cur][On])
     /\ marker' = [marker EXCEPT ![cur][On] = "staged"]
     /\ UNCHANGED <<value, journal, before, mem, cur>>
  \/ /\ Calls("switch") /\ marker[cur][On] \in {"staged", "active"}
     /\ value' = [value EXCEPT ![On] = cur]
     /\ UNCHANGED <<marker, journal, before, mem, cur>>
  \/ /\ Calls("activate") /\ marker[cur][On] = "staged"
     /\ marker' = [marker EXCEPT ![cur][On] = "active"]
     /\ value' = [value EXCEPT ![On] = cur]
     /\ UNCHANGED <<journal, before, mem, cur>>
  \/ /\ Calls("compensate") /\ On \in Cells
     /\ LET result == Compensation(On, cur, marker[cur][On], value[On], before[cur][On])
        IN /\ marker' = [marker EXCEPT ![cur][On] = result.marker]
           /\ value' = [value EXCEPT ![On] = result.value]
     /\ UNCHANGED <<journal, before, mem, cur>>
  \/ \E f \in Files : /\ value' = [value EXCEPT ![f] = Foreign]
                      /\ UNCHANGED <<marker, journal, before, mem, cur>>

\* What becomes of the requests.
Admission ==
  \/ suspended' \in {suspended, TRUE}
  \/ /\ suspended' = FALSE /\ cur' = Nobody
     /\ \/ cur = Nobody /\ claim = Nobody
        \/ Calls("resume") /\ mem.state # "NeedsAttention"
     /\ UNCHANGED <<journal, before, claim, marker>>

Forms == Handles /\ Publishes /\ Stores /\ Admission

\* The steps are numbered one to six.
LEMMA NoFacts ==
  /\ \A s \in Steps : No(s) = StepNo[s] /\ StepNo[s] \in 1..6
  /\ No("Accepted") = 0
  /\ \A s \in Working : No(s) \in 0..6
  /\ \A p, q \in Steps : StepNo[p] = StepNo[q] => p = q
  /\ StepNo["Activate"] = 6 /\ StepNo["CompilePublication"] = 4
  /\ \A n \in 1..6 : \E p \in Steps : StepNo[p] = n
  /\ "Activate" \in Steps /\ "CompilePublication" \in Steps
<1>1. \A s \in Steps : No(s) = StepNo[s] /\ StepNo[s] \in 1..6
  BY StepFacts DEF No
<1>2. No("Accepted") = 0
  BY StepFacts DEF No
<1>3. \A p, q \in Steps : StepNo[p] = StepNo[q] => p = q
  BY StepFacts DEF StepNo
<1>4. \A n \in 1..6 : \E p \in Steps : StepNo[p] = n
  <2> TAKE n \in 1..6
  <2>1. /\ StepNo["Prepare"] = 1 /\ StepNo["ApplySecrets"] = 2 /\ StepNo["MaterializeSources"] = 3
        /\ StepNo["CompilePublication"] = 4 /\ StepNo["ApplyAgentArtifacts"] = 5
        /\ StepNo["Activate"] = 6
    BY DEF StepNo
  <2>2. n \in {1, 2, 3, 4, 5, 6}
    OBVIOUS
  <2> QED BY <2>1, <2>2, StepFacts
<1>5. /\ StepNo["Activate"] = 6 /\ StepNo["CompilePublication"] = 4
      /\ "Activate" \in Steps /\ "CompilePublication" \in Steps
  BY StepFacts DEF StepNo
<1> QED BY <1>1, <1>2, <1>3, <1>4, <1>5 DEF Working

\* Where the calls of a step come.
LEMMA StepRanks ==
  ASSUME NEW o \in Operations, NEW p \in Steps
  PROVE  /\ Rank(o, <<"begin", p>>) = 20 * StepNo[p]
         /\ Rank(o, <<"complete", p>>) = 20 * StepNo[p] + 19
<1>1. StepNo[p] \in 1..6
  BY NoFacts
<1> QED BY <1>1 DEF Rank, StepNameRank

\* Where the calls of the publication and of the client file come.
LEMMA CallRanks ==
  ASSUME NEW o \in Operations
  PROVE  /\ Rank(o, <<"stage", "publication">>) = 81
         /\ Rank(o, <<"checkpoint", "publication">>) = 132
         /\ Rank(o, <<"install", "publication">>) = 133
         /\ Rank(o, <<"mark", "publication">>) = 134
         /\ Rank(o, <<"suspend", "control">>) = 125
         /\ Rank(o, <<"seal", "file">>) = 136 /\ Rank(o, <<"reclaim", "file">>) = 136
         /\ Rank(o, <<"switch", "file">>) = 137 /\ Rank(o, <<"activate", "file">>) = 138
         /\ Rank(o, <<"activate", "grant">>) \in 127..135
         /\ Rank(o, <<"verify", "Succeeded">>) = 150
         /\ Rank(o, <<"finish", "Succeeded">>) = 151
         /\ Rank(o, <<"abort", "publication">>) = 300
         /\ Rank(o, <<"rollback", "RollingBack">>) = 301
         /\ Rank(o, Reconciling) = 331 /\ Rank(o, Compensating) = 334
         /\ Rank(o, Settling) = 335
         /\ Rank(o, <<"compensating", "CompilePublication">>) = 330
         /\ Rank(o, <<"close", "RolledBack">>) = 500
BY DEF Rank, NameRank, UndoRank, StepNameRank, StepNo, StepOf, PlaceOf, Reconciling, Compensating,
       Settling, ActivationRank, SwitchRank

\* The status of an entry a call writes.
LEMMA WrittenStatus ==
  ASSUME mem \in Entry, NEW n, NEW on
  PROVE  Written(n, on).status =
           IF n = "begin" THEN [mem.status EXCEPT ![on] = "Started"]
           ELSE IF n = "complete" THEN [mem.status EXCEPT ![on] = "Applied"]
           ELSE IF n = "compensating" THEN [mem.status EXCEPT ![on] = "Compensating"]
           ELSE mem.status
<1>1. CASE n = "begin"
  <2>1. Written(n, on) = [mem EXCEPT !.state = on, !.status[on] = "Started"]
    BY <1>1, Zenon DEF Written
  <2> QED BY <1>1, <2>1 DEF Entry
<1>2. CASE n = "complete"
  <2>1. Written(n, on) = [mem EXCEPT !.status[on] = "Applied"]
    BY <1>2, Zenon DEF Written
  <2> QED BY <1>2, <2>1 DEF Entry
<1>3. CASE n = "compensating"
  <2>1. Written(n, on) = [mem EXCEPT !.status[on] = "Compensating"]
    BY <1>3, Zenon DEF Written
  <2> QED BY <1>3, <2>1 DEF Entry
<1>4. CASE n \notin {"begin", "complete", "compensating"}
  <2>1. Written(n, on) \in {mem, [mem EXCEPT !.recorded = @ \cup {on}],
                            [mem EXCEPT !.decision = "Install"], [mem EXCEPT !.decision = "Abort"],
                            [mem EXCEPT !.receipt = TRUE], [mem EXCEPT !.state = "RollingBack"]}
    <3>1. CASE n \in {"record", "checkpoint", "abort", "seal", "rollback"}
      BY <3>1, Zenon DEF Written
    <3>2. CASE n \notin {"record", "checkpoint", "abort", "seal", "rollback"}
      <4>1. Written(n, on) = mem
        BY <1>4, <3>2, Zenon DEF Written
      <4> QED BY <4>1
    <3> QED BY <3>1, <3>2
  <2>2. Written(n, on).status = mem.status
    BY <2>1 DEF Entry
  <2> QED BY <1>4, <2>2
<1> QED BY <1>1, <1>2, <1>3, <1>4

\* The other fields of an entry a call writes.
LEMMA WrittenParts ==
  ASSUME mem \in Entry, NEW n, NEW on,
         n \in {"begin", "complete", "compensating"} => on \in Steps
  PROVE  /\ Written(n, on).state =
              IF n = "begin" THEN on ELSE IF n = "rollback" THEN "RollingBack" ELSE mem.state
         /\ Written(n, on).recorded = IF n = "record" THEN mem.recorded \cup {on} ELSE mem.recorded
         /\ Written(n, on).decision = IF n = "checkpoint" THEN "Install"
                                      ELSE IF n = "abort" THEN "Abort" ELSE mem.decision
         /\ Written(n, on).receipt = (n = "seal" \/ mem.receipt)
<1> DEFINE w == Written(n, on)
<1>1. /\ w.state = IF n = "begin" THEN on ELSE IF n = "rollback" THEN "RollingBack" ELSE mem.state
      /\ w.recorded = IF n = "record" THEN mem.recorded \cup {on} ELSE mem.recorded
      /\ w.decision = IF n = "checkpoint" THEN "Install"
                      ELSE IF n = "abort" THEN "Abort" ELSE mem.decision
      /\ w.receipt = (n = "seal" \/ mem.receipt)
      /\ w.status["CompilePublication"] = "Applied" =>
           mem.status["CompilePublication"] = "Applied"
           \/ (n = "complete" /\ on = "CompilePublication")
  BY WrittenFields, ZenonT(60)
<1> QED BY <1>1

\* The entry the first call writes.
LEMMA CallWritten ==
  ASSUME mem \in Entry, Call \in {"begin", "complete", "compensating"} => On \in Steps
  PROVE  /\ Written(Call, On).state =
              IF Call = "begin" THEN On ELSE IF Call = "rollback" THEN "RollingBack" ELSE mem.state
         /\ Written(Call, On).recorded =
              IF Call = "record" THEN mem.recorded \cup {On} ELSE mem.recorded
         /\ Written(Call, On).decision = IF Call = "checkpoint" THEN "Install"
                                         ELSE IF Call = "abort" THEN "Abort" ELSE mem.decision
         /\ Written(Call, On).receipt = (Call = "seal" \/ mem.receipt)
BY WrittenParts, ZenonT(60)

-----------------------------------------------------------------------------
(***************************************************************************)
(* Every step has one of these forms                                       *)
(***************************************************************************)
\* The list after its first call was made.
LEMMA ListAdvanced ==
  ASSUME TypeOK, Rest, cur # Nobody, Call \notin Single \cup {"resume"}, cur' = cur,
         todo' = Tail(todo)
  PROVE  Agenda(cur, todo') /\ Ahead' = Later
<1>1. AgendaInv
  BY DEF Rest, HandlerInv
<1>2. /\ cur \in Operations /\ Agenda(cur, todo) /\ Head(todo) = <<Call, On>>
      /\ Range(Tail(todo)) = Ahead \ {<<Call, On>>}
  BY <1>1, HandlerFacts
<1>3. Head(todo)[1] \notin Single \cup {"resume"}
  BY <1>2
<1> QED BY <1>2, <1>3, AgendaTail DEF Ahead, Later

\* The same with the installation ahead.
LEMMA ListInstalling ==
  ASSUME TypeOK, Rest, cur # Nobody, Call = "checkpoint", cur' = cur,
         todo' = <<<<"install", On>>, <<"mark", On>>>> \o Tail(todo)
  PROVE  Agenda(cur, todo') /\ Ahead' = InstallCalls \cup Later
<1>1. AgendaInv
  BY DEF Rest, HandlerInv
<1>2. /\ cur \in Operations /\ Agenda(cur, todo) /\ Head(todo) = <<Call, On>>
      /\ On = "publication"
  BY <1>1, HandlerFacts, OnFacts
<1>3. Head(todo) = CheckpointCall
  BY <1>2 DEF CheckpointCall
<1> QED BY <1>2, <1>3, AgendaInstall DEF Ahead, Later

\* The same with the next reconciliation skipped.
LEMMA ListSkipped ==
  ASSUME TypeOK, Rest, cur # Nobody, Call = "reconcile", cur' = cur, SkipReconciling
  PROVE  /\ Agenda(cur, todo')
         /\ \/ Ahead' = Later
            \/ \E k \in Kinds :
                 /\ Ahead' = Later \ {<<"reconcile", k>>}
                 /\ \A d \in Later : Rank(cur, <<"reconcile", k>>) <= Rank(cur, d)
<1>1. AgendaInv
  BY DEF Rest, HandlerInv
<1>2. /\ cur \in Operations /\ Agenda(cur, todo) /\ Head(todo) = <<Call, On>>
      /\ Range(Tail(todo)) = Later
  BY <1>1, HandlerFacts DEF Later
<1>3. Head(todo)[1] \notin Single \cup {"resume"}
  BY <1>2 DEF Single
<1>4. Agenda(cur, Tail(todo))
  BY <1>2, <1>3, AgendaTail
<1>5. CASE todo' = Tail(todo)
  BY <1>2, <1>4, <1>5 DEF Ahead
<1>6. CASE /\ Tail(todo) # <<>> /\ Head(Tail(todo))[1] = "reconcile"
           /\ todo' = Tail(Tail(todo))
  <2> DEFINE t == Tail(todo)
  <2>1. /\ Head(t) \in CallSet(cur) /\ Range(Tail(t)) = Range(t) \ {Head(t)}
        /\ \A c \in Range(Tail(t)) : Rank(cur, Head(t)) < Rank(cur, c)
        /\ Head(t) \in Range(t) /\ Range(t) \subseteq CallSet(cur)
    BY <1>2, <1>4, AgendaHead
  <2>2. Head(t)[1] \notin Single \cup {"resume"}
    BY <1>6 DEF Single
  <2>3. Agenda(cur, Tail(t))
    BY <1>2, <1>4, <2>2, AgendaTail
  <2> HIDE DEF t
  <2>4. PICK k \in Kinds : Head(t) = <<"reconcile", k>>
    <3>1. Head(t)[1] = "reconcile"
      BY <1>6 DEF t
    <3>2. Head(t)[2] \in Kinds /\ Head(t) = <<"reconcile", Head(t)[2]>>
      BY <1>2, <2>1, <3>1, PlanFacts DEF CallSet
    <3> QED BY <3>2
  <2>5. Range(t) = Later
    BY <1>2 DEF t
  <2>6. Ahead' = Later \ {<<"reconcile", k>>}
    BY <1>6, <2>1, <2>4, <2>5 DEF Ahead, t
  <2>7. ASSUME NEW d \in Later PROVE Rank(cur, <<"reconcile", k>>) <= Rank(cur, d)
    <3>1. Rank(cur, <<"reconcile", k>>) \in Int /\ Rank(cur, d) \in Int
      <4>1. Rank(cur, <<"reconcile", k>>) \in 0..600 /\ Rank(cur, d) \in 0..600
        <5>1. cur \in Operations /\ <<"reconcile", k>> \in CallSet(cur) /\ d \in CallSet(cur)
          BY <1>2, <2>1, <2>4, <2>5, <2>7
        <5> QED BY <5>1, RankType, ZenonT(60)
      <4> QED BY <4>1
    <3>2. CASE d = <<"reconcile", k>>
      <4>1. Rank(cur, d) = Rank(cur, <<"reconcile", k>>)
        BY <3>2, Zenon
      <4> QED BY <3>1, <4>1
    <3>3. CASE d # <<"reconcile", k>>
      <4>1. Rank(cur, <<"reconcile", k>>) < Rank(cur, d)
        BY <2>1, <2>4, <2>5, <2>7, <3>3
      <4> QED BY <3>1, <4>1
    <3> QED BY <3>2, <3>3
  <2>8. Agenda(cur, todo')
    BY <1>6, <2>3 DEF t
  <2> QED BY <2>6, <2>7, <2>8
<1> QED BY <1>5, <1>6 DEF SkipReconciling

\* A return changes nothing but the handler, and may end the process.
LEMMA ReturnForms ==
  ASSUME NEW m, ReturnError \/ ReturnOperation(m)
  PROVE  /\ cur' = Nobody /\ mode' = "steps" /\ target' = target
         /\ suspended' \in {suspended, TRUE}
BY DEF ReturnError, ReturnOperation, Stop, Return, gateway

\* The handler returns with the journal, the publications and the cells as they are.
LEMMA LeavesQuietly ==
  ASSUME NEW m, ReturnError \/ ReturnOperation(m),
         UNCHANGED <<journal, before, claim, active, prepared, stores>>
  PROVE  Forms
<1>1. /\ cur' = Nobody /\ mode' = "steps" /\ target' = target
      /\ suspended' \in {suspended, TRUE}
  BY ReturnForms
<1> QED BY <1>1 DEF Forms, Handles, Leaves, Publishes, Stores, Admission

LEMMA RequestForms ==
  ASSUME TypeOK, Rest, NEW o \in Operations, Request(o)
  PROVE  Forms
<1>1. ASSUME Accept(o) PROVE Forms
  BY <1>1 DEF Accept, Forms, Handles, Publishes, Stores, Admission, stores, product, gateway
<1>2. ASSUME AcceptAgain(o) PROVE Forms
  BY <1>2 DEF AcceptAgain, Forms, Handles, Idles, Publishes, Stores, Admission, durable, stores,
              product, gateway
<1>3. ASSUME RunAccepted(o) PROVE Forms
  <2>1. Known(o)
    BY <1>3 DEF RunAccepted, Rest, JournalInv
  <2>2. Takes
    BY <1>3, <2>1 DEF RunAccepted, Take, Takes, durable
  <2> QED BY <1>3, <2>2 DEF RunAccepted, Forms, Handles, Publishes, Stores, Admission, stores,
                          product, gateway
<1> QED BY <1>1, <1>2, <1>3 DEF Request

LEMMA StartupForms ==
  ASSUME TypeOK, Rest, Startup
  PROVE  Forms
<1>1. ASSUME Restart PROVE Forms
  BY <1>1 DEF Restart, Forms, Handles, Idles, Publishes, Stores, Admission, durable, stores,
              product, gateway
<1>2. ASSUME Recover PROVE Forms
  <2>1. PICK i \in DOMAIN order : order[i] \in pending /\ Take(order[i], "startup")
    BY <1>2 DEF Recover
  <2>2. order[i] \in Operations /\ Known(order[i])
    BY <2>1 DEF Rest, JournalInv, TypeOK
  <2>3. Takes
    BY <1>2, <2>1, <2>2 DEF Recover, Take, Takes, durable
  <2> QED BY <1>2, <2>3 DEF Recover, Forms, Handles, Publishes, Stores, Admission, stores,
                          product, gateway
<1>3. ASSUME OpenWrites PROVE Forms
  <2>1. UNCHANGED <<journal, before, claim, active, prepared, marker, value>> /\ cur = Nobody
    BY <1>3 DEF OpenWrites, durable, stores, product
  <2>2. CASE claim = Nobody /\ TargetUsable
    <3>1. target' = active /\ suspended' = FALSE /\ UNCHANGED handler
      BY <1>3, <2>2 DEF OpenWrites
    <3>2. cur' = Nobody /\ Idles
      BY <2>1, <3>1 DEF Idles, handler
    <3> QED BY <2>1, <2>2, <3>1, <3>2 DEF Forms, Handles, Publishes, Stores, Admission, stores
  <2>3. CASE ~(claim = Nobody /\ TargetUsable)
    <3>1. Stop /\ target' = target
      BY <1>3, <2>3 DEF OpenWrites
    <3>2. Leaves /\ suspended' = TRUE
      BY <2>1, <3>1 DEF Stop, Leaves
    <3> QED BY <2>1, <3>1, <3>2 DEF Forms, Handles, Publishes, Stores, Admission, stores
  <2> QED BY <2>2, <2>3
<1> QED BY <1>1, <1>2, <1>3 DEF Startup

\* What observing the publication answers.
LEMMA PublicationSeen ==
  Seen("publication") =
    IF ~IsCurrent THEN "Error"
    ELSE IF mem.status["CompilePublication"] = "Compensated" THEN "Missing"
    ELSE IF active = cur
      THEN IF uncertain THEN "Error" ELSE IF target = cur THEN "Applied" ELSE "Staged"
    ELSE IF prepared = cur THEN "Staged"
    ELSE IF active = before[cur]["publication"] THEN "Missing" ELSE "OwnershipLost"
<1>1. Seen("publication") = IF ~IsCurrent THEN "Error" ELSE ObservePublication
  BY DEF Seen, External
<1>2. CASE mem.status["CompilePublication"] = "Compensated"
  <2>1. ObservePublication = "Missing"
    BY <1>2, Zenon DEF ObservePublication
  <2> QED BY <1>1, <1>2, <2>1
<1>3. CASE mem.status["CompilePublication"] # "Compensated"
  <2>1. ObservePublication =
          IF active = cur
            THEN IF uncertain THEN "Error" ELSE IF target = cur THEN "Applied" ELSE "Staged"
            ELSE IF prepared = cur THEN "Staged"
            ELSE IF active = before[cur]["publication"] THEN "Missing" ELSE "OwnershipLost"
    BY <1>3, Zenon DEF ObservePublication
  <2> QED BY <1>1, <1>3, <2>1
<1> QED BY <1>2, <1>3

\* What observing a cell says of its marker.
LEMMA CellSeen ==
  ASSUME TypeOK, cur \in Operations, NEW k \in Cells
  PROVE  /\ Seen(k) = "Missing" => marker[cur][k] \in {"none", "undone"}
         /\ Seen(k) = "Staged" => marker[cur][k] = "staged"
         /\ Seen(k) = "Applied" => marker[cur][k] = "active"
         /\ Seen(k) # "Error" /\ k \in External => IsCurrent
<1> DEFINE m == marker[cur][k]
           v == value[k]
           b == before[cur][k]
<1>1. m \in {"none", "undone", "staged", "active"}
  BY DEF TypeOK, Markers
<1>2. /\ k \in External /\ ~IsCurrent => Seen(k) = "Error"
      /\ ~(k \in External /\ ~IsCurrent) => Seen(k) = Observe(k, cur, m, v, b)
  BY KindFacts DEF Seen
<1>3. k \in PinsBefore \/ k \in Rows \ PinsBefore \/ k \in Files
  BY DEF Cells, Rows, PinsBefore
<1>4. CASE m \in {"none", "undone"}
  <2>1. Observe(k, cur, m, v, b) = "Missing"
    BY <1>4, Zenon DEF Observe
  <2> QED BY <1>2, <1>4, <2>1
<1>5. CASE m \in {"staged", "active"}
  <2>1. \/ Observe(k, cur, m, v, b) = ObservePinned(cur, m, v, b)
        \/ Observe(k, cur, m, v, b) = ObserveRow(cur, m, v)
        \/ Observe(k, cur, m, v, b) = ObserveFile(cur, m, v, b)
    BY <1>5, <1>3 DEF Observe, PinsBefore, Rows, Files
  <2>2. Observe(k, cur, m, v, b) \in {"OwnershipLost", ObserveRow(cur, m, v)}
    BY <2>1 DEF ObservePinned, ObserveFile
  <2>3. CASE m = "staged"
    <3>1. ObserveRow(cur, m, v) = "Staged"
      BY <2>3 DEF ObserveRow
    <3> QED BY <1>2, <2>2, <2>3, <3>1
  <2>4. CASE m = "active"
    <3>1. ObserveRow(cur, m, v) \in {"Applied", "OwnershipLost"}
      <4>1. CASE v = cur
        BY <2>4, <4>1 DEF ObserveRow
      <4>2. CASE v # cur
        BY <2>4, <4>2 DEF ObserveRow
      <4> QED BY <4>1, <4>2
    <3> QED BY <1>2, <2>2, <2>4, <3>1
  <2> QED BY <1>5, <2>3, <2>4
<1> QED BY <1>1, <1>4, <1>5

\* What is sealed is published: its publication is not staged again.
LEMMA SealedSeen ==
  ASSUME TypeOK, Rest, Held, cur # Nobody, Sealed(mem)
  PROVE  Seen("publication") \notin {"Staged", "Missing"}
<1>1. cur \in Operations
  BY DEF TypeOK
<1>2. /\ mem.status["CompilePublication"] = "Applied"
      /\ active # before[cur]["publication"] /\ prepared # cur
  BY <1>1 DEF Held, Roots, EntriesInv, RootEntry, Sealed
<1>3. /\ prepared # Nobody => claim = prepared
      /\ target = active \/ (target = prepared /\ prepared # Nobody)
  BY DEF Held, Roots, RootInv
<1>4. IsCurrent => claim \in {cur, Nobody}
  BY DEF IsCurrent, Sealed, Terminal
<1>5. IsCurrent /\ active = cur => target = cur
  BY <1>2, <1>3, <1>4
<1> QED BY <1>2, <1>5, PublicationSeen

\* A handler that enters works on the journal's entry.
LEMMA EnteredIsJournal ==
  ASSUME TypeOK, Rest, cur # Nobody, Call \in (ForwardNames \ {"resume"}) \cup {"enter"}
  PROVE  mem = journal[cur]
<1>1. AgendaInv /\ CurrentInv
  BY DEF Rest, HandlerInv
<1>2. <<Call, On>> \in Ahead
  BY <1>1, HandlerFacts
<1> QED BY <1>1, <1>2 DEF CurrentInv

LEMMA EnterForms ==
  ASSUME TypeOK, Rest, Held, EnterOperation \/ ResumeSettingsTail
  PROVE  Forms
<1>1. cur # Nobody => mem.state \in States \ {"none"}
  BY DEF Rest, HandlerInv, CopyInv, TypeOK, Entry
<1>2. States \ {"none"} = Working \cup {"RollingBack", "Succeeded", "RolledBack", "NeedsAttention"}
  BY StepFacts DEF States, Working, Terminal
<1>3. ASSUME EnterOperation PROVE Forms
  <2>1. /\ cur # Nobody /\ Call = "enter" /\ ~Sealed(mem)
        /\ UNCHANGED <<journal, before, claim, active, prepared, stores>>
    BY <1>3, EnterCases DEF Calls, durable, product, Sealed
  <2>2. CASE ReturnOperation(mem)
    BY <2>1, <2>2, LeavesQuietly
  <2>3. CASE /\ mem.state \notin {"Succeeded", "RolledBack"}
             /\ \/ mem.state = "NeedsAttention" /\ RollbackProven /\ todo' = Closing
                \/ mem.state = "RollingBack" /\ todo' = Rollback(cur, mem)
                \/ mem.state \notin {"NeedsAttention", "RollingBack"} /\ todo' = Forward(cur, mem)
             /\ UNCHANGED <<process, gateway, cur, mem, mode, doubt>>
    <3>1. Decides
      BY <1>1, <1>2, <2>1, <2>3 DEF Decides
    <3> QED BY <2>1, <2>3, <3>1 DEF Forms, Handles, Publishes, Stores, Admission, gateway
  <2> QED BY <1>3, <2>2, <2>3, EnterCases
<1>4. ASSUME ResumeSettingsTail PROVE Forms
  <2>1. /\ cur # Nobody /\ Call = "enter" /\ Sealed(mem)
        /\ UNCHANGED <<before, claim, active, prepared, stores>>
    BY <1>4, ResumeTailCases DEF Calls, product, Sealed
  <2>2. CASE ReturnError /\ UNCHANGED journal
    BY <2>1, <2>2, LeavesQuietly
  <2>3. CASE /\ UNCHANGED <<process, gateway, cur, doubt, mem, journal>>
             /\ Seen("publication") \notin {"Error", "Staged", "Missing"}
             /\ \/ todo' = <<<<"park", "file">>>> /\ mode' = "tail"
                \/ /\ Seen("publication") # "OwnershipLost"
                   /\ \/ todo' = RetryTail /\ mode' = "tail"
                      \/ todo' = Forward(cur, mem) /\ mode' = "strict"
    <3>1. Seen("publication") # "OwnershipLost" => Seen("publication") = "Applied"
      BY <2>3, PublicationSeen
    <3>2. Decides
      BY <2>1, <2>3, <3>1 DEF Decides
    <3> QED BY <2>1, <2>3, <3>2 DEF Forms, Handles, Publishes, Stores, Admission, gateway
  <2> QED BY <1>4, <2>1, <2>2, <2>3, SealedSeen, ResumeTailCases
<1> QED BY <1>3, <1>4

\* A call of a run that saves nothing.
LEMMA GoesQuietly ==
  ASSUME TypeOK, Rest, cur # Nobody, Call \in ForwardCalls \cup {"verify"},
         Call \notin {"begin", "complete", "seal"}, Advance,
         UNCHANGED <<mem, journal, before, claim, doubt>>,
         Call = "checkpoint" => active = cur,
         Call = "install" => target' = cur,
         Call = "mark" => active' = cur,
         Call = "activate" => marker'[cur][On] = "active",
         Call = "suspend" /\ "publication" \in Plan[cur] /\ ~Settings(cur) => suspended'
  PROVE  Goes
<1>1. cur' = cur /\ mode' = mode /\ todo' = Tail(todo) /\ Call \notin Single \cup {"resume"}
  BY DEF Advance, ForwardCalls, Single
<1>2. Agenda(cur, todo') /\ Ahead' = Later
  BY <1>1, ListAdvanced
<1> QED BY <1>1, <1>2 DEF Goes

\* A call of a run that saves the entry.
LEMMA GoesSaved ==
  ASSUME TypeOK, Rest, cur # Nobody, Call \in {"begin", "complete", "record", "seal"}, Advance,
         Save(Written(Call, On)), UNCHANGED <<before, claim, doubt>>
  PROVE  Goes
<1>1. cur' = cur /\ mode' = mode /\ todo' = Tail(todo) /\ Call \notin Single \cup {"resume"}
  BY DEF Advance, Single
<1>2. Agenda(cur, todo') /\ Ahead' = Later
  BY <1>1, ListAdvanced
<1> QED BY <1>1, <1>2 DEF Goes, ForwardCalls

\* A step that fails with nothing saved.
LEMMA FailsQuietly ==
  ASSUME cur # Nobody, Call \in ForwardCalls, Fail(mem), UNCHANGED <<journal, before, claim>>
  PROVE  Handles
<1>1. Fails(mem)
  BY DEF Fails
<1> QED BY <1>1 DEF Handles

\* A step that leaves the publications, the cells and the requests alone.
LEMMA QuietForms ==
  ASSUME Handles, UNCHANGED <<active, prepared, target, stores, suspended>>
  PROVE  Forms
BY DEF Forms, Publishes, Stores, Admission

LEMMA StageForms ==
  ASSUME TypeOK, Rest, Held, StageEffect \/ StagePublication
  PROVE  Forms
<1>1. ASSUME StageEffect PROVE Forms
  <2>1. /\ cur # Nobody /\ Call = "stage" /\ On \in Cells
        /\ UNCHANGED <<target, suspended>>
    BY <1>1, StageEffectCases DEF Calls, gateway
  <2>2. CASE Advance /\ UNCHANGED <<durable, stores, product, mem, doubt>>
    <3>1. Goes
      BY <2>1, <2>2, GoesQuietly DEF ForwardCalls, durable
    <3> QED BY <2>1, <2>2, <3>1, QuietForms DEF Handles, product
  <2>3. CASE /\ CanStage(marker[cur][On], value[On], before[cur][On])
             /\ marker' = [marker EXCEPT ![cur][On] = "staged"]
             /\ Advance
             /\ UNCHANGED <<durable, value, product, mem, doubt>>
    <3>1. Goes
      BY <2>1, <2>3, GoesQuietly DEF ForwardCalls, durable
    <3>2. Stores
      BY <2>1, <2>3 DEF Stores, durable, Advance, Calls
    <3> QED BY <2>1, <2>3, <3>1, <3>2 DEF Forms, Handles, Publishes, Admission, product
  <2>4. CASE FailRecorded(On)
    <3>1. Fails(Written("record", On))
      BY <2>1, <2>4 DEF Fails, FailRecorded, ForwardCalls
    <3>2. Handles
      BY <2>1, <3>1 DEF Handles
    <3> QED BY <2>1, <2>4, <3>2, QuietForms DEF FailRecorded, product
  <2>5. CASE Fail(mem) /\ UNCHANGED <<durable, stores, product>>
    <3>1. Handles
      BY <2>1, <2>5, FailsQuietly DEF ForwardCalls, durable
    <3> QED BY <2>1, <2>5, <3>1, QuietForms DEF product
  <2> QED BY <1>1, <2>2, <2>3, <2>4, <2>5, StageEffectCases
<1>2. ASSUME StagePublication PROVE Forms
  <2>1. /\ cur # Nobody /\ Call = "stage" /\ On = "publication"
        /\ UNCHANGED <<target, suspended>>
    BY <1>2, StagePublicationCases DEF Calls, gateway
  <2>2. CASE Advance /\ UNCHANGED <<durable, stores, product, mem, doubt>>
    <3>1. Goes
      BY <2>1, <2>2, GoesQuietly DEF ForwardCalls, durable
    <3> QED BY <2>1, <2>2, <3>1, QuietForms DEF Handles, product
  <2>3. CASE /\ Seen(On) = "Missing" /\ prepared = Nobody /\ prepared' = cur
             /\ Advance
             /\ UNCHANGED <<durable, stores, active, lkg, mem, doubt>>
    <3>1. Goes
      BY <2>1, <2>3, GoesQuietly DEF ForwardCalls, durable
    <3>2. Publishes
      BY <2>1, <2>3 DEF Publishes, durable, Advance, Calls
    <3> QED BY <2>1, <2>3, <3>1, <3>2 DEF Forms, Handles, Stores, Admission
  <2>4. CASE FailRecorded(On)
    <3>1. Fails(Written("record", On))
      BY <2>1, <2>4 DEF Fails, FailRecorded, ForwardCalls
    <3>2. Handles
      BY <2>1, <3>1 DEF Handles
    <3> QED BY <2>1, <2>4, <3>2, QuietForms DEF FailRecorded, product
  <2>5. CASE Fail(mem) /\ UNCHANGED <<durable, stores, product>>
    <3>1. Handles
      BY <2>1, <2>5, FailsQuietly DEF ForwardCalls, durable
    <3> QED BY <2>1, <2>5, <3>1, QuietForms DEF product
  <2> QED BY <1>2, <2>2, <2>3, <2>4, <2>5, StagePublicationCases
<1> QED BY <1>1, <1>2

LEMMA ProgressForms ==
  ASSUME TypeOK, Rest, Held,
         \/ SaveProgress \/ RecordEffect \/ SealSettingsServiceCompletion
         \/ BeginPublicationActivation \/ SwitchFile
  PROVE  Forms
<1>1. ASSUME SaveProgress PROVE Forms
  <2>1. /\ cur # Nobody /\ Call \in {"begin", "complete"} /\ Save(Written(Call, On)) /\ Advance
        /\ UNCHANGED <<before, claim, doubt, active, prepared, target, stores, suspended>>
    BY <1>1 DEF SaveProgress, Calls, product, gateway
  <2>2. Goes
    BY <2>1, GoesSaved
  <2> QED BY <2>1, <2>2, QuietForms DEF Handles
<1>2. ASSUME RecordEffect PROVE Forms
  <2>1. /\ cur # Nobody /\ Call = "record" /\ Advance
        /\ UNCHANGED <<mem, journal>> \/ Save(Written("record", On))
        /\ UNCHANGED <<before, claim, doubt, active, prepared, target, stores, suspended>>
    BY <1>2 DEF RecordEffect, Calls, product, gateway
  <2>2. CASE UNCHANGED <<mem, journal>>
    <3>1. Goes
      BY <2>1, <2>2, GoesQuietly DEF ForwardCalls
    <3> QED BY <2>1, <3>1, QuietForms DEF Handles
  <2>3. CASE Save(Written("record", On))
    <3>1. Goes
      BY <2>1, <2>3, GoesSaved
    <3> QED BY <2>1, <3>1, QuietForms DEF Handles
  <2> QED BY <2>1, <2>2, <2>3
<1>3. ASSUME SealSettingsServiceCompletion PROVE Forms
  <2>1. /\ cur # Nobody /\ Call = "seal"
        /\ \/ Save(Written(Call, On)) /\ Advance /\ UNCHANGED doubt
           \/ Fail(mem) /\ UNCHANGED journal
        /\ UNCHANGED <<before, claim, active, prepared, target, stores, suspended>>
    BY <1>3 DEF SealSettingsServiceCompletion, Calls, product, gateway
  <2>2. CASE Save(Written(Call, On)) /\ Advance /\ UNCHANGED doubt
    <3>1. Goes
      BY <2>1, <2>2, GoesSaved
    <3> QED BY <2>1, <3>1, QuietForms DEF Handles
  <2>3. CASE Fail(mem) /\ UNCHANGED journal
    <3>1. Handles
      BY <2>1, <2>3, FailsQuietly DEF ForwardCalls
    <3> QED BY <2>1, <3>1, QuietForms
  <2> QED BY <2>1, <2>2, <2>3
<1>4. ASSUME BeginPublicationActivation PROVE Forms
  <2>1. /\ cur # Nobody /\ Call = "suspend"
        /\ UNCHANGED <<journal, before, claim, active, prepared, target, stores>>
        /\ \/ /\ suspended' = (suspended \/ ("publication" \in Plan[cur] /\ ~Settings(cur)))
              /\ Advance
              /\ UNCHANGED <<mem, doubt>>
           \/ Fail(mem) /\ UNCHANGED suspended
    BY <1>4 DEF BeginPublicationActivation, Calls, product, durable
  <2>2. CASE /\ suspended' = (suspended \/ ("publication" \in Plan[cur] /\ ~Settings(cur)))
             /\ Advance
             /\ UNCHANGED <<mem, doubt>>
    <3>1. "publication" \in Plan[cur] /\ ~Settings(cur) => suspended'
      BY <2>2
    <3>2. Goes
      BY <2>1, <2>2, <3>1, GoesQuietly DEF ForwardCalls
    <3>3. suspended' \in {suspended, TRUE}
      <4>1. suspended \in BOOLEAN
        BY DEF TypeOK
      <4>2. CASE suspended = TRUE
        BY <2>2, <4>2
      <4>3. CASE suspended = FALSE /\ ("publication" \in Plan[cur] /\ ~Settings(cur))
        BY <2>2, <4>3
      <4>4. CASE suspended = FALSE /\ ~("publication" \in Plan[cur] /\ ~Settings(cur))
        BY <2>2, <4>4
      <4> QED BY <4>1, <4>2, <4>3, <4>4
    <3> QED BY <2>1, <3>2, <3>3 DEF Forms, Handles, Publishes, Stores, Admission
  <2>3. CASE Fail(mem) /\ UNCHANGED suspended
    <3>1. Handles
      BY <2>1, <2>3, FailsQuietly DEF ForwardCalls
    <3> QED BY <2>1, <2>3, <3>1, QuietForms
  <2> QED BY <2>1, <2>2, <2>3
<1>5. ASSUME SwitchFile PROVE Forms
  <2>1. /\ cur # Nobody /\ Call = "switch"
        /\ UNCHANGED <<journal, before, claim, active, prepared, target, marker, suspended>>
        /\ \/ /\ Seen(On) \in {"Staged", "Applied"}
              /\ value' = [value EXCEPT ![On] = cur] /\ Advance /\ UNCHANGED <<mem, doubt>>
           \/ Fail(mem) /\ UNCHANGED value
    BY <1>5 DEF SwitchFile, Calls, product, durable, gateway
  <2>2. cur \in Operations /\ On \in Cells
    BY <2>1, OnFacts DEF TypeOK, Rest, HandlerInv, Cells
  <2>3. CASE /\ Seen(On) \in {"Staged", "Applied"}
             /\ value' = [value EXCEPT ![On] = cur] /\ Advance /\ UNCHANGED <<mem, doubt>>
    <3>1. Goes
      BY <2>1, <2>3, GoesQuietly DEF ForwardCalls
    <3>2. marker[cur][On] \in {"staged", "active"}
      BY <2>2, <2>3, CellSeen
    <3>3. Stores
      BY <2>1, <2>3, <3>2 DEF Stores, Calls, Advance
    <3> QED BY <2>1, <3>1, <3>3 DEF Forms, Handles, Publishes, Admission
  <2>4. CASE Fail(mem) /\ UNCHANGED value
    <3>1. Handles
      BY <2>1, <2>4, FailsQuietly DEF ForwardCalls
    <3> QED BY <2>1, <2>4, <3>1, QuietForms DEF stores
  <2> QED BY <2>1, <2>3, <2>4
<1> QED BY <1>1, <1>2, <1>3, <1>4, <1>5

LEMMA ActivateForms ==
  ASSUME TypeOK, Rest, Held, ActivateEffect
  PROVE  Forms
<1>1. /\ cur # Nobody /\ Call = "activate"
      /\ UNCHANGED <<journal, before, claim, active, prepared, target, suspended>>
  BY ActivateEffectCases DEF Calls, durable, product, gateway
<1>2. cur \in Operations /\ On \in Cells
  BY <1>1, OnFacts DEF TypeOK, Rest, HandlerInv
<1>3. CASE Seen(On) = "Applied" /\ Advance /\ UNCHANGED <<stores, mem, doubt>>
  <2>1. marker'[cur][On] = "active"
    BY <1>2, <1>3, CellSeen DEF stores
  <2>2. Goes
    BY <1>1, <1>3, <2>1, GoesQuietly DEF ForwardCalls
  <2> QED BY <1>1, <1>3, <2>2, QuietForms DEF Handles
<1>4. CASE /\ Seen(On) = "Staged"
           /\ CanActivate(On, cur, marker[cur][On], value[On], before[cur][On])
           /\ marker' = [marker EXCEPT ![cur][On] = "active"]
           /\ value' = [value EXCEPT ![On] = cur]
           /\ Advance
           /\ UNCHANGED <<mem, doubt>>
  <2>1. marker'[cur][On] = "active" /\ marker[cur][On] = "staged"
    BY <1>2, <1>4, CellSeen DEF TypeOK
  <2>2. Goes
    BY <1>1, <1>4, <2>1, GoesQuietly DEF ForwardCalls
  <2>3. Stores
    BY <1>1, <1>4, <2>1 DEF Stores, Calls, Advance
  <2> QED BY <1>1, <2>2, <2>3 DEF Forms, Handles, Publishes, Admission
<1>5. CASE Fail(mem) /\ UNCHANGED stores
  <2>1. Handles
    BY <1>1, <1>5, FailsQuietly DEF ForwardCalls
  <2> QED BY <1>1, <1>5, <2>1, QuietForms
<1> QED BY <1>3, <1>4, <1>5, ActivateEffectCases

LEMMA PublishForms ==
  ASSUME TypeOK, Rest, Held,
         \/ PreparePublicationActivation \/ InstallPublication \/ InstallUncertain
         \/ MarkPublicationActive
  PROVE  Forms
<1>0. /\ cur # Nobody => cur \in Operations /\ "publication" \in Kinds
      /\ cur # Nobody /\ Call \in {"checkpoint", "install", "mark"} => On = "publication"
  BY KindFacts, OnFacts DEF TypeOK, Rest, HandlerInv
<1>1. ASSUME PreparePublicationActivation PROVE Forms
  <2>1. /\ cur # Nobody /\ Call = "checkpoint"
        /\ UNCHANGED <<before, claim, active, prepared, target, stores, suspended>>
    BY <1>1, CheckpointCases DEF Calls, product, gateway
  <2>2. CASE Seen(On) = "Applied" /\ Advance /\ UNCHANGED <<mem, journal, doubt>>
    <3>1. active = cur
      BY <1>0, <2>1, <2>2, SeenApplied
    <3>2. Goes
      BY <2>1, <2>2, <3>1, GoesQuietly DEF ForwardCalls
    <3> QED BY <2>1, <3>2, QuietForms DEF Handles
  <2>3. CASE /\ mem.decision # "Abort"
             /\ Save(Written(Call, On))
             /\ todo' = <<<<"install", On>>, <<"mark", On>>>> \o Tail(todo)
             /\ UNCHANGED <<cur, mode, doubt>>
    <3>1. Agenda(cur, todo') /\ Ahead' = InstallCalls \cup Later
      BY <2>1, <2>3, ListInstalling
    <3>2. Ahead' = Later => active = cur
      <4>1. AgendaInv
        BY DEF Rest, HandlerInv
      <4>2. <<Call, On>> \in Ahead /\ <<Call, On>> = CheckpointCall /\ Agenda(cur, todo)
        BY <1>0, <2>1, <4>1, HandlerFacts DEF CheckpointCall
      <4>3. Ahead \cap InstallCalls = {}
        BY <4>2 DEF Agenda, Ahead
      <4>4. InstallCalls # {} /\ Later \subseteq Ahead
        BY DEF InstallCalls, Later
      <4> QED BY <3>1, <4>3, <4>4
    <3>3. Goes
      BY <2>1, <2>3, <3>1, <3>2 DEF Goes, ForwardCalls
    <3> QED BY <2>1, <3>3, QuietForms DEF Handles
  <2>4. CASE Fail(mem) /\ UNCHANGED journal
    <3>1. Handles
      BY <2>1, <2>4, FailsQuietly DEF ForwardCalls
    <3> QED BY <2>1, <3>1, QuietForms
  <2> QED BY <1>1, <2>2, <2>3, <2>4, CheckpointCases
<1>2. ASSUME InstallPublication PROVE Forms
  <2>1. /\ cur # Nobody /\ Call = "install"
        /\ UNCHANGED <<journal, before, claim, active, prepared, stores, suspended>>
        /\ \/ /\ IsCurrent /\ cur \in {active, prepared}
              /\ target' = cur /\ Advance /\ UNCHANGED <<mem, doubt>>
           \/ Fail(mem) /\ UNCHANGED target
    BY <1>2 DEF InstallPublication, Calls, product, durable
  <2>2. CASE /\ IsCurrent /\ cur \in {active, prepared}
             /\ target' = cur /\ Advance /\ UNCHANGED <<mem, doubt>>
    <3>1. Goes
      BY <2>1, <2>2, GoesQuietly DEF ForwardCalls
    <3>2. Publishes
      BY <2>1, <2>2 DEF Publishes, Calls, Advance
    <3> QED BY <2>1, <3>1, <3>2 DEF Forms, Handles, Stores, Admission
  <2>3. CASE Fail(mem) /\ UNCHANGED target
    <3>1. Handles
      BY <2>1, <2>3, FailsQuietly DEF ForwardCalls
    <3> QED BY <2>1, <2>3, <3>1, QuietForms
  <2> QED BY <2>1, <2>2, <2>3
<1>3. ASSUME InstallUncertain PROVE Forms
  <2>1. /\ cur # Nobody /\ Call = "install"
        /\ UNCHANGED <<journal, before, claim, active, prepared, stores, suspended>>
        /\ IsCurrent /\ cur \in {active, prepared} /\ target' \in {target, cur}
        /\ Fail(mem)
    BY <1>3 DEF InstallUncertain, Calls, product, durable
  <2>2. Handles
    BY <2>1, FailsQuietly DEF ForwardCalls
  <2>3. Publishes
    BY <2>1 DEF Publishes, Calls, Fail
  <2> QED BY <2>1, <2>2, <2>3 DEF Forms, Stores, Admission
<1>4. ASSUME MarkPublicationActive PROVE Forms
  <2>1. /\ cur # Nobody /\ Call = "mark"
        /\ UNCHANGED <<journal, before, claim, target, stores, suspended>>
    BY <1>4, MarkCases DEF Calls, durable, gateway
  <2>2. CASE active = cur /\ Advance /\ UNCHANGED <<product, mem, doubt>>
    <3>1. Goes
      BY <2>1, <2>2, GoesQuietly DEF ForwardCalls, product
    <3> QED BY <2>1, <2>2, <3>1, QuietForms DEF Handles, product
  <2>3. CASE /\ active # cur /\ prepared = cur
             /\ active' = cur /\ lkg' = active /\ prepared' = Nobody
             /\ Advance
             /\ UNCHANGED <<mem, doubt>>
    <3>1. Goes
      BY <2>1, <2>3, GoesQuietly DEF ForwardCalls
    <3>2. Publishes
      BY <2>1, <2>3 DEF Publishes, Calls, Advance
    <3> QED BY <2>1, <3>1, <3>2 DEF Forms, Handles, Stores, Admission
  <2>4. CASE Fail(mem) /\ UNCHANGED product
    <3>1. Handles
      BY <2>1, <2>4, FailsQuietly DEF ForwardCalls
    <3> QED BY <2>1, <2>4, <3>1, QuietForms DEF product
  <2> QED BY <1>4, <2>2, <2>3, <2>4, MarkCases
<1> QED BY <1>1, <1>2, <1>3, <1>4

LEMMA ReturningForms ==
  ASSUME TypeOK, Rest, Held,
         \/ ReconcileTerminalSuccess \/ FinishSuccess \/ FinishPublicationActivation
         \/ SaveOperationTail \/ ReclaimOperationWriter
  PROVE  Forms
<1>1. ASSUME ReconcileTerminalSuccess PROVE Forms
  <2>1. /\ cur # Nobody /\ Call = "verify"
        /\ todo' = Tail(todo) \/ todo' = Rollback(cur, mem)
        /\ UNCHANGED <<journal, before, claim, active, prepared, target, stores, suspended>>
        /\ UNCHANGED <<cur, mem, mode, doubt>>
    BY <1>1 DEF ReconcileTerminalSuccess, Calls, durable, product, gateway
  <2>2. CASE todo' = Tail(todo)
    <3>1. Goes
      BY <2>1, <2>2, GoesQuietly DEF Advance
    <3> QED BY <2>1, <3>1, QuietForms DEF Handles
  <2>3. CASE todo' = Rollback(cur, mem)
    <3>1. Decides
      BY <2>1, <2>3 DEF Decides
    <3> QED BY <2>1, <3>1, QuietForms DEF Handles
  <2> QED BY <2>1, <2>2, <2>3
<1>2. ASSUME FinishSuccess PROVE Forms
  <2>1. /\ cur # Nobody /\ Call = "finish" /\ FinishReleasing("Succeeded")
        /\ UNCHANGED <<before, active, prepared, stores>>
    BY <1>2 DEF FinishSuccess, Calls, product
  <2>2. CASE claim = cur
    <3>1. /\ Save([mem EXCEPT !.state = "Succeeded"]) /\ claim' = Nobody /\ Advance
          /\ UNCHANGED <<target, suspended, doubt>>
      BY <2>1, <2>2 DEF FinishReleasing, gateway
    <3>2. Agenda(cur, todo') /\ Ahead' = Later
      BY <2>1, <3>1, ListAdvanced DEF Advance, Single
    <3>3. Finishes
      BY <2>1, <2>2, <3>1, <3>2 DEF Finishes, Calls, Advance
    <3> QED BY <2>1, <3>1, <3>3, QuietForms DEF Handles
  <2>3. CASE claim # cur
    <3>1. ReturnError /\ UNCHANGED <<journal, claim>>
      BY <2>1, <2>3 DEF FinishReleasing
    <3> QED BY <2>1, <3>1, LeavesQuietly
  <2> QED BY <2>2, <2>3
<1>3. ASSUME FinishPublicationActivation PROVE Forms
  <2>1. /\ Calls("resume")
        /\ UNCHANGED <<journal, before, claim, active, prepared, stores>>
    BY <1>3, ResumeCases DEF durable, product
  <2>2. CASE ReturnOperation(mem) \/ ReturnError
    BY <2>1, <2>2, LeavesQuietly
  <2>3. CASE /\ mem.state # "NeedsAttention"
             /\ Return /\ target' = active /\ suspended' = FALSE /\ UNCHANGED <<uncertain, process>>
    BY <2>1, <2>3 DEF Forms, Handles, Leaves, Publishes, Stores, Admission, Return, stores
  <2> QED BY <1>3, <2>2, <2>3, ResumeCases
<1>4. ASSUME SaveOperationTail PROVE Forms
  <2>1. /\ Calls("park")
        /\ UNCHANGED <<before, active, prepared, stores>>
        /\ \/ /\ claim \in {cur, Nobody}
              /\ journal' = [journal EXCEPT ![cur] = mem] /\ claim' = Nobody
              /\ ReturnOperation(mem)
           \/ ReturnError /\ UNCHANGED <<journal, claim>>
    BY <1>4 DEF SaveOperationTail, product
  <2>2. CASE /\ claim \in {cur, Nobody}
             /\ journal' = [journal EXCEPT ![cur] = mem] /\ claim' = Nobody
             /\ ReturnOperation(mem)
    <3>1. /\ cur' = Nobody /\ mode' = "steps" /\ target' = target
          /\ suspended' \in {suspended, TRUE}
      BY <2>2, ReturnForms
    <3> QED BY <2>1, <2>2, <3>1 DEF Forms, Handles, Leaves, Publishes, Stores, Admission
  <2>3. CASE ReturnError /\ UNCHANGED <<journal, claim>>
    BY <2>1, <2>3, LeavesQuietly
  <2> QED BY <2>1, <2>2, <2>3
<1>5. ASSUME ReclaimOperationWriter PROVE Forms
  <2>1. /\ cur # Nobody /\ Call = "reclaim"
        /\ UNCHANGED <<journal, before, active, prepared, stores>>
        /\ \/ /\ claim \in {cur, Nobody} /\ claim' = cur /\ mem' = journal[cur] /\ Advance
              /\ UNCHANGED <<target, suspended, doubt>>
           \/ ReturnError /\ UNCHANGED claim
    BY <1>5 DEF ReclaimOperationWriter, Calls, product, gateway
  <2>2. CASE /\ claim \in {cur, Nobody} /\ claim' = cur /\ mem' = journal[cur] /\ Advance
             /\ UNCHANGED <<target, suspended, doubt>>
    <3>1. mem' = mem
      BY <2>1, <2>2, EnteredIsJournal DEF ForwardNames
    <3>2. Agenda(cur, todo') /\ Ahead' = Later
      BY <2>1, <2>2, ListAdvanced DEF Advance, Single
    <3>3. Reclaims
      BY <2>1, <2>2, <3>1, <3>2 DEF Reclaims, Calls, Advance
    <3> QED BY <2>1, <2>2, <3>3, QuietForms DEF Handles
  <2>3. CASE ReturnError /\ UNCHANGED claim
    BY <2>1, <2>3, LeavesQuietly
  <2> QED BY <2>1, <2>2, <2>3
<1> QED BY <1>1, <1>2, <1>3, <1>4, <1>5

\* What recording an effect adds.
LEMMA RecordedThen ==
  ASSUME TypeOK
  PROVE  On \in Written("record", On).recorded
BY WrittenFields DEF TypeOK

LEMMA UndoForms ==
  ASSUME TypeOK, Rest, Held,
         \/ PreparePublicationRollback \/ SaveRollbackProgress \/ ReconcileForRollback
  PROVE  Forms
<1>1. ASSUME PreparePublicationRollback PROVE Forms
  <2>1. /\ cur # Nobody /\ Call = "abort"
        /\ UNCHANGED <<before, claim, active, prepared, stores>>
    BY <1>1, AbortCases DEF Calls, product
  <2>2. CASE /\ IsCurrent /\ (mem.decision = "Abort" \/ StillBefore)
             /\ Save(Written(Call, On)) /\ Advance /\ UNCHANGED <<process, gateway, doubt>>
    <3>1. Agenda(cur, todo') /\ Ahead' = Later
      BY <2>1, <2>2, ListAdvanced DEF Advance, Single
    <3>2. Undoes
      BY <2>1, <2>2, <3>1 DEF Undoes, Calls, Advance
    <3> QED BY <2>1, <2>2, <3>2, QuietForms DEF Handles, gateway
  <2>3. CASE /\ \/ UNCHANGED journal
                \/ /\ ~IsCurrent
                   /\ journal' = [journal EXCEPT ![cur] = [mem EXCEPT !.state = "NeedsAttention"]]
             /\ \/ ReturnError
                \/ writesOpen' = FALSE /\ Return /\ UNCHANGED <<phase, pending, admitted, gateway>>
    <3>1. /\ cur' = Nobody /\ mode' = "steps" /\ target' = target
          /\ suspended' \in {suspended, TRUE}
      BY <2>3, ReturnForms DEF Return, gateway
    <3> QED BY <2>1, <2>3, <3>1 DEF Forms, Handles, Leaves, Publishes, Stores, Admission, Calls
  <2> QED BY <1>1, <2>2, <2>3, AbortCases
<1>2. ASSUME SaveRollbackProgress PROVE Forms
  <2>1. /\ cur # Nobody /\ Call \in {"rollback", "compensating"}
        /\ Save(Written(Call, On)) /\ Advance
        /\ UNCHANGED <<before, claim, doubt, active, prepared, target, stores, suspended>>
    BY <1>2 DEF SaveRollbackProgress, Calls, product, gateway
  <2>2. Agenda(cur, todo') /\ Ahead' = Later
    BY <2>1, ListAdvanced DEF Advance, Single
  <2>3. Undoes
    BY <2>1, <2>2 DEF Undoes, Calls, Advance
  <2> QED BY <2>1, <2>3, QuietForms DEF Handles
<1>3. ASSUME ReconcileForRollback PROVE Forms
  <2>1. /\ cur # Nobody /\ Call = "reconcile"
        /\ IF ToRecord THEN Save(Written("record", On)) ELSE UNCHANGED <<mem, journal>>
        /\ IF Seen(On) = "Error" THEN SkipReconciling ELSE todo' = Tail(todo)
        /\ doubt' = (doubt \/ Seen(On) \in {"OwnershipLost", "Error"})
        /\ UNCHANGED <<before, claim, active, prepared, target, stores, suspended, cur, mode>>
    BY <1>3 DEF ReconcileForRollback, Calls, product, gateway
  <2>2. /\ Agenda(cur, todo')
        /\ \/ Ahead' = Later
           \/ \E k \in Kinds :
                /\ Ahead' = Later \ {<<"reconcile", k>>}
                /\ \A d \in Later : Rank(cur, <<"reconcile", k>>) <= Rank(cur, d)
    <3>1. CASE SkipReconciling
      BY <2>1, <3>1, ListSkipped
    <3>2. CASE todo' = Tail(todo)
      BY <2>1, <3>2, ListAdvanced DEF Single
    <3> QED BY <2>1, <3>1, <3>2
  <2>3. doubt' \/ (~doubt /\ (Seen(On) = "Missing" \/ On \in mem'.recorded))
    <3>1. CASE ToRecord
      BY <2>1, <3>1, RecordedThen DEF Save
    <3>2. CASE ~ToRecord
      BY <2>1, <3>2 DEF ToRecord
    <3> QED BY <3>1, <3>2
  <2>4. \/ UNCHANGED <<mem, journal>>
        \/ mem' = Written("record", On) /\ journal' = journal
        \/ Save(Written("record", On))
    BY <2>1
  <2>5. Undoes
    BY <2>1, <2>2, <2>3, <2>4 DEF Undoes, Calls
  <2> QED BY <2>1, <2>5, QuietForms DEF Handles
<1> QED BY <1>1, <1>2, <1>3

LEMMA CompensateForms ==
  ASSUME TypeOK, Rest, Held,
         \/ CompensateEffect \/ CompensatePublication \/ SettleCompensation \/ FinishRollback
  PROVE  Forms
<1>1. ASSUME CompensateEffect PROVE Forms
  <2>1. /\ cur # Nobody /\ Call = "compensate" /\ On \in Cells /\ On # "publication"
        /\ todo' = Tail(todo) /\ (doubt' \/ ~doubt)
        /\ UNCHANGED <<journal, before, claim, active, prepared, target, suspended, cur, mem, mode>>
    BY <1>1 DEF CompensateEffect, Calls, product, gateway, durable, Cells, Rows, Files
  <2>2. \/ UNCHANGED stores
        \/ LET result == Compensation(On, cur, marker[cur][On], value[On], before[cur][On])
           IN /\ marker' = [marker EXCEPT ![cur][On] = result.marker]
              /\ value' = [value EXCEPT ![On] = result.value]
    BY <1>1 DEF CompensateEffect
  <2>3. Agenda(cur, todo') /\ Ahead' = Later
    BY <2>1, ListAdvanced DEF Single
  <2>4. Undoes
    BY <2>1, <2>3 DEF Undoes, Calls
  <2>5. Stores
    BY <2>1, <2>2 DEF Stores, Calls
  <2> QED BY <2>1, <2>4, <2>5 DEF Forms, Handles, Publishes, Admission
<1>2. ASSUME CompensatePublication PROVE Forms
  <2>1. /\ cur # Nobody /\ Call = "compensate" /\ On = "publication" /\ todo' = Tail(todo)
        /\ \/ prepared = cur /\ prepared' = Nobody /\ UNCHANGED doubt
           \/ UNCHANGED prepared /\ doubt' = (doubt \/ On \in mem.recorded)
        /\ UNCHANGED <<journal, before, claim, active, target, stores, suspended, cur, mem, mode>>
    BY <1>2 DEF CompensatePublication, Calls, gateway, durable
  <2>2. Agenda(cur, todo') /\ Ahead' = Later
    BY <2>1, ListAdvanced DEF Single
  <2>3. doubt' \/ (~doubt /\ (On = "publication" => On \notin mem.recorded \/ prepared' # cur))
    BY <2>1 DEF TypeOK
  <2>4. Undoes
    BY <2>1, <2>2, <2>3 DEF Undoes, Calls
  <2>5. Publishes
    BY <2>1 DEF Publishes, Calls
  <2> QED BY <2>1, <2>4, <2>5 DEF Forms, Handles, Stores, Admission
<1>3. ASSUME SettleCompensation PROVE Forms
  <2>1. /\ cur # Nobody /\ Call = "settle" /\ doubt' = FALSE /\ Advance
        /\ Save([mem EXCEPT !.status[On] = IF doubt THEN "Attention" ELSE "Compensated"])
        /\ UNCHANGED <<before, claim, active, prepared, target, stores, suspended>>
    BY <1>3 DEF SettleCompensation, Calls, product, gateway
  <2>2. Agenda(cur, todo') /\ Ahead' = Later
    BY <2>1, ListAdvanced DEF Single, Advance
  <2>3. Undoes
    BY <2>1, <2>2 DEF Undoes, Calls, Advance
  <2> QED BY <2>1, <2>3, QuietForms DEF Handles
<1>4. ASSUME FinishRollback PROVE Forms
  <2>1. /\ cur # Nobody /\ Call = "close"
        /\ UNCHANGED <<before, active, prepared, stores>>
        /\ IF RollbackProven THEN FinishReleasing("RolledBack")
           ELSE /\ Save([mem EXCEPT !.state = "NeedsAttention"]) /\ Advance
                /\ UNCHANGED <<claim, target, suspended, doubt>>
    BY <1>4 DEF FinishRollback, Calls, product, gateway
  <2>2. CASE RollbackProven /\ claim = cur
    <3>1. /\ Save([mem EXCEPT !.state = "RolledBack"]) /\ claim' = Nobody /\ Advance
          /\ UNCHANGED <<target, suspended, doubt>>
      BY <2>1, <2>2 DEF FinishReleasing, gateway
    <3>2. Agenda(cur, todo') /\ Ahead' = Later
      BY <2>1, <3>1, ListAdvanced DEF Advance, Single
    <3>3. Closes
      BY <2>1, <2>2, <3>1, <3>2 DEF Closes, Calls, Advance
    <3> QED BY <2>1, <3>1, <3>3, QuietForms DEF Handles
  <2>3. CASE RollbackProven /\ claim # cur
    <3>1. ReturnError /\ UNCHANGED <<journal, claim>>
      BY <2>1, <2>3 DEF FinishReleasing
    <3> QED BY <2>1, <3>1, LeavesQuietly
  <2>4. CASE ~RollbackProven
    <3>1. Agenda(cur, todo') /\ Ahead' = Later
      BY <2>1, <2>4, ListAdvanced DEF Advance, Single
    <3>2. Closes
      BY <2>1, <2>4, <3>1 DEF Closes, Calls, Advance
    <3> QED BY <2>1, <2>4, <3>2, QuietForms DEF Handles
  <2> QED BY <2>2, <2>3, <2>4
<1> QED BY <1>1, <1>2, <1>3, <1>4

LEMMA EnvironmentForms ==
  ASSUME TypeOK, Rest, Held,
         \/ StepFails \/ VerificationFails \/ CompensationFails \/ HandlerFails
         \/ Crash \/ \E f \in Files : EditFile(f)
  PROVE  Forms
<1>1. ASSUME StepFails PROVE Forms
  <2>1. /\ cur # Nobody /\ Call \in ForwardCalls /\ Fail(Written(Call, On))
        /\ UNCHANGED <<journal, before, claim, active, prepared, target, stores, suspended>>
    BY <1>1 DEF StepFails, durable, product, gateway
  <2>2. Fails(Written(Call, On))
    BY <2>1 DEF Fails
  <2>3. Handles
    BY <2>1, <2>2 DEF Handles
  <2> QED BY <2>1, <2>3, QuietForms
<1>2. ASSUME VerificationFails PROVE Forms
  <2>1. /\ UNCHANGED <<before, claim, active, prepared, target, stores, suspended, cur, mode, doubt>>
        /\ \/ Calls("verify") /\ todo' = Rollback(cur, mem) /\ UNCHANGED <<mem, journal>>
           \/ /\ Calls("close") /\ Save([mem EXCEPT !.state = "NeedsAttention"])
              /\ todo' = Tail(todo)
    BY <1>2 DEF VerificationFails, product, gateway
  <2>2. CASE Calls("verify") /\ todo' = Rollback(cur, mem) /\ UNCHANGED <<mem, journal>>
    <3>1. Decides
      BY <2>1, <2>2 DEF Decides, Calls
    <3> QED BY <2>1, <3>1, QuietForms DEF Handles
  <2>3. CASE /\ Calls("close") /\ Save([mem EXCEPT !.state = "NeedsAttention"])
             /\ todo' = Tail(todo)
    <3>1. Agenda(cur, todo') /\ Ahead' = Later
      BY <2>1, <2>3, ListAdvanced DEF Calls, Single
    <3>2. Closes
      BY <2>1, <2>3, <3>1 DEF Closes
    <3> QED BY <2>1, <3>2, QuietForms DEF Handles
  <2> QED BY <2>1, <2>2, <2>3
<1>3. ASSUME CompensationFails PROVE Forms
  <2>1. /\ cur # Nobody /\ Call \in {"reconcile", "compensate"} /\ doubt' = TRUE
        /\ IF Call = "reconcile" THEN SkipReconciling ELSE todo' = Tail(todo)
        /\ mem' = mem \/ (Call = "reconcile" /\ mem' = Written("record", On))
        /\ UNCHANGED <<journal, before, claim, active, prepared, target, stores, suspended, cur, mode>>
    BY <1>3 DEF CompensationFails, Calls, durable, product, gateway
  <2>2. CASE Call = "reconcile"
    <3>1. /\ Agenda(cur, todo')
          /\ \/ Ahead' = Later
             \/ \E k \in Kinds :
                  /\ Ahead' = Later \ {<<"reconcile", k>>}
                  /\ \A d \in Later : Rank(cur, <<"reconcile", k>>) <= Rank(cur, d)
      BY <2>1, <2>2, ListSkipped
    <3>2. Undoes
      BY <2>1, <2>2, <3>1 DEF Undoes, Calls
    <3> QED BY <2>1, <3>2, QuietForms DEF Handles
  <2>3. CASE Call = "compensate"
    <3>1. Agenda(cur, todo') /\ Ahead' = Later
      BY <2>1, <2>3, ListAdvanced DEF Single
    <3>2. Undoes
      BY <2>1, <2>3, <3>1 DEF Undoes, Calls
    <3> QED BY <2>1, <3>2, QuietForms DEF Handles
  <2> QED BY <2>1, <2>2, <2>3
<1>4. ASSUME HandlerFails PROVE Forms
  <2>1. ReturnError /\ UNCHANGED <<journal, before, claim, active, prepared, stores>>
    BY <1>4 DEF HandlerFails, durable, product
  <2> QED BY <2>1, LeavesQuietly
<1>5. ASSUME Crash PROVE Forms
  <2>1. /\ cur' = Nobody /\ mode' = "steps" /\ suspended' = TRUE
        /\ UNCHANGED <<journal, before, claim, active, prepared, target, stores>>
    BY <1>5 DEF Crash, Stop, durable, product
  <2> QED BY <2>1 DEF Forms, Handles, Leaves, Publishes, Stores, Admission
<1>6. ASSUME NEW f \in Files, EditFile(f) PROVE Forms
  <2>1. /\ value' = [value EXCEPT ![f] = Foreign]
        /\ UNCHANGED <<journal, before, claim, active, prepared, target, suspended, marker>>
        /\ UNCHANGED handler
    BY <1>6 DEF EditFile, durable, product, gateway
  <2>2. Idles /\ UNCHANGED <<mem, cur>>
    BY <2>1 DEF Idles, handler
  <2>3. Stores
    BY <2>1, <2>2 DEF Stores
  <2> QED BY <2>1, <2>2, <2>3 DEF Forms, Handles, Publishes, Admission
<1> QED BY <1>1, <1>2, <1>3, <1>4, <1>5, <1>6

\* Every step has one of the forms.
LEMMA NextForms ==
  ASSUME TypeOK, Rest, Held, [Next]_vars
  PROVE  Forms
<1>1. CASE UNCHANGED vars
  BY <1>1 DEF vars, durable, stores, product, gateway, Forms, Handles, Idles, Publishes, Stores,
              Admission
<1>2. CASE \E o \in Operations : Request(o)
  BY <1>2, RequestForms
<1>3. CASE Startup
  BY <1>3, StartupForms
<1>4. CASE Continue
  BY <1>4, EnterForms, StageForms, ProgressForms, ActivateForms, PublishForms, ReturningForms,
     UndoForms, CompensateForms DEF Continue
<1>5. CASE Environment
  BY <1>5, PublishForms, EnvironmentForms DEF Environment
<1> QED BY <1>1, <1>2, <1>3, <1>4, <1>5 DEF Next

-----------------------------------------------------------------------------
(***************************************************************************)
(* The way of a run is kept                                                *)
(***************************************************************************)
\* What is known of the first call.
LEMMA FirstCall ==
  ASSUME TypeOK, Rest, cur # Nobody
  PROVE  /\ cur \in Operations /\ <<Call, On>> \in Ahead /\ Ahead \subseteq CallSet(cur)
         /\ Later \subseteq Ahead /\ mem \in Entry /\ journal[cur] \in Entry
         /\ \A c \in Later : Rank(cur, <<Call, On>>) < Rank(cur, c)
         /\ Call \in ForwardNames \ {"resume"} => \A c \in Ahead : c[1] \in ForwardNames
         /\ Call \in BackNames \ {"resume"} => \A c \in Ahead : c[1] \in BackNames
         /\ Call \in Single => \A c \in Ahead : c[1] \in Single
<1>1. AgendaInv
  BY DEF Rest, HandlerInv
<1> QED BY <1>1, HandlerFacts, WayFacts DEF Later, TypeOK

\* A call that comes before the first one is not ahead.
LEMMA Before ==
  ASSUME TypeOK, Rest, cur # Nobody, NEW c, NEW r \in Int, NEW q \in Int,
         Rank(cur, <<Call, On>>) = r, Rank(cur, c) = q, q < r
  PROVE  c \notin Ahead
<1> SUFFICES ASSUME c \in Ahead PROVE FALSE
  OBVIOUS
<1>1. CASE c = <<Call, On>>
  <2>1. Rank(cur, c) = Rank(cur, <<Call, On>>)
    BY <1>1, Zenon
  <2> QED BY <2>1
<1>2. CASE c # <<Call, On>>
  <2>1. Rank(cur, <<Call, On>>) < Rank(cur, c)
    BY <1>2, FirstCall DEF Later
  <2> QED BY <2>1
<1> QED BY <1>1, <1>2

\* The names of the calls of a run and of a rollback.
LEMMA NameFacts ==
  /\ ForwardCalls \cup {"verify", "finish", "reclaim"} = ForwardNames \ {"resume"}
  /\ ForwardNames \cap BackNames = {"resume"}
  /\ Single \cap (ForwardNames \cup BackNames) = {}
  /\ "park" \in Single /\ "enter" \in Single
BY DEF ForwardCalls, ForwardNames, BackNames, Single

\* What is ahead of a handler on its way forward.
LEMMA ForwardFacts ==
  ASSUME TypeOK, Rest, Held, cur # Nobody, Call \in ForwardNames \ {"resume"}
  PROVE  /\ mem = journal[cur] /\ mem.state \in Working /\ Shape(mem)
         /\ <<"finish", "Succeeded">> \in Ahead
         /\ \A p \in Steps :
              /\ StepNo[p] > No(mem.state) => <<"begin", p>> \in Ahead
              /\ <<"begin", p>> \in Ahead => <<"complete", p>> \in Ahead
              /\ p # "Activate" =>
                   (<<"complete", p>> \in Ahead <=> mem.status[p] # "Applied")
         /\ <<"stage", "publication">> \in Ahead => mem.status["CompilePublication"] # "Applied"
<1>1. Forwards
  BY FirstCall DEF Forwards
<1>2. ForwardInv /\ Shape(mem)
  BY DEF Held, Path, WayInv, ShapeInv
<1>3. mem = journal[cur]
  BY EnteredIsJournal
<1> QED BY <1>1, <1>2, <1>3 DEF ForwardInv

\* A run that has no step left to begin is in the last one.
LEMMA ActivateReached ==
  ASSUME TypeOK, Rest, Held, cur # Nobody, Call \in ForwardNames \ {"resume"},
         <<"begin", "Activate">> \notin Ahead
  PROVE  mem.state = "Activate"
<1>1. mem.state \in Working /\ ~(StepNo["Activate"] > No(mem.state))
  BY ForwardFacts, NoFacts
<1>2. No(mem.state) = 6
  BY <1>1, NoFacts
<1>3. mem.state \in Steps
  BY <1>1, <1>2, NoFacts DEF Working
<1> QED BY <1>2, <1>3, NoFacts

\* The entry a call of a run writes has its shape.
LEMMA WrittenShape ==
  ASSUME TypeOK, Rest, Held, cur # Nobody, Call \in ForwardCalls
  PROVE  /\ Shape(Written(Call, On)) /\ Written(Call, On).state \in Working
         /\ No(mem.state) <= No(Written(Call, On).state)
         /\ Written(Call, On).receipt => mem.state = "Activate"
<1> DEFINE w == Written(Call, On)
<1>1. /\ Call \in ForwardNames \ {"resume"} /\ cur \in Operations /\ mem \in Entry
      /\ Call \in {"begin", "complete"} => On \in Steps
  BY FirstCall, NameFacts, OnFacts DEF Rest, HandlerInv
<1>2. /\ mem.state \in Working /\ Shape(mem) /\ No(mem.state) \in 0..6
      /\ mem.status \in [Steps -> Statuses]
  BY <1>1, ForwardFacts, NoFacts DEF Entry
<1>3. /\ w.state = IF Call = "begin" THEN On ELSE mem.state
      /\ w.receipt = (Call = "seal" \/ mem.receipt)
      /\ w.status = IF Call = "begin" THEN [mem.status EXCEPT ![On] = "Started"]
                    ELSE IF Call = "complete" THEN [mem.status EXCEPT ![On] = "Applied"]
                    ELSE mem.status
  <2>1. Call \in {"begin", "complete", "compensating"} => On \in Steps
    BY <1>1 DEF ForwardCalls
  <2>2. Call # "rollback" /\ Call # "compensating"
    BY DEF ForwardCalls
  <2> HIDE DEF w
  <2>a. mem \in Entry
    BY <1>1
  <2>3. /\ Written(Call, On).state =
             IF Call = "begin" THEN On ELSE IF Call = "rollback" THEN "RollingBack"
             ELSE mem.state
        /\ Written(Call, On).receipt = (Call = "seal" \/ mem.receipt)
    BY <2>1, <2>a, CallWritten
  <2>4. Written(Call, On).status =
                   IF Call = "begin" THEN [mem.status EXCEPT ![On] = "Started"]
                   ELSE IF Call = "complete" THEN [mem.status EXCEPT ![On] = "Applied"]
                   ELSE IF Call = "compensating" THEN [mem.status EXCEPT ![On] = "Compensating"]
                   ELSE mem.status
    BY <1>1, WrittenStatus, Zenon
  <2> QED BY <2>2, <2>3, <2>4 DEF w
<1> HIDE DEF w
<1>4. CASE Call = "begin"
  <2>1. On \in Steps /\ StepNo[On] \in 1..6 /\ No(On) = StepNo[On]
        /\ Rank(cur, <<Call, On>>) = 20 * StepNo[On]
    <3>1. On \in Steps
      BY <1>1, <1>4
    <3>2. Rank(cur, <<"begin", On>>) = 20 * StepNo[On]
      BY <1>1, <3>1, StepRanks
    <3> QED BY <1>4, <3>1, <3>2, NoFacts
  <2>2. \A p \in Steps : StepNo[p] < StepNo[On] => mem.status[p] = "Applied"
    <3> SUFFICES ASSUME NEW p \in Steps, StepNo[p] < StepNo[On], mem.status[p] # "Applied"
                 PROVE  FALSE
      OBVIOUS
    <3>1. StepNo[p] \in 1..6 /\ p # "Activate"
      BY <2>1, NoFacts
    <3>2. <<"complete", p>> \in Ahead
      BY <1>1, <3>1, ForwardFacts
    <3>3. /\ Rank(cur, <<"complete", p>>) = 20 * StepNo[p] + 19
          /\ 20 * StepNo[p] + 19 < 20 * StepNo[On]
          /\ 20 * StepNo[p] + 19 \in Int /\ 20 * StepNo[On] \in Int
      <4>1. Rank(cur, <<"complete", p>>) = 20 * StepNo[p] + 19
        BY <1>1, StepRanks
      <4> QED BY <2>1, <3>1, <4>1
    <3>4. <<"complete", p>> \notin Ahead
      BY <2>1, <3>3, Before
    <3> QED BY <3>2, <3>4
  <2>3. No(mem.state) <= StepNo[On]
    <3>1. CASE On = "Activate"
      BY <1>2, <3>1, NoFacts
    <3>2. CASE On # "Activate"
      <4>1. mem.status[On] # "Applied"
        BY <1>1, <1>4, <2>1, <3>2, FirstCall, ForwardFacts
      <4> QED BY <1>2, <2>1, <4>1 DEF Shape
    <3> QED BY <3>1, <3>2
  <2>4. \A p \in Steps : StepNo[p] > StepNo[On] => mem.status[p] = "Pending"
    <3> SUFFICES ASSUME NEW p \in Steps, StepNo[p] > StepNo[On] PROVE mem.status[p] = "Pending"
      OBVIOUS
    <3>1. StepNo[p] \in 1..6 /\ StepNo[p] > No(mem.state)
      BY <1>2, <2>1, <2>3, NoFacts
    <3> QED BY <1>2, <3>1 DEF Shape
  <2>5. mem.receipt => On = "Activate" /\ mem.state = "Activate"
    <3>1. mem.receipt => mem.state = "Activate"
      BY <1>2 DEF Shape
    <3>2. No("Activate") = 6
      BY NoFacts
    <3> QED BY <2>1, <2>3, <3>1, <3>2, NoFacts
  <2>6. w.state = On /\ w.receipt = mem.receipt /\ w.status = [mem.status EXCEPT ![On] = "Started"]
    BY <1>1, <1>2, <1>3, <1>4 DEF Entry
  <2>7. \A p \in Steps : StepNo[p] = StepNo[On] => p = On
    BY <2>1, NoFacts
  <2>8. Shape(w)
    <3>1. \A p \in Steps : w.status[p] = IF p = On THEN "Started" ELSE mem.status[p]
      BY <1>2, <2>1, <2>6
    <3>2. No(w.state) = StepNo[On]
      BY <2>1, <2>6
    <3>3. \A p \in Steps : p # On => StepNo[p] # StepNo[On]
      BY <2>7
    <3>4. ASSUME NEW p \in Steps
          PROVE  /\ StepNo[p] < StepNo[On] => w.status[p] = "Applied"
                 /\ StepNo[p] = StepNo[On] => w.status[p] \in {"Started", "Applied"}
                 /\ StepNo[p] > StepNo[On] => w.status[p] = "Pending"
      <4>1. StepNo[p] \in Int /\ StepNo[On] \in Int
        BY <2>1, NoFacts
      <4>2. CASE p = On
        BY <2>1, <3>1, <4>1, <4>2
      <4>3. CASE p # On
        BY <2>2, <2>4, <3>1, <3>3, <4>1, <4>3
      <4> QED BY <4>2, <4>3
    <3>5. w.receipt => w.state = "Activate"
      BY <2>5, <2>6
    <3> QED BY <3>2, <3>4, <3>5 DEF Shape
  <2> QED BY <2>1, <2>3, <2>5, <2>6, <2>8 DEF w, Working
<1>5. CASE Call = "complete"
  <2>1. On \in Steps /\ StepNo[On] \in 1..6
        /\ Rank(cur, <<Call, On>>) = 20 * StepNo[On] + 19
    <3>1. On \in Steps
      BY <1>1, <1>5
    <3>2. Rank(cur, <<"complete", On>>) = 20 * StepNo[On] + 19
      BY <1>1, <3>1, StepRanks
    <3> QED BY <1>5, <3>1, <3>2, NoFacts
  <2>2. StepNo[On] <= No(mem.state)
    <3>1. /\ Rank(cur, <<"begin", On>>) = 20 * StepNo[On]
          /\ 20 * StepNo[On] < 20 * StepNo[On] + 19
          /\ 20 * StepNo[On] \in Int /\ 20 * StepNo[On] + 19 \in Int
      <4>1. Rank(cur, <<"begin", On>>) = 20 * StepNo[On]
        BY <1>1, <2>1, StepRanks
      <4> QED BY <2>1, <4>1
    <3>2. <<"begin", On>> \notin Ahead
      BY <2>1, <3>1, Before
    <3>3. ~(StepNo[On] > No(mem.state))
      BY <1>1, <2>1, <3>2, ForwardFacts
    <3> QED BY <1>2, <2>1, <3>3
  <2>3. w.state = mem.state /\ w.receipt = mem.receipt
        /\ w.status = [mem.status EXCEPT ![On] = "Applied"]
    BY <1>1, <1>2, <1>3, <1>5 DEF Entry
  <2>4. Shape(w)
    <3>1. \A p \in Steps : w.status[p] = IF p = On THEN "Applied" ELSE mem.status[p]
      BY <1>2, <2>1, <2>3
    <3>2. ASSUME NEW p \in Steps
          PROVE  /\ StepNo[p] < No(mem.state) => w.status[p] = "Applied"
                 /\ StepNo[p] = No(mem.state) => w.status[p] \in {"Started", "Applied"}
                 /\ StepNo[p] > No(mem.state) => w.status[p] = "Pending"
      <4>1. /\ StepNo[p] < No(mem.state) => mem.status[p] = "Applied"
            /\ StepNo[p] = No(mem.state) => mem.status[p] \in {"Started", "Applied"}
            /\ StepNo[p] > No(mem.state) => mem.status[p] = "Pending"
        BY <1>2 DEF Shape
      <4>2. CASE p = On
        BY <1>2, <2>1, <2>2, <3>1, <4>2
      <4>3. CASE p # On
        BY <3>1, <4>1, <4>3
      <4> QED BY <4>2, <4>3
    <3>3. w.receipt => w.state = "Activate"
      BY <1>2, <2>3 DEF Shape
    <3> QED BY <2>3, <3>2, <3>3 DEF Shape
  <2>5. mem.receipt => mem.state = "Activate"
    BY <1>2 DEF Shape
  <2> QED BY <1>2, <2>3, <2>4, <2>5 DEF w
<1>6. CASE Call \notin {"begin", "complete"}
  <2>1. w.state = mem.state /\ w.status = mem.status
    BY <1>3, <1>6
  <2>2. w.receipt => mem.state = "Activate"
    <3>1. CASE Call = "seal"
      <4>1. On = "file"
        BY <3>1, OnFacts DEF Rest, HandlerInv
      <4>2. Rank(cur, <<Call, On>>) = 136
        BY <1>1, <3>1, <4>1, CallRanks
      <4>3. Rank(cur, <<"begin", "Activate">>) = 120
        <5>1. Rank(cur, <<"begin", "Activate">>) = 20 * StepNo["Activate"]
          BY <1>1, NoFacts, StepRanks
        <5> QED BY <5>1, NoFacts
      <4>4. <<"begin", "Activate">> \notin Ahead
        BY <4>2, <4>3, Before
      <4> QED BY <1>1, <4>4, ActivateReached
    <3>2. CASE Call # "seal"
      BY <1>2, <1>3, <3>2 DEF Shape, Entry
    <3> QED BY <3>1, <3>2
  <2>3. Shape(w)
    BY <1>2, <2>1, <2>2 DEF Shape
  <2> QED BY <1>2, <2>1, <2>2, <2>3 DEF w
<1> QED BY <1>4, <1>5, <1>6

\* What a list of a run holds.
LEMMA ForwardSetMembers ==
  ASSUME NEW o \in Operations, NEW m, NEW c
  PROVE  c \in ForwardSet(o, m) <=>
           \/ c \in FinishSet
           \/ \E s \in Steps : (m.status[s] # "Applied" \/ s = "Activate") /\ c \in StepSet(o, s)
<1>1. c \in ForwardSet(o, m) <=> c \in FinishSet \/ \E s \in Steps : c \in RemainingSet(o, m, s)
  BY StepFacts DEF ForwardSet
<1>2. \A s \in Steps : c \in RemainingSet(o, m, s) <=>
        (m.status[s] # "Applied" \/ s = "Activate") /\ c \in StepSet(o, s)
  BY DEF RemainingSet
<1> QED BY <1>1, <1>2

\* The calls that are in a step's part of a list.
LEMMA StepSetMembers ==
  ASSUME NEW o \in Operations, NEW s \in Steps
  PROVE  /\ \A p : <<"begin", p>> \in StepSet(o, s) <=> p = s
         /\ \A p : <<"complete", p>> \in StepSet(o, s) <=> p = s
         /\ \A k : <<"stage", k>> \in StepSet(o, s) => k \in Plan[o] \cap Range(Effects[s])
         /\ \A c \in StepSet(o, s) : c[1] \in ForwardNames \ {"resume"}
         /\ \A k : <<"activate", k>> \in StepSet(o, s) <=> s = "Activate" /\ k \in Plan[o] \cap Cells
         /\ <<"seal", "file">> \in StepSet(o, s) <=> s = "Activate" /\ "file" \in Plan[o]
         /\ <<"suspend", "control">> \in StepSet(o, s) <=> s = "Activate"
         /\ CheckpointCall \in StepSet(o, s) <=> s = "Activate" /\ "publication" \in Plan[o]
         /\ StepSet(o, s) \cap InstallCalls = {}
         /\ <<"reclaim", "file">> \notin StepSet(o, s)
<1>1. CASE s = "Activate"
  BY <1>1, StepFacts DEF StepSet, StageSet, ActivationSet, ForwardNames, CheckpointCall, InstallCalls
<1>2. CASE s # "Activate"
  BY <1>2, StepFacts DEF StepSet, StageSet, ForwardNames, CheckpointCall, InstallCalls
<1> QED BY <1>1, <1>2

LEMMA ForwardSetFacts ==
  ASSUME NEW o \in Operations, NEW m
  PROVE  /\ FinishSet \subseteq ForwardSet(o, m)
         /\ \A p \in Steps : <<"begin", p>> \in ForwardSet(o, m)
                               <=> (m.status[p] # "Applied" \/ p = "Activate")
         /\ \A p \in Steps : <<"complete", p>> \in ForwardSet(o, m)
                               <=> (m.status[p] # "Applied" \/ p = "Activate")
         /\ <<"stage", "publication">> \in ForwardSet(o, m)
              => m.status["CompilePublication"] # "Applied"
         /\ \A c \in ForwardSet(o, m) : c[1] \in ForwardNames
         /\ \A k : <<"activate", k>> \in ForwardSet(o, m) <=> k \in Plan[o] \cap Cells
         /\ <<"seal", "file">> \in ForwardSet(o, m) <=> "file" \in Plan[o]
         /\ <<"suspend", "control">> \in ForwardSet(o, m)
         /\ CheckpointCall \in ForwardSet(o, m) <=> "publication" \in Plan[o]
         /\ ForwardSet(o, m) \cap InstallCalls = {}
         /\ <<"reclaim", "file">> \notin ForwardSet(o, m)
<1> DEFINE F == ForwardSet(o, m)
           Left(s) == m.status[s] # "Applied" \/ s = "Activate"
<1>1. \A c : c \in F <=> c \in FinishSet \/ \E s \in Steps : Left(s) /\ c \in StepSet(o, s)
  BY ForwardSetMembers
<1>2. "Activate" \in Steps /\ Left("Activate")
  BY StepFacts
<1>3. /\ \A c \in FinishSet : c[1] \in ForwardNames
      /\ \A k : <<"begin", k>> \notin FinishSet /\ <<"complete", k>> \notin FinishSet
                /\ <<"stage", k>> \notin FinishSet /\ <<"activate", k>> \notin FinishSet
      /\ {<<"seal", "file">>, <<"suspend", "control">>, <<"reclaim", "file">>, CheckpointCall}
           \cap FinishSet = {}
      /\ InstallCalls \cap FinishSet = {}
  BY DEF FinishSet, ForwardNames, CheckpointCall, InstallCalls
<1>9. \A s \in Steps :
        /\ \A p : <<"begin", p>> \in StepSet(o, s) <=> p = s
        /\ \A p : <<"complete", p>> \in StepSet(o, s) <=> p = s
        /\ \A k : <<"stage", k>> \in StepSet(o, s) => k \in Plan[o] \cap Range(Effects[s])
        /\ \A c \in StepSet(o, s) : c[1] \in ForwardNames \ {"resume"}
        /\ \A k : <<"activate", k>> \in StepSet(o, s) <=> s = "Activate" /\ k \in Plan[o] \cap Cells
        /\ <<"seal", "file">> \in StepSet(o, s) <=> s = "Activate" /\ "file" \in Plan[o]
        /\ <<"suspend", "control">> \in StepSet(o, s) <=> s = "Activate"
        /\ CheckpointCall \in StepSet(o, s) <=> s = "Activate" /\ "publication" \in Plan[o]
        /\ StepSet(o, s) \cap InstallCalls = {}
        /\ <<"reclaim", "file">> \notin StepSet(o, s)
  <2> TAKE s \in Steps
  <2> QED BY StepSetMembers
<1> HIDE DEF F, Left, Steps
<1>4. \A p \in Steps : /\ <<"begin", p>> \in F <=> Left(p)
                       /\ <<"complete", p>> \in F <=> Left(p)
  <2> TAKE p \in Steps
  <2>1. <<"begin", p>> \in F <=> Left(p)
    <3>1. <<"begin", p>> \notin FinishSet
      BY <1>3
    <3>2. \A s \in Steps : <<"begin", p>> \in StepSet(o, s) <=> p = s
      BY <1>9
    <3> QED BY <1>1, <3>1, <3>2, Zenon
  <2>2. <<"complete", p>> \in F <=> Left(p)
    <3>1. <<"complete", p>> \notin FinishSet
      BY <1>3
    <3>2. \A s \in Steps : <<"complete", p>> \in StepSet(o, s) <=> p = s
      BY <1>9
    <3> QED BY <1>1, <3>1, <3>2, Zenon
  <2> QED BY <2>1, <2>2
<1>5. <<"stage", "publication">> \in F => m.status["CompilePublication"] # "Applied"
  <2>1. \A s \in Steps : "publication" \in Range(Effects[s]) => s = "CompilePublication"
    BY StepFacts DEF Effects, Range
  <2>2. <<"stage", "publication">> \in F =>
          \E s \in Steps : Left(s) /\ s = "CompilePublication"
    <3>1. <<"stage", "publication">> \notin FinishSet
      BY <1>3
    <3>2. \A s \in Steps : <<"stage", "publication">> \in StepSet(o, s) => s = "CompilePublication"
      BY <2>1, <1>9
    <3> QED BY <1>1, <3>1, <3>2
  <2> QED BY <2>2 DEF Left
<1>6. \A c \in F : c[1] \in ForwardNames
  BY <1>1, <1>3, <1>9
<1>7. /\ \A k : <<"activate", k>> \in F <=> k \in Plan[o] \cap Cells
      /\ <<"seal", "file">> \in F <=> "file" \in Plan[o]
      /\ <<"suspend", "control">> \in F
      /\ CheckpointCall \in F <=> "publication" \in Plan[o]
  <2>1. \A k : <<"activate", k>> \in F <=> k \in Plan[o] \cap Cells
    <3> TAKE k
    <3>1. <<"activate", k>> \notin FinishSet
      BY <1>3
    <3>2. \A s \in Steps : <<"activate", k>> \in StepSet(o, s)
                            <=> s = "Activate" /\ k \in Plan[o] \cap Cells
      BY <1>9
    <3> QED BY <1>1, <1>2, <3>1, <3>2
  <2>2. <<"seal", "file">> \in F <=> "file" \in Plan[o]
    BY <1>1, <1>2, <1>3, <1>9
  <2>3. <<"suspend", "control">> \in F
    BY <1>1, <1>2, <1>3, <1>9
  <2>4. CheckpointCall \in F <=> "publication" \in Plan[o]
    BY <1>1, <1>2, <1>3, <1>9
  <2> QED BY <2>1, <2>2, <2>3, <2>4
<1>8. F \cap InstallCalls = {} /\ <<"reclaim", "file">> \notin F
  <2>1. \A c \in InstallCalls : c \notin F
    BY <1>1, <1>3, <1>9
  <2>2. <<"reclaim", "file">> \notin F
    BY <1>1, <1>3, <1>9
  <2> QED BY <2>1, <2>2
<1> QED BY <1>1, <1>4, <1>5, <1>6, <1>7, <1>8 DEF F, Left

\* What a list of a rollback holds.
LEMMA RollbackSetFacts ==
  ASSUME NEW o \in Operations, NEW m
  PROVE  /\ RollingCall \in RollbackSet(o, m) /\ <<"close", "RolledBack">> \in RollbackSet(o, m)
         /\ AbortCall \in RollbackSet(o, m) <=> "publication" \in m.recorded
         /\ Reconciling \in RollbackSet(o, m)
              <=> "publication" \in Plan[o] /\ m.status["CompilePublication"] # "Compensated"
         /\ Compensating \in RollbackSet(o, m)
              <=> "publication" \in Plan[o] /\ m.status["CompilePublication"] # "Compensated"
         /\ Settling \in RollbackSet(o, m) <=> m.status["CompilePublication"] # "Compensated"
         /\ <<"compensating", "CompilePublication">> \in RollbackSet(o, m)
              <=> m.status["CompilePublication"] # "Compensated"
         /\ \A c \in RollbackSet(o, m) : c[1] \in BackNames
<1> DEFINE R == RollbackSet(o, m)
           A == IF "publication" \in m.recorded THEN {<<"abort", "publication">>} ELSE {}
<1>1. \A c : c \in R <=> \/ c \in A \/ c = RollingCall \/ c \in ClosingSet
                         \/ \E s \in Steps : m.status[s] # "Compensated" /\ c \in UndoSet(o, s)
  <2>1. \A c : c \in R <=> \/ c \in A \/ c = RollingCall \/ c \in ClosingSet
                           \/ \E s \in Steps : c \in UndoingSet(o, m, s)
    BY StepFacts DEF RollbackSet, RollingCall
  <2> QED BY <2>1 DEF UndoingSet
<1> HIDE DEF R
<1>2. "CompilePublication" \in Steps /\ Range(Effects["CompilePublication"]) = {"publication"}
  BY StepFacts DEF Effects, Range
<1>3. \A s \in Steps : "publication" \in Range(Effects[s]) => s = "CompilePublication"
  BY StepFacts DEF Effects, Range
<1>4. \A s \in Steps :    /\ RollingCall \notin UndoSet(o, s) /\ AbortCall \notin UndoSet(o, s)
                          /\ Reconciling \in UndoSet(o, s)
                               <=> "publication" \in Plan[o] /\ s = "CompilePublication"
                          /\ Compensating \in UndoSet(o, s)
                               <=> "publication" \in Plan[o] /\ s = "CompilePublication"
                          /\ Settling \in UndoSet(o, s) <=> s = "CompilePublication"
                          /\ <<"compensating", "CompilePublication">> \in UndoSet(o, s)
                               <=> s = "CompilePublication"
                          /\ \A c \in UndoSet(o, s) : c[1] \in BackNames
  <2> TAKE s \in Steps
  <2>1. "publication" \in Range(Effects[s]) <=> s = "CompilePublication"
    BY <1>2, <1>3
  <2>2. /\ Reconciling \in UndoSet(o, s) <=> "publication" \in Plan[o] \cap Range(Effects[s])
        /\ Compensating \in UndoSet(o, s) <=> "publication" \in Plan[o] \cap Range(Effects[s])
    BY DEF UndoSet, Reconciling, Compensating
  <2>3. /\ Settling \in UndoSet(o, s) <=> s = "CompilePublication"
        /\ <<"compensating", "CompilePublication">> \in UndoSet(o, s) <=> s = "CompilePublication"
        /\ RollingCall \notin UndoSet(o, s) /\ AbortCall \notin UndoSet(o, s)
        /\ \A c \in UndoSet(o, s) : c[1] \in BackNames
    BY DEF UndoSet, Settling, RollingCall, AbortCall, BackNames
  <2> HIDE DEF Steps
  <2>4. Reconciling \in UndoSet(o, s) <=> "publication" \in Plan[o] /\ s = "CompilePublication"
    BY <2>1, <2>2
  <2>5. Compensating \in UndoSet(o, s) <=> "publication" \in Plan[o] /\ s = "CompilePublication"
    BY <2>1, <2>2
  <2> QED BY <2>3, <2>4, <2>5
<1>5. /\ ClosingSet \cap {RollingCall, AbortCall, Reconciling, Compensating, Settling,
                          <<"compensating", "CompilePublication">>} = {}
      /\ <<"close", "RolledBack">> \in ClosingSet
      /\ \A c \in ClosingSet \cup {RollingCall, AbortCall} : c[1] \in BackNames
      /\ {AbortCall, RollingCall} \cap {Reconciling, Compensating, Settling,
                          <<"compensating", "CompilePublication">>} = {}
      /\ AbortCall # RollingCall
  BY DEF ClosingSet, RollingCall, AbortCall, Reconciling, Compensating, Settling, BackNames
<1>6. A = IF "publication" \in m.recorded THEN {AbortCall} ELSE {}
  BY DEF AbortCall
<1> HIDE DEF A, Steps
<1>7. RollingCall \in R /\ <<"close", "RolledBack">> \in R
  BY <1>1, <1>5
<1>8. AbortCall \in R <=> "publication" \in m.recorded
  BY <1>1, <1>4, <1>5, <1>6
<1>9. /\ Reconciling \in R
           <=> "publication" \in Plan[o] /\ m.status["CompilePublication"] # "Compensated"
      /\ Compensating \in R
           <=> "publication" \in Plan[o] /\ m.status["CompilePublication"] # "Compensated"
  BY <1>1, <1>2, <1>4, <1>5, <1>6
<1>10. /\ Settling \in R <=> m.status["CompilePublication"] # "Compensated"
       /\ <<"compensating", "CompilePublication">> \in R
            <=> m.status["CompilePublication"] # "Compensated"
  BY <1>1, <1>2, <1>4, <1>5, <1>6
<1>11. \A c \in R : c[1] \in BackNames
  BY <1>1, <1>4, <1>5, <1>6
<1> QED BY <1>7, <1>8, <1>9, <1>10, <1>11 DEF R

ParkCall == <<"park", "file">>

\* The lists a handler takes up.
LEMMA DecidesFacts ==
  ASSUME TypeOK, Rest, Held, Decides
  PROVE  /\ cur \in Operations /\ mem \in Entry /\ mem = journal[cur]
         /\ UNCHANGED <<journal, before, claim, cur, mem, doubt>>
         /\ \/ /\ Call = "enter" /\ mem.state = "NeedsAttention" /\ RollbackProven
               /\ Ahead' = ClosingSet /\ mode' = mode
            \/ /\ (Call = "enter" /\ mem.state = "RollingBack")
                  \/ (Call = "verify" /\ mem.state \in Working)
               /\ Ahead' = RollbackSet(cur, mem) /\ mode' = mode
            \/ /\ Call = "enter" /\ mem.state \in Working /\ ~Sealed(mem)
               /\ Ahead' = ForwardSet(cur, mem) /\ mode' = mode
            \/ /\ Call = "enter" /\ Sealed(mem)
               /\ Ahead' = {ParkCall} /\ mode' = "tail"
            \/ /\ Call = "enter" /\ Sealed(mem) /\ Seen("publication") = "Applied"
               /\ \/ Ahead' = ForwardSet(cur, mem) /\ mode' = "strict"
                  \/ Ahead' = TailSet \cup FinishSet /\ mode' = "tail"
<1>1. cur # Nobody /\ UNCHANGED <<journal, before, claim, cur, mem, doubt>>
  BY DEF Decides
<1>2. /\ cur \in Operations /\ mem \in Entry
      /\ mem.recorded \subseteq Plan[cur] /\ (mem.receipt => "file" \in Plan[cur])
  BY <1>1, FirstCall DEF Rest, HandlerInv, CopyInv, EntryInv
<1>3. Call \in {"enter", "verify"}
  BY DEF Decides
<1>4. mem = journal[cur]
  BY <1>1, <1>3, EnteredIsJournal DEF ForwardNames
<1>5. CASE Call = "enter" /\ mem.state = "NeedsAttention" /\ RollbackProven
           /\ todo' = Closing /\ mode' = mode
  <2>1. Ahead' = ClosingSet
    BY <1>2, <1>5, ClosingAgenda DEF Ahead
  <2> QED BY <1>1, <1>2, <1>4, <1>5, <2>1
<1>6. CASE /\ (Call = "enter" /\ mem.state = "RollingBack") \/ Call = "verify"
           /\ todo' = Rollback(cur, mem) /\ mode' = mode
  <2>1. Ahead' = RollbackSet(cur, mem)
    BY <1>2, <1>6, RollbackAgenda DEF Ahead
  <2>2. Call = "verify" => mem.state \in Working
    BY <1>1, ForwardFacts DEF ForwardNames
  <2> QED BY <1>1, <1>2, <1>4, <1>6, <2>1, <2>2
<1>7. CASE /\ Call = "enter" /\ mem.state \in Working /\ ~Sealed(mem)
           /\ todo' = Forward(cur, mem) /\ mode' = mode
  <2>1. Ahead' = ForwardSet(cur, mem)
    BY <1>2, <1>7, ForwardAgenda DEF Ahead
  <2> QED BY <1>1, <1>2, <1>4, <1>7, <2>1
<1>8. CASE /\ Call = "enter" /\ Sealed(mem)
           /\ todo' = <<<<"park", "file">>>> /\ mode' = "tail"
  <2>1. ParkCall \in CallSet(cur) /\ ParkCall[1] \in Single /\ todo' = <<ParkCall>>
    BY <1>2, <1>8 DEF CallSet, ParkCall, Single, Sealed
  <2>2. Ahead' = {ParkCall}
    BY <1>2, <2>1, SingleAgenda DEF Ahead
  <2> QED BY <1>1, <1>2, <1>4, <1>8, <2>2
<1>9. CASE /\ Call = "enter" /\ Sealed(mem) /\ Seen("publication") = "Applied"
           /\ \/ todo' = Forward(cur, mem) /\ mode' = "strict"
              \/ todo' = RetryTail /\ mode' = "tail"
  <2>1. todo' = Forward(cur, mem) => Ahead' = ForwardSet(cur, mem)
    BY <1>2, <1>9, ForwardAgenda DEF Ahead
  <2>2. todo' = RetryTail => Ahead' = TailSet \cup FinishSet
    BY <1>2, <1>9, RetryTailAgenda DEF Ahead, Sealed
  <2> QED BY <1>1, <1>2, <1>4, <1>9, <2>1, <2>2
<1> QED BY <1>5, <1>6, <1>7, <1>8, <1>9 DEF Decides

\* What is left of a step that fails.
LEMMA FailsFacts ==
  ASSUME TypeOK, Rest, Held, Rest', NEW m \in {mem, Written(Call, On), Written("record", On)},
         Fails(m)
  PROVE  /\ cur \in Operations /\ cur' = cur /\ mem' = m /\ mode' = mode /\ doubt' = doubt
         /\ mem = journal[cur] /\ mem.state \in Working /\ Shape(m) /\ m.state \in Working
         /\ m.receipt => mem.state = "Activate" /\ m.state = "Activate"
         /\ mem.receipt => m.receipt
         /\ \/ journal' = journal
            \/ Call = "stage" /\ m = Written("record", On) /\ journal' = [journal EXCEPT ![cur] = m]
         /\ UNCHANGED <<before, claim>>
         /\ \/ Ahead' = {ParkCall} /\ m.receipt /\ "file" \in Plan[cur]
            \/ Ahead' = RollbackSet(cur, m) /\ (mode = "steps" => ~m.receipt)
<1>1. /\ cur # Nobody /\ Call \in ForwardCalls /\ Fail(m)
      /\ \/ m = mem /\ journal' = journal
         \/ m = Written(Call, On) /\ journal' = journal
         \/ Call = "stage" /\ m = Written("record", On) /\ journal' = [journal EXCEPT ![cur] = m]
      /\ UNCHANGED <<before, claim>>
  BY DEF Fails
<1>2. /\ cur \in Operations /\ mem \in Entry /\ Call \in ForwardNames \ {"resume"}
      /\ Call \in {"begin", "complete"} => On \in Steps
  BY <1>1, FirstCall, NameFacts, OnFacts DEF Rest, HandlerInv
<1>3. mem = journal[cur] /\ mem.state \in Working /\ Shape(mem)
  BY <1>1, <1>2, ForwardFacts
<1>4. /\ Written("record", On).state = mem.state /\ Written("record", On).receipt = mem.receipt
      /\ Written("record", On).status = mem.status
  <2>1. /\ Written("record", On).state = mem.state
        /\ Written("record", On).receipt = ("record" = "seal" \/ mem.receipt)
    BY <1>2, WrittenParts
  <2>2. Written("record", On).status = mem.status
    BY <1>2, WrittenStatus
  <2>3. mem.receipt \in BOOLEAN
    BY <1>2 DEF Entry
  <2> QED BY <2>1, <2>2, <2>3
<1>5. /\ Shape(Written(Call, On)) /\ Written(Call, On).state \in Working
      /\ No(mem.state) <= No(Written(Call, On).state)
      /\ Written(Call, On).receipt => mem.state = "Activate"
  BY <1>1, WrittenShape
<1>6. mem.receipt => Written(Call, On).receipt
  <2>1. Call \in {"begin", "complete", "compensating"} => On \in Steps
    BY <1>1, <1>2 DEF ForwardCalls
  <2>2. Written(Call, On).receipt = (Call = "seal" \/ mem.receipt)
    BY <1>2, <2>1, CallWritten
  <2> QED BY <2>2
<1>7. Shape(mem) => Shape(Written("record", On))
  BY <1>4 DEF Shape
<1>8. /\ Shape(m) /\ m.state \in Working /\ (mem.receipt => m.receipt)
      /\ m.receipt => mem.state = "Activate"
  <2>1. CASE m = mem
    BY <1>3, <2>1 DEF Shape
  <2>2. CASE m = Written(Call, On)
    BY <1>5, <1>6, <2>2
  <2>3. CASE m = Written("record", On)
    BY <1>3, <1>4, <1>7, <2>3 DEF Shape
  <2> QED BY <2>1, <2>2, <2>3
<1>9. m.receipt => m.state = "Activate"
  BY <1>8 DEF Shape
<1>10. cur' = cur /\ mem' = m /\ mode' = mode /\ doubt' = doubt
  BY <1>1 DEF Fail
<1>11. m.recorded \subseteq Plan[cur] /\ (m.receipt => "file" \in Plan[cur])
  <2>1. EntryInv(cur, mem)'
    BY <1>1, <1>10 DEF Rest, HandlerInv, CopyInv
  <2> QED BY <1>10, <2>1 DEF EntryInv
<1>12. mode = "tail" => mem.receipt
  BY <1>1 DEF Held, Path, WayInv, ParkInv
<1>13. CASE mode = "tail" \/ (mode = "steps" /\ m.receipt)
  <2>1. m.receipt /\ todo' = <<ParkCall>>
    BY <1>1, <1>8, <1>12, <1>13 DEF Fail, ParkCall
  <2>2. ParkCall \in CallSet(cur) /\ ParkCall[1] \in Single
    BY <1>11, <2>1 DEF CallSet, ParkCall, Single
  <2>3. Ahead' = {ParkCall}
    BY <1>2, <2>1, <2>2, SingleAgenda DEF Ahead
  <2> QED BY <1>1, <1>2, <1>3, <1>8, <1>9, <1>10, <1>11, <2>1, <2>3
<1>14. CASE ~(mode = "tail" \/ (mode = "steps" /\ m.receipt))
  <2>1. todo' = Rollback(cur, m)
    BY <1>1, <1>14 DEF Fail
  <2>2. Ahead' = RollbackSet(cur, m)
    BY <1>2, <1>11, <2>1, RollbackAgenda DEF Ahead
  <2> QED BY <1>1, <1>2, <1>3, <1>8, <1>9, <1>10, <1>14, <2>2
<1> QED BY <1>13, <1>14

\* What a call of a run leaves.
LEMMA GoesFacts ==
  ASSUME TypeOK, Rest, Held, Goes
  PROVE  /\ cur \in Operations /\ Call \in ForwardNames \ {"resume"}
         /\ UNCHANGED <<before, claim, cur, mode, doubt>>
         /\ mem = journal[cur] /\ mem' = journal'[cur] /\ Shape(mem')
         /\ \A o \in Operations : o # cur => journal'[o] = journal[o]
         /\ Call \in {"begin", "complete", "seal"} => mem' = Written(Call, On)
         /\ mem' # mem => /\ mem' = Written(Call, On)
                          /\ Call \in {"begin", "complete", "record", "seal", "checkpoint"}
         /\ mem.receipt => mem'.receipt
         /\ mem'.state \in Working
         /\ Ahead' \subseteq InstallCalls \cup Later /\ Later \subseteq Ahead'
<1>1. /\ cur # Nobody /\ Call \in ForwardCalls \cup {"verify"}
      /\ \/ Save(Written(Call, On)) /\ Call \in {"begin", "complete", "record", "seal", "checkpoint"}
         \/ UNCHANGED <<mem, journal>> /\ Call \notin {"begin", "complete", "seal"}
      /\ Ahead' = Later \/ Ahead' = InstallCalls \cup Later
      /\ UNCHANGED <<before, claim, cur, mode, doubt>>
  BY DEF Goes
<1>2. /\ cur \in Operations /\ mem \in Entry /\ Call \in ForwardNames \ {"resume"}
      /\ Call \in {"begin", "complete"} => On \in Steps
      /\ journal \in [Operations -> Entry]
  BY <1>1, FirstCall, NameFacts, OnFacts DEF Rest, HandlerInv, TypeOK
<1>3. mem = journal[cur] /\ Shape(mem) /\ mem.state \in Working
  BY <1>1, <1>2, ForwardFacts
<1>4. CASE Save(Written(Call, On)) /\ Call \in {"begin", "complete", "record", "seal", "checkpoint"}
  <2>1. Call \in ForwardCalls /\ (Call \in {"begin", "complete", "compensating"} => On \in Steps)
    BY <1>2, <1>4 DEF ForwardCalls
  <2>2. Shape(Written(Call, On)) /\ Written(Call, On).state \in Working
    BY <1>1, <2>1, WrittenShape
  <2>3. Written(Call, On).receipt = (Call = "seal" \/ mem.receipt)
    BY <1>2, <2>1, CallWritten
  <2>4. mem' = Written(Call, On) /\ journal' = [journal EXCEPT ![cur] = Written(Call, On)]
    BY <1>4 DEF Save
  <2> QED BY <1>1, <1>2, <1>3, <1>4, <2>2, <2>3, <2>4
<1>5. CASE UNCHANGED <<mem, journal>> /\ Call \notin {"begin", "complete", "seal"}
  BY <1>1, <1>2, <1>3, <1>5
<1> QED BY <1>1, <1>4, <1>5

\* Once something is undone the rollback is recorded, and the publication aborted.
LEMMA RollingPassed ==
  ASSUME TypeOK, Rest, cur # Nobody,
         Call \in {"rollback", "compensating", "reconcile", "compensate", "settle", "close"}
  PROVE  /\ AbortCall \notin Ahead
         /\ Call # "rollback" => RollingCall \notin Ahead
<1>1. cur \in Operations /\ <<Call, On>> \in CallSet(cur)
  BY FirstCall
<1> DEFINE r == Rank(cur, <<Call, On>>)
<1>2. /\ r \in Int /\ 301 <= r
      /\ Call # "rollback" => 301 < r
  <2>1. CASE Call \in {"compensating", "reconcile", "compensate", "settle"}
    <3>1. r \in 310..365
      BY <1>1, <2>1, RankBounds
    <3> QED BY <2>1, <3>1
  <2>2. CASE Call \in {"rollback", "close"}
    <3>1. On = IF Call = "rollback" THEN "RollingBack" ELSE "RolledBack"
      BY <2>2, OnFacts DEF Rest, HandlerInv
    <3>2. r = IF Call = "rollback" THEN 301 ELSE 500
      BY <1>1, <2>2, <3>1, CallRanks
    <3> QED BY <2>2, <3>2
  <2> QED BY <2>1, <2>2
<1> HIDE DEF r
<1>3. Rank(cur, AbortCall) = 300 /\ Rank(cur, RollingCall) = 301
  BY <1>1, CallRanks DEF AbortCall, RollingCall
<1>4. Rank(cur, <<Call, On>>) = r
  BY DEF r
<1>5. AbortCall \notin Ahead
  BY <1>2, <1>3, <1>4, Before
<1>6. Call # "rollback" => RollingCall \notin Ahead
  BY <1>2, <1>3, <1>4, Before
<1> QED BY <1>5, <1>6

\* What a call of a rollback leaves.
LEMMA UndoesFacts ==
  ASSUME TypeOK, Rest, Held, Undoes
  PROVE  /\ cur \in Operations /\ cur' = cur /\ mode' = mode /\ UNCHANGED <<before, claim>>
         /\ Call \in {"abort", "rollback", "compensating", "reconcile", "compensate", "settle"}
         /\ Ahead' \subseteq Later /\ \A c \in Later : c[1] # "reconcile" => c \in Ahead'
         /\ mem'.state = IF Call = "rollback" THEN "RollingBack" ELSE mem.state
         /\ mem'.receipt = mem.receipt /\ Shape(mem')
         /\ Call \notin {"compensating", "settle"} => mem'.status = mem.status
         /\ journal' = [journal EXCEPT ![cur] = mem']
              \/ (journal' = journal /\ Call \in {"reconcile", "compensate"})
         /\ Backwards /\ mem \in Entry
<1>1. /\ cur # Nobody /\ UNCHANGED <<before, claim, cur, mode>>
      /\ Call \in {"abort", "rollback", "compensating", "reconcile", "compensate", "settle"}
      /\ \/ Call \in {"abort", "rollback", "compensating"} /\ Save(Written(Call, On))
         \/ Call = "reconcile" /\ UNCHANGED <<mem, journal>>
         \/ Call = "reconcile" /\ mem' = Written("record", On)
            /\ (journal' = journal \/ journal' = [journal EXCEPT ![cur] = mem'])
         \/ Call = "compensate" /\ UNCHANGED <<mem, journal>>
         \/ Call = "settle"
            /\ Save([mem EXCEPT !.status[On] = IF doubt THEN "Attention" ELSE "Compensated"])
  BY DEF Undoes, Calls, Save
<1>2. /\ cur \in Operations /\ <<Call, On>> \in Ahead /\ mem \in Entry
      /\ Call \in {"compensating", "settle"} => On \in Steps
      /\ journal \in [Operations -> Entry]
  BY <1>1, FirstCall, OnFacts DEF Rest, HandlerInv, TypeOK
<1>3. Ahead' \subseteq Later /\ \A c \in Later : c[1] # "reconcile" => c \in Ahead'
  <2>1. CASE Ahead' = Later
    BY <2>1
  <2>2. CASE \E k \in Kinds : Ahead' = Later \ {<<"reconcile", k>>}
    BY <2>2
  <2> QED BY <2>1, <2>2 DEF Undoes
<1>4. Backwards
  BY <1>1, <1>2 DEF Backwards, BackNames
<1>5. Call \in {"compensating", "settle"} => mem.state \notin Working
  <2>1. Call \in {"compensating", "settle"} => RollingCall \notin Ahead
    BY <1>1, RollingPassed
  <2>2. RollingCall \notin Ahead => mem.state \in {"RollingBack", "NeedsAttention"}
    BY <1>1, <1>4 DEF Held, Path, WayInv, BackInv
  <2>3. {"RollingBack", "NeedsAttention"} \cap Working = {}
    BY StepFacts DEF Working
  <2> QED BY <2>1, <2>2, <2>3
<1>6. Shape(mem) /\ "RollingBack" \notin Working
  BY <1>1, StepFacts DEF Held, Path, ShapeInv, Working
<1>7. \A n \in {"abort", "rollback", "compensating", "record"} :
        /\ Written(n, On).receipt = mem.receipt
        /\ Written(n, On).state = IF n = "rollback" THEN "RollingBack" ELSE mem.state
        /\ n # "compensating" => Written(n, On).status = mem.status
  <2> TAKE n \in {"abort", "rollback", "compensating", "record"}
  <2>1. CASE n = "compensating"
    <3>1. n = "compensating" => Written(n, On) = [mem EXCEPT !.status[On] = "Compensating"]
      BY Zenon DEF Written
    <3> QED BY <1>2, <2>1, <3>1 DEF Entry
  <2>2. CASE n # "compensating"
    <3>1. n \in {"begin", "complete", "compensating"} => On \in Steps
      BY <2>2
    <3>2. /\ Written(n, On).state =
               IF n = "begin" THEN On ELSE IF n = "rollback" THEN "RollingBack" ELSE mem.state
          /\ Written(n, On).receipt = (n = "seal" \/ mem.receipt)
      BY <1>2, <3>1, WrittenParts
    <3>3. Written(n, On).status =
            IF n = "begin" THEN [mem.status EXCEPT ![On] = "Started"]
            ELSE IF n = "complete" THEN [mem.status EXCEPT ![On] = "Applied"]
            ELSE IF n = "compensating" THEN [mem.status EXCEPT ![On] = "Compensating"]
            ELSE mem.status
      BY <1>2, WrittenStatus
    <3>4. mem.receipt \in BOOLEAN
      BY <1>2 DEF Entry
    <3> QED BY <2>2, <3>2, <3>3, <3>4
  <2> QED BY <2>1, <2>2
<1>8. /\ mem'.state = IF Call = "rollback" THEN "RollingBack" ELSE mem.state
      /\ mem'.receipt = mem.receipt
      /\ Call \notin {"compensating", "settle"} => mem'.status = mem.status
      /\ journal' = [journal EXCEPT ![cur] = mem']
           \/ (journal' = journal /\ Call \in {"reconcile", "compensate"})
  <2>1. CASE Call \in {"abort", "rollback", "compensating"} /\ Save(Written(Call, On))
    BY <1>7, <2>1 DEF Save
  <2>2. CASE Call = "reconcile" /\ UNCHANGED <<mem, journal>>
    BY <2>2
  <2>3. CASE Call = "reconcile" /\ mem' = Written("record", On)
             /\ (journal' = journal \/ journal' = [journal EXCEPT ![cur] = mem'])
    BY <1>7, <2>3
  <2>4. CASE Call = "compensate" /\ UNCHANGED <<mem, journal>>
    BY <2>4
  <2>5. CASE Call = "settle"
             /\ Save([mem EXCEPT !.status[On] = IF doubt THEN "Attention" ELSE "Compensated"])
    BY <1>2, <2>5 DEF Save, Entry
  <2> QED BY <1>1, <2>1, <2>2, <2>3, <2>4, <2>5
<1>9. Shape(mem')
  <2>1. CASE Call \in {"rollback", "compensating", "settle"}
    BY <1>5, <1>6, <1>8, <2>1 DEF Shape
  <2>2. CASE Call \notin {"rollback", "compensating", "settle"}
    BY <1>6, <1>8, <2>2 DEF Shape
  <2> QED BY <2>1, <2>2
<1> QED BY <1>1, <1>2, <1>3, <1>4, <1>8, <1>9

\* What the last call of a rollback leaves, if it does not end with an error.
LEMMA ClosesFacts ==
  ASSUME TypeOK, Rest, Held, Closes
  PROVE  /\ cur \in Operations /\ cur' = cur /\ mode' = mode /\ before' = before
         /\ Backwards /\ mem \in Entry /\ mem.state \in {"RollingBack", "NeedsAttention"}
         /\ mem.state = journal[cur].state
         /\ AbortCall \notin Ahead
         /\ Ahead' = Later /\ \A c \in Ahead' : c[1] = "resume"
         /\ journal' = [journal EXCEPT ![cur] = mem']
         /\ \/ /\ RollbackProven /\ claim = cur /\ claim' = Nobody
               /\ mem' = [mem EXCEPT !.state = "RolledBack"]
            \/ claim' = claim /\ mem' = [mem EXCEPT !.state = "NeedsAttention"]
<1>1. /\ cur # Nobody /\ Call = "close" /\ Ahead' = Later
      /\ UNCHANGED <<before, cur, mode>>
      /\ \/ /\ RollbackProven /\ claim = cur /\ claim' = Nobody
            /\ Save([mem EXCEPT !.state = "RolledBack"])
         \/ claim' = claim /\ Save([mem EXCEPT !.state = "NeedsAttention"])
  BY DEF Closes, Calls
<1>2. cur \in Operations /\ <<Call, On>> \in Ahead /\ mem \in Entry
  BY <1>1, FirstCall
<1>3. Backwards
  BY <1>1, <1>2 DEF Backwards, BackNames
<1>4. RollingCall \notin Ahead /\ AbortCall \notin Ahead
  BY <1>1, RollingPassed
<1>5. mem.state = journal[cur].state /\ mem.state \in {"RollingBack", "NeedsAttention"}
  BY <1>1, <1>3, <1>4 DEF Held, Path, WayInv, BackInv
<1>6. \A c \in Later : c[1] = "resume"
  BY <1>1, LastFacts DEF Later, Rest, HandlerInv
<1> QED BY <1>1, <1>2, <1>3, <1>4, <1>5, <1>6 DEF Save

\* What the last call of a run leaves.
LEMMA FinishesFacts ==
  ASSUME TypeOK, Rest, Held, Finishes
  PROVE  /\ cur \in Operations /\ cur' = cur /\ mode' = mode /\ before' = before
         /\ mem \in Entry /\ mem = journal[cur] /\ mem.state \in Working
         /\ claim = cur /\ claim' = Nobody
         /\ Ahead' = Later /\ \A c \in Ahead' : c[1] = "resume"
         /\ mem' = [mem EXCEPT !.state = "Succeeded"]
         /\ journal' = [journal EXCEPT ![cur] = mem']
<1>1. /\ cur # Nobody /\ Call = "finish" /\ Ahead' = Later
      /\ UNCHANGED <<before, cur, mode>> /\ claim = cur /\ claim' = Nobody
      /\ Save([mem EXCEPT !.state = "Succeeded"])
  BY DEF Finishes, Calls
<1>2. mem = journal[cur] /\ mem.state \in Working
  BY <1>1, ForwardFacts DEF ForwardNames
<1>3. \A c \in Later : c[1] = "resume"
  BY <1>1, LastFacts DEF Later, Rest, HandlerInv
<1> QED BY <1>1, <1>2, <1>3, FirstCall DEF Save

\* Working forward, working backward and neither.
LEMMA Ways ==
  ASSUME NEW A
  PROVE  /\ (\A c \in A : c[1] \in ForwardNames) =>
              ~(\E c \in A : c[1] \in BackNames \ {"resume"}) /\ ~(\E c \in A : c[1] = "park")
         /\ (\A c \in A : c[1] \in BackNames) =>
              ~(\E c \in A : c[1] \in ForwardNames \ {"resume"}) /\ ~(\E c \in A : c[1] = "park")
         /\ (\A c \in A : c[1] \in Single) =>
              /\ ~(\E c \in A : c[1] \in ForwardNames \ {"resume"})
              /\ ~(\E c \in A : c[1] \in BackNames \ {"resume"})
BY NameFacts

\* The lists of calls that go on in one way.
LEMMA ListWays ==
  /\ \A c \in ClosingSet : c[1] \in BackNames
  /\ <<"close", "RolledBack">> \in ClosingSet
  /\ AbortCall \notin ClosingSet /\ RollingCall \notin ClosingSet
  /\ \A c \in TailSet \cup FinishSet : c[1] \in ForwardNames
  /\ <<"finish", "Succeeded">> \in FinishSet
  /\ <<"finish", "Succeeded">>[1] # "resume" /\ <<"close", "RolledBack">>[1] # "resume"
  /\ RollingCall[1] \in BackNames /\ RollingCall[1] # "resume"
  /\ ParkCall[1] = "park"
  /\ \A p : <<"begin", p>> \notin TailSet \cup FinishSet
            /\ <<"complete", p>> \notin TailSet \cup FinishSet
            /\ <<"stage", p>> \notin TailSet \cup FinishSet
BY DEF ClosingSet, TailSet, FinishSet, ForwardNames, BackNames, AbortCall, RollingCall, ParkCall

\* A handler that is gone, or has nothing ahead but to enter, promises nothing.
LEMMA PathReturned ==
  ASSUME Held, cur' = Nobody, \A o \in Operations : Shape(journal'[o])
  PROVE  Path'
BY DEF Path, ShapeInv, WayInv, ForwardInv, BackInv, ParkInv, DoneInv

\* The entries of the others stay what they are.
LEMMA ShapesKept ==
  ASSUME TypeOK, Held, cur \in Operations, Shape(mem'),
         journal' = journal \/ journal' = [journal EXCEPT ![cur] = mem']
  PROVE  ShapeInv'
<1>1. ASSUME NEW o \in Operations PROVE Shape(journal'[o])
  <2>1. journal'[o] = journal[o] \/ journal'[o] = mem'
    BY <1>1 DEF TypeOK
  <2> QED BY <1>1, <2>1 DEF Held, Path, ShapeInv
<1> QED BY <1>1 DEF ShapeInv

LEMMA PathLeft ==
  ASSUME TypeOK, Rest, Held, Leaves \/ (\E o \in Operations : Accept(o))
  PROVE  Path'
<1>1. \A o \in Operations : Shape(journal[o])
  BY DEF Held, Path, ShapeInv
<1>2. CASE Leaves
  <2>1. CASE UNCHANGED journal
    BY <1>1, <1>2, <2>1, PathReturned DEF Leaves
  <2>2. CASE Calls("park") /\ journal' = [journal EXCEPT ![cur] = mem]
    <3>1. \A o \in Operations : Shape(journal'[o])
      <4>1. Shape(mem)
        BY <2>2 DEF Held, Path, ShapeInv, Calls
      <4>2. \A o \in Operations : journal'[o] = journal[o] \/ journal'[o] = mem
        BY <2>2 DEF TypeOK
      <4> QED BY <1>1, <4>1, <4>2
    <3> QED BY <1>2, <3>1, PathReturned DEF Leaves
  <2>3. CASE Calls("abort") /\ journal' = [journal EXCEPT ![cur] = [mem EXCEPT !.state = "NeedsAttention"]]
    <3>1. \A o \in Operations : Shape(journal'[o])
      <4> DEFINE m == [mem EXCEPT !.state = "NeedsAttention"]
      <4>1. m.state = "NeedsAttention" /\ "NeedsAttention" \notin Working
        BY StepFacts DEF Working, TypeOK, Entry
      <4>2. Shape(m)
        BY <4>1 DEF Shape
      <4>3. \A o \in Operations : journal'[o] = journal[o] \/ journal'[o] = m
        BY <2>3 DEF TypeOK
      <4> QED BY <1>1, <4>2, <4>3
    <3> QED BY <1>2, <3>1, PathReturned DEF Leaves
  <2> QED BY <1>2, <2>1, <2>2, <2>3 DEF Leaves
<1>3. ASSUME NEW o \in Operations, Accept(o) PROVE Path'
  <2>1. cur' = Nobody /\ journal' = [journal EXCEPT ![o] = Fresh("Accepted")]
    BY <1>3 DEF Accept, handler
  <2>2. Shape(Fresh("Accepted"))
    <3>1. No("Accepted") = 0 /\ \A p \in Steps : StepNo[p] \in 1..6
      BY NoFacts
    <3>2. /\ Fresh("Accepted").state = "Accepted" /\ ~Fresh("Accepted").receipt
          /\ \A p \in Steps : Fresh("Accepted").status[p] = "Pending"
      BY DEF Fresh
    <3> QED BY <3>1, <3>2 DEF Shape
  <2>3. \A p \in Operations : Shape(journal'[p])
    <3>1. \A p \in Operations : journal'[p] = journal[p] \/ journal'[p] = Fresh("Accepted")
      BY <2>1 DEF TypeOK
    <3> QED BY <1>1, <2>2, <3>1
  <2> QED BY <2>1, <2>3, PathReturned
<1> QED BY <1>2, <1>3

LEMMA PathTaken ==
  ASSUME TypeOK, Rest, Held, Idles \/ Takes
  PROVE  Path'
<1>1. CASE Idles
  BY <1>1 DEF Idles, handler, Held, Path, ShapeInv, WayInv, ForwardInv, BackInv, ParkInv, DoneInv,
              Forwards, Backwards, Ahead
<1>2. CASE Takes
  <2>1. /\ cur' \in Operations /\ mem' = journal[cur'] /\ journal' = journal /\ mode' = mode
        /\ \E how \in {"run", "startup"} : todo' = <<<<"enter", how>>>>
    BY <1>2 DEF Takes
  <2>2. PICK how \in {"run", "startup"} : todo' = <<<<"enter", how>>>>
    BY <2>1
  <2>3. <<"enter", how>> \in CallSet(cur') /\ <<"enter", how>>[1] \in Single
    BY DEF CallSet, Single
  <2>4. Ahead' = {<<"enter", how>>}
    BY <2>1, <2>2, <2>3, SingleAgenda DEF Ahead
  <2>5. mode' # "tail"
    BY <1>2, <2>1 DEF Takes, Rest, HandlerInv, CopyInv
  <2>6. ~Forwards' /\ ~Backwards'
    BY <2>4 DEF Forwards, Backwards, ForwardNames, BackNames
  <2>7. ~(\E c \in Ahead' : c[1] = "park") /\ ~(\A c \in Ahead' : c[1] = "resume")
    BY <2>4
  <2>8. WayInv'
    BY <2>5, <2>6, <2>7 DEF WayInv, ForwardInv, BackInv, ParkInv, DoneInv
  <2>9. ShapeInv'
    BY <2>1 DEF ShapeInv, Held, Path
  <2> QED BY <2>8, <2>9 DEF Path
<1> QED BY <1>1, <1>2

LEMMA PathDecided ==
  ASSUME TypeOK, Rest, Held, Decides
  PROVE  Path'
<1>1. /\ cur \in Operations /\ mem \in Entry /\ mem = journal[cur]
      /\ UNCHANGED <<journal, before, claim, cur, mem, doubt>>
  BY DecidesFacts
<1>2. Shape(mem) /\ (mode = "tail" => mem.receipt)
  BY <1>1 DEF Held, Path, ShapeInv, WayInv, ParkInv, TypeOK, Decides
<1>3. ShapeInv'
  BY <1>1 DEF ShapeInv, Held, Path
<1>4. Sealed(mem) => "file" \in Plan[cur]
  BY <1>1 DEF Rest, JournalInv, EntryInv, Sealed
<1>5. WayInv'
  <2>1. CASE /\ Call = "enter" /\ mem.state = "NeedsAttention" /\ RollbackProven
             /\ Ahead' = ClosingSet /\ mode' = mode
    <3>1. ~Forwards' /\ ~(\E c \in Ahead' : c[1] = "park")
      BY <2>1, ListWays, Ways DEF Forwards, Backwards
    <3>2. ~(\A c \in Ahead' : c[1] = "resume")
      BY <2>1, ListWays
    <3>3. AbortCall \notin Ahead' /\ RollingCall \notin Ahead' /\ <<"close", "RolledBack">> \in Ahead'
      BY <2>1, ListWays
    <3> QED BY <1>1, <1>2, <2>1, <3>1, <3>2, <3>3
            DEF WayInv, ForwardInv, BackInv, ParkInv, DoneInv
  <2>2. CASE /\ (Call = "enter" /\ mem.state = "RollingBack")
                \/ (Call = "verify" /\ mem.state \in Working)
             /\ Ahead' = RollbackSet(cur, mem) /\ mode' = mode
    <3>1. /\ RollingCall \in Ahead' /\ <<"close", "RolledBack">> \in Ahead'
          /\ \A c \in Ahead' : c[1] \in BackNames
      BY <1>1, <2>2, RollbackSetFacts
    <3>2. ~Forwards' /\ ~(\E c \in Ahead' : c[1] = "park")
      BY <3>1, Ways DEF Forwards, Backwards
    <3>3. ~(\A c \in Ahead' : c[1] = "resume")
      BY <3>1, ListWays
    <3>4. {journal'[cur'].state, mem'.state} \subseteq Working \cup {"RollingBack"}
      BY <1>1, <2>2
    <3> QED BY <1>1, <1>2, <2>2, <3>1, <3>2, <3>3, <3>4
            DEF WayInv, ForwardInv, BackInv, ParkInv, DoneInv
  <2>3. CASE Ahead' = ForwardSet(cur, mem) /\ mem.state \in Working
             /\ (mode' = "tail" => mem.receipt)
    <3> DEFINE F == ForwardSet(cur, mem)
    <3>1. /\ FinishSet \subseteq F
          /\ \A p \in Steps : <<"begin", p>> \in F <=> (mem.status[p] # "Applied" \/ p = "Activate")
          /\ \A p \in Steps : <<"complete", p>> \in F <=> (mem.status[p] # "Applied" \/ p = "Activate")
          /\ <<"stage", "publication">> \in F => mem.status["CompilePublication"] # "Applied"
          /\ \A c \in F : c[1] \in ForwardNames
      BY <1>1, ForwardSetFacts
    <3> HIDE DEF F
    <3>2. Ahead' = F
      BY <2>3 DEF F
    <3>3. ~Backwards' /\ ~(\E c \in Ahead' : c[1] = "park")
      BY <3>1, <3>2, Ways DEF Forwards, Backwards
    <3>4. <<"finish", "Succeeded">> \in Ahead' /\ ~(\A c \in Ahead' : c[1] = "resume")
      BY <3>1, <3>2, ListWays
    <3>5. ASSUME NEW p \in Steps
          PROVE  /\ StepNo[p] > No(mem.state) => <<"begin", p>> \in Ahead'
                 /\ <<"begin", p>> \in Ahead' => <<"complete", p>> \in Ahead'
                 /\ p # "Activate" =>
                      (<<"complete", p>> \in Ahead' <=> mem.status[p] # "Applied")
      <4>1. StepNo[p] > No(mem.state) => mem.status[p] # "Applied"
        BY <1>2, <2>3 DEF Shape
      <4> QED BY <3>1, <3>2, <4>1
    <3>6. ForwardInv'
      BY <1>1, <2>3, <3>1, <3>2, <3>4, <3>5 DEF ForwardInv
    <3> QED BY <1>1, <2>3, <3>3, <3>4, <3>6 DEF WayInv, BackInv, ParkInv, DoneInv
  <2>4. CASE Sealed(mem) /\ Ahead' = {ParkCall}
    <3>1. ParkCall[1] = "park" /\ ParkCall[1] \in Single
      BY ListWays, NameFacts
    <3>2. ~Forwards' /\ ~Backwards' /\ ~(\A c \in Ahead' : c[1] = "resume")
      BY <2>4, <3>1, Ways DEF Forwards, Backwards
    <3> QED BY <1>1, <2>4, <3>2
            DEF WayInv, ForwardInv, BackInv, ParkInv, DoneInv, Sealed
  <2>5. CASE Sealed(mem) /\ Ahead' = TailSet \cup FinishSet
    <3>1. /\ \A c \in Ahead' : c[1] \in ForwardNames
          /\ <<"finish", "Succeeded">> \in Ahead'
          /\ \A p : /\ <<"begin", p>> \notin Ahead' /\ <<"complete", p>> \notin Ahead'
                    /\ <<"stage", p>> \notin Ahead'
      BY <2>5, ListWays
    <3>2. ~Backwards' /\ ~(\E c \in Ahead' : c[1] = "park")
      BY <3>1, Ways DEF Forwards, Backwards
    <3>3. ~(\A c \in Ahead' : c[1] = "resume")
      BY <3>1, ListWays
    <3>4. No(mem.state) = 6 /\ mem.state \in Working
      BY <2>5, NoFacts DEF Sealed, Working
    <3>5. ASSUME NEW p \in Steps
          PROVE  ~(StepNo[p] > No(mem.state)) /\ (p # "Activate" => mem.status[p] = "Applied")
      <4>1. StepNo[p] \in 1..6 /\ (StepNo[p] = 6 => p = "Activate")
        BY NoFacts
      <4>2. StepNo[p] < No(mem.state) => mem.status[p] = "Applied"
        BY <1>2, <3>4 DEF Shape
      <4> QED BY <3>4, <4>1, <4>2
    <3>6. ForwardInv'
      BY <1>1, <3>1, <3>4, <3>5 DEF ForwardInv
    <3> QED BY <1>1, <2>5, <3>2, <3>3, <3>6 DEF WayInv, BackInv, ParkInv, DoneInv, Sealed
  <2>6. Sealed(mem) => mem.state \in Working /\ mem.receipt
    BY StepFacts DEF Sealed, Working
  <2> QED BY <1>2, <2>1, <2>2, <2>3, <2>4, <2>5, <2>6, DecidesFacts
<1> QED BY <1>3, <1>5 DEF Path

LEMMA PathFailed ==
  ASSUME TypeOK, Rest, Held, Rest', NEW m \in {mem, Written(Call, On), Written("record", On)},
         Fails(m)
  PROVE  Path'
<1>1. /\ cur \in Operations /\ cur' = cur /\ mem' = m /\ mode' = mode
      /\ mem = journal[cur] /\ mem.state \in Working /\ Shape(m) /\ m.state \in Working
      /\ m.receipt => mem.state = "Activate" /\ m.state = "Activate"
      /\ mem.receipt => m.receipt
      /\ journal' = journal \/ journal' = [journal EXCEPT ![cur] = m]
      /\ \/ Ahead' = {ParkCall} /\ m.receipt /\ "file" \in Plan[cur]
         \/ Ahead' = RollbackSet(cur, m) /\ (mode = "steps" => ~m.receipt)
  BY FailsFacts
<1>2. ShapeInv'
  BY <1>1, ShapesKept
<1>3. mode' = "tail" => mem'.receipt
  BY <1>1 DEF Held, Path, WayInv, ParkInv, TypeOK, Fails
<1>4. journal'[cur'] \in {mem, m}
  BY <1>1 DEF TypeOK
<1>5. CASE Ahead' = {ParkCall} /\ m.receipt
  <2>1. ParkCall[1] = "park" /\ ParkCall[1] \in Single
    BY ListWays, NameFacts
  <2>2. ~Forwards' /\ ~Backwards' /\ ~(\A c \in Ahead' : c[1] = "resume")
    BY <1>5, <2>1, Ways DEF Forwards, Backwards
  <2>3. WayInv'
    BY <1>1, <1>3, <1>4, <1>5, <2>2 DEF WayInv, ForwardInv, BackInv, ParkInv, DoneInv
  <2> QED BY <1>2, <2>3 DEF Path
<1>6. CASE Ahead' = RollbackSet(cur, m)
  <2>1. /\ RollingCall \in Ahead' /\ <<"close", "RolledBack">> \in Ahead'
        /\ \A c \in Ahead' : c[1] \in BackNames
    BY <1>1, <1>6, RollbackSetFacts
  <2>2. ~Forwards' /\ ~(\E c \in Ahead' : c[1] = "park")
    BY <2>1, Ways DEF Forwards, Backwards
  <2>3. ~(\A c \in Ahead' : c[1] = "resume")
    BY <2>1, ListWays
  <2>4. {journal'[cur'].state, mem'.state} \subseteq Working \cup {"RollingBack"}
    BY <1>1, <1>4
  <2>5. WayInv'
    BY <1>3, <2>1, <2>2, <2>3, <2>4 DEF WayInv, ForwardInv, BackInv, ParkInv, DoneInv
  <2> QED BY <1>2, <2>5 DEF Path
<1> QED BY <1>1, <1>5, <1>6

\* A call of a run keeps its way.
LEMMA PathGone ==
  ASSUME TypeOK, Rest, Held, Rest', Goes
  PROVE  Path'
<1>1. /\ cur \in Operations /\ cur # Nobody /\ Call \in ForwardNames \ {"resume"}
      /\ UNCHANGED <<cur, mode>>
      /\ mem = journal[cur] /\ mem' = journal'[cur] /\ Shape(mem')
      /\ \A o \in Operations : o # cur => journal'[o] = journal[o]
      /\ Call \in {"begin", "complete", "seal"} => mem' = Written(Call, On)
      /\ mem' # mem => /\ mem' = Written(Call, On)
                       /\ Call \in {"begin", "complete", "record", "seal", "checkpoint"}
      /\ mem.receipt => mem'.receipt
      /\ mem'.state \in Working
      /\ Ahead' \subseteq InstallCalls \cup Later /\ Later \subseteq Ahead'
  BY GoesFacts DEF Goes
<1>2. /\ <<"finish", "Succeeded">> \in Ahead
      /\ \A p \in Steps :
           /\ StepNo[p] > No(mem.state) => <<"begin", p>> \in Ahead
           /\ <<"begin", p>> \in Ahead => <<"complete", p>> \in Ahead
           /\ p # "Activate" =>
                (<<"complete", p>> \in Ahead <=> mem.status[p] # "Applied")
      /\ <<"stage", "publication">> \in Ahead => mem.status["CompilePublication"] # "Applied"
      /\ mem.state \in Working
  BY <1>1, ForwardFacts
<1>3. /\ <<Call, On>> \in Ahead /\ mem \in Entry
      /\ \A c \in Ahead : c[1] \in ForwardNames
      /\ Call \in {"begin", "complete"} => On \in Steps
      /\ mem.status \in [Steps -> Statuses]
  BY <1>1, FirstCall, OnFacts DEF Rest, HandlerInv, Entry
<1>4. /\ Call = "begin" => mem'.state = On /\ mem'.status = [mem.status EXCEPT ![On] = "Started"]
      /\ Call = "complete" => mem'.state = mem.state /\ mem'.status = [mem.status EXCEPT ![On] = "Applied"]
      /\ Call \notin {"begin", "complete"} => mem'.state = mem.state /\ mem'.status = mem.status
  <2>1. CASE mem' # mem \/ Call \in {"begin", "complete"}
    <3>1. /\ mem' = Written(Call, On) /\ Call # "rollback"
          /\ Call \in {"begin", "complete", "compensating"} => On \in Steps
          /\ Call # "compensating"
      BY <1>1, <1>3, <2>1
    <3>2. mem'.state = IF Call = "begin" THEN On ELSE IF Call = "rollback" THEN "RollingBack"
                       ELSE mem.state
      BY <1>3, <3>1, CallWritten
    <3>3. Written(Call, On).status =
            IF Call = "begin" THEN [mem.status EXCEPT ![On] = "Started"]
            ELSE IF Call = "complete" THEN [mem.status EXCEPT ![On] = "Applied"]
            ELSE IF Call = "compensating" THEN [mem.status EXCEPT ![On] = "Compensating"]
            ELSE mem.status
      BY <1>3, WrittenStatus
    <3> QED BY <3>1, <3>2, <3>3
  <2>2. CASE mem' = mem /\ Call \notin {"begin", "complete"}
    BY <2>2
  <2> QED BY <2>1, <2>2
<1>5. \A c \in Ahead' : c[1] \in ForwardNames
  <2>1. \A c \in InstallCalls : c[1] \in ForwardNames
    BY DEF InstallCalls, ForwardNames
  <2> QED BY <1>1, <1>3, <2>1 DEF Later
<1>6. <<"finish", "Succeeded">> \in Ahead'
  <2>1. Call # "finish"
    BY DEF Goes, ForwardCalls
  <2> QED BY <1>1, <1>2, <2>1 DEF Later
<1>7. ~Backwards' /\ ~(\E c \in Ahead' : c[1] = "park") /\ ~(\A c \in Ahead' : c[1] = "resume")
  BY <1>5, <1>6, Ways, ListWays DEF Forwards, Backwards
<1>8. \A n, p : n \notin {"install", "mark"} =>
        (<<n, p>> \in Ahead' <=> <<n, p>> \in Ahead /\ <<n, p>> # <<Call, On>>)
  <2>1. \A n, p : n \notin {"install", "mark"} => <<n, p>> \notin InstallCalls
    BY DEF InstallCalls
  <2> QED BY <1>1, <2>1 DEF Later
<1>9. ASSUME NEW p \in Steps
      PROVE  /\ StepNo[p] > No(mem'.state) => <<"begin", p>> \in Ahead'
             /\ <<"begin", p>> \in Ahead' => <<"complete", p>> \in Ahead'
             /\ p # "Activate" =>
                  (<<"complete", p>> \in Ahead' <=> mem'.status[p] # "Applied")
  <2>1. StepNo[p] > No(mem'.state) => <<"begin", p>> \in Ahead'
    <3> SUFFICES ASSUME StepNo[p] > No(mem'.state) PROVE <<"begin", p>> \in Ahead'
      OBVIOUS
    <3>1. /\ StepNo[p] \in 1..6 /\ No(mem'.state) \in 0..6 /\ No(mem.state) \in 0..6
          /\ Call = "begin" => No(mem'.state) = StepNo[On]
      BY <1>1, <1>2, <1>3, <1>4, NoFacts
    <3>2. No(mem.state) <= No(mem'.state)
      <4>1. CASE Call = "begin"
        <5>1. Call \in ForwardCalls /\ mem' = Written(Call, On)
          BY <1>1, <4>1 DEF ForwardCalls
        <5> QED BY <1>1, <5>1, WrittenShape
      <4>2. CASE Call # "begin"
        BY <1>4, <3>1, <4>2
      <4> QED BY <4>1, <4>2
    <3>3. <<"begin", p>> \in Ahead
      <4>1. StepNo[p] \in Int /\ No(mem'.state) \in Int /\ No(mem.state) \in Int
        BY <3>1
      <4>2. StepNo[p] > No(mem.state)
        BY <3>2, <4>1
      <4> QED BY <1>2, <4>2
    <3>4. <<"begin", p>> # <<Call, On>>
      BY <3>1
    <3> QED BY <1>8, <3>3, <3>4
  <2>2. <<"begin", p>> \in Ahead' => <<"complete", p>> \in Ahead'
    <3> SUFFICES ASSUME <<"begin", p>> \in Ahead' PROVE <<"complete", p>> \in Ahead'
      OBVIOUS
    <3>1. <<"begin", p>> \in Ahead /\ <<"complete", p>> \in Ahead
      BY <1>2, <1>8
    <3>2. <<"complete", p>> # <<Call, On>>
      <4> SUFFICES ASSUME Call = "complete", On = p PROVE FALSE
        OBVIOUS
      <4>1. /\ Rank(cur, <<"complete", p>>) = 20 * StepNo[p] + 19
            /\ Rank(cur, <<"begin", p>>) = 20 * StepNo[p]
        BY <1>1, StepRanks
      <4>2. StepNo[p] \in Int
        BY NoFacts
      <4>3. Rank(cur, <<Call, On>>) = 20 * StepNo[p] + 19
        BY <4>1
      <4>4. /\ 20 * StepNo[p] \in Int /\ 20 * StepNo[p] + 19 \in Int
            /\ 20 * StepNo[p] < 20 * StepNo[p] + 19
        BY <4>2
      <4>5. <<"begin", p>> \notin Ahead
        BY <1>1, <4>1, <4>3, <4>4, Before
      <4> QED BY <3>1, <4>5
    <3> QED BY <1>8, <3>1, <3>2
  <2>3. ASSUME p # "Activate" PROVE <<"complete", p>> \in Ahead' <=> mem'.status[p] # "Applied"
    <3>1. <<"complete", p>> \in Ahead <=> mem.status[p] # "Applied"
      BY <1>2, <2>3
    <3>2. <<"complete", p>> \in Ahead' <=>
            <<"complete", p>> \in Ahead /\ <<"complete", p>> # <<Call, On>>
      BY <1>8
    <3>3. CASE Call = "complete"
      <4>1. mem'.status[p] = IF p = On THEN "Applied" ELSE mem.status[p]
        BY <1>3, <1>4, <3>3
      <4> QED BY <3>1, <3>2, <3>3, <4>1
    <3>4. CASE Call = "begin"
      <4>1. mem'.status[p] = IF p = On THEN "Started" ELSE mem.status[p]
        BY <1>3, <1>4, <3>4
      <4>2. p = On => <<"complete", p>> \in Ahead
        BY <1>2, <1>3, <3>4
      <4> QED BY <3>1, <3>2, <3>4, <4>1, <4>2
    <3>5. CASE Call \notin {"begin", "complete"}
      BY <1>4, <3>1, <3>2, <3>5
    <3> QED BY <3>3, <3>4, <3>5
  <2> QED BY <2>1, <2>2, <2>3
<1>10. <<"stage", "publication">> \in Ahead' => mem'.status["CompilePublication"] # "Applied"
  <2> SUFFICES ASSUME <<"stage", "publication">> \in Ahead'
               PROVE  mem'.status["CompilePublication"] # "Applied"
    OBVIOUS
  <2>1. <<"stage", "publication">> \in Ahead /\ mem.status["CompilePublication"] # "Applied"
    BY <1>2, <1>8
  <2>2. ~(Call = "complete" /\ On = "CompilePublication")
    <3> SUFFICES ASSUME Call = "complete", On = "CompilePublication" PROVE FALSE
      OBVIOUS
    <3>1. Rank(cur, <<"complete", "CompilePublication">>) = 20 * StepNo["CompilePublication"] + 19
      <4>1. "CompilePublication" \in Steps
        BY NoFacts
      <4> QED BY <1>1, <4>1, StepRanks
    <3>2. Rank(cur, <<Call, On>>) = 99
      BY <3>1, NoFacts
    <3>3. Rank(cur, <<"stage", "publication">>) = 81
      BY <1>1, CallRanks
    <3>4. <<"stage", "publication">> \notin Ahead
      BY <1>1, <3>2, <3>3, Before
    <3> QED BY <2>1, <3>4
  <2>3. "CompilePublication" \in Steps
    BY NoFacts
  <2> QED BY <1>3, <1>4, <2>1, <2>2, <2>3
<1>11. ForwardInv'
  BY <1>1, <1>6, <1>9, <1>10 DEF ForwardInv
<1>12. mode' = "tail" => mem'.receipt
  BY <1>1 DEF Held, Path, WayInv, ParkInv
<1>13. ShapeInv'
  <2>1. \A o \in Operations : Shape(journal'[o])
    BY <1>1 DEF Held, Path, ShapeInv
  <2> QED BY <1>1, <2>1 DEF ShapeInv
<1> QED BY <1>7, <1>11, <1>12, <1>13 DEF Path, WayInv, BackInv, ParkInv, DoneInv

\* Taking the claim again keeps the way of the run.
LEMMA PathReclaimed ==
  ASSUME TypeOK, Rest, Held, Reclaims
  PROVE  Path'
<1>1. /\ cur # Nobody /\ Call = "reclaim" /\ Ahead' = Later
      /\ UNCHANGED <<journal, mem, cur, mode>>
  BY DEF Reclaims, Calls
<1>2. /\ mem.state \in Working /\ <<"finish", "Succeeded">> \in Ahead
      /\ \A p \in Steps :
           /\ StepNo[p] > No(mem.state) => <<"begin", p>> \in Ahead
           /\ <<"begin", p>> \in Ahead => <<"complete", p>> \in Ahead
           /\ p # "Activate" =>
                (<<"complete", p>> \in Ahead <=> mem.status[p] # "Applied")
      /\ <<"stage", "publication">> \in Ahead => mem.status["CompilePublication"] # "Applied"
      /\ \A c \in Ahead : c[1] \in ForwardNames
  BY <1>1, FirstCall, ForwardFacts DEF ForwardNames
<1>3. \A n, k : n # "reclaim" => (<<n, k>> \in Ahead' <=> <<n, k>> \in Ahead)
  BY <1>1 DEF Later
<1>4. /\ <<"finish", "Succeeded">> \in Ahead'
      /\ \A c \in Ahead' : c[1] \in ForwardNames
  BY <1>1, <1>2, <1>3 DEF Later
<1>5. ~Backwards' /\ ~(\E c \in Ahead' : c[1] = "park")
  BY <1>4, Ways DEF Backwards
<1>6. ~(\A c \in Ahead' : c[1] = "resume")
  BY <1>4, ListWays
<1>7. ASSUME NEW p \in Steps
      PROVE  /\ StepNo[p] > No(mem'.state) => <<"begin", p>> \in Ahead'
             /\ <<"begin", p>> \in Ahead' => <<"complete", p>> \in Ahead'
             /\ p # "Activate" =>
                  (<<"complete", p>> \in Ahead' <=> mem'.status[p] # "Applied")
  <2>1. /\ StepNo[p] > No(mem.state) => <<"begin", p>> \in Ahead
        /\ <<"begin", p>> \in Ahead => <<"complete", p>> \in Ahead
        /\ p # "Activate" =>
             (<<"complete", p>> \in Ahead <=> mem.status[p] # "Applied")
    BY <1>2
  <2>2. /\ <<"begin", p>> \in Ahead' <=> <<"begin", p>> \in Ahead
        /\ <<"complete", p>> \in Ahead' <=> <<"complete", p>> \in Ahead
    BY <1>3
  <2> QED BY <1>1, <2>1, <2>2
<1>8. <<"stage", "publication">> \in Ahead' => mem'.status["CompilePublication"] # "Applied"
  BY <1>1, <1>2, <1>3
<1>9. ForwardInv'
  BY <1>1, <1>2, <1>4, <1>7, <1>8 DEF ForwardInv
<1>10. ShapeInv' /\ (mode' = "tail" => mem'.receipt)
  BY <1>1 DEF Held, Path, WayInv, ParkInv, ShapeInv
<1> QED BY <1>5, <1>6, <1>9, <1>10 DEF Path, WayInv, BackInv, ParkInv, DoneInv

\* A handler that has only the requests left to resume is on no way.
LEMMA PathEnded ==
  ASSUME TypeOK, Held, cur \in Operations, cur' = cur, mode' = mode,
         \A c \in Ahead' : c[1] = "resume",
         mem' \in Entry, mem'.state \in Terminal, mem.receipt => mem'.receipt,
         journal' = [journal EXCEPT ![cur] = mem']
  PROVE  Path'
<1>1. ~Forwards' /\ ~Backwards' /\ ~(\E c \in Ahead' : c[1] = "park")
  BY DEF Forwards, Backwards
<1>2. Shape(mem')
  BY StepFacts DEF Shape, Working, Terminal
<1>3. ShapeInv'
  BY <1>2, ShapesKept
<1>4. mode' = "tail" => mem'.receipt
  <2>1. cur # Nobody
    BY PlanAssumption
  <2> QED BY <2>1 DEF Held, Path, WayInv, ParkInv
<1>5. mem' = journal'[cur']
  BY DEF TypeOK
<1> QED BY <1>1, <1>3, <1>4, <1>5 DEF Path, WayInv, ForwardInv, BackInv, ParkInv, DoneInv

LEMMA PathFinished ==
  ASSUME TypeOK, Rest, Held, Finishes \/ Closes
  PROVE  Path'
<1>1. CASE Finishes
  <2>1. /\ cur \in Operations /\ cur' = cur /\ mode' = mode
        /\ mem \in Entry /\ mem' = [mem EXCEPT !.state = "Succeeded"]
        /\ journal' = [journal EXCEPT ![cur] = mem']
        /\ \A c \in Ahead' : c[1] = "resume"
    BY <1>1, FinishesFacts
  <2>2. mem' \in Entry /\ mem'.state \in Terminal /\ mem'.receipt = mem.receipt
    BY <2>1 DEF Entry, States, Terminal
  <2> QED BY <2>1, <2>2, PathEnded
<1>2. CASE Closes
  <2>1. /\ cur \in Operations /\ cur' = cur /\ mode' = mode
        /\ mem \in Entry /\ \E s \in Terminal : mem' = [mem EXCEPT !.state = s]
        /\ journal' = [journal EXCEPT ![cur] = mem']
        /\ \A c \in Ahead' : c[1] = "resume"
    BY <1>2, ClosesFacts DEF Terminal
  <2>2. mem' \in Entry /\ mem'.state \in Terminal /\ mem'.receipt = mem.receipt
    BY <2>1 DEF Entry, States, Terminal
  <2> QED BY <2>1, <2>2, PathEnded
<1> QED BY <1>1, <1>2

\* A call of a rollback keeps its way.
LEMMA PathUndone ==
  ASSUME TypeOK, Rest, Held, Rest', Undoes
  PROVE  Path'
<1>1. /\ cur \in Operations /\ cur' = cur /\ mode' = mode
      /\ Call \in {"abort", "rollback", "compensating", "reconcile", "compensate", "settle"}
      /\ Ahead' \subseteq Later /\ \A c \in Later : c[1] # "reconcile" => c \in Ahead'
      /\ mem'.state = IF Call = "rollback" THEN "RollingBack" ELSE mem.state
      /\ mem'.receipt = mem.receipt /\ Shape(mem')
      /\ journal' = [journal EXCEPT ![cur] = mem']
           \/ (journal' = journal /\ Call \in {"reconcile", "compensate"})
      /\ Backwards /\ cur # Nobody
  BY UndoesFacts, PlanAssumption
<1>2. /\ <<"close", "RolledBack">> \in Ahead
      /\ AbortCall \in Ahead => RollingCall \in Ahead
      /\ IF RollingCall \in Ahead
           THEN {journal[cur].state, mem.state} \subseteq Working \cup {"RollingBack"}
           ELSE mem.state = journal[cur].state /\ mem.state \in {"RollingBack", "NeedsAttention"}
  BY <1>1 DEF Held, Path, WayInv, BackInv
<1>3. \A c \in Ahead : c[1] \in BackNames
  BY <1>1, FirstCall DEF BackNames
<1>4. /\ <<"close", "RolledBack">> \in Ahead'
      /\ \A c \in Ahead' : c[1] \in BackNames
  BY <1>1, <1>2, <1>3 DEF Later
<1>5. ~Forwards' /\ ~(\E c \in Ahead' : c[1] = "park") /\ ~(\A c \in Ahead' : c[1] = "resume")
  BY <1>4, Ways, ListWays DEF Forwards
<1>6. ShapeInv'
  BY <1>1, ShapesKept
<1>7. mode' = "tail" => mem'.receipt
  BY <1>1 DEF Held, Path, WayInv, ParkInv
<1>8. journal'[cur] = mem' \/ (journal'[cur] = journal[cur] /\ Call \in {"reconcile", "compensate"})
  BY <1>1 DEF TypeOK
<1>9. <<Call, On>> \in Ahead
  BY <1>1, FirstCall
<1>10. CASE Call = "abort"
  <2>1. RollingCall \in Ahead
    BY <1>2, <1>9, <1>10, OnFacts, <1>1 DEF AbortCall, Rest, HandlerInv
  <2>2. AbortCall \notin Ahead' /\ RollingCall \in Ahead'
    BY <1>1, <1>10, <2>1, OnFacts DEF Later, AbortCall, RollingCall, Rest, HandlerInv
  <2>3. {journal'[cur].state, mem'.state} \subseteq Working \cup {"RollingBack"}
    BY <1>1, <1>2, <1>8, <1>10, <2>1
  <2> QED BY <1>1, <1>4, <1>5, <1>6, <1>7, <2>2, <2>3
          DEF Path, WayInv, ForwardInv, BackInv, ParkInv, DoneInv
<1>11. CASE Call = "rollback"
  <2>1. AbortCall \notin Ahead /\ On = "RollingBack"
    BY <1>1, <1>11, RollingPassed, OnFacts DEF Rest, HandlerInv
  <2>2. AbortCall \notin Ahead' /\ RollingCall \notin Ahead'
    BY <1>1, <1>11, <2>1 DEF Later, RollingCall
  <2>3. mem'.state = journal'[cur].state /\ mem'.state = "RollingBack"
    BY <1>1, <1>8, <1>11
  <2> QED BY <1>1, <1>4, <1>5, <1>6, <1>7, <2>2, <2>3
          DEF Path, WayInv, ForwardInv, BackInv, ParkInv, DoneInv
<1>12. CASE Call \in {"compensating", "reconcile", "compensate", "settle"}
  <2>1. AbortCall \notin Ahead /\ RollingCall \notin Ahead
    BY <1>1, <1>12, RollingPassed
  <2>2. AbortCall \notin Ahead' /\ RollingCall \notin Ahead'
    BY <1>1, <2>1 DEF Later
  <2>3. mem'.state = journal'[cur].state /\ mem'.state \in {"RollingBack", "NeedsAttention"}
    BY <1>1, <1>2, <1>8, <1>12, <2>1
  <2> QED BY <1>1, <1>4, <1>5, <1>6, <1>7, <2>2, <2>3
          DEF Path, WayInv, ForwardInv, BackInv, ParkInv, DoneInv
<1> QED BY <1>1, <1>10, <1>11, <1>12

\* The way of a run is kept by every step.
LEMMA PathNext ==
  ASSUME TypeOK, Rest, Held, Rest', Forms
  PROVE  Path'
<1>1. CASE Idles \/ Takes
  BY <1>1, PathTaken
<1>2. CASE Leaves \/ \E o \in Operations : Accept(o)
  BY <1>2, PathLeft
<1>3. CASE Decides
  BY <1>3, PathDecided
<1>4. CASE Goes
  BY <1>4, PathGone
<1>5. CASE Reclaims
  BY <1>5, PathReclaimed
<1>6. CASE Finishes \/ Closes
  BY <1>6, PathFinished
<1>7. CASE Undoes
  BY <1>7, PathUndone
<1>8. ASSUME NEW m \in {mem, Written(Call, On), Written("record", On)}, Fails(m)
      PROVE  Path'
  BY <1>8, PathFailed
<1> QED BY <1>1, <1>2, <1>3, <1>4, <1>5, <1>6, <1>7, <1>8 DEF Forms, Handles

-----------------------------------------------------------------------------
(***************************************************************************)
(* The claim and the roots are kept                                        *)
(***************************************************************************)
\* A working entry of the right shape has not undone the publication step.
LEMMA WorkingEntry ==
  ASSUME NEW m, Shape(m), m.state \in Working
  PROVE  /\ m.status["CompilePublication"] \in {"Pending", "Started", "Applied"}
         /\ m.state = "Activate" => m.status["CompilePublication"] = "Applied"
<1>1. /\ StepNo["CompilePublication"] = 4 /\ "CompilePublication" \in Steps
      /\ No(m.state) \in 0..6 /\ (m.state = "Activate" => No(m.state) = 6)
  BY NoFacts
<1>2. /\ 4 < No(m.state) => m.status["CompilePublication"] = "Applied"
      /\ 4 = No(m.state) => m.status["CompilePublication"] \in {"Started", "Applied"}
      /\ 4 > No(m.state) => m.status["CompilePublication"] = "Pending"
  BY <1>1 DEF Shape
<1> QED BY <1>1, <1>2

\* What the invariant says of an Operation and of the handler's.
LEMMA EntryFacts ==
  ASSUME TypeOK, Rest, Held
  PROVE  /\ \A o \in Operations :
              /\ Once(o) => journal[o].status["CompilePublication"] \notin {"Pending", "Started"}
              /\ ~Known(o) => journal[o] = Fresh("none")
              /\ Known(o) => before[o]["publication"] # o /\ Once(before[o]["publication"])
         /\ prepared # Nobody =>
              /\ prepared \in Operations /\ claim = prepared
              /\ "publication" \in Plan[prepared] /\ ~Once(prepared)
         /\ cur # Nobody => cur \in Operations /\ Known(cur) /\ RootEntry(cur, mem)
<1>1. EntriesInv /\ RootInv /\ JournalInv /\ CopyInv
  BY DEF Held, Roots, Rest, HandlerInv
<1>2. ASSUME NEW o \in Operations
      PROVE  /\ Once(o) => journal[o].status["CompilePublication"] \notin {"Pending", "Started"}
             /\ ~Known(o) => journal[o] = Fresh("none")
             /\ Known(o) => before[o]["publication"] # o /\ Once(before[o]["publication"])
  <2>1. RootEntry(o, journal[o]) /\ (~Known(o) => journal[o] = Fresh("none"))
    BY <1>1 DEF EntriesInv
  <2>2. Once(o) => journal[o].status["CompilePublication"] \notin {"Pending", "Started"}
    BY <2>1 DEF RootEntry
  <2>3. Known(o) => before[o]["publication"] # o
    BY <1>1 DEF JournalInv
  <2>4. Known(o) => Once(before[o]["publication"])
    BY DEF Once
  <2> QED BY <2>1, <2>2, <2>3, <2>4
<1>3. cur # Nobody => cur \in Operations /\ Known(cur) /\ RootEntry(cur, mem)
  BY <1>1 DEF EntriesInv, CopyInv, TypeOK
<1>4. prepared # Nobody =>
        /\ prepared \in Operations /\ claim = prepared
        /\ "publication" \in Plan[prepared] /\ ~Once(prepared)
  BY <1>1 DEF RootInv, TypeOK
<1> QED BY <1>2, <1>3, <1>4

\* A handler of a run without the claim works on a sealed tail.
LEMMA RunClaim ==
  ASSUME TypeOK, Rest, Held, cur # Nobody, Call \in ForwardNames \ {"resume"}, claim # cur
  PROVE  /\ claim = Nobody /\ active = cur /\ mem.state = "Activate" /\ mem.receipt
         /\ mem = journal[cur]
<1>1. mem = journal[cur] /\ mem.state \in Working /\ cur \in Operations /\ <<Call, On>> \in Ahead
  BY FirstCall, ForwardFacts
<1>2. mem.state = "Activate" /\ mem.receipt
  BY <1>1 DEF Held, Roots, ClaimInv
<1>3. Call \notin {"enter", "resume", "park"}
  BY NameFacts
<1>4. claim = Nobody /\ active = cur
  BY <1>1, <1>3 DEF Held, Roots, LoneInv
<1> QED BY <1>1, <1>2, <1>4

\* A handler that undoes holds the claim and has sealed nothing, and what it
\* undoes is not served.
LEMMA UndoClaim ==
  ASSUME TypeOK, Rest, Held, Undoes \/ Closes
  PROVE  /\ claim = cur /\ ~mem.receipt /\ cur \in Operations /\ cur # Nobody
         /\ Call # "abort" => cur \notin {active, target}
         /\ Call = "abort" => cur \notin {active, target}
<1>1. /\ cur \in Operations /\ cur # Nobody /\ Backwards /\ mem \in Entry
      /\ Call \in {"abort", "rollback", "compensating", "reconcile", "compensate", "settle", "close"}
  BY UndoesFacts, ClosesFacts, PlanAssumption DEF Closes, Calls
<1>2. /\ RootEntry(cur, mem) /\ Known(cur) /\ before[cur]["publication"] # cur
      /\ Once(before[cur]["publication"])
      /\ journal[cur].receipt => mem.receipt
  BY <1>1, EntryFacts DEF Held, Roots, EntriesInv
<1>3. target = active \/ (target = prepared /\ prepared # Nobody)
  BY DEF Held, Roots, RootInv
<1>4. ~mem.receipt /\ cur \notin {active, target}
  <2>1. CASE Call # "abort"
    <3>1. AbortCall \notin Ahead
      BY <1>1, <2>1, RollingPassed
    <3> QED BY <1>1, <3>1 DEF Held, Roots, UndoneInv
  <2>2. CASE Call = "abort"
    <3>1. IsCurrent /\ (mem.decision = "Abort" \/ StillBefore)
      BY <2>2 DEF Undoes, Closes, Calls
    <3>2. CASE mem.decision = "Abort"
      <4>1. journal[cur].decision = "Abort"
        BY <3>1, <3>2 DEF IsCurrent
      <4>2. cur \notin {active, target}
        BY <1>1, <4>1 DEF Rest, PublishedInv
      <4> QED BY <1>2, <3>2, <4>2 DEF RootEntry
    <3>3. CASE StillBefore
      <4>1. active # cur /\ target = before[cur]["publication"]
        BY <3>3 DEF StillBefore
      <4>2. active = before[cur]["publication"]
        BY <1>2, <1>3, <4>1, EntryFacts
      <4> QED BY <1>2, <4>1, <4>2 DEF RootEntry
    <3> QED BY <3>1, <3>2, <3>3
  <2> QED BY <2>1, <2>2
<1>5. claim = cur
  <2>1. journal[cur].state \in Working \cup {"RollingBack", "NeedsAttention"}
    BY <1>1 DEF Held, Path, WayInv, BackInv
  <2>2. ~journal[cur].receipt
    BY <1>2, <1>4
  <2> QED BY <1>1, <2>1, <2>2 DEF Held, Roots, ClaimInv
<1> QED BY <1>1, <1>4, <1>5

\* Who is known, and who was published.
LEMMA KnownGrows ==
  ASSUME TypeOK, Rest, Held, Rest', Forms
  PROVE  /\ \A o \in Operations : Known(o) => Known(o)'
         /\ \A o \in Operations : Known(o)' /\ ~Known(o) => Accept(o)
         /\ \A o \in Operations : Known(o) => before'[o] = before[o]
         /\ ~(\E o \in Operations : Accept(o)) => before' = before
<1>1. CASE before' = before /\ journal' = journal
  BY <1>1 DEF Known
<1>2. CASE /\ before' = before /\ cur \in Operations /\ Known(cur)
           /\ \E m : journal' = [journal EXCEPT ![cur] = m] /\ m.state # "none"
  BY <1>2 DEF Known, TypeOK
<1>3. CASE \E o \in Operations : Accept(o)
  <2>1. PICK o \in Operations : Accept(o)
    BY <1>3
  <2>2. /\ journal[o].state = "none" /\ journal' = [journal EXCEPT ![o] = Fresh("Accepted")]
        /\ \A p \in Operations \ {o} : before'[p] = before[p]
    BY <2>1 DEF Accept, TypeOK
  <2>3. Fresh("Accepted").state # "none"
    BY DEF Fresh
  <2> QED BY <1>3, <2>1, <2>2, <2>3 DEF Known, TypeOK
<1>4. cur # Nobody => cur \in Operations /\ Known(cur) /\ mem.state # "none"
  BY DEF Rest, HandlerInv, CopyInv, TypeOK
<1>5. cur' # Nobody => mem'.state # "none"
  BY DEF Rest, HandlerInv, CopyInv
<1>6. CASE Idles \/ Takes \/ Decides \/ Reclaims
  BY <1>1, <1>6 DEF Idles, Takes, Decides, Reclaims
<1>7. CASE Leaves
  <2>1. CASE UNCHANGED journal
    BY <1>1, <1>7, <2>1 DEF Leaves
  <2>2. CASE Calls("park") /\ journal' = [journal EXCEPT ![cur] = mem]
    BY <1>2, <1>4, <1>7, <2>2 DEF Leaves, Calls
  <2>3. CASE /\ Calls("abort")
             /\ journal' = [journal EXCEPT ![cur] = [mem EXCEPT !.state = "NeedsAttention"]]
    <3>1. [mem EXCEPT !.state = "NeedsAttention"].state # "none"
      BY DEF TypeOK, Entry
    <3>2. before' = before /\ cur \in Operations /\ Known(cur)
      BY <1>4, <1>7, <2>3 DEF Leaves, Calls
    <3> QED BY <1>2, <2>3, <3>1, <3>2
  <2> QED BY <1>7, <2>1, <2>2, <2>3 DEF Leaves
<1>8. CASE /\ cur # Nobody /\ cur' = cur /\ before' = before
           /\ journal' = journal \/ journal' = [journal EXCEPT ![cur] = mem']
  BY <1>1, <1>2, <1>4, <1>5, <1>8
<1>9. CASE Goes \/ Finishes \/ Undoes \/ Closes
  <2>1. CASE Goes
    <3>1. cur # Nobody /\ before' = before /\ cur' = cur
      BY <2>1 DEF Goes
    <3>2. journal' = journal \/ journal' = [journal EXCEPT ![cur] = mem']
      BY <2>1 DEF Goes, Save
    <3> QED BY <1>8, <3>1, <3>2
  <2>2. CASE Finishes
    BY <1>8, <2>2, FinishesFacts, PlanAssumption
  <2>3. CASE Undoes
    BY <1>8, <2>3, UndoesFacts, PlanAssumption
  <2>4. CASE Closes
    BY <1>8, <2>4, ClosesFacts, PlanAssumption
  <2> QED BY <1>9, <2>1, <2>2, <2>3, <2>4
<1>10. ASSUME NEW m \in {mem, Written(Call, On), Written("record", On)}, Fails(m)
       PROVE  /\ cur # Nobody /\ cur' = cur /\ before' = before
              /\ journal' = journal \/ journal' = [journal EXCEPT ![cur] = mem']
  BY <1>10, FailsFacts, PlanAssumption
<1> QED BY <1>3, <1>6, <1>7, <1>8, <1>9, <1>10 DEF Forms, Handles

\* What is known of the handler when the publication is staged, and when it is
\* activated or its service sealed.
LEMMA StagingFacts ==
  ASSUME TypeOK, Rest, Held, Calls("stage"), On = "publication"
  PROVE  /\ cur \in Operations /\ mem = journal[cur] /\ claim = cur /\ ~Once(cur) /\ ~mem.receipt
         /\ mem.status["CompilePublication"] \in {"Pending", "Started"}
         /\ "publication" \in Plan[cur]
<1>1. cur # Nobody /\ Call = "stage" /\ Call \in ForwardNames \ {"resume"}
  BY DEF Calls, ForwardNames
<1>2. /\ cur \in Operations /\ <<"stage", "publication">> \in Ahead /\ mem = journal[cur]
      /\ mem.state \in Working /\ Shape(mem)
      /\ mem.status["CompilePublication"] # "Applied"
  BY <1>1, FirstCall, ForwardFacts
<1>3. mem.status["CompilePublication"] \in {"Pending", "Started"}
  BY <1>2, WorkingEntry
<1>4. RootEntry(cur, mem)
  BY <1>1, EntryFacts
<1>5. ~Once(cur) /\ ~mem.receipt
  BY <1>3, <1>4 DEF RootEntry
<1>6. claim = cur
  BY <1>1, <1>5, RunClaim
<1>7. "publication" \in Plan[cur]
  BY <1>1, OnFacts DEF Rest, HandlerInv
<1> QED BY <1>2, <1>3, <1>5, <1>6, <1>7

LEMMA LateFacts ==
  ASSUME TypeOK, Rest, Held, cur # Nobody, Call \in {"checkpoint", "install", "mark", "seal"}
  PROVE  /\ cur \in Operations /\ mem = journal[cur] /\ mem.state = "Activate" /\ Shape(mem)
         /\ mem.status["CompilePublication"] = "Applied"
         /\ On = IF Call = "seal" THEN "file" ELSE "publication"
<1>1. /\ Call \in ForwardNames \ {"resume"} /\ cur \in Operations
      /\ On = IF Call = "seal" THEN "file" ELSE "publication"
  BY FirstCall, OnFacts DEF Rest, HandlerInv, ForwardNames
<1>2. mem = journal[cur] /\ mem.state \in Working /\ Shape(mem)
  BY <1>1, ForwardFacts
<1>3. /\ Rank(cur, <<"checkpoint", "publication">>) = 132
      /\ Rank(cur, <<"install", "publication">>) = 133
      /\ Rank(cur, <<"mark", "publication">>) = 134
      /\ Rank(cur, <<"seal", "file">>) = 136
  BY <1>1, CallRanks
<1>4. Rank(cur, <<Call, On>>) \in {132, 133, 134, 136}
  BY <1>1, <1>3
<1>5. Rank(cur, <<"begin", "Activate">>) = 120
  <2>1. Rank(cur, <<"begin", "Activate">>) = 20 * StepNo["Activate"]
    BY <1>1, NoFacts, StepRanks
  <2> QED BY <2>1, NoFacts
<1>6. <<"begin", "Activate">> \notin Ahead
  BY <1>4, <1>5, Before
<1>7. mem.state = "Activate"
  BY <1>1, <1>6, ActivateReached
<1> QED BY <1>1, <1>2, <1>7, WorkingEntry

\* Only the marking of a record makes an Operation one that was published.
LEMMA OnceGrows ==
  ASSUME TypeOK, Rest, Held, Rest', Forms, NEW o \in Operations, Once(o)', ~Once(o)
  PROVE  o = cur /\ Calls("mark") /\ active # cur /\ prepared = cur /\ active' = cur
<1>1. ASSUME NEW p \in Operations, Known(p)', before'[p]["publication"] = o
      PROVE  FALSE
  <2>1. CASE Known(p)
    BY <1>1, <2>1, KnownGrows DEF Once
  <2>2. CASE ~Known(p)
    <3>1. Accept(p)
      BY <1>1, <2>2, KnownGrows
    <3>2. before'[p]["publication"] = active
      BY <3>1, KindFacts DEF Accept, TypeOK
    <3> QED BY <1>1, <3>2 DEF Once
  <2> QED BY <2>1, <2>2
<1>2. active' = o /\ active # o
  BY <1>1 DEF Once, Known
<1> QED BY <1>2 DEF Forms, Publishes

\* What an entry says of the publications stays so when they change.
LEMMA RootKept ==
  ASSUME TypeOK, Rest, Held, Rest', Forms, NEW o \in Operations, NEW m, RootEntry(o, m),
         m.receipt => Known(o),
         o = cur /\ Call \in {"stage", "install", "mark"} =>
           /\ m.receipt = mem.receipt
           /\ m.status["CompilePublication"] = mem.status["CompilePublication"]
  PROVE  /\ Once(o)' => m.status["CompilePublication"] \notin {"Pending", "Started"}
         /\ m.receipt => /\ m.state \in {"Activate", "NeedsAttention", "Succeeded"}
                         /\ m.status["CompilePublication"] = "Applied"
                         /\ "publication" \in m.recorded /\ m.decision # "Abort"
                         /\ active' # before'[o]["publication"] /\ prepared' # o
         /\ m.status["CompilePublication"] = "Compensated" => o \notin {active', prepared', target'}
         /\ m.state = "RolledBack" => m.status["CompilePublication"] = "Compensated"
<1>1. /\ Once(o) => m.status["CompilePublication"] \notin {"Pending", "Started"}
      /\ m.receipt => /\ m.state \in {"Activate", "NeedsAttention", "Succeeded"}
                      /\ m.status["CompilePublication"] = "Applied"
                      /\ "publication" \in m.recorded /\ m.decision # "Abort"
                      /\ active # before[o]["publication"] /\ prepared # o
      /\ m.status["CompilePublication"] = "Compensated" => o \notin {active, prepared, target}
      /\ m.state = "RolledBack" => m.status["CompilePublication"] = "Compensated"
  BY DEF RootEntry
<1>2. m.receipt => before'[o] = before[o] /\ before[o]["publication"] # o
                   /\ Once(before[o]["publication"])
  BY KnownGrows, EntryFacts
<1>3. Once(o)' /\ ~Once(o) => o = cur /\ Calls("mark")
  BY OnceGrows
<1>4. Calls("mark") => mem.status["CompilePublication"] = "Applied"
  BY LateFacts DEF Calls
<1>5. Once(o)' => m.status["CompilePublication"] \notin {"Pending", "Started"}
  BY <1>1, <1>3, <1>4 DEF Calls
<1>6. CASE UNCHANGED <<active, prepared, target>>
  BY <1>1, <1>2, <1>5, <1>6
<1>7. CASE cur' = Nobody /\ target' = active /\ UNCHANGED <<active, prepared, journal, before>>
  BY <1>1, <1>2, <1>5, <1>7
<1>8. CASE /\ Calls("stage") /\ On = "publication"
           /\ prepared' = cur /\ UNCHANGED <<active, target, before>>
  <2>1. /\ ~mem.receipt /\ mem.status["CompilePublication"] \in {"Pending", "Started"}
    BY <1>8, StagingFacts
  <2> QED BY <1>1, <1>2, <1>5, <1>8, <2>1 DEF Calls
<1>9. CASE /\ Calls("install") /\ target' \in {target, cur} /\ UNCHANGED <<active, prepared, before>>
  <2>1. mem.status["CompilePublication"] = "Applied"
    BY <1>9, LateFacts DEF Calls
  <2> QED BY <1>1, <1>2, <1>5, <1>9, <2>1 DEF Calls
<1>10. CASE /\ Calls("mark") /\ active # cur /\ prepared = cur
            /\ active' = cur /\ prepared' = Nobody /\ UNCHANGED <<target, before>>
  <2>1. mem.status["CompilePublication"] = "Applied"
    BY <1>4, <1>10
  <2>2. ~Once(cur) /\ cur \in Operations
    BY <1>10, EntryFacts DEF Calls
  <2>3. m.receipt => before[o]["publication"] # cur
    BY <1>2, <2>2
  <2>4. o # Nobody
    BY PlanAssumption
  <2> QED BY <1>1, <1>2, <1>5, <1>10, <2>1, <2>3, <2>4 DEF Calls
<1>11. CASE /\ Calls("compensate") /\ prepared' = Nobody /\ UNCHANGED <<active, target, before>>
  <2>1. o # Nobody
    BY PlanAssumption
  <2> QED BY <1>1, <1>2, <1>5, <1>11, <2>1
<1> QED BY <1>6, <1>7, <1>8, <1>9, <1>10, <1>11 DEF Forms, Publishes

\* An entry that records an effect says the same.
LEMMA RootRecorded ==
  ASSUME TypeOK, Rest, Held, cur # Nobody
  PROVE  /\ RootEntry(cur, Written("record", On))
         /\ Written("record", On).status = mem.status
         /\ Written("record", On).receipt = mem.receipt
<1>1. RootEntry(cur, mem) /\ mem \in Entry
  BY EntryFacts DEF TypeOK
<1>2. Written("record", On) = [mem EXCEPT !.recorded = @ \cup {On}]
  BY Zenon DEF Written
<1>3. /\ Written("record", On).state = mem.state /\ Written("record", On).status = mem.status
      /\ Written("record", On).receipt = mem.receipt
      /\ Written("record", On).decision = mem.decision
      /\ mem.recorded \subseteq Written("record", On).recorded
  BY <1>1, <1>2 DEF Entry
<1> QED BY <1>1, <1>3 DEF RootEntry

\* What a call of a run writes says of the publications what is so.
LEMMA RootWritten ==
  ASSUME TypeOK, Rest, Held, cur # Nobody, Call \in ForwardCalls
  PROVE  /\ RootEntry(cur, Written(Call, On))
         /\ mem.receipt => Written(Call, On).receipt
         /\ Call \notin {"begin", "complete"} => Written(Call, On).status = mem.status
         /\ Call # "seal" => Written(Call, On).receipt = mem.receipt
<1> DEFINE w == Written(Call, On)
<1>1. /\ Call \in ForwardNames \ {"resume"} /\ cur \in Operations /\ mem \in Entry
      /\ Call \in {"begin", "complete"} => On \in Steps
      /\ Call \in {"begin", "complete", "compensating"} => On \in Steps
      /\ Call # "rollback" /\ Call # "compensating" /\ Call # "abort"
  BY FirstCall, NameFacts, OnFacts DEF Rest, HandlerInv, ForwardCalls
<1>2. RootEntry(cur, mem)
  BY EntryFacts
<1>3. mem.state \in Working /\ Shape(mem) /\ <<Call, On>> \in Ahead /\ mem = journal[cur]
  BY <1>1, ForwardFacts, FirstCall
<1>4. Shape(w) /\ w.state \in Working
  BY WrittenShape
<1>5. /\ w.receipt = (Call = "seal" \/ mem.receipt)
      /\ mem.recorded \subseteq w.recorded
      /\ w.decision = "Abort" => mem.decision = "Abort"
  <2>1. mem \in Entry /\ (Call \in {"begin", "complete", "compensating"} => On \in Steps)
    BY <1>1
  <2>2. Written(Call, On).receipt = (Call = "seal" \/ mem.receipt)
    BY <2>1, CallWritten
  <2>3. /\ mem.recorded \subseteq Written(Call, On).recorded
        /\ Written(Call, On).decision = "Abort" => mem.decision = "Abort"
    BY <1>1, WrittenKeeps DEF Rest
  <2> QED BY <2>2, <2>3
<1>6. w.status = IF Call = "begin" THEN [mem.status EXCEPT ![On] = "Started"]
                 ELSE IF Call = "complete" THEN [mem.status EXCEPT ![On] = "Applied"]
                 ELSE mem.status
  BY <1>1, WrittenStatus
<1> HIDE DEF w
<1>7. w.status["CompilePublication"] \in {"Pending", "Started", "Applied"}
  BY <1>4, WorkingEntry
<1>8. mem.status \in [Steps -> Statuses] /\ "CompilePublication" \in Steps
      /\ mem.receipt \in BOOLEAN
  BY <1>1, NoFacts DEF Entry
<1>9. <<"begin", "CompilePublication">> \in Ahead
        => mem.status["CompilePublication"] \notin {"Applied"}
  <2>1. <<"begin", "CompilePublication">> \in Ahead => <<"complete", "CompilePublication">> \in Ahead
    BY <1>1, <1>8, ForwardFacts
  <2>2. <<"complete", "CompilePublication">> \in Ahead => mem.status["CompilePublication"] # "Applied"
    BY <1>1, <1>8, ForwardFacts
  <2> QED BY <2>1, <2>2
<1>10. Once(cur) => w.status["CompilePublication"] \notin {"Pending", "Started"}
  <2>1. Once(cur) => mem.status["CompilePublication"] = "Applied"
    BY <1>2, <1>3, WorkingEntry DEF RootEntry
  <2>2. CASE Call = "begin"
    <3>1. Once(cur) => On # "CompilePublication"
      BY <1>3, <1>9, <2>1, <2>2
    <3> QED BY <1>6, <1>8, <2>1, <2>2, <3>1
  <2>3. CASE Call # "begin"
    BY <1>6, <1>8, <2>1, <2>3
  <2> QED BY <2>2, <2>3
<1>11. w.receipt => /\ w.state = "Activate" /\ w.status["CompilePublication"] = "Applied"
                    /\ "publication" \in w.recorded /\ w.decision # "Abort"
                    /\ active # before[cur]["publication"] /\ prepared # cur
  <2>1. w.receipt => w.state = "Activate" /\ w.status["CompilePublication"] = "Applied"
    BY <1>4, WorkingEntry DEF Shape
  <2>2. mem.receipt => /\ "publication" \in w.recorded /\ w.decision # "Abort"
                       /\ active # before[cur]["publication"] /\ prepared # cur
    BY <1>2, <1>5 DEF RootEntry
  <2>3. Call = "seal" => /\ "publication" \in w.recorded /\ w.decision # "Abort"
                         /\ active # before[cur]["publication"] /\ prepared # cur
    <3> SUFFICES ASSUME Call = "seal"
                 PROVE  /\ "publication" \in w.recorded /\ w.decision # "Abort"
                        /\ active # before[cur]["publication"] /\ prepared # cur
      OBVIOUS
    <3>1. On = "file" /\ SealCall \in Ahead
      BY <1>3, LateFacts DEF SealCall
    <3>2. Ahead \cap PublishCalls = {}
      <4>1. /\ Rank(cur, <<"checkpoint", "publication">>) = 132
            /\ Rank(cur, <<"install", "publication">>) = 133
            /\ Rank(cur, <<"mark", "publication">>) = 134
            /\ Rank(cur, <<Call, On>>) = 136
        BY <1>1, <3>1, CallRanks
      <4>2. <<"checkpoint", "publication">> \notin Ahead
        BY <4>1, Before
      <4>3. <<"install", "publication">> \notin Ahead
        BY <4>1, Before
      <4>4. <<"mark", "publication">> \notin Ahead
        BY <4>1, Before
      <4> QED BY <4>2, <4>3, <4>4 DEF PublishCalls, InstallCalls, CheckpointCall
    <3>3. active = cur
      BY <3>1, <3>2 DEF Held, Roots, SealInv
    <3>4. "publication" \in mem.recorded /\ mem.decision # "Abort"
      BY <1>1, <1>3, <3>3, PlanAssumption DEF Rest, PublishedInv
    <3>5. before[cur]["publication"] # cur /\ (prepared # Nobody => ~Once(prepared))
      BY EntryFacts
    <3>6. prepared # cur
      BY <3>3, <3>5 DEF Once
    <3> QED BY <1>5, <3>3, <3>4, <3>5, <3>6
  <2> QED BY <1>5, <2>1, <2>2, <2>3
<1>12. RootEntry(cur, w)
  <2>1. w.state # "RolledBack"
    BY <1>4, StepFacts DEF Working
  <2> QED BY <1>7, <1>10, <1>11, <2>1 DEF RootEntry
<1> QED BY <1>5, <1>6, <1>8, <1>12 DEF w

\* The calls of the publication's step in a rollback come one after the other.
LEMMA UndoOrder ==
  ASSUME TypeOK, Rest, cur # Nobody
  PROVE  /\ <<Call, On>> = Settling => Compensating \notin Ahead /\ Reconciling \notin Ahead
         /\ <<Call, On>> = Compensating => Reconciling \notin Ahead
         /\ <<Call, On>> \in {Settling, Compensating, Reconciling}
              => <<"compensating", "CompilePublication">> \notin Ahead
<1>1. cur \in Operations
  BY FirstCall
<1>2. /\ Rank(cur, Reconciling) = 331 /\ Rank(cur, Compensating) = 334
      /\ Rank(cur, Settling) = 335
      /\ Rank(cur, <<"compensating", "CompilePublication">>) = 330
  BY <1>1, CallRanks
<1>3. CASE <<Call, On>> = Settling
  <2>1. Rank(cur, <<Call, On>>) = 335
    BY <1>2, <1>3, Zenon
  <2>2. Compensating \notin Ahead
    BY <1>2, <2>1, Before
  <2>3. Reconciling \notin Ahead
    BY <1>2, <2>1, Before
  <2>4. <<"compensating", "CompilePublication">> \notin Ahead
    BY <1>2, <2>1, Before
  <2> QED BY <1>3, <2>2, <2>3, <2>4 DEF Settling, Compensating, Reconciling
<1>4. CASE <<Call, On>> = Compensating
  <2>1. Rank(cur, <<Call, On>>) = 334
    BY <1>2, <1>4, Zenon
  <2>2. Reconciling \notin Ahead
    BY <1>2, <2>1, Before
  <2>3. <<"compensating", "CompilePublication">> \notin Ahead
    BY <1>2, <2>1, Before
  <2> QED BY <1>4, <2>2, <2>3 DEF Settling, Compensating, Reconciling
<1>5. CASE <<Call, On>> = Reconciling
  <2>1. Rank(cur, <<Call, On>>) = 331
    BY <1>2, <1>5, Zenon
  <2>2. <<"compensating", "CompilePublication">> \notin Ahead
    BY <1>2, <2>1, Before
  <2> QED BY <1>5, <2>2 DEF Settling, Compensating, Reconciling
<1> QED BY <1>3, <1>4, <1>5

\* What a call of a rollback leaves in the entry says of the publications what is so.
LEMMA RootUndone ==
  ASSUME TypeOK, Rest, Held, Undoes
  PROVE  RootEntry(cur, mem')
<1>1. /\ cur \in Operations /\ cur # Nobody /\ ~mem.receipt /\ cur \notin {active, target}
  BY UndoClaim
<1>2. /\ mem'.state = IF Call = "rollback" THEN "RollingBack" ELSE mem.state
      /\ mem'.receipt = mem.receipt
      /\ Call \notin {"compensating", "settle"} => mem'.status = mem.status
      /\ Backwards /\ mem \in Entry
  BY UndoesFacts
<1>3. /\ Call \in {"compensating", "settle"} => On \in Steps
      /\ <<Call, On>> \in Ahead
      /\ RootEntry(cur, mem)
  BY <1>1, FirstCall, OnFacts, EntryFacts DEF Rest, HandlerInv
<1>4. mem'.state # "RolledBack"
  <2>1. mem.state \in Working \cup {"RollingBack", "NeedsAttention"}
    BY <1>1, <1>2 DEF Held, Path, WayInv, BackInv
  <2> QED BY <1>2, <2>1, StepFacts DEF Working
<1>5. mem.status \in [Steps -> Statuses] /\ "CompilePublication" \in Steps
  BY <1>2, NoFacts DEF Entry
<1>6. /\ Once(cur) => mem.status["CompilePublication"] \notin {"Pending", "Started"}
      /\ mem.status["CompilePublication"] = "Compensated" => cur # prepared
  BY <1>3 DEF RootEntry
<1>7. /\ Once(cur) => mem'.status["CompilePublication"] \notin {"Pending", "Started"}
      /\ mem'.status["CompilePublication"] = "Compensated" => cur # prepared
  <2>1. CASE Call \notin {"compensating", "settle"}
    BY <1>2, <1>6, <2>1
  <2>2. CASE Call = "compensating"
    <3>1. mem' = Written(Call, On)
      BY <2>2 DEF Undoes, Calls, Save
    <3>2. Written(Call, On).status = IF Call = "begin" THEN [mem.status EXCEPT ![On] = "Started"]
           ELSE IF Call = "complete" THEN [mem.status EXCEPT ![On] = "Applied"]
           ELSE IF Call = "compensating" THEN [mem.status EXCEPT ![On] = "Compensating"]
           ELSE mem.status
      BY <1>2, WrittenStatus
    <3>3. mem'.status = [mem.status EXCEPT ![On] = "Compensating"]
      BY <2>2, <3>1, <3>2
    <3> QED BY <1>5, <1>6, <3>3
  <2>3. CASE Call = "settle"
    <3>1. mem' = [mem EXCEPT !.status[On] = IF doubt THEN "Attention" ELSE "Compensated"]
      BY <2>3 DEF Undoes, Calls, Save
    <3>2. mem'.status = [mem.status EXCEPT ![On] = IF doubt THEN "Attention" ELSE "Compensated"]
      BY <1>2, <3>1 DEF Entry
    <3>3. CASE On = "CompilePublication"
      <4>1. mem'.status["CompilePublication"] = IF doubt THEN "Attention" ELSE "Compensated"
        BY <1>5, <3>2, <3>3
      <4>2. Settling \in Ahead /\ <<Call, On>> = Settling
        BY <1>3, <2>3, <3>3 DEF Settling
      <4>3. "publication" \in Plan[cur] => doubt \/ prepared # cur
        BY <1>1, <4>2, UndoOrder DEF Held, Roots, UndoInv
      <4>4. prepared = cur => "publication" \in Plan[cur]
        BY <1>1, EntryFacts
      <4> QED BY <4>1, <4>3, <4>4
    <3>4. CASE On # "CompilePublication"
      BY <1>5, <1>6, <3>2, <3>4
    <3> QED BY <3>3, <3>4
  <2> QED BY <2>1, <2>2, <2>3
<1> QED BY <1>1, <1>2, <1>4, <1>7 DEF RootEntry

\* What the handler's copy says of the publications is so.
LEMMA CopyMoves ==
  ASSUME TypeOK, Rest, Held, Rest', Forms, cur # Nobody, cur' = cur
  PROVE  /\ cur \in Operations /\ RootEntry(cur, mem')
         /\ journal'[cur].receipt => mem'.receipt
         /\ Call \in {"stage", "install", "mark"} =>
              /\ mem'.receipt = mem.receipt
              /\ mem'.status["CompilePublication"] = mem.status["CompilePublication"]
<1>1. /\ cur \in Operations /\ RootEntry(cur, mem) /\ mem \in Entry
      /\ journal[cur].receipt => mem.receipt
      /\ journal \in [Operations -> Entry]
  BY EntryFacts DEF Held, Roots, EntriesInv, TypeOK
<1>2. CASE mem' = mem /\ journal' = journal
  BY <1>1, <1>2
<1>3. CASE Idles \/ Takes \/ Leaves \/ Decides \/ Reclaims \/ \E o \in Operations : Accept(o)
  BY <1>2, <1>3 DEF Idles, Takes, Leaves, Decides, Reclaims, Accept, handler
<1>4. CASE Goes
  <2>1. /\ mem' = journal'[cur] /\ cur' = cur
        /\ mem' # mem => /\ mem' = Written(Call, On)
                         /\ Call \in {"begin", "complete", "record", "seal", "checkpoint"}
    BY <1>4, GoesFacts
  <2>2. CASE mem' = mem
    BY <1>1, <2>1, <2>2
  <2>3. CASE mem' # mem
    <3>1. RootEntry(cur, Written(Call, On))
      BY <2>1, <2>3, RootWritten DEF ForwardCalls
    <3> QED BY <1>1, <2>1, <2>3, <3>1
  <2> QED BY <2>2, <2>3
<1>5. CASE Finishes
  <2>1. /\ mem' = [mem EXCEPT !.state = "Succeeded"] /\ Call = "finish"
        /\ journal' = [journal EXCEPT ![cur] = mem']
    BY <1>5, FinishesFacts DEF Finishes, Calls
  <2>2. /\ mem'.state = "Succeeded" /\ mem'.status = mem.status /\ mem'.receipt = mem.receipt
        /\ mem'.recorded = mem.recorded /\ mem'.decision = mem.decision
        /\ journal'[cur] = mem'
    BY <1>1, <2>1 DEF Entry
  <2>3. RootEntry(cur, mem')
    BY <1>1, <2>2 DEF RootEntry
  <2> QED BY <1>1, <2>1, <2>2, <2>3
<1>6. CASE Undoes
  <2>1. /\ Call \in {"abort", "rollback", "compensating", "reconcile", "compensate", "settle"}
        /\ mem'.receipt = mem.receipt
        /\ journal' = [journal EXCEPT ![cur] = mem'] \/ journal' = journal
    BY <1>6, UndoesFacts
  <2> QED BY <1>1, <1>6, <2>1, RootUndone
<1>7. CASE Closes
  <2>1. /\ Call = "close" /\ journal' = [journal EXCEPT ![cur] = mem']
        /\ \/ RollbackProven /\ mem' = [mem EXCEPT !.state = "RolledBack"]
           \/ mem' = [mem EXCEPT !.state = "NeedsAttention"]
        /\ ~mem.receipt
    BY <1>7, ClosesFacts, UndoClaim DEF Closes, Calls
  <2>2. /\ mem'.state \in {"RolledBack", "NeedsAttention"}
        /\ mem'.state = "RolledBack" => RollbackProven
        /\ mem'.status = mem.status /\ mem'.receipt = mem.receipt
        /\ journal'[cur] = mem'
    BY <1>1, <2>1 DEF Entry
  <2>3. RollbackProven => mem.status["CompilePublication"] = "Compensated"
    BY NoFacts DEF RollbackProven
  <2>4. RootEntry(cur, mem')
    BY <1>1, <2>1, <2>2, <2>3 DEF RootEntry
  <2> QED BY <1>1, <2>1, <2>2, <2>4
<1>8. ASSUME NEW m \in {mem, Written(Call, On), Written("record", On)}, Fails(m)
      PROVE  /\ RootEntry(cur, mem')
             /\ journal'[cur].receipt => mem'.receipt
             /\ Call \in {"stage", "install", "mark"} =>
                  /\ mem'.receipt = mem.receipt
                  /\ mem'.status["CompilePublication"] = mem.status["CompilePublication"]
  <2>1. /\ mem' = m /\ (mem.receipt => m.receipt) /\ Call \in ForwardCalls
        /\ journal' = journal \/ journal' = [journal EXCEPT ![cur] = m]
    BY <1>8, FailsFacts DEF Fails
  <2>2. CASE m = mem
    BY <1>1, <2>1, <2>2
  <2>3. CASE m = Written(Call, On)
    <3>1. /\ RootEntry(cur, Written(Call, On))
          /\ Call \notin {"begin", "complete"} => Written(Call, On).status = mem.status
          /\ Call # "seal" => Written(Call, On).receipt = mem.receipt
      BY <2>1, RootWritten
    <3> QED BY <1>1, <2>1, <2>3, <3>1
  <2>4. CASE m = Written("record", On)
    <3>1. /\ RootEntry(cur, Written("record", On))
          /\ Written("record", On).status = mem.status
          /\ Written("record", On).receipt = mem.receipt
      BY RootRecorded
    <3> QED BY <1>1, <2>1, <2>4, <3>1
  <2> QED BY <2>2, <2>3, <2>4
<1> QED BY <1>1, <1>3, <1>4, <1>5, <1>6, <1>7, <1>8 DEF Forms, Handles

\* What becomes of the journal in a step.
LEMMA JournalMoves ==
  ASSUME TypeOK, Rest, Held, Rest', Forms, NEW o \in Operations, journal'[o] # journal[o]
  PROVE  \/ o = cur /\ cur' = cur /\ journal'[o] = mem'
         \/ /\ o = cur /\ cur' = Nobody
            /\ \/ Calls("park") /\ journal'[o] = mem /\ claim' = Nobody /\ claim \in {cur, Nobody}
               \/ Calls("abort") /\ journal'[o] = [mem EXCEPT !.state = "NeedsAttention"] /\ claim' = claim
         \/ Accept(o) /\ journal'[o] = Fresh("Accepted")
<1>1. journal \in [Operations -> Entry]
  BY DEF TypeOK
<1>2. CASE Idles \/ Takes \/ Decides \/ Reclaims
  BY <1>2 DEF Idles, Takes, Decides, Reclaims
<1>3. CASE Leaves
  <2>1. CASE UNCHANGED journal
    BY <2>1
  <2>2. CASE Calls("park") /\ journal' = [journal EXCEPT ![cur] = mem] /\ claim' = Nobody
             /\ claim \in {cur, Nobody}
    BY <1>1, <1>3, <2>2 DEF Leaves
  <2>3. CASE /\ Calls("abort") /\ claim' = claim
             /\ journal' = [journal EXCEPT ![cur] = [mem EXCEPT !.state = "NeedsAttention"]]
    BY <1>1, <1>3, <2>3 DEF Leaves
  <2> QED BY <1>3, <2>1, <2>2, <2>3 DEF Leaves
<1>4. CASE /\ cur' = cur
           /\ journal' = journal \/ journal' = [journal EXCEPT ![cur] = mem']
  BY <1>1, <1>4
<1>5. CASE Goes
  BY <1>4, <1>5 DEF Goes, Save
<1>6. CASE Finishes
  BY <1>4, <1>6, FinishesFacts
<1>7. CASE Undoes
  BY <1>4, <1>7, UndoesFacts
<1>8. CASE Closes
  BY <1>4, <1>8, ClosesFacts
<1>9. ASSUME NEW m \in {mem, Written(Call, On), Written("record", On)}, Fails(m)
      PROVE  /\ journal' = journal \/ journal' = [journal EXCEPT ![cur] = mem']
             /\ cur' = cur
  BY <1>9, FailsFacts
<1>10. ASSUME NEW p \in Operations, Accept(p)
       PROVE  o = p /\ journal'[o] = Fresh("Accepted")
  <2>1. journal' = [journal EXCEPT ![p] = Fresh("Accepted")]
    BY <1>10 DEF Accept
  <2> QED BY <1>1, <2>1
<1> QED BY <1>2, <1>3, <1>4, <1>5, <1>6, <1>7, <1>8, <1>9, <1>10 DEF Forms, Handles

\* The handler changes only when it takes an Operation or returns.
LEMMA HandlerMoves ==
  ASSUME TypeOK, Rest, Held, Rest', Forms, cur' # cur, cur' # Nobody
  PROVE  Takes
<1>1. ~Goes /\ ~Finishes /\ ~Undoes /\ ~Closes
  BY FinishesFacts, ClosesFacts DEF Goes, Undoes
<1>2. ~(\E m \in {mem, Written(Call, On), Written("record", On)} : Fails(m))
  BY FailsFacts
<1>3. ~Idles /\ ~Leaves /\ ~Decides /\ ~Reclaims /\ ~(\E o \in Operations : Accept(o))
  BY DEF Idles, Leaves, Decides, Reclaims, Accept, handler
<1> QED BY <1>1, <1>2, <1>3 DEF Forms, Handles

LEMMA EntriesNext ==
  ASSUME TypeOK, Rest, Held, Rest', Forms
  PROVE  EntriesInv'
<1>1. /\ journal \in [Operations -> Entry] /\ mem \in Entry
      /\ cur # Nobody => cur \in Operations /\ RootEntry(cur, mem) /\ Known(cur)
      /\ \A o \in Operations : RootEntry(o, journal[o]) /\ (~Known(o) => journal[o] = Fresh("none"))
  BY EntryFacts DEF TypeOK, Held, Roots, EntriesInv
<1>2. cur # Nobody /\ Call \in {"stage", "install", "mark"} => mem = journal[cur]
  BY ForwardFacts DEF ForwardNames
<1>3. ASSUME NEW o \in Operations
      PROVE  /\ Once(o)' => journal'[o].status["CompilePublication"] \notin {"Pending", "Started"}
             /\ journal'[o].receipt =>
                  /\ journal'[o].state \in {"Activate", "NeedsAttention", "Succeeded"}
                  /\ journal'[o].status["CompilePublication"] = "Applied"
                  /\ "publication" \in journal'[o].recorded /\ journal'[o].decision # "Abort"
                  /\ active' # before'[o]["publication"] /\ prepared' # o
             /\ journal'[o].status["CompilePublication"] = "Compensated"
                  => o \notin {active', prepared', target'}
             /\ journal'[o].state = "RolledBack"
                  => journal'[o].status["CompilePublication"] = "Compensated"
  <2> DEFINE w == journal'[o]
  <2>1. /\ RootEntry(o, w) /\ (w.receipt => Known(o))
        /\ o = cur /\ Call \in {"stage", "install", "mark"} =>
             /\ w.receipt = mem.receipt
             /\ w.status["CompilePublication"] = mem.status["CompilePublication"]
    <3>1. CASE journal'[o] = journal[o]
      <4>1. Fresh("none").receipt = FALSE
        BY DEF Fresh
      <4>2. cur = o => cur # Nobody
        BY PlanAssumption
      <4> QED BY <1>1, <1>2, <3>1, <4>1, <4>2
    <3>2. CASE o = cur /\ cur' = cur /\ journal'[o] = mem'
      <4>1. cur # Nobody
        BY <3>2, PlanAssumption
      <4> QED BY <1>1, <3>2, <4>1, CopyMoves
    <3>3. CASE o = cur /\ Calls("park") /\ journal'[o] = mem
      BY <1>1, <3>3 DEF Calls
    <3>4. CASE o = cur /\ Calls("abort") /\ journal'[o] = [mem EXCEPT !.state = "NeedsAttention"]
      <4>1. /\ w.state = "NeedsAttention" /\ w.status = mem.status /\ w.receipt = mem.receipt
            /\ w.recorded = mem.recorded /\ w.decision = mem.decision
        BY <1>1, <3>4 DEF Entry
      <4>2. RootEntry(o, mem) /\ Known(o)
        BY <1>1, <3>4 DEF Calls
      <4> QED BY <3>4, <4>1, <4>2 DEF RootEntry, Calls
    <3>5. CASE Accept(o) /\ journal'[o] = Fresh("Accepted")
      <4>1. journal[o] = Fresh("none") /\ cur = Nobody
        BY <1>1, <3>5 DEF Accept, Known
      <4>2. journal[o].status["CompilePublication"] = "Pending"
        BY <4>1, NoFacts DEF Fresh
      <4>3. ~Once(o)
        BY <1>1, <4>2 DEF RootEntry
      <4>4. /\ w.state = "Accepted" /\ ~w.receipt
            /\ w.status["CompilePublication"] = "Pending"
        BY <3>5, NoFacts DEF Fresh
      <4>5. o # cur
        BY <4>1, PlanAssumption
      <4> QED BY <4>3, <4>4, <4>5 DEF RootEntry
    <3> QED BY <3>1, <3>2, <3>3, <3>4, <3>5, JournalMoves
  <2> HIDE DEF w
  <2>2. /\ Once(o)' => w.status["CompilePublication"] \notin {"Pending", "Started"}
        /\ w.receipt => /\ w.state \in {"Activate", "NeedsAttention", "Succeeded"}
                        /\ w.status["CompilePublication"] = "Applied"
                        /\ "publication" \in w.recorded /\ w.decision # "Abort"
                        /\ active' # before'[o]["publication"] /\ prepared' # o
        /\ w.status["CompilePublication"] = "Compensated" => o \notin {active', prepared', target'}
        /\ w.state = "RolledBack" => w.status["CompilePublication"] = "Compensated"
    BY <2>1, RootKept
  <2> QED BY <2>2 DEF w
<1>4. ASSUME NEW o \in Operations, ~Known(o)' PROVE journal'[o] = Fresh("none")
  <2>1. ~Known(o) /\ journal[o] = Fresh("none")
    BY <1>1, <1>4, KnownGrows
  <2>2. journal'[o] = journal[o]
    <3> SUFFICES ASSUME journal'[o] # journal[o] PROVE FALSE
      OBVIOUS
    <3>1. o = cur \/ journal'[o] = Fresh("Accepted")
      BY JournalMoves
    <3>2. CASE o = cur
      BY <1>1, <2>1, <3>2, PlanAssumption
    <3>3. CASE journal'[o] = Fresh("Accepted")
      BY <1>4, <3>3 DEF Known, Fresh
    <3> QED BY <3>1, <3>2, <3>3
  <2> QED BY <2>1, <2>2
<1>5. ASSUME cur' # Nobody
      PROVE  /\ cur' \in Operations
             /\ journal'[cur'].receipt => mem'.receipt
             /\ \/ mem' = journal'[cur']
                \/ /\ cur' = cur /\ RootEntry(cur, mem') /\ Known(cur)
                   /\ Call \in {"stage", "install", "mark"} =>
                        /\ mem'.receipt = mem.receipt
                        /\ mem'.status["CompilePublication"] = mem.status["CompilePublication"]
  <2>1. CASE cur' = cur
    BY <1>1, <1>5, <2>1, CopyMoves
  <2>2. CASE cur' # cur
    <3>1. Takes
      BY <1>5, <2>2, HandlerMoves
    <3> QED BY <3>1 DEF Takes
  <2> QED BY <2>1, <2>2
<1>6. ASSUME cur' # Nobody PROVE RootEntry(cur, mem)'
  <2>1. CASE mem' = journal'[cur']
    BY <1>3, <1>5, <1>6, <2>1 DEF RootEntry, Once, Known
  <2>2. CASE /\ cur' = cur /\ RootEntry(cur, mem') /\ Known(cur)
             /\ Call \in {"stage", "install", "mark"} =>
                  /\ mem'.receipt = mem.receipt
                  /\ mem'.status["CompilePublication"] = mem.status["CompilePublication"]
    <3>1. ASSUME NEW o \in Operations, o = cur
          PROVE  /\ Once(o)' => mem'.status["CompilePublication"] \notin {"Pending", "Started"}
                 /\ mem'.receipt =>
                      /\ mem'.state \in {"Activate", "NeedsAttention", "Succeeded"}
                      /\ mem'.status["CompilePublication"] = "Applied"
                      /\ "publication" \in mem'.recorded /\ mem'.decision # "Abort"
                      /\ active' # before'[o]["publication"] /\ prepared' # o
                 /\ mem'.status["CompilePublication"] = "Compensated"
                      => o \notin {active', prepared', target'}
                 /\ mem'.state = "RolledBack"
                      => mem'.status["CompilePublication"] = "Compensated"
      <4> DEFINE w == mem'
      <4>1. /\ RootEntry(o, w) /\ (w.receipt => Known(o))
            /\ o = cur /\ Call \in {"stage", "install", "mark"} =>
                 /\ w.receipt = mem.receipt
                 /\ w.status["CompilePublication"] = mem.status["CompilePublication"]
        BY <2>2, <3>1
      <4> HIDE DEF w
      <4>2. /\ Once(o)' => w.status["CompilePublication"] \notin {"Pending", "Started"}
            /\ w.receipt => /\ w.state \in {"Activate", "NeedsAttention", "Succeeded"}
                            /\ w.status["CompilePublication"] = "Applied"
                            /\ "publication" \in w.recorded /\ w.decision # "Abort"
                            /\ active' # before'[o]["publication"] /\ prepared' # o
            /\ w.status["CompilePublication"] = "Compensated" => o \notin {active', prepared', target'}
            /\ w.state = "RolledBack" => w.status["CompilePublication"] = "Compensated"
        BY <4>1, RootKept
      <4> QED BY <4>2 DEF w
    <3>2. cur' \in Operations /\ cur' = cur
      BY <1>5, <1>6, <2>2
    <3> QED BY <3>1, <3>2 DEF RootEntry, Once, Known
  <2> QED BY <1>5, <1>6, <2>1, <2>2
<1>7. \A o \in Operations : RootEntry(o, journal[o])'
  BY <1>3 DEF RootEntry
<1>8. cur' # Nobody => (journal'[cur'].receipt => mem'.receipt)
  BY <1>5
<1> QED BY <1>4, <1>6, <1>7, <1>8 DEF EntriesInv

\* What a handler that parks its tail holds.
LEMMA ParkFacts ==
  ASSUME TypeOK, Rest, Held, Calls("park")
  PROVE  /\ cur \in Operations /\ cur # Nobody /\ mem.state = "Activate" /\ mem.receipt
         /\ journal[cur].state = "Activate" /\ prepared # cur
<1>1. cur # Nobody /\ Call = "park"
  BY DEF Calls
<1>2. cur \in Operations /\ <<Call, On>> \in Ahead /\ RootEntry(cur, mem)
  BY <1>1, FirstCall, EntryFacts
<1>3. journal[cur].state = "Activate" /\ mem.state = "Activate" /\ mem.receipt
  BY <1>1, <1>2 DEF Held, Path, WayInv, ParkInv
<1> QED BY <1>1, <1>2, <1>3 DEF RootEntry

\* What a handler that is refused its rollback holds.
LEMMA RefusedFacts ==
  ASSUME TypeOK, Rest, Held, Calls("abort"), claim # cur
  PROVE  cur \in Operations /\ mem.receipt /\ journal[cur].state = "Activate" /\ journal[cur].receipt
<1>1. cur # Nobody /\ Call = "abort" /\ cur \in Operations /\ <<Call, On>> \in Ahead
      /\ On = "publication"
  BY FirstCall, OnFacts DEF Calls, Rest, HandlerInv
<1>2. AbortCall \in Ahead /\ Backwards
  BY <1>1 DEF AbortCall, Backwards, BackNames
<1>3. journal[cur].state \in Working \cup {"RollingBack"}
  BY <1>1, <1>2 DEF Held, Path, WayInv, BackInv
<1>4. journal[cur].state = "Activate" /\ journal[cur].receipt
  BY <1>1, <1>3 DEF Held, Roots, ClaimInv
<1> QED BY <1>1, <1>4 DEF Held, Roots, EntriesInv

LEMMA ClaimNext ==
  ASSUME TypeOK, Rest, Held, Rest', Forms
  PROVE  ClaimInv'
<1> DEFINE Needs(m) ==
      \/ m.state \in (Working \ {"Activate"}) \cup {"RollingBack"}
      \/ m.state \in {"Activate", "NeedsAttention"} /\ ~m.receipt
<1>1. /\ journal \in [Operations -> Entry] /\ mem \in Entry
      /\ \A o \in Operations : Needs(journal[o]) => claim = o
      /\ Nobody \notin Operations
  BY PlanAssumption DEF TypeOK, Held, Roots, ClaimInv
<1>2. SUFFICES ASSUME NEW o \in Operations, Needs(journal'[o]) PROVE claim' = o
  BY DEF ClaimInv
<1>3. ~(journal'[o] = journal[o] /\ claim' # o /\ (claim' = claim \/ claim \in {cur, Nobody} \ {o}))
  BY <1>1, <1>2
<1>4. CASE Idles \/ Takes \/ Decides
  BY <1>3, <1>4 DEF Idles, Takes, Decides
<1>5. CASE Leaves
  <2>1. CASE UNCHANGED <<journal, claim>>
    BY <1>3, <2>1
  <2>2. CASE /\ Calls("park") /\ claim \in {cur, Nobody}
             /\ journal' = [journal EXCEPT ![cur] = mem] /\ claim' = Nobody
    <3>1. cur \in Operations /\ mem.state = "Activate" /\ mem.receipt
      BY <2>2, ParkFacts
    <3>2. journal'[o] = IF o = cur THEN mem ELSE journal[o]
      BY <1>1, <2>2
    <3>3. CASE o = cur
      BY <1>2, <3>1, <3>2, <3>3, StepFacts DEF Working
    <3>4. CASE o # cur
      BY <1>1, <1>3, <2>2, <3>2, <3>4
    <3> QED BY <3>3, <3>4
  <2>3. CASE /\ Calls("abort") /\ claim' = claim
             /\ journal' = [journal EXCEPT ![cur] = [mem EXCEPT !.state = "NeedsAttention"]]
    <3>1. journal'[o] = IF o = cur THEN [mem EXCEPT !.state = "NeedsAttention"] ELSE journal[o]
      BY <1>1, <2>3
    <3>2. CASE o = cur
      <4>1. journal'[o].state = "NeedsAttention" /\ journal'[o].receipt = mem.receipt
        BY <1>1, <3>1, <3>2 DEF Entry
      <4>2. ~mem.receipt
        BY <1>2, <4>1, StepFacts DEF Working
      <4> QED BY <2>3, <3>2, <4>2, RefusedFacts
    <3>3. CASE o # cur
      BY <1>3, <2>3, <3>1, <3>3
    <3> QED BY <3>2, <3>3
  <2> QED BY <1>5, <2>1, <2>2, <2>3 DEF Leaves
<1>6. CASE Goes
  <2>1. /\ claim' = claim /\ mem' = journal'[cur] /\ Shape(mem') /\ mem'.state \in Working
        /\ o # cur => journal'[o] = journal[o]
        /\ mem.receipt => mem'.receipt
        /\ cur \in Operations /\ Call \in ForwardNames \ {"resume"}
    BY <1>6, GoesFacts
  <2>2. CASE o # cur
    BY <1>3, <2>1, <2>2
  <2>3. CASE o = cur /\ claim # cur
    <3>1. mem.receipt
      BY <1>1, <2>1, <2>3, RunClaim
    <3>2. mem'.receipt /\ mem'.state = "Activate"
      BY <2>1, <3>1 DEF Shape
    <3> QED BY <1>2, <2>1, <2>3, <3>2, StepFacts DEF Working
  <2> QED BY <2>1, <2>2, <2>3
<1>7. CASE Reclaims
  <2>1. claim \in {cur, Nobody} /\ claim' = cur /\ journal' = journal
    BY <1>7 DEF Reclaims
  <2>2. claim = o => o = cur
    BY <1>1, <2>1
  <2> QED BY <1>3, <2>1, <2>2
<1>8. CASE Finishes
  <2>1. /\ claim = cur /\ claim' = Nobody /\ mem' = [mem EXCEPT !.state = "Succeeded"]
        /\ journal' = [journal EXCEPT ![cur] = mem']
    BY <1>8, FinishesFacts
  <2>2. o = cur => journal'[o].state = "Succeeded"
    BY <1>1, <2>1 DEF Entry
  <2>3. o # cur => journal'[o] = journal[o]
    BY <1>1, <2>1
  <2> QED BY <1>1, <1>2, <1>3, <2>1, <2>2, <2>3, StepFacts DEF Working
<1>9. CASE Undoes
  <2>1. claim' = claim /\ claim = cur
    BY <1>9, UndoesFacts, UndoClaim
  <2>2. o # cur => journal'[o] = journal[o]
    BY <1>1, <1>9, UndoesFacts
  <2> QED BY <1>3, <2>1, <2>2
<1>10. CASE Closes
  <2>1. /\ claim = cur /\ journal' = [journal EXCEPT ![cur] = mem']
        /\ \/ claim' = claim
           \/ claim' = Nobody /\ mem' = [mem EXCEPT !.state = "RolledBack"]
    BY <1>10, ClosesFacts, UndoClaim
  <2>2. o # cur => journal'[o] = journal[o]
    BY <1>1, <2>1
  <2>3. o = cur /\ claim' # claim => journal'[o].state = "RolledBack"
    BY <1>1, <2>1 DEF Entry
  <2> QED BY <1>1, <1>2, <1>3, <2>1, <2>2, <2>3, StepFacts DEF Working
<1>11. ASSUME NEW m \in {mem, Written(Call, On), Written("record", On)}, Fails(m)
       PROVE  claim' = o
  <2>1. /\ claim' = claim /\ cur \in Operations /\ (mem.receipt => m.receipt)
        /\ m.receipt => m.state = "Activate"
        /\ journal' = journal \/ journal' = [journal EXCEPT ![cur] = m]
    BY <1>11, FailsFacts
  <2>2. Call \in ForwardNames \ {"resume"}
    BY <1>11, NameFacts DEF Fails
  <2>3. CASE journal'[o] = journal[o]
    BY <1>3, <2>1, <2>3
  <2>4. CASE o = cur /\ journal'[o] = m /\ claim # cur
    <3>1. m.receipt /\ m.state = "Activate"
      BY <1>1, <2>1, <2>2, <2>4, RunClaim
    <3> QED BY <1>2, <2>4, <3>1, StepFacts DEF Working
  <2> QED BY <1>1, <2>1, <2>3, <2>4
<1>12. ASSUME NEW p \in Operations, Accept(p)
       PROVE  claim' = o
  <2>1. claim = Nobody /\ claim' = p /\ journal' = [journal EXCEPT ![p] = Fresh("Accepted")]
    BY <1>12 DEF Accept
  <2>2. o # p => journal'[o] = journal[o]
    BY <1>1, <2>1
  <2> QED BY <1>1, <1>3, <2>1, <2>2
<1> QED BY <1>4, <1>5, <1>6, <1>7, <1>8, <1>9, <1>10, <1>11, <1>12 DEF Forms, Handles

LEMMA HolderNext ==
  ASSUME TypeOK, Rest, Held, Rest', Forms
  PROVE  HolderInv'
<1> DEFINE Under == Working \cup {"RollingBack", "NeedsAttention"}
<1>1. /\ journal \in [Operations -> Entry] /\ mem \in Entry
      /\ claim \in Operations \cup {Nobody}
      /\ claim # Nobody => journal[claim].state \in Under
      /\ Nobody \notin Operations
  BY PlanAssumption DEF TypeOK, Held, Roots, HolderInv
<1> SUFFICES ASSUME claim' # Nobody PROVE journal'[claim'].state \in Under
  BY DEF HolderInv
<1>2. CASE claim' = claim /\ journal'[claim] = journal[claim]
  BY <1>1, <1>2
<1>3. CASE Idles \/ Takes \/ Decides
  BY <1>2, <1>3 DEF Idles, Takes, Decides
<1>4. CASE Leaves
  <2>1. CASE Calls("abort") /\ claim' = claim
             /\ journal' = [journal EXCEPT ![cur] = [mem EXCEPT !.state = "NeedsAttention"]]
    <3>1. claim # cur => journal'[claim] = journal[claim]
      BY <1>1, <2>1
    <3>2. claim = cur => journal'[cur].state = "NeedsAttention"
      BY <1>1, <2>1 DEF Entry
    <3> QED BY <1>2, <2>1, <3>1, <3>2
  <2> QED BY <1>2, <1>4, <2>1 DEF Leaves
<1>5. CASE Goes
  <2>1. /\ claim' = claim /\ mem' = journal'[cur] /\ mem'.state \in Working
        /\ \A o \in Operations : o # cur => journal'[o] = journal[o]
    BY <1>5, GoesFacts
  <2> QED BY <1>1, <1>2, <2>1
<1>6. CASE Reclaims
  <2>1. cur # Nobody /\ Call = "reclaim" /\ claim' = cur /\ journal' = journal
    BY <1>6 DEF Reclaims, Calls
  <2>2. mem = journal[cur] /\ mem.state \in Working
    BY <2>1, ForwardFacts DEF ForwardNames
  <2> QED BY <2>1, <2>2
<1>7. CASE Finishes
  BY <1>7 DEF Finishes
<1>8. CASE Undoes
  <2>1. /\ cur \in Operations /\ claim' = claim /\ claim = cur /\ cur # Nobody
        /\ mem'.state = IF Call = "rollback" THEN "RollingBack" ELSE mem.state
        /\ journal' = [journal EXCEPT ![cur] = mem'] \/ journal' = journal
        /\ Backwards
    BY <1>8, UndoesFacts, UndoClaim
  <2>2. mem.state \in Under
    BY <2>1 DEF Held, Path, WayInv, BackInv
  <2> QED BY <1>1, <2>1, <2>2
<1>9. CASE Closes
  <2>1. /\ cur \in Operations /\ claim = cur /\ journal' = [journal EXCEPT ![cur] = mem']
        /\ claim' = claim /\ mem' = [mem EXCEPT !.state = "NeedsAttention"]
    BY <1>9, ClosesFacts, UndoClaim
  <2> QED BY <1>1, <2>1 DEF Entry
<1>10. ASSUME NEW m \in {mem, Written(Call, On), Written("record", On)}, Fails(m)
       PROVE  journal'[claim'].state \in Under
  <2>1. /\ claim' = claim /\ cur \in Operations /\ m.state \in Working
        /\ journal' = journal \/ journal' = [journal EXCEPT ![cur] = m]
    BY <1>10, FailsFacts
  <2> QED BY <1>1, <2>1
<1>11. ASSUME NEW p \in Operations, Accept(p)
       PROVE  journal'[claim'].state \in Under
  <2>1. claim' = p /\ journal' = [journal EXCEPT ![p] = Fresh("Accepted")]
    BY <1>11 DEF Accept
  <2> QED BY <1>1, <2>1 DEF Fresh, Working
<1> QED BY <1>3, <1>4, <1>5, <1>6, <1>7, <1>8, <1>9, <1>10, <1>11 DEF Forms, Handles

\* The claim is given back by who holds it, without a prepared record, or taken
\* when nobody holds it.
LEMMA ClaimMoves ==
  ASSUME TypeOK, Rest, Held, Rest', Forms, claim' # claim
  PROVE  (claim = cur /\ claim' = Nobody /\ prepared # cur) \/ claim = Nobody
<1>1. CASE Leaves
  <2>1. Calls("park") /\ claim \in {cur, Nobody} /\ claim' = Nobody
    BY <1>1 DEF Leaves
  <2> QED BY <2>1, ParkFacts
<1>2. CASE Reclaims
  BY <1>2 DEF Reclaims
<1>3. CASE Finishes
  <2>1. claim = cur /\ claim' = Nobody /\ Call = "finish" /\ cur # Nobody
    BY <1>3 DEF Finishes, Calls
  <2>2. <<"finish", "Succeeded">> \in Ahead /\ On = "Succeeded" /\ cur \in Operations
    BY <2>1, FirstCall, OnFacts DEF Rest, HandlerInv
  <2>3. Rank(cur, <<Call, On>>) = 151 /\ Rank(cur, <<"verify", "Succeeded">>) = 150
    BY <2>1, <2>2, CallRanks
  <2>4. <<"verify", "Succeeded">> \notin Ahead
    BY <2>1, <2>3, Before
  <2>5. "publication" \in Plan[cur] => active = cur
    BY <2>1, <2>2, <2>4 DEF Rest, HandlerInv, VerifiedInv
  <2>6. prepared # cur
    BY <2>1, <2>2, <2>5, EntryFacts DEF Once
  <2> QED BY <2>1, <2>6
<1>4. CASE Closes
  <2>1. /\ cur \in Operations /\ RollbackProven /\ claim = cur /\ claim' = Nobody
    BY <1>4, ClosesFacts
  <2>2. mem.status["CompilePublication"] = "Compensated" /\ RootEntry(cur, mem)
    BY <1>4, <2>1, EntryFacts, StepFacts DEF RollbackProven, Closes, Calls
  <2> QED BY <2>1, <2>2 DEF RootEntry
<1>5. CASE \E o \in Operations : Accept(o)
  BY <1>5 DEF Accept
<1>6. CASE cur # Nobody /\ \E m \in {mem, Written(Call, On), Written("record", On)} : Fails(m)
  BY <1>6 DEF Fails
<1>7. CASE Idles \/ Takes \/ Decides \/ Goes \/ Undoes
  BY <1>7 DEF Idles, Takes, Decides, Goes, Undoes
<1> QED BY <1>1, <1>2, <1>3, <1>4, <1>5, <1>6, <1>7 DEF Forms, Handles

\* The prepared record stays with who holds the claim.
LEMMA PreparedStays ==
  ASSUME TypeOK, Rest, Held, Rest', Forms, NEW o \in Operations, prepared = o, active' = active
  PROVE  claim' = o /\ "publication" \in Plan[o] /\ ~Once(o)'
<1>1. prepared # Nobody
  BY PlanAssumption
<1>2. claim = o /\ "publication" \in Plan[o] /\ ~Once(o)
  BY <1>1, EntryFacts
<1>3. claim' = o
  BY <1>1, <1>2, ClaimMoves
<1>4. ~Once(o)'
  BY <1>2, OnceGrows
<1> QED BY <1>2, <1>3, <1>4

LEMMA RootNext ==
  ASSUME TypeOK, Rest, Held, Rest', Forms
  PROVE  RootInv'
<1>1. /\ prepared # Nobody => prepared \in Operations
      /\ target = active \/ (target = prepared /\ prepared # Nobody)
  BY DEF TypeOK, Held, Roots, RootInv
<1>2. ASSUME UNCHANGED <<active, prepared>>,
             target' = active \/ target' = target \/ (target' = prepared /\ prepared # Nobody)
      PROVE  RootInv'
  <2>1. CASE prepared = Nobody
    BY <1>1, <1>2, <2>1 DEF RootInv
  <2>2. ASSUME NEW o \in Operations, prepared = o PROVE RootInv'
    <3>1. claim' = o /\ "publication" \in Plan[o] /\ ~Once(o)'
      BY <1>2, <2>2, PreparedStays
    <3>2. prepared' = o
      BY <1>2, <2>2
    <3>3. ~Once(prepared)'
      BY <3>1, <3>2 DEF Once
    <3> QED BY <1>1, <1>2, <3>1, <3>2, <3>3 DEF RootInv
  <2> QED BY <1>1, <2>1, <2>2
<1>3. CASE UNCHANGED <<active, prepared, target>>
  BY <1>2, <1>3
<1>4. CASE cur' = Nobody /\ target' = active /\ UNCHANGED <<active, prepared, journal, before>>
  BY <1>2, <1>4
<1>5. CASE /\ Calls("stage") /\ On = "publication" /\ Seen(On) = "Missing" /\ prepared = Nobody
           /\ prepared' = cur /\ UNCHANGED <<active, target, journal, before, claim, mem, cur>>
  <2>1. cur \in Operations /\ claim = cur /\ ~Once(cur) /\ "publication" \in Plan[cur]
    BY <1>5, StagingFacts
  <2>2. ~Once(cur)'
    BY <2>1, <1>5 DEF Once, Known
  <2>3. ~Once(prepared)'
    BY <2>2, <1>5 DEF Once
  <2> QED BY <1>1, <1>5, <2>1, <2>3 DEF RootInv
<1>6. CASE /\ Calls("install") /\ IsCurrent /\ cur \in {active, prepared}
           /\ target' \in {target, cur}
           /\ UNCHANGED <<active, prepared, journal, before, claim, mem, cur>>
  BY <1>2, <1>6 DEF Calls
<1>7. CASE /\ Calls("mark") /\ active # cur /\ prepared = cur
           /\ active' = cur /\ prepared' = Nobody
           /\ UNCHANGED <<target, journal, before, claim, mem, cur>>
  <2>1. cur # Nobody /\ cur \in Operations /\ <<Call, On>> = MarkCall /\ MarkCall \in Ahead
    BY <1>7, LateFacts, FirstCall DEF Calls, MarkCall
  <2>2. Rank(cur, <<Call, On>>) = 134 /\ Rank(cur, <<"install", "publication">>) = 133
    BY <2>1, CallRanks DEF MarkCall
  <2>3. <<"install", "publication">> \notin Ahead
    BY <2>1, <2>2, Before
  <2>4. target = cur
    BY <2>1, <2>3 DEF Held, Roots, SealInv
  <2> QED BY <1>7, <2>4 DEF RootInv
<1>8. CASE /\ Calls("compensate") /\ On = "publication" /\ prepared = cur
           /\ prepared' = Nobody /\ UNCHANGED <<active, target, journal, before, claim, mem, cur>>
  <2>1. cur # Nobody /\ <<Call, On>> \in Ahead /\ AbortCall \notin Ahead /\ Call = "compensate"
    BY <1>8, FirstCall, RollingPassed DEF Calls
  <2>2. cur \notin {active, target}
    BY <2>1 DEF Rest, HandlerInv, RollbackInv, AbortCall
  <2> QED BY <1>1, <1>8, <2>2 DEF RootInv
<1> QED BY <1>3, <1>4, <1>5, <1>6, <1>7, <1>8 DEF Forms, Publishes

\* A handler at work publishes nothing but its own record.
LEMMA ServedMoves ==
  ASSUME Forms, cur' = cur, cur # Nobody
  PROVE  /\ active' \in {active, cur} /\ target' \in {target, cur}
         /\ active' # active => Call = "mark"
         /\ target' # target => Call = "install"
         /\ prepared' \in {prepared, cur, Nobody}
         /\ prepared' = cur /\ prepared # cur => Call = "stage"
BY DEF Forms, Publishes, Calls

InstallCall == <<"install", "publication">>
GrantCall   == <<"activate", "grant">>

LEMMA SealQuiet ==
  ASSUME Ahead' \cap {InstallCall, MarkCall, SealCall, GrantCall} = {}
  PROVE  SealInv'
BY DEF SealInv, InstallCall, MarkCall, SealCall, GrantCall

LEMMA QuietNames ==
  ASSUME NEW A, \/ \A c \in A : c[1] \in BackNames
                \/ \A c \in A : c[1] \in Single
                \/ \A c \in A : c[1] \in {"resume", "park", "enter"}
                \/ A \subseteq TailSet \cup FinishSet
  PROVE  A \cap {InstallCall, MarkCall, SealCall, GrantCall} = {}
<1>1. \A c \in {InstallCall, MarkCall, SealCall, GrantCall} : c[1] \notin BackNames \cup Single
                                                   /\ c[1] \notin {"resume", "park", "enter"}
  BY DEF InstallCall, MarkCall, SealCall, GrantCall, BackNames, Single
<1>2. {InstallCall, MarkCall, SealCall, GrantCall} \cap (TailSet \cup FinishSet) = {}
  BY DEF InstallCall, MarkCall, SealCall, GrantCall, TailSet, FinishSet
<1> QED BY <1>1, <1>2

LEMMA SealGone ==
  ASSUME TypeOK, Rest, Held, Goes, Forms
  PROVE  SealInv'
<1>1. /\ cur' = cur /\ cur # Nobody
      /\ Ahead' = Later \/ (Call = "checkpoint" /\ Ahead' = InstallCalls \cup Later)
      /\ Call = "checkpoint" /\ Ahead' = Later => active = cur
      /\ Call = "install" => target' = cur
      /\ Call = "mark" => active' = cur
  BY DEF Goes
<1>2. active' \in {active, cur} /\ target' \in {target, cur}
  BY <1>1, ServedMoves
<1>3. /\ InstallCall \in Ahead => MarkCall \in Ahead
      /\ MarkCall \in Ahead /\ InstallCall \notin Ahead => target = cur
      /\ Ahead \cap PublishCalls = {} =>
           /\ SealCall \in Ahead => active = cur
           /\ GrantCall \in Ahead /\ cur \in Revokes /\ "publication" \in Plan[cur] => active = cur
  BY <1>1 DEF Held, Roots, SealInv, InstallCall, GrantCall
<1>4. <<Call, On>> = MarkCall => InstallCall \notin Ahead
  <2>1. cur \in Operations
    BY <1>1, FirstCall
  <2>2. Rank(cur, MarkCall) = 134 /\ Rank(cur, InstallCall) = 133
    BY <2>1, CallRanks DEF MarkCall, InstallCall
  <2>3. ASSUME <<Call, On>> = MarkCall PROVE Rank(cur, <<Call, On>>) = 134
    BY <2>2, <2>3
  <2> QED BY <1>1, <2>2, <2>3, Before
<1>5. /\ <<Call, On>> = InstallCall => Call = "install"
      /\ <<Call, On>> = MarkCall => Call = "mark"
      /\ <<Call, On>> = CheckpointCall => Call = "checkpoint"
      /\ InstallCall # MarkCall
      /\ PublishCalls = {InstallCall, MarkCall, CheckpointCall}
      /\ InstallCalls = {InstallCall, MarkCall}
  BY DEF InstallCall, MarkCall, CheckpointCall, InstallCalls, PublishCalls
<1>6. CASE Ahead' = InstallCalls \cup Later
  <2>1. InstallCall \in Ahead' /\ MarkCall \in Ahead' /\ Ahead' \cap PublishCalls # {}
    BY <1>5, <1>6
  <2> QED BY <2>1 DEF SealInv, InstallCall
<1>7. CASE Ahead' = Later
  <2>1. InstallCall \in Ahead' => MarkCall \in Ahead'
    BY <1>3, <1>4, <1>7 DEF Later
  <2>2. MarkCall \in Ahead' /\ InstallCall \notin Ahead' => target' = cur'
    BY <1>1, <1>2, <1>3, <1>5, <1>7 DEF Later
  <2>3. ASSUME Ahead' \cap PublishCalls = {}, Ahead \cap PublishCalls # {}
        PROVE  active' = cur'
    <3>1. <<Call, On>> \in PublishCalls
      BY <1>7, <2>3 DEF Later
    <3>2. CASE <<Call, On>> = CheckpointCall
      BY <1>1, <1>2, <1>5, <1>7, <3>2
    <3>3. CASE <<Call, On>> = MarkCall
      BY <1>1, <1>5, <3>3
    <3>4. CASE <<Call, On>> = InstallCall
      <4>1. InstallCall \in Ahead
        BY <1>1, <3>4, FirstCall
      <4>2. MarkCall \in Ahead'
        BY <1>3, <1>5, <1>7, <3>4, <4>1 DEF Later
      <4> QED BY <1>5, <2>3, <4>2
    <3> QED BY <1>5, <3>1, <3>2, <3>3, <3>4
  <2>4. Ahead' \subseteq Ahead
    BY <1>7 DEF Later
  <2> HIDE DEF Ahead, PublishCalls, InstallCall, MarkCall, SealCall, GrantCall
  <2>5. Ahead' \cap PublishCalls = {} =>
          /\ SealCall \in Ahead' => active' = cur'
          /\ GrantCall \in Ahead' /\ cur' \in Revokes /\ "publication" \in Plan[cur'] => active' = cur'
    BY <1>1, <1>2, <1>3, <2>3, <2>4
  <2> QED BY <2>1, <2>2, <2>5 DEF SealInv, InstallCall, GrantCall
<1> QED BY <1>1, <1>6, <1>7

LEMMA SealNext ==
  ASSUME TypeOK, Rest, Held, Rest', Forms
  PROVE  SealInv'
<1>0. SUFFICES ASSUME cur' # Nobody PROVE SealInv'
  BY DEF SealInv
<1>1. CASE Idles
  <2>1. cur' = cur /\ todo' = todo /\ cur # Nobody
    BY <1>0, <1>1 DEF Idles, handler
  <2>2. active' \in {active, cur} /\ target' \in {target, cur}
    BY <2>1, ServedMoves
  <2>3. Ahead' = Ahead
    BY <2>1 DEF Ahead
  <2>4. SealInv
    BY DEF Held, Roots
  <2> QED BY <2>1, <2>2, <2>3, <2>4 DEF SealInv
<1>2. CASE Takes
  <2>1. PICK how \in {"run", "startup"} : todo' = <<<<"enter", how>>>>
    BY <1>2 DEF Takes
  <2>2. \A c \in Ahead' : c[1] \in {"resume", "park", "enter"}
    BY <2>1 DEF Ahead, Range
  <2> QED BY <2>2, QuietNames, SealQuiet
<1>3. CASE Leaves \/ \E o \in Operations : Accept(o)
  BY <1>0, <1>3 DEF Leaves, Accept, handler
<1>4. CASE Decides
  <2>1. cur \in Operations /\ cur' = cur
    BY <1>4, DecidesFacts
  <2>2. \/ Ahead' = ClosingSet \/ Ahead' = RollbackSet(cur, mem) \/ Ahead' = {ParkCall}
        \/ Ahead' = ForwardSet(cur, mem) \/ Ahead' = TailSet \cup FinishSet
    BY <1>4, DecidesFacts
  <2>3. CASE Ahead' = ForwardSet(cur, mem)
    <3>1. /\ Ahead' \cap InstallCalls = {}
          /\ CheckpointCall \in Ahead' <=> "publication" \in Plan[cur]
          /\ SealCall \in Ahead' <=> "file" \in Plan[cur]
          /\ "file" \in Plan[cur] => "publication" \in Plan[cur]
      BY <2>1, <2>3, ForwardSetFacts, PlanFacts DEF SealCall
    <3> QED BY <2>1, <3>1 DEF SealInv, PublishCalls, InstallCalls, MarkCall
  <2>4. CASE Ahead' = ClosingSet
    BY <2>4, ListWays, QuietNames, SealQuiet
  <2>5. CASE Ahead' = RollbackSet(cur, mem)
    BY <2>1, <2>5, RollbackSetFacts, QuietNames, SealQuiet
  <2>6. CASE Ahead' = {ParkCall}
    BY <2>6, ListWays, QuietNames, SealQuiet
  <2>7. CASE Ahead' = TailSet \cup FinishSet
    BY <2>7, QuietNames, SealQuiet
  <2> QED BY <2>2, <2>3, <2>4, <2>5, <2>6, <2>7
<1>5. ASSUME NEW m \in {mem, Written(Call, On), Written("record", On)}, Fails(m)
      PROVE  SealInv'
  <2>1. cur \in Operations /\ (Ahead' = {ParkCall} \/ Ahead' = RollbackSet(cur, m))
    BY <1>5, FailsFacts
  <2>2. CASE Ahead' = {ParkCall}
    BY <2>2, ListWays, QuietNames, SealQuiet
  <2>3. CASE Ahead' = RollbackSet(cur, m)
    BY <2>1, <2>3, RollbackSetFacts, QuietNames, SealQuiet
  <2> QED BY <2>1, <2>2, <2>3
<1>6. CASE Goes
  BY <1>6, SealGone
<1>7. CASE Reclaims
  <2>1. cur' = cur /\ cur # Nobody /\ Ahead' = Later /\ Call = "reclaim"
    BY <1>7 DEF Reclaims, Calls
  <2>2. active' = active /\ target' = target
    BY <2>1, ServedMoves
  <2>3. \A c \in {InstallCall, MarkCall, SealCall, GrantCall, CheckpointCall} : c # <<Call, On>>
    BY <2>1 DEF InstallCall, MarkCall, SealCall, GrantCall, CheckpointCall
  <2>4. \A c \in {InstallCall, MarkCall, SealCall, GrantCall, CheckpointCall} : c \in Ahead' <=> c \in Ahead
    BY <2>1, <2>3 DEF Later
  <2>5. PublishCalls = {InstallCall, MarkCall, CheckpointCall}
    BY DEF InstallCall, MarkCall, InstallCalls, PublishCalls
  <2>6. Ahead' \cap PublishCalls = {} => Ahead \cap PublishCalls = {}
    BY <2>4, <2>5
  <2>7. /\ InstallCall \in Ahead => MarkCall \in Ahead
        /\ MarkCall \in Ahead /\ InstallCall \notin Ahead => target = cur
        /\ Ahead \cap PublishCalls = {} =>
             /\ SealCall \in Ahead => active = cur
             /\ GrantCall \in Ahead /\ cur \in Revokes /\ "publication" \in Plan[cur] => active = cur
    BY <2>1 DEF Held, Roots, SealInv, InstallCall, GrantCall
  <2> HIDE DEF Ahead, PublishCalls, InstallCall, MarkCall, SealCall, GrantCall, CheckpointCall
  <2>8. /\ InstallCall \in Ahead' => MarkCall \in Ahead'
        /\ MarkCall \in Ahead' /\ InstallCall \notin Ahead' => target' = cur'
        /\ Ahead' \cap PublishCalls = {} =>
             /\ SealCall \in Ahead' => active' = cur'
             /\ GrantCall \in Ahead' /\ cur' \in Revokes /\ "publication" \in Plan[cur'] => active' = cur'
    BY <2>1, <2>2, <2>4, <2>6, <2>7
  <2> QED BY <2>8 DEF SealInv, InstallCall, GrantCall
<1>8. CASE Finishes \/ Closes
  <2>1. \A c \in Ahead' : c[1] = "resume"
    BY <1>8, FinishesFacts, ClosesFacts
  <2> QED BY <2>1, QuietNames, SealQuiet
<1>9. CASE Undoes
  <2>1. Call \in BackNames \ {"resume"} /\ cur # Nobody /\ Ahead' \subseteq Later
    BY <1>9, UndoesFacts, PlanAssumption DEF BackNames
  <2>2. \A c \in Ahead' : c[1] \in BackNames
    BY <2>1, FirstCall
  <2> QED BY <2>2, QuietNames, SealQuiet
<1> QED BY <1>1, <1>2, <1>3, <1>4, <1>5, <1>6, <1>7, <1>8, <1>9 DEF Forms, Handles

\* Who enters without the claim works on a sealed tail.
LEMMA EnterClaim ==
  ASSUME TypeOK, Rest, Held, Decides, claim # cur, Call = "enter"
  PROVE  /\ Sealed(mem)
         /\ Seen("publication") = "Applied" => claim = Nobody /\ active = cur
<1>1. cur # Nobody /\ cur \in Operations /\ mem = journal[cur] /\ RootEntry(cur, mem)
  BY DecidesFacts, EntryFacts, PlanAssumption
<1>2. \/ mem.state = "NeedsAttention" /\ RollbackProven
      \/ mem.state = "RollingBack"
      \/ mem.state \in Working /\ ~Sealed(mem)
      \/ Sealed(mem)
  BY DecidesFacts
<1>3. ~\/ mem.state \in (Working \ {"Activate"}) \cup {"RollingBack"}
       \/ mem.state \in {"Activate", "NeedsAttention"} /\ ~mem.receipt
  BY <1>1 DEF Held, Roots, ClaimInv
<1>4. RollbackProven => ~mem.receipt
  <2>1. RollbackProven => mem.status["CompilePublication"] = "Compensated"
    BY StepFacts DEF RollbackProven
  <2> QED BY <1>1, <2>1 DEF RootEntry
<1>5. Sealed(mem)
  BY <1>2, <1>3, <1>4 DEF Sealed, Working
<1>6. ASSUME Seen("publication") = "Applied" PROVE claim = Nobody /\ active = cur
  <2>1. active = cur
    BY <1>1, <1>6, SeenApplied DEF Kinds
  <2>2. IsCurrent
    BY <1>6, PublicationSeen
  <2> QED BY <1>5, <2>1, <2>2 DEF IsCurrent, Sealed, Terminal
<1> QED BY <1>5, <1>6

LEMMA LoneNext ==
  ASSUME TypeOK, Rest, Held, Rest', Forms
  PROVE  LoneInv'
<1> DEFINE Works == \E c \in Ahead' : c[1] \notin {"enter", "resume", "park"}
           Rests == \A c \in Ahead' : c[1] = "resume"
           Backs == \E c \in Ahead' : c[1] \in BackNames \ {"resume"}
<1>0. SUFFICES ASSUME cur' # Nobody, claim' # cur'
               PROVE  /\ Works => claim' = Nobody /\ active' = cur' /\ (Backs => AbortCall \in Ahead')
                      /\ Rests => claim' = Nobody
  BY DEF LoneInv, Backwards
<1>1. CASE Idles
  <2>1. cur' = cur /\ todo' = todo /\ cur # Nobody /\ claim' = claim
    BY <1>0, <1>1 DEF Idles, handler
  <2>2. active' \in {active, cur}
    BY <2>1, ServedMoves
  <2>3. Ahead' = Ahead
    BY <2>1 DEF Ahead
  <2>4. LoneInv
    BY DEF Held, Roots
  <2> QED BY <1>0, <2>1, <2>2, <2>3, <2>4 DEF LoneInv, Backwards
<1>2. CASE Takes
  <2>1. PICK how \in {"run", "startup"} : todo' = <<<<"enter", how>>>>
    BY <1>2 DEF Takes
  <2>2. Ahead' = {<<"enter", how>>}
    BY <2>1 DEF Ahead, Range
  <2>3. ~Works /\ ~Rests
    BY <2>2
  <2> QED BY <2>3
<1>3. CASE Leaves \/ \E o \in Operations : Accept(o)
  BY <1>0, <1>3 DEF Leaves, Accept, handler
<1>4. CASE Decides
  <2>1. /\ cur \in Operations /\ cur' = cur /\ claim' = claim /\ mem' = mem /\ cur # Nobody
        /\ RootEntry(cur, mem) /\ claim # cur
    BY <1>0, <1>4, DecidesFacts, EntryFacts, PlanAssumption
  <2>2. active' = active
    <3>1. Call \in {"enter", "verify"}
      BY <1>4 DEF Decides
    <3> QED BY <2>1, <3>1, ServedMoves
  <2>3. CASE Call = "verify" /\ Ahead' = RollbackSet(cur, mem)
    <3>1. claim = Nobody /\ active = cur /\ mem.receipt
      BY <2>1, <2>3, RunClaim DEF ForwardNames
    <3>2. "publication" \in mem.recorded
      BY <2>1, <3>1 DEF RootEntry
    <3>3. AbortCall \in Ahead'
      BY <2>1, <2>3, <3>2, RollbackSetFacts
    <3> QED BY <2>1, <2>2, <3>1, <3>3
  <2>4. CASE Call = "enter"
    <3>1. /\ Sealed(mem)
          /\ Seen("publication") = "Applied" => claim = Nobody /\ active = cur
      BY <1>4, <2>1, <2>4, EnterClaim
    <3>2. \/ Ahead' = {ParkCall}
          \/ Seen("publication") = "Applied"
             /\ (Ahead' = ForwardSet(cur, mem) \/ Ahead' = TailSet \cup FinishSet)
      BY <1>4, <2>4, <3>1, DecidesFacts DEF Sealed, Working
    <3>3. CASE Ahead' = {ParkCall}
      <4>1. ~Works /\ ~Rests
        BY <3>3, ListWays
      <4> QED BY <4>1
    <3>4. CASE Ahead' = ForwardSet(cur, mem) \/ Ahead' = TailSet \cup FinishSet
      <4>1. \A c \in Ahead' : c[1] \in ForwardNames
        BY <2>1, <3>4, ForwardSetFacts, ListWays
      <4>2. ~Backs
        BY <4>1, NameFacts
      <4>3. Ahead' # {ParkCall}
        BY <4>1, ListWays, NameFacts
      <4> QED BY <2>1, <2>2, <3>1, <3>2, <4>2, <4>3
    <3> QED BY <3>2, <3>3, <3>4
  <2>5. Call = "enter" \/ (Call = "verify" /\ Ahead' = RollbackSet(cur, mem))
    BY <1>4, DecidesFacts
  <2> QED BY <2>3, <2>4, <2>5
<1>5. ASSUME NEW m \in {mem, Written(Call, On), Written("record", On)}, Fails(m)
      PROVE  /\ Works => claim' = Nobody /\ active' = cur' /\ (Backs => AbortCall \in Ahead')
             /\ Rests => claim' = Nobody
  <2>1. /\ cur \in Operations /\ cur' = cur /\ claim' = claim /\ cur # Nobody /\ claim # cur
        /\ Ahead' = {ParkCall} \/ Ahead' = RollbackSet(cur, m)
        /\ mem.receipt => m.receipt
    BY <1>0, <1>5, FailsFacts, PlanAssumption
  <2>2. Call \in ForwardCalls /\ Call \in ForwardNames \ {"resume"}
    BY <1>5, NameFacts DEF Fails
  <2>3. claim = Nobody /\ active = cur /\ m.receipt
    BY <2>1, <2>2, RunClaim
  <2>4. active' = cur
    BY <2>1, <2>3, ServedMoves
  <2>5. RootEntry(cur, m)
    BY <2>1, <2>2, EntryFacts, RootRecorded, RootWritten
  <2>6. CASE Ahead' = {ParkCall}
    <3>1. ~Works /\ ~Rests
      BY <2>6, ListWays
    <3> QED BY <3>1
  <2>7. CASE Ahead' = RollbackSet(cur, m)
    <3>1. "publication" \in m.recorded
      BY <2>3, <2>5 DEF RootEntry
    <3>2. AbortCall \in Ahead'
      BY <2>1, <2>7, <3>1, RollbackSetFacts
    <3> QED BY <2>1, <2>3, <2>4, <3>2
  <2> QED BY <2>1, <2>6, <2>7
<1>6. CASE Goes
  <2>1. /\ cur \in Operations /\ cur' = cur /\ claim' = claim /\ cur # Nobody /\ claim # cur
        /\ Call \in ForwardNames \ {"resume"} /\ Ahead' \subseteq InstallCalls \cup Later
    BY <1>0, <1>6, GoesFacts, PlanAssumption
  <2>2. claim = Nobody /\ active = cur
    BY <2>1, RunClaim
  <2>3. active' = cur
    BY <2>1, <2>2, ServedMoves
  <2>4. \A c \in Later : c[1] \in ForwardNames
    BY <2>1, FirstCall
  <2>5. \A c \in InstallCalls : c[1] \in ForwardNames
    BY DEF InstallCalls, ForwardNames
  <2>6. ~Backs
    BY <2>1, <2>4, <2>5, NameFacts
  <2> QED BY <2>1, <2>2, <2>3, <2>6
<1>7. CASE Reclaims
  BY <1>0, <1>7 DEF Reclaims
<1>8. CASE Finishes
  <2>1. claim' = Nobody /\ \A c \in Ahead' : c[1] = "resume"
    BY <1>8, FinishesFacts
  <2> QED BY <2>1
<1>9. CASE Closes
  <2>1. /\ \A c \in Ahead' : c[1] = "resume"
        /\ claim' = Nobody \/ (claim' = claim /\ cur' = cur)
        /\ claim = cur
    BY <1>9, ClosesFacts, UndoClaim
  <2> QED BY <1>0, <2>1
<1>10. CASE Undoes
  BY <1>0, <1>10, UndoClaim, UndoesFacts
<1> QED BY <1>1, <1>2, <1>3, <1>4, <1>5, <1>6, <1>7, <1>8, <1>9, <1>10 DEF Forms, Handles

CompensatingCall == <<"compensating", "CompilePublication">>

\* Between the reconciliation of the publication and its compensation comes nothing.
LEMMA UndoGap ==
  ASSUME NEW o \in Operations, NEW c \in CallSet(o), c[1] \in BackNames, 331 < Rank(o, c)
  PROVE  334 <= Rank(o, c)
<1>1. \A k \in Plan[o] : /\ StepNo[StepOf[k]] \in 1..6 /\ PlaceOf[k] \in 1..2
                         /\ StepNo[StepOf[k]] = 4 => PlaceOf[k] = 1
  <2>1. \A k \in Kinds : StepNo[StepOf[k]] = 4 => PlaceOf[k] = 1
    BY KindFacts DEF StepNo, StepOf, PlaceOf
  <2> QED BY <2>1, PlanFacts, KindFacts, StepFacts
<1>2. \A s \in Steps : StepNo[s] \in 1..6
  BY StepFacts
<1>3. CASE c[1] \in {"compensating", "settle"} /\ c[2] \in Steps
  <2>1. Rank(o, c) = 310 + 10 * (6 - StepNo[c[2]]) + StepNameRank[c[1]]
    BY <1>3 DEF Rank, UndoRank
  <2>2. StepNameRank[c[1]] \in {0, 5}
    BY <1>3 DEF StepNameRank
  <2> QED BY <2>1, <2>2, <1>2, <1>3
<1>4. CASE c[1] \in {"reconcile", "compensate"} /\ c[2] \in Plan[o]
  <2>1. \/ Rank(o, c) = 310 + 10 * (6 - StepNo[StepOf[c[2]]]) + PlaceOf[c[2]]
        \/ Rank(o, c) = 310 + 10 * (6 - StepNo[StepOf[c[2]]]) + 5 - PlaceOf[c[2]]
    BY <1>4 DEF Rank, UndoRank
  <2> QED BY <2>1, <1>1, <1>4
<1>5. CASE c[1] \in {"abort", "rollback", "close", "resume"}
  <2>1. Rank(o, c) = NameRank[c[1]]
    BY <1>5 DEF Rank
  <2>2. NameRank[c[1]] \in {300, 301, 500, 600}
    BY <1>5 DEF NameRank
  <2> QED BY <2>1, <2>2
<1>6. \/ c[1] \in {"compensating", "settle"} /\ c[2] \in Steps
      \/ c[1] \in {"reconcile", "compensate"} /\ c[2] \in Plan[o]
      \/ c[1] \in {"abort", "rollback", "close", "resume"}
  BY DEF CallSet, BackNames
<1> QED BY <1>3, <1>4, <1>5, <1>6

LEMMA UndoNames ==
  /\ {Reconciling, Compensating, Settling, CompensatingCall} \cap (ClosingSet \cup {ParkCall}) = {}
  /\ \A c \in {Reconciling, Compensating, Settling, CompensatingCall} :
       c[1] \notin ForwardNames \cup Single \cup {"resume"}
  /\ Compensating[1] # "reconcile" /\ Settling[1] # "reconcile" /\ CompensatingCall[1] # "reconcile"
  /\ Reconciling # Compensating /\ Compensating # Settling /\ Reconciling # Settling
BY DEF Reconciling, Compensating, Settling, CompensatingCall, ClosingSet, ParkCall, ForwardNames,
       Single

LEMMA UndoQuiet ==
  ASSUME Ahead' \cap {Reconciling, Compensating, Settling} = {}
  PROVE  UndoInv'
BY DEF UndoInv, Reconciling, Compensating, Settling

\* A rollback has the publication's step before it, whole.
LEMMA UndoWhole ==
  ASSUME cur \in Operations, cur' = cur, NEW m, Ahead' = RollbackSet(cur, m)
  PROVE  UndoInv'
<1>1. /\ Reconciling \in Ahead'
           <=> "publication" \in Plan[cur] /\ m.status["CompilePublication"] # "Compensated"
      /\ Compensating \in Ahead'
           <=> "publication" \in Plan[cur] /\ m.status["CompilePublication"] # "Compensated"
      /\ Settling \in Ahead' <=> m.status["CompilePublication"] # "Compensated"
      /\ CompensatingCall \in Ahead' <=> m.status["CompilePublication"] # "Compensated"
  BY RollbackSetFacts DEF CompensatingCall
<1> QED BY <1>1 DEF UndoInv, CompensatingCall, Reconciling, Compensating, Settling

LEMMA UndoGoes ==
  ASSUME TypeOK, Rest, Held, Rest', Forms, Undoes
  PROVE  UndoInv'
<1> DEFINE h == <<Call, On>>
           d4 == doubt \/ "publication" \in mem.recorded \/ prepared # cur
           d5 == doubt \/ prepared # cur
<1>1. /\ cur \in Operations /\ cur' = cur /\ cur # Nobody /\ mem \in Entry
      /\ Ahead' \subseteq Later /\ \A c \in Later : c[1] # "reconcile" => c \in Ahead'
      /\ Call \in BackNames \ {"resume"}
  BY UndoesFacts, PlanAssumption DEF BackNames
<1>2. /\ h \in Ahead /\ Ahead \subseteq CallSet(cur) /\ \A c \in Ahead : c[1] \in BackNames
      /\ \A c \in Later : Rank(cur, h) < Rank(cur, c)
      /\ \A c \in Ahead : Rank(cur, c) \in Int
  <2>1. \A c \in CallSet(cur) : Rank(cur, c) \in Int
    BY <1>1, RankType
  <2> QED BY <1>1, <2>1, FirstCall
<1>3. /\ Rank(cur, Reconciling) = 331 /\ Rank(cur, Compensating) = 334
      /\ Rank(cur, Settling) = 335 /\ Rank(cur, CompensatingCall) = 330
  BY <1>1, CallRanks DEF CompensatingCall
<1>4. /\ Reconciling \in Ahead => Compensating \in Ahead
      /\ Compensating \in Ahead => Settling \in Ahead
      /\ Reconciling \in Ahead /\ CompensatingCall \notin Ahead
           => \A d \in Ahead : 331 <= Rank(cur, d)
      /\ Compensating \in Ahead /\ Reconciling \notin Ahead
           => (\A d \in Ahead : 334 <= Rank(cur, d)) /\ d4
      /\ Settling \in Ahead /\ Compensating \notin Ahead /\ "publication" \in Plan[cur]
           => (\A d \in Ahead : 335 <= Rank(cur, d)) /\ d5
  BY <1>1, <1>3 DEF Held, Roots, UndoInv, CompensatingCall, Next1
<1>5. Later = Ahead \ {h}
  BY DEF Later
<1>6. /\ h = Settling => Compensating \notin Ahead /\ Reconciling \notin Ahead
      /\ h = Compensating => Reconciling \notin Ahead
      /\ h \in {Settling, Compensating, Reconciling} => CompensatingCall \notin Ahead
  BY <1>1, UndoOrder DEF CompensatingCall
<1>7. prepared' \in {prepared, Nobody}
  <2>1. Call # "stage"
    BY <1>1 DEF BackNames
  <2> QED BY <1>1, <2>1, ServedMoves
<1> HIDE DEF h, d4, d5, Later, Ahead, Rank, Reconciling, Compensating, Settling, CompensatingCall
<1>8. Reconciling \in Ahead' => Compensating \in Ahead'
  BY <1>1, <1>4, <1>5, <1>6, UndoNames
<1>9. Compensating \in Ahead' => Settling \in Ahead'
  BY <1>1, <1>4, <1>5, <1>6, UndoNames
<1>10. Reconciling \in Ahead' /\ CompensatingCall \notin Ahead'
         => \A d \in Ahead' : 331 <= Rank(cur, d)
  <2> SUFFICES ASSUME Reconciling \in Ahead', CompensatingCall \notin Ahead', NEW d \in Ahead'
               PROVE  331 <= Rank(cur, d)
    OBVIOUS
  <2>1. Reconciling \in Later /\ Reconciling \in Ahead /\ d \in Later /\ d \in Ahead
        /\ CompensatingCall \notin Later
    BY <1>1, <1>5, UndoNames
  <2>2. CASE CompensatingCall \notin Ahead
    BY <1>4, <2>1, <2>2
  <2>3. CASE h = CompensatingCall
    <3>1. Rank(cur, h) = 330
      BY <1>3, <2>3, Zenon
    <3> QED BY <1>2, <2>1, <3>1
  <2> QED BY <1>5, <2>1, <2>2, <2>3
<1>11. Compensating \in Ahead' /\ Reconciling \notin Ahead' => h = Reconciling
  <2> SUFFICES ASSUME Compensating \in Ahead', Reconciling \notin Ahead', h # Reconciling
               PROVE  FALSE
    OBVIOUS
  <2>1. Compensating \in Later /\ Compensating \in Ahead /\ Rank(cur, h) < 334
        /\ Rank(cur, h) \in Int
    BY <1>1, <1>2, <1>3, <1>5
  <2>2. Reconciling \in Ahead
    BY <1>2, <1>4, <2>1
  <2>3. Reconciling \in Later /\ Ahead' # Later
    BY <1>5, <2>2
  <2>4. PICK k \in Kinds : /\ Ahead' = Later \ {<<"reconcile", k>>}
                           /\ \A d \in Later : Rank(cur, <<"reconcile", k>>) <= Rank(cur, d)
    BY <2>3 DEF Undoes
  <2>5. Reconciling = <<"reconcile", k>>
    BY <2>3, <2>4
  <2>6. \A d \in Later : 331 <= Rank(cur, d)
    <3>1. Rank(cur, <<"reconcile", k>>) = 331
      BY <1>3, <2>5, Zenon
    <3> QED BY <2>4, <3>1
  <2>7. CompensatingCall \notin Later
    BY <1>3, <2>6
  <2>8. h = CompensatingCall
    <3>1. Rank(cur, h) < 331
      BY <1>2, <1>3, <2>3
    <3>2. CompensatingCall \in Ahead
      BY <1>2, <1>4, <2>2, <3>1, <2>1
    <3> QED BY <1>5, <2>7, <3>2
  <2>9. Call = "compensating"
    BY <2>8 DEF h, CompensatingCall
  <2>10. Call = "reconcile" \/ Ahead' = Later
    BY DEF Undoes
  <2> QED BY <2>3, <2>9, <2>10
<1>12. Compensating \in Ahead' /\ Reconciling \notin Ahead'
         => (\A d \in Ahead' : 334 <= Rank(cur, d)) /\ d4'
  <2> SUFFICES ASSUME Compensating \in Ahead', Reconciling \notin Ahead'
               PROVE  (\A d \in Ahead' : 334 <= Rank(cur, d)) /\ d4'
    OBVIOUS
  <2>1. h = Reconciling
    BY <1>11
  <2>2. Rank(cur, h) = 331
    BY <1>3, <2>1, Zenon
  <2>3. \A d \in Ahead' : 334 <= Rank(cur, d)
    <3> TAKE d \in Ahead'
    <3>1. d \in CallSet(cur) /\ d[1] \in BackNames /\ 331 < Rank(cur, d)
      BY <1>1, <1>2, <1>5, <2>2
    <3> QED BY <1>1, <3>1, UndoGap
  <2>4. Call = "reconcile" /\ On = "publication"
    BY <2>1 DEF h, Reconciling
  <2>5. doubt' \/ Seen(On) = "Missing" \/ On \in mem'.recorded
    BY <2>4 DEF Undoes, Calls
  <2>6. Seen("publication") = "Missing" => prepared # cur
    <3>1. RootEntry(cur, mem)
      BY <1>1, EntryFacts
    <3> QED BY <3>1, PublicationSeen DEF RootEntry
  <2>7. d4'
    BY <1>1, <1>7, <2>4, <2>5, <2>6 DEF d4
  <2> QED BY <2>3, <2>7
<1>13. Settling \in Ahead' /\ Compensating \notin Ahead' /\ "publication" \in Plan[cur]
         => (\A d \in Ahead' : 335 <= Rank(cur, d)) /\ d5'
  <2> SUFFICES ASSUME Settling \in Ahead', Compensating \notin Ahead', "publication" \in Plan[cur]
               PROVE  (\A d \in Ahead' : 335 <= Rank(cur, d)) /\ d5'
    OBVIOUS
  <2>1. Settling \in Later /\ Settling \in Ahead /\ Compensating \notin Later
    BY <1>1, <1>5, UndoNames
  <2>2. Rank(cur, h) < 335 /\ Rank(cur, h) \in Int
    BY <1>2, <1>3, <2>1
  <2>3. Compensating \in Ahead
    BY <1>2, <1>4, <2>1, <2>2
  <2>4. h = Compensating
    BY <1>5, <2>1, <2>3
  <2>5. Rank(cur, h) = 334
    BY <1>3, <2>4, Zenon
  <2>6. \A d \in Ahead' : 335 <= Rank(cur, d)
    BY <1>1, <1>2, <1>5, <2>5
  <2>7. Call = "compensate" /\ On = "publication"
    BY <2>4 DEF h, Compensating
  <2>8. doubt' \/ (~doubt /\ ("publication" \notin mem.recorded \/ prepared' # cur))
    BY <2>7 DEF Undoes, Calls
  <2>9. d4
    BY <1>4, <1>6, <2>3, <2>4
  <2>10. d5'
    BY <1>1, <1>7, <2>8, <2>9 DEF d4, d5
  <2> QED BY <2>6, <2>10
<1> QED BY <1>1, <1>3, <1>8, <1>9, <1>10, <1>12, <1>13 DEF UndoInv, Next1, CompensatingCall, d4, d5,
          Reconciling, Compensating, Settling

\* What is ahead of a handler that does not work backward is no part of a rollback.
LEMMA NotBack ==
  ASSUME NEW A, \/ \A c \in A : c[1] \in ForwardNames
                \/ \A c \in A : c[1] \in Single
                \/ \A c \in A : c[1] = "resume"
                \/ A = {ParkCall}
                \/ \E how \in {"run", "startup"} : A = {<<"enter", how>>}
  PROVE  /\ A \cap {Reconciling, Compensating, Settling} = {}
         /\ ~(\E c \in A : c[1] \in BackNames \ {"resume"})
<1>1. ParkCall[1] \in Single /\ \A how : <<"enter", how>>[1] \in Single
  BY DEF ParkCall, Single
<1>2. \/ \A c \in A : c[1] \in ForwardNames
      \/ \A c \in A : c[1] \in Single
      \/ \A c \in A : c[1] = "resume"
  BY <1>1
<1>3. \A c \in A : c[1] \in ForwardNames \cup Single \cup {"resume"}
  BY <1>2
<1>4. (ForwardNames \cup Single \cup {"resume"}) \cap (BackNames \ {"resume"}) = {}
  BY NameFacts
<1> QED BY <1>3, <1>4, UndoNames

\* A handler that does not work backward after the step has nothing to undo.
LEMMA ForwardForms ==
  ASSUME TypeOK, Rest, Held, Rest', Forms, cur' # Nobody,
         Takes \/ Goes \/ Reclaims \/ Finishes \/ Closes
  PROVE  /\ Ahead' \cap {Reconciling, Compensating, Settling} = {}
         /\ ~Backwards'
<1>1. CASE Takes
  <2>1. PICK how \in {"run", "startup"} : todo' = <<<<"enter", how>>>>
    BY <1>1 DEF Takes
  <2>2. Ahead' = {<<"enter", how>>}
    BY <2>1 DEF Ahead, Range
  <2> QED BY <2>2, NotBack DEF Backwards
<1>2. CASE Goes
  <2>1. /\ cur # Nobody /\ Call \in ForwardNames \ {"resume"} /\ Ahead' \subseteq InstallCalls \cup Later
    BY <1>2, GoesFacts, PlanAssumption
  <2>2. \A c \in Later : c[1] \in ForwardNames
    BY <2>1, FirstCall
  <2>3. \A c \in InstallCalls : c[1] \in ForwardNames
    BY DEF InstallCalls, ForwardNames
  <2>4. \A c \in Ahead' : c[1] \in ForwardNames
    BY <2>1, <2>2, <2>3
  <2> QED BY <2>4, NotBack DEF Backwards
<1>3. CASE Reclaims
  <2>1. Ahead' = Later /\ cur # Nobody /\ Call \in ForwardNames \ {"resume"}
    BY <1>3 DEF Reclaims, Calls, ForwardNames
  <2>2. \A c \in Ahead' : c[1] \in ForwardNames
    BY <2>1, FirstCall
  <2> QED BY <2>2, NotBack DEF Backwards
<1>4. CASE Finishes \/ Closes
  <2>1. \A c \in Ahead' : c[1] = "resume"
    BY <1>4, FinishesFacts, ClosesFacts
  <2> QED BY <2>1, NotBack DEF Backwards
<1> QED BY <1>1, <1>2, <1>3, <1>4

LEMMA UndoNext ==
  ASSUME TypeOK, Rest, Held, Rest', Forms
  PROVE  UndoInv'
<1>0. SUFFICES ASSUME cur' # Nobody PROVE UndoInv'
  BY DEF UndoInv
<1>1. CASE Idles
  <2>1. /\ cur' = cur /\ todo' = todo /\ mem' = mem /\ doubt' = doubt /\ cur # Nobody
    BY <1>0, <1>1 DEF Idles, handler
  <2>2. Ahead' = Ahead
    BY <2>1 DEF Ahead
  <2>3. CASE Call = "stage"
    <3>1. \A c \in Ahead' : c[1] \in ForwardNames
      BY <2>1, <2>2, <2>3, FirstCall DEF ForwardNames
    <3> QED BY <3>1, NotBack, UndoQuiet
  <2>4. CASE Call # "stage"
    <3>1. prepared' = cur => prepared = cur
      BY <2>1, <2>4, ServedMoves
    <3>2. UndoInv
      BY DEF Held, Roots
    <3> QED BY <2>1, <2>2, <3>1, <3>2 DEF UndoInv, Next1
  <2> QED BY <2>3, <2>4
<1>2. CASE Takes \/ Goes \/ Reclaims \/ Finishes \/ Closes
  BY <1>0, <1>2, ForwardForms, UndoQuiet
<1>3. CASE Leaves \/ \E o \in Operations : Accept(o)
  BY <1>0, <1>3 DEF Leaves, Accept, handler
<1>4. CASE Decides
  <2>1. cur \in Operations /\ cur' = cur
    BY <1>4, DecidesFacts
  <2>2. \/ Ahead' = ClosingSet \/ Ahead' = RollbackSet(cur, mem) \/ Ahead' = {ParkCall}
        \/ Ahead' = ForwardSet(cur, mem) \/ Ahead' = TailSet \cup FinishSet
    BY <1>4, DecidesFacts
  <2>3. CASE Ahead' = ForwardSet(cur, mem) \/ Ahead' = TailSet \cup FinishSet
    <3>1. \A c \in Ahead' : c[1] \in ForwardNames
      BY <2>1, <2>3, ForwardSetFacts, ListWays
    <3> QED BY <3>1, NotBack, UndoQuiet
  <2>4. CASE Ahead' = ClosingSet \/ Ahead' = {ParkCall}
    BY <2>4, UndoNames, UndoQuiet
  <2>5. CASE Ahead' = RollbackSet(cur, mem)
    BY <2>1, <2>5, UndoWhole
  <2> QED BY <2>2, <2>3, <2>4, <2>5
<1>5. ASSUME NEW m \in {mem, Written(Call, On), Written("record", On)}, Fails(m)
      PROVE  UndoInv'
  <2>1. /\ cur \in Operations /\ cur' = cur
        /\ Ahead' = {ParkCall} \/ Ahead' = RollbackSet(cur, m)
    BY <1>5, FailsFacts
  <2>2. CASE Ahead' = {ParkCall}
    BY <2>2, UndoNames, UndoQuiet
  <2>3. CASE Ahead' = RollbackSet(cur, m)
    BY <2>1, <2>3, UndoWhole
  <2> QED BY <2>1, <2>2, <2>3
<1>6. CASE Undoes
  BY <1>6, UndoGoes
<1> QED BY <1>1, <1>2, <1>3, <1>4, <1>5, <1>6 DEF Forms, Handles

\* A rollback that need not be aborted is one of what was never published.
LEMMA UndoneSince ==
  ASSUME Rest', cur \in Operations, cur' = cur, NEW m, mem' = m, RootEntry(cur, m),
         Ahead' = RollbackSet(cur, m), AbortCall \notin Ahead'
  PROVE  cur \notin {active', target'} /\ ~m.receipt
<1>1. "publication" \notin m.recorded
  BY RollbackSetFacts
<1>2. journal'[cur].recorded \subseteq mem'.recorded
  BY PlanAssumption DEF Rest, HandlerInv, CopyInv
<1>3. \A o \in {active', target'} \ {Nobody} : "publication" \in journal'[o].recorded
  BY DEF Rest, PublishedInv
<1>4. cur \notin {active', target'}
  BY <1>1, <1>2, <1>3, PlanAssumption
<1> QED BY <1>1, <1>4 DEF RootEntry

LEMMA UndoneNext ==
  ASSUME TypeOK, Rest, Held, Rest', Forms
  PROVE  UndoneInv'
<1> DEFINE Backs == \E c \in Ahead' : c[1] \in BackNames \ {"resume"}
<1>0. SUFFICES ASSUME cur' # Nobody, Backs, AbortCall \notin Ahead'
               PROVE  cur' \notin {active', target'} /\ ~mem'.receipt
  BY DEF UndoneInv, Backwards
<1>1. CASE Idles
  <2>1. /\ cur' = cur /\ todo' = todo /\ mem' = mem /\ cur # Nobody
    BY <1>0, <1>1 DEF Idles, handler
  <2>2. Ahead' = Ahead
    BY <2>1 DEF Ahead
  <2>3. Call \notin {"mark", "install"}
    <3>1. ASSUME Call \in {"mark", "install"} PROVE \A c \in Ahead' : c[1] \in ForwardNames
      BY <2>1, <2>2, <3>1, FirstCall DEF ForwardNames
    <3> QED BY <1>0, <3>1, NotBack
  <2>4. active' = active /\ target' = target
    BY <2>1, <2>3, ServedMoves
  <2>5. UndoneInv
    BY DEF Held, Roots
  <2> QED BY <1>0, <2>1, <2>2, <2>4, <2>5 DEF UndoneInv, Backwards
<1>2. CASE Takes \/ Goes \/ Reclaims \/ Finishes \/ Closes
  BY <1>0, <1>2, ForwardForms DEF Backwards
<1>3. CASE Leaves \/ \E o \in Operations : Accept(o)
  BY <1>0, <1>3 DEF Leaves, Accept, handler
<1>4. CASE Decides
  <2>1. /\ cur \in Operations /\ cur' = cur /\ mem' = mem /\ cur # Nobody /\ RootEntry(cur, mem)
    BY <1>4, DecidesFacts, EntryFacts, PlanAssumption
  <2>2. active' = active /\ target' = target
    <3>1. Call \in {"enter", "verify"}
      BY <1>4 DEF Decides
    <3> QED BY <2>1, <3>1, ServedMoves
  <2>3. \/ Ahead' = ClosingSet /\ RollbackProven
        \/ Ahead' = RollbackSet(cur, mem) \/ Ahead' = {ParkCall}
        \/ Ahead' = ForwardSet(cur, mem) \/ Ahead' = TailSet \cup FinishSet
    BY <1>4, DecidesFacts
  <2>4. CASE Ahead' = ForwardSet(cur, mem) \/ Ahead' = TailSet \cup FinishSet
    <3>1. \A c \in Ahead' : c[1] \in ForwardNames
      BY <2>1, <2>4, ForwardSetFacts, ListWays
    <3> QED BY <1>0, <3>1, NotBack
  <2>5. CASE Ahead' = {ParkCall}
    BY <1>0, <2>5, NotBack
  <2>6. CASE RollbackProven
    <3>1. mem.status["CompilePublication"] = "Compensated"
      BY <2>6, StepFacts DEF RollbackProven
    <3> QED BY <2>1, <2>2, <3>1 DEF RootEntry
  <2>7. CASE Ahead' = RollbackSet(cur, mem)
    BY <1>0, <2>1, <2>7, UndoneSince
  <2> QED BY <2>3, <2>4, <2>5, <2>6, <2>7
<1>5. ASSUME NEW m \in {mem, Written(Call, On), Written("record", On)}, Fails(m)
      PROVE  cur' \notin {active', target'} /\ ~mem'.receipt
  <2>1. /\ cur \in Operations /\ cur' = cur /\ cur # Nobody /\ mem' = m
        /\ Ahead' = {ParkCall} \/ Ahead' = RollbackSet(cur, m)
    BY <1>5, FailsFacts, PlanAssumption
  <2>2. Call \in ForwardCalls
    BY <1>5 DEF Fails
  <2>3. RootEntry(cur, m)
    BY <2>1, <2>2, EntryFacts, RootRecorded, RootWritten
  <2>4. CASE Ahead' = {ParkCall}
    BY <1>0, <2>4, NotBack
  <2>5. CASE Ahead' = RollbackSet(cur, m)
    BY <1>0, <2>1, <2>3, <2>5, UndoneSince
  <2> QED BY <2>1, <2>4, <2>5
<1>6. CASE Undoes
  <2>1. /\ cur \in Operations /\ cur' = cur /\ cur # Nobody /\ mem'.receipt = mem.receipt
        /\ Call \notin {"mark", "install"}
    BY <1>6, UndoesFacts, PlanAssumption
  <2>2. active' = active /\ target' = target
    BY <2>1, ServedMoves
  <2> QED BY <1>6, <2>1, <2>2, UndoClaim
<1> QED BY <1>1, <1>2, <1>3, <1>4, <1>5, <1>6 DEF Forms, Handles

LEMMA RootsNext ==
  ASSUME TypeOK, Rest, Held, Rest', Forms
  PROVE  Roots'
BY EntriesNext, ClaimNext, HolderNext, RootNext, SealNext, LoneNext, UndoNext, UndoneNext DEF Roots

-----------------------------------------------------------------------------
(***************************************************************************)
(* The effects                                                             *)
(***************************************************************************)
\* What is compensated belongs to who holds the claim, and is neither sealed nor
\* recorded as a success.
LEMMA CompensateFacts ==
  ASSUME TypeOK, Rest, Held, Calls("compensate")
  PROVE  /\ cur \in Operations /\ claim = cur /\ ~mem.receipt /\ ~Kept(cur)
         /\ journal[cur].state \notin {"Succeeded", "RolledBack"}
         /\ ~journal[cur].receipt
<1>1. cur # Nobody /\ Call = "compensate" /\ cur \in Operations /\ <<Call, On>> \in Ahead
  BY FirstCall DEF Calls
<1>2. AbortCall \notin Ahead /\ Backwards
  BY <1>1, RollingPassed DEF Backwards, BackNames
<1>3. claim = cur
  BY <1>1, <1>2 DEF Held, Roots, LoneInv
<1>4. ~mem.receipt
  BY <1>1, <1>2 DEF Held, Roots, UndoneInv
<1>5. ~journal[cur].receipt
  BY <1>1, <1>4 DEF Held, Roots, EntriesInv
<1>6. journal[cur].state \notin {"Succeeded", "RolledBack"}
  BY <1>1, <1>3, StepFacts DEF Held, Roots, HolderInv, Working
<1> QED BY <1>1, <1>3, <1>4, <1>5, <1>6 DEF Kept

\* The entry of an Operation with an outcome is not written again.
LEMMA OutcomeStays ==
  ASSUME TypeOK, Rest, Held, Rest', Forms, NEW o \in Operations, journal'[o] # journal[o]
  PROVE  journal[o].state \notin {"Succeeded", "RolledBack"}
<1>1. ASSUME o = cur, claim = cur PROVE journal[o].state \notin {"Succeeded", "RolledBack"}
  BY <1>1, PlanAssumption, StepFacts DEF Held, Roots, HolderInv, Working
<1>2. ASSUME o = cur, mem = journal[cur], mem.state \in Working
      PROVE  journal[o].state \notin {"Succeeded", "RolledBack"}
  BY <1>2, StepFacts DEF Working
<1>3. CASE Idles \/ Takes \/ Decides
  BY <1>3 DEF Idles, Takes, Decides
<1>4. CASE Leaves
  <2>1. CASE Calls("park") /\ o = cur
    BY <2>1, ParkFacts
  <2>2. CASE Calls("abort") /\ o = cur
    <3>1. CASE claim = cur
      BY <1>1, <2>2, <3>1
    <3>2. CASE claim # cur
      BY <2>2, <3>2, RefusedFacts
    <3> QED BY <3>1, <3>2
  <2>3. CASE o # cur \/ UNCHANGED journal
    BY <1>4, <2>3 DEF Leaves, TypeOK
  <2> QED BY <1>4, <2>1, <2>2, <2>3 DEF Leaves
<1>5. CASE Goes
  <2>1. o = cur /\ mem = journal[cur] /\ Call \in ForwardNames \ {"resume"} /\ cur # Nobody
    BY <1>5, GoesFacts, PlanAssumption
  <2> QED BY <1>2, <2>1, ForwardFacts
<1>6. CASE Reclaims
  BY <1>6 DEF Reclaims
<1>7. CASE Finishes
  <2>1. mem = journal[cur] /\ mem.state \in Working /\ journal' = [journal EXCEPT ![cur] = mem']
    BY <1>7, FinishesFacts
  <2> QED BY <1>2, <2>1 DEF TypeOK
<1>8. CASE Undoes \/ Closes
  <2>1. claim = cur
    BY <1>8, UndoClaim
  <2>2. journal' = [journal EXCEPT ![cur] = mem'] \/ journal' = journal
    BY <1>8, UndoesFacts, ClosesFacts
  <2>3. o = cur
    BY <2>2 DEF TypeOK
  <2> QED BY <1>1, <2>1, <2>3
<1>9. ASSUME NEW m \in {mem, Written(Call, On), Written("record", On)}, Fails(m)
      PROVE  journal[o].state \notin {"Succeeded", "RolledBack"}
  <2>1. mem = journal[cur] /\ mem.state \in Working
        /\ (journal' = [journal EXCEPT ![cur] = m] \/ journal' = journal)
    BY <1>9, FailsFacts
  <2> QED BY <1>2, <2>1 DEF TypeOK
<1>10. ASSUME NEW p \in Operations, Accept(p)
       PROVE  journal[o].state \notin {"Succeeded", "RolledBack"}
  BY <1>10 DEF Accept, TypeOK
<1> QED BY <1>3, <1>4, <1>5, <1>6, <1>7, <1>8, <1>9, <1>10 DEF Forms, Handles

\* A receipt is never taken back.
LEMMA ReceiptStays ==
  ASSUME TypeOK, Rest, Held, Rest', Forms
  PROVE  /\ cur # Nobody /\ cur' = cur /\ mem.receipt => mem'.receipt
         /\ cur # Nobody /\ cur' = cur /\ mem'.receipt /\ ~mem.receipt => Call = "seal"
         /\ \A o \in Operations : journal[o].receipt => journal'[o].receipt
<1>0. /\ journal \in [Operations -> Entry] /\ mem \in Entry
      /\ cur # Nobody => cur \in Operations /\ (journal[cur].receipt => mem.receipt)
  BY FirstCall DEF TypeOK, Held, Roots, EntriesInv
<1>1. ASSUME cur # Nobody, cur' = cur
      PROVE  /\ mem.receipt => mem'.receipt
             /\ mem'.receipt /\ ~mem.receipt => Call = "seal"
  <2>1. CASE Idles \/ Decides \/ Reclaims
    BY <2>1 DEF Idles, Decides, Reclaims, handler
  <2>2. CASE Takes \/ Leaves \/ \E o \in Operations : Accept(o)
    BY <1>1, <2>2 DEF Takes, Leaves, Accept
  <2>3. CASE Goes
    <3>1. /\ mem.receipt => mem'.receipt
          /\ mem' # mem => /\ mem' = Written(Call, On)
                           /\ Call \in {"begin", "complete", "record", "seal", "checkpoint"}
      BY <2>3, GoesFacts
    <3>2. Call \in {"begin", "complete", "record", "seal", "checkpoint"} => Call \in ForwardCalls
      BY DEF ForwardCalls
    <3> QED BY <1>1, <3>1, <3>2, RootWritten
  <2>4. CASE Finishes
    <3>1. mem' = [mem EXCEPT !.state = "Succeeded"]
      BY <2>4, FinishesFacts
    <3> QED BY <1>0, <3>1 DEF Entry
  <2>5. CASE Undoes
    BY <2>5, UndoesFacts
  <2>6. CASE Closes
    <3>1. \/ mem' = [mem EXCEPT !.state = "RolledBack"]
          \/ mem' = [mem EXCEPT !.state = "NeedsAttention"]
      BY <2>6, ClosesFacts
    <3> QED BY <1>0, <3>1 DEF Entry
  <2>7. ASSUME NEW m \in {mem, Written(Call, On), Written("record", On)}, Fails(m)
        PROVE  /\ mem.receipt => mem'.receipt
               /\ mem'.receipt /\ ~mem.receipt => Call = "seal"
    <3>1. mem' = m /\ (mem.receipt => m.receipt) /\ Call \in ForwardCalls
      BY <2>7, FailsFacts DEF Fails
    <3> QED BY <1>1, <3>1, RootWritten, RootRecorded
  <2> QED BY <2>1, <2>2, <2>3, <2>4, <2>5, <2>6, <2>7 DEF Forms, Handles
<1>2. ASSUME NEW o \in Operations, journal[o].receipt PROVE journal'[o].receipt
  <2>1. SUFFICES ASSUME journal'[o] # journal[o] PROVE journal'[o].receipt
    BY <1>2
  <2>2. CASE o = cur /\ cur' = cur /\ journal'[o] = mem'
    BY <1>0, <1>1, <1>2, <2>2, PlanAssumption
  <2>3. CASE o = cur /\ journal'[o] \in {mem, [mem EXCEPT !.state = "NeedsAttention"]}
    <3>1. mem.receipt
      BY <1>0, <1>2, <2>3, PlanAssumption
    <3> QED BY <1>0, <2>3, <3>1 DEF Entry
  <2>4. CASE Accept(o)
    <3>1. journal[o] = Fresh("none")
      BY <2>4, EntryFacts DEF Accept, Known
    <3> QED BY <1>2, <3>1 DEF Fresh
  <2> QED BY <2>1, <2>2, <2>3, <2>4, JournalMoves
<1> QED BY <1>1, <1>2

LEMMA KeptStays ==
  ASSUME TypeOK, Rest, Held, Rest', Forms, NEW o \in Operations, Kept(o)
  PROVE  Kept(o)'
<1>1. CASE journal[o].receipt
  BY <1>1, ReceiptStays DEF Kept
<1>2. CASE journal[o].state = "Succeeded"
  BY <1>2, OutcomeStays DEF Kept
<1> QED BY <1>1, <1>2 DEF Kept

\* What a compensation leaves in a cell is the Operation's own only where nothing
\* was undone.
LEMMA CompensationLeaves ==
  ASSUME NEW c \in Cells, NEW o \in Operations, NEW m \in Markers, NEW v, NEW b,
         b # o, c \in Rows /\ v = o => m = "active"
  PROVE  /\ Compensation(c, o, m, v, b).marker \in {m, "undone"}
         /\ m = "none" => Compensation(c, o, m, v, b).marker = "none"
         /\ Compensation(c, o, m, v, b).value = o
              => Compensation(c, o, m, v, b).marker = m /\ v = o
         /\ Compensation(c, o, m, v, b).value \in {v, b, Restored(o)}
<1>0. Restored(o) # o
  BY ValueAssumption
<1>1. c \in {"secret", "control", "runtime", "grant", "artifact", "file"}
  BY KindFacts
<1>2. m \in {"none", "undone", "staged", "active"}
  BY DEF Markers
<1>3. CASE m = "none"
  BY <1>3 DEF Compensation, Answer, Markers
<1>4. CASE m = "undone"
  BY <1>4 DEF Compensation, Answer, Markers
<1>5. CASE m \in {"staged", "active"} /\ c = "grant"
  <2>1. Compensation(c, o, m, v, b) = CompensateGrant(o, m, v, b)
    BY <1>5 DEF Compensation, Rows, Files
  <2> QED BY <2>1, <1>5 DEF CompensateGrant, Answer, Markers
<1>6. CASE m \in {"staged", "active"} /\ c \in Rows \ {"grant"}
  <2>1. Compensation(c, o, m, v, b) = CompensateRow(o, m, v)
    BY <1>6 DEF Compensation, Rows, Files
  <2>2. CASE m = "staged"
    <3>1. v # o
      BY <1>6, <2>2
    <3> QED BY <2>1, <2>2, <3>1 DEF CompensateRow, Answer, Markers
  <2>3. CASE m = "active" /\ v = o
    BY <1>0, <2>1, <2>3 DEF CompensateRow, Answer, Markers
  <2>4. CASE m = "active" /\ v # o
    BY <2>1, <2>4 DEF CompensateRow, Answer, Markers
  <2> QED BY <1>6, <2>2, <2>3, <2>4
<1>7. CASE m \in {"staged", "active"} /\ c \in Files
  <2>1. Compensation(c, o, m, v, b) = CompensateFile(o, m, v, b)
    BY <1>7 DEF Compensation, Rows, Files
  <2>2. CASE m = "staged" /\ v = b
    BY <2>1, <2>2 DEF CompensateFile, Answer, Markers
  <2>3. CASE m = "active" /\ v = o
    BY <2>1, <2>3 DEF CompensateFile, Answer, Markers
  <2>4. CASE m = "active" /\ v = b /\ v # o
    BY <2>1, <2>4 DEF CompensateFile, Answer, Markers
  <2>5. CASE v \notin (IF m = "staged" THEN {b} ELSE {b, o})
    BY <2>1, <2>5, <1>7 DEF CompensateFile, Answer, Markers
  <2> QED BY <1>7, <2>2, <2>3, <2>4, <2>5
<1> QED BY <1>1, <1>2, <1>3, <1>4, <1>5, <1>6, <1>7 DEF Rows, Files

\* The stores change only when nobody's entry does.
LEMMA StoresMoves ==
  ASSUME TypeOK, Rest, Held, Rest', Forms
  PROVE  \/ UNCHANGED stores
         \/ journal' = journal /\ before' = before /\ cur' = cur /\ mem' = mem
BY DEF Forms, Stores

\* What becomes of the markers.
LEMMA MarkerMoves ==
  ASSUME TypeOK, Rest, Held, Rest', Forms, NEW o \in Operations, NEW c \in Cells,
         marker'[o][c] # marker[o][c]
  PROVE  /\ cur # Nobody /\ o = cur /\ c = On /\ c \in Plan[cur]
         /\ UNCHANGED <<journal, before, mem, cur>>
         /\ \/ Call = "stage" /\ marker[o][c] = "none" /\ marker'[o][c] = "staged"
               /\ value[c] = before[cur][c] /\ value' = value
            \/ Call = "activate" /\ marker[o][c] = "staged" /\ marker'[o][c] = "active"
            \/ Call = "compensate" /\ marker[o][c] # "none" /\ marker'[o][c] = "undone"
<1>1. marker \in [Operations -> [Cells -> Markers]] /\ cur \in Operations \cup {Nobody}
  BY DEF TypeOK
<1>2. ASSUME NEW w \in Markers, cur # Nobody, On \in Cells,
             marker' = [marker EXCEPT ![cur][On] = w]
      PROVE  o = cur /\ c = On /\ marker'[o][c] = w
  <2>1. o = cur
    BY <1>1, <1>2
  <2>2. marker'[cur] = [marker[cur] EXCEPT ![On] = w]
    BY <1>1, <1>2, <2>1
  <2> QED BY <1>1, <1>2, <2>1, <2>2
<1>3. ASSUME cur # Nobody, Call \in {"stage", "activate", "compensate"}
      PROVE  On \in Plan[cur]
  BY <1>3, OnFacts DEF Rest, HandlerInv
<1>4. CASE UNCHANGED stores \/ \E f \in Files : marker' = marker
  BY <1>4 DEF stores
<1>5. CASE /\ Calls("stage") /\ On \in Cells /\ CanStage(marker[cur][On], value[On], before[cur][On])
           /\ marker' = [marker EXCEPT ![cur][On] = "staged"]
           /\ UNCHANGED <<value, journal, before, mem, cur>>
  <2>1. cur # Nobody /\ Call = "stage" /\ On \in Cells /\ "staged" \in Markers
    BY <1>5 DEF Calls, Markers
  <2>2. o = cur /\ c = On /\ marker'[o][c] = "staged"
    BY <1>2, <1>5, <2>1
  <2> QED BY <1>3, <1>5, <2>1, <2>2 DEF CanStage
<1>6. CASE /\ Calls("activate") /\ marker[cur][On] = "staged"
           /\ marker' = [marker EXCEPT ![cur][On] = "active"]
           /\ value' = [value EXCEPT ![On] = cur]
           /\ UNCHANGED <<journal, before, mem, cur>>
  <2>1. cur # Nobody /\ Call = "activate" /\ "active" \in Markers
    BY <1>6 DEF Calls, Markers
  <2>2. On \in Cells
    BY <2>1, OnFacts DEF Rest, HandlerInv
  <2>3. o = cur /\ c = On /\ marker'[o][c] = "active"
    BY <1>2, <1>6, <2>1, <2>2
  <2> QED BY <1>3, <1>6, <2>1, <2>3
<1>7. CASE /\ Calls("compensate") /\ On \in Cells
           /\ LET result == Compensation(On, cur, marker[cur][On], value[On], before[cur][On])
              IN /\ marker' = [marker EXCEPT ![cur][On] = result.marker]
                 /\ value' = [value EXCEPT ![On] = result.value]
           /\ UNCHANGED <<journal, before, mem, cur>>
  <2> DEFINE w == Compensation(On, cur, marker[cur][On], value[On], before[cur][On]).marker
  <2>1. /\ cur # Nobody /\ Call = "compensate" /\ On \in Cells /\ cur \in Operations
        /\ marker' = [marker EXCEPT ![cur][On] = w]
    BY <1>1, <1>7 DEF Calls
  <2>2. w \in {marker[cur][On], "undone"} /\ (marker[cur][On] = "none" => w = "none")
    <3>1. ~Kept(cur)
      BY <1>7, CompensateFacts
    <3>2. before[cur][On] # cur /\ (On \in Rows /\ value[On] = cur => marker[cur][On] = "active")
      BY <2>1, <3>1 DEF Held, Worth, ValueInv
    <3> QED BY <1>1, <2>1, <3>2, CompensationLeaves
  <2> HIDE DEF w
  <2>3. w \in Markers
    BY <1>1, <2>1, <2>2 DEF Markers
  <2>4. o = cur /\ c = On /\ marker'[o][c] = w
    BY <1>2, <2>1, <2>3
  <2> QED BY <1>3, <1>7, <2>1, <2>2, <2>4
<1>8. CASE Calls("switch") /\ marker' = marker
  BY <1>8
<1> QED BY <1>4, <1>5, <1>6, <1>7, <1>8 DEF Forms, Stores

\* The client file is written behind the receipt.
LEMMA FileSealed ==
  ASSUME TypeOK, Rest, Held, cur # Nobody, Call \in {"switch", "activate"}, On = "file"
  PROVE  journal[cur].receipt /\ mem.receipt
<1>1. cur \in Operations /\ <<Call, On>> \in Ahead /\ mem = journal[cur]
  BY FirstCall, ForwardFacts DEF ForwardNames
<1>2. /\ Rank(cur, <<"seal", "file">>) = 136 /\ Rank(cur, <<"switch", "file">>) = 137
      /\ Rank(cur, <<"activate", "file">>) = 138
  BY <1>1, CallRanks
<1>3. <<Call, On>> = <<"switch", "file">> \/ <<Call, On>> = <<"activate", "file">>
  OBVIOUS
<1>4. Rank(cur, <<Call, On>>) = 137 \/ Rank(cur, <<Call, On>>) = 138
  <2>1. CASE <<Call, On>> = <<"switch", "file">>
    BY <1>2, <2>1
  <2>2. CASE <<Call, On>> = <<"activate", "file">>
    BY <1>2, <2>2
  <2> QED BY <1>3, <2>1, <2>2
<1>5. SealCall \notin Ahead
  <2>1. CASE Rank(cur, <<Call, On>>) = 137
    BY <1>2, <2>1, Before DEF SealCall
  <2>2. CASE Rank(cur, <<Call, On>>) = 138
    BY <1>2, <2>2, Before DEF SealCall
  <2> QED BY <1>4, <2>1, <2>2
<1> QED BY <1>1, <1>3, <1>5 DEF Held, Worth, SealedInv

\* An effect of an Operation that is not under way stays, or there is none.
LEMMA SettledIsKept ==
  ASSUME TypeOK, Rest, Held, claim = Nobody, NEW o \in Operations, NEW c \in Cells,
         marker[o][c] \in {"staged", "active"}
  PROVE  Kept(o)
<1>1. Known(o) /\ journal[o].state \in States
  BY DEF TypeOK, Entry, Held, Worth, ValueInv
<1>2. journal[o].state # "RolledBack"
  BY DEF Held, Worth, GoneInv
<1>3. ~\/ journal[o].state \in (Working \ {"Activate"}) \cup {"RollingBack"}
       \/ journal[o].state \in {"Activate", "NeedsAttention"} /\ ~journal[o].receipt
  BY PlanAssumption DEF Held, Roots, ClaimInv
<1>4. States = {"none", "RollingBack", "Succeeded", "RolledBack", "NeedsAttention"} \cup Working
  BY DEF States, Working, Terminal
<1> QED BY <1>1, <1>2, <1>3, <1>4, StepFacts DEF Kept, Known, Working

\* A cell comes to hold what an Operation wrote when its marker says so.
LEMMA ValueWritten ==
  ASSUME TypeOK, Rest, Held, Rest', Forms, NEW o \in Operations, NEW c \in Cells, value'[c] = o
  PROVE  /\ marker'[o][c] \in {"staged", "active"}
         /\ c \in Rows => marker'[o][c] = "active"
         /\ c = "file" => journal'[o].receipt
<1>0. /\ marker \in [Operations -> [Cells -> Markers]] /\ cur \in Operations \cup {Nobody}
      /\ value \in [Cells -> Values]
      /\ \A p \in Operations, k \in Cells : value[k] = p =>
           /\ marker[p][k] \in {"staged", "active"} /\ (k \in Rows => marker[p][k] = "active")
           /\ k = "file" => journal[p].receipt
      /\ \A p, q \in Operations, k \in Cells : before[p][k] = q =>
           /\ Kept(q) /\ marker[q][k] \in {"staged", "active"} /\ (k \in Rows => marker[q][k] = "active")
           /\ k = "file" => journal[q].receipt
  BY DEF TypeOK, Held, Worth, ValueInv
<1>1. CASE UNCHANGED stores \/ (value'[c] = value[c] /\ marker' = marker)
  BY <1>0, <1>1, ReceiptStays DEF stores
<1>2. CASE /\ Calls("stage") /\ On \in Cells /\ CanStage(marker[cur][On], value[On], before[cur][On])
           /\ marker' = [marker EXCEPT ![cur][On] = "staged"]
           /\ UNCHANGED <<value, journal, before, mem, cur>>
  <2>1. marker'[o][c] = marker[o][c]
    BY <1>0, <1>2, MarkerMoves
  <2> QED BY <1>0, <1>2, <2>1
<1>3. CASE /\ Calls("switch") /\ marker[cur][On] \in {"staged", "active"}
           /\ value' = [value EXCEPT ![On] = cur]
           /\ UNCHANGED <<marker, journal, before, mem, cur>>
  <2>1. cur # Nobody /\ Call = "switch" /\ On \in Files
    BY <1>3, OnFacts DEF Calls, Rest, HandlerInv
  <2>2. CASE c = On
    <3>1. o = cur /\ c \notin Rows
      BY <1>0, <1>3, <2>1, <2>2 DEF Files, Rows
    <3> QED BY <1>3, <2>1, <2>2, <3>1, FileSealed
  <2>3. CASE c # On
    BY <1>0, <1>1, <1>3, <2>3
  <2> QED BY <2>2, <2>3
<1>4. CASE /\ Calls("activate") /\ marker[cur][On] = "staged"
           /\ marker' = [marker EXCEPT ![cur][On] = "active"]
           /\ value' = [value EXCEPT ![On] = cur]
           /\ UNCHANGED <<journal, before, mem, cur>>
  <2>1. cur # Nobody /\ cur \in Operations /\ Call = "activate" /\ On \in Cells
    BY <1>0, <1>4, OnFacts DEF Calls, Rest, HandlerInv
  <2>2. CASE c = On
    <3>1. o = cur /\ marker'[o][c] = "active"
      BY <1>0, <1>4, <2>1, <2>2
    <3> QED BY <1>4, <2>1, <2>2, <3>1, FileSealed
  <2>3. CASE c # On
    <3>1. value[c] = o /\ marker'[o][c] = marker[o][c]
      BY <1>0, <1>4, <2>1, <2>3
    <3> QED BY <1>0, <1>4, <3>1
  <2> QED BY <2>2, <2>3
<1>5. CASE /\ Calls("compensate") /\ On \in Cells
           /\ LET result == Compensation(On, cur, marker[cur][On], value[On], before[cur][On])
              IN /\ marker' = [marker EXCEPT ![cur][On] = result.marker]
                 /\ value' = [value EXCEPT ![On] = result.value]
           /\ UNCHANGED <<journal, before, mem, cur>>
  <2> DEFINE w == Compensation(On, cur, marker[cur][On], value[On], before[cur][On]).marker
             v == Compensation(On, cur, marker[cur][On], value[On], before[cur][On]).value
  <2>1. /\ cur # Nobody /\ On \in Cells /\ cur \in Operations /\ ~Kept(cur)
        /\ marker' = [marker EXCEPT ![cur][On] = w] /\ value' = [value EXCEPT ![On] = v]
    BY <1>5, CompensateFacts DEF Calls
  <2>2. /\ v = cur => w = marker[cur][On] /\ value[On] = cur
        /\ v \in {value[On], before[cur][On], Restored(cur)}
    <3>1. before[cur][On] # cur /\ (On \in Rows /\ value[On] = cur => marker[cur][On] = "active")
      BY <1>0, <2>1
    <3> QED BY <1>0, <2>1, <3>1, CompensationLeaves
  <2> HIDE DEF w, v
  <2>3. CASE c # On
    <3>1. value[c] = o /\ marker'[o][c] = marker[o][c]
      BY <1>0, <2>1, <2>3
    <3> QED BY <1>0, <1>5, <3>1
  <2>4. CASE c = On /\ o = cur
    <3>1. value[c] = o /\ marker'[o][c] = marker[o][c]
      BY <1>0, <2>1, <2>2, <2>4
    <3> QED BY <1>0, <1>5, <3>1
  <2>5. CASE c = On /\ o # cur
    <3>1. v = o /\ marker'[o][c] = marker[o][c]
      BY <1>0, <2>1, <2>5
    <3>2. value[c] = o \/ before[cur][c] = o
      BY <2>1, <2>2, <2>5, <3>1, ValueAssumption
    <3> QED BY <1>0, <1>5, <2>1, <3>1, <3>2
  <2> QED BY <2>3, <2>4, <2>5
<1>6. ASSUME NEW f \in Files, value' = [value EXCEPT ![f] = Foreign], UNCHANGED <<marker, journal>>
      PROVE  /\ marker'[o][c] \in {"staged", "active"}
             /\ c \in Rows => marker'[o][c] = "active"
             /\ c = "file" => journal'[o].receipt
  <2>1. c # f
    <3>1. Foreign # o
      BY ValueAssumption
    <3> QED BY <1>0, <1>6, <3>1
  <2> QED BY <1>0, <1>1, <1>6, <2>1
<1> QED BY <1>1, <1>2, <1>3, <1>4, <1>5, <1>6 DEF Forms, Stores

LEMMA ValueNext ==
  ASSUME TypeOK, Rest, Held, Rest', Forms
  PROVE  ValueInv'
<1>0. /\ marker \in [Operations -> [Cells -> Markers]]
      /\ before \in [Operations -> [Kinds -> Values \cup {Nobody}]]
      /\ Cells \subseteq Kinds /\ "publication" \notin Cells
  BY DEF TypeOK, Kinds, Cells, Rows, Files
<1>1. SUFFICES ASSUME NEW o \in Operations, NEW c \in Cells
      PROVE  /\ marker'[o][c] # "none" => c \in Plan[o] /\ Known(o)'
             /\ value'[c] = o => /\ marker'[o][c] \in {"staged", "active"}
                                 /\ c \in Rows => marker'[o][c] = "active"
                                 /\ c = "file" => journal'[o].receipt
             /\ \A p \in Operations : before'[p][c] = o =>
                  /\ Kept(o)' /\ marker'[o][c] \in {"staged", "active"}
                  /\ c \in Rows => marker'[o][c] = "active"
                  /\ c = "file" => journal'[o].receipt
  BY DEF ValueInv
<1>2. /\ marker[o][c] # "none" => c \in Plan[o] /\ Known(o)
      /\ value[c] = o => /\ marker[o][c] \in {"staged", "active"}
                         /\ c \in Rows => marker[o][c] = "active"
                         /\ c = "file" => journal[o].receipt
      /\ \A p \in Operations : before[p][c] = o =>
           /\ Kept(o) /\ marker[o][c] \in {"staged", "active"}
           /\ c \in Rows => marker[o][c] = "active"
           /\ c = "file" => journal[o].receipt
  BY DEF Held, Worth, ValueInv
<1>3. marker'[o][c] # "none" => c \in Plan[o] /\ Known(o)'
  <2>1. CASE marker'[o][c] = marker[o][c]
    BY <1>2, <2>1, KnownGrows
  <2>2. CASE marker'[o][c] # marker[o][c]
    <3>1. cur # Nobody /\ o = cur /\ c \in Plan[cur]
      BY <2>2, MarkerMoves
    <3> QED BY <3>1, EntryFacts, KnownGrows
  <2> QED BY <2>1, <2>2
<1>4. ASSUME NEW p \in Operations, before'[p][c] = o
      PROVE  /\ Kept(o)' /\ marker'[o][c] \in {"staged", "active"}
             /\ c \in Rows => marker'[o][c] = "active"
             /\ c = "file" => journal'[o].receipt
  <2>1. CASE before'[p] = before[p]
    <3>1. Kept(o) /\ before[p][c] = o /\ marker[o][c] \in {"staged", "active"}
      BY <1>2, <1>4, <2>1
    <3>2. Kept(o)'
      BY <3>1, KeptStays
    <3>3. marker'[o][c] \in {marker[o][c], "active"}
      <4>1. SUFFICES ASSUME marker'[o][c] # marker[o][c] PROVE marker'[o][c] = "active"
        OBVIOUS
      <4>2. Call # "compensate"
        BY <3>1, <4>1, MarkerMoves, CompensateFacts DEF Calls
      <4> QED BY <3>1, <4>1, <4>2, MarkerMoves
    <3> QED BY <1>2, <3>1, <3>2, <3>3, ReceiptStays
  <2>2. ASSUME NEW q \in Operations, Accept(q), before'[p] # before[p]
        PROVE  /\ Kept(o)' /\ marker'[o][c] \in {"staged", "active"}
               /\ c \in Rows => marker'[o][c] = "active"
               /\ c = "file" => journal'[o].receipt
    <3>1. claim = Nobody /\ marker' = marker
          /\ before' = [before EXCEPT ![q] =
                         [k \in Kinds |-> IF k = "publication" THEN active ELSE value[k]]]
      BY <2>2 DEF Accept, stores
    <3>2. before'[p][c] = value[c]
      BY <1>0, <2>2, <3>1
    <3>3. value[c] = o
      BY <1>4, <3>2
    <3>4. Kept(o)
      BY <1>2, <3>1, <3>3, SettledIsKept
    <3>5. Kept(o)'
      BY <3>4, KeptStays
    <3> QED BY <1>2, <3>1, <3>3, <3>5, ReceiptStays
  <2> QED BY <2>1, <2>2, KnownGrows
<1> QED BY <1>3, <1>4, ValueWritten

\* An active effect stays while nothing is undone.
LEMMA ActiveStays ==
  ASSUME TypeOK, Rest, Held, Rest', Forms, NEW o \in Operations, NEW c \in Cells,
         marker[o][c] = "active",
         journal[o].receipt \/ (o = cur /\ mem.receipt) \/ Call # "compensate" \/ cur = Nobody
  PROVE  marker'[o][c] = "active"
<1>1. SUFFICES ASSUME marker'[o][c] # marker[o][c] PROVE FALSE
  OBVIOUS
<1>2. cur # Nobody /\ o = cur /\ Call = "compensate"
  BY <1>1, MarkerMoves
<1>3. ~mem.receipt /\ ~journal[cur].receipt
  BY <1>2, CompensateFacts DEF Calls
<1> QED BY <1>2, <1>3

\* The service segment is active when it is sealed.
LEMMA SealReached ==
  ASSUME TypeOK, Rest, Held, cur # Nobody, Call = "seal", NEW k \in Service(cur)
  PROVE  marker[cur][k] = "active"
<1>1. cur \in Operations /\ <<Call, On>> \in Ahead /\ On = "file"
  BY FirstCall, LateFacts
<1>2. <<Call, On>> = SealCall /\ SealCall \in Ahead
  BY <1>1 DEF SealCall
<1>3. Rank(cur, <<Call, On>>) = 136
  BY <1>1, <1>2, CallRanks DEF SealCall
<1>4. k \in {"secret", "grant", "control", "runtime", "artifact"}
  BY KindFacts DEF Service
<1>5. Rank(cur, <<"activate", k>>) \in 126..135
  BY <1>4 DEF Rank, ActivationRank
<1>6. <<"activate", k>> \notin Ahead
  BY <1>3, <1>5, Before
<1> QED BY <1>2, <1>6 DEF Held, Worth, SealedInv

\* The receipt and the service segment.
LEMMA ReceiptNext ==
  ASSUME TypeOK, Rest, Held, Rest', Forms
  PROVE  /\ cur' # Nobody /\ mem'.receipt => \A k \in Service(cur') : marker'[cur'][k] = "active"
         /\ \A o \in Operations : journal'[o].receipt => \A k \in Service(o) : marker'[o][k] = "active"
<1>0. /\ \A o \in Operations : journal[o].receipt => \A k \in Service(o) : marker[o][k] = "active"
      /\ cur # Nobody /\ mem.receipt => \A k \in Service(cur) : marker[cur][k] = "active"
      /\ \A o \in Operations : Service(o) \subseteq Cells
      /\ mem \in Entry
  BY DEF Held, Worth, SealedInv, Service, TypeOK
<1>1. ASSUME cur # Nobody, cur \in Operations, mem.receipt, NEW k \in Service(cur)
      PROVE  marker'[cur][k] = "active"
  BY <1>0, <1>1, ActiveStays
<1>2. ASSUME cur' # Nobody, mem'.receipt, NEW k \in Service(cur')
      PROVE  marker'[cur'][k] = "active"
  <2>1. CASE cur' = cur
    <3>1. cur \in Operations
      BY <1>2, <2>1, FirstCall
    <3>2. CASE mem.receipt
      BY <1>1, <1>2, <2>1, <3>1, <3>2
    <3>3. CASE ~mem.receipt
      <4>1. Call = "seal"
        BY <1>2, <2>1, <3>3, ReceiptStays
      <4>2. marker[cur][k] = "active"
        BY <1>2, <2>1, <4>1, SealReached
      <4>3. Call # "compensate"
        BY <4>1
      <4> QED BY <1>0, <1>2, <2>1, <3>1, <4>2, <4>3, ActiveStays
    <3> QED BY <3>2, <3>3
  <2>2. ASSUME NEW p \in Operations, cur' = p, cur' # cur
        PROVE  marker'[cur'][k] = "active"
    <3>1. cur = Nobody /\ mem' = journal[p]
      BY <1>2, <2>2, HandlerMoves DEF Takes
    <3>2. journal[p].receipt /\ k \in Service(p)
      BY <1>2, <2>2, <3>1
    <3> QED BY <1>0, <2>2, <3>1, <3>2, ActiveStays
  <2>3. cur' \in Operations \/ cur' = cur
    <3>1. cur' # cur => Takes
      BY <1>2, HandlerMoves
    <3> QED BY <3>1 DEF Takes
  <2> QED BY <2>1, <2>2, <2>3
<1>3. ASSUME NEW o \in Operations, journal'[o].receipt, NEW k \in Service(o)
      PROVE  marker'[o][k] = "active"
  <2>1. CASE journal[o].receipt
    BY <1>0, <1>3, <2>1, ActiveStays
  <2>2. CASE o = cur /\ cur' = cur /\ journal'[o] = mem'
    BY <1>2, <1>3, <2>2, PlanAssumption
  <2>3. CASE o = cur /\ journal'[o] \in {mem, [mem EXCEPT !.state = "NeedsAttention"]}
    <3>1. mem.receipt
      BY <1>0, <1>3, <2>3 DEF Entry
    <3> QED BY <1>1, <1>3, <2>3, <3>1, PlanAssumption
  <2>4. CASE journal'[o] = Fresh("Accepted")
    BY <1>3, <2>4 DEF Fresh
  <2>5. CASE ~journal[o].receipt
    <3>1. journal'[o] # journal[o]
      BY <1>3, <2>5
    <3> QED BY <2>2, <2>3, <2>4, <3>1, JournalMoves
  <2> QED BY <2>1, <2>5
<1> QED BY <1>2, <1>3

FileCalls == {<<"switch", "file">>, <<"activate", "file">>}

\* What a handler that does not run forward has ahead of it seals and switches nothing.
LEMMA QuietFiles ==
  ASSUME NEW A, \/ \A c \in A : c[1] \in BackNames
                \/ \A c \in A : c[1] \in Single
                \/ \A c \in A : c[1] = "resume"
  PROVE  A \cap FileCalls = {} /\ SealCall \notin A
BY DEF FileCalls, SealCall, BackNames, Single

\* The seal and the client file come after what they stand for.
LEMMA SealAhead ==
  ASSUME TypeOK, Rest, Held, Rest', Forms, cur' # Nobody
  PROVE  /\ SealCall \in Ahead' =>
              \A k \in Service(cur') : marker'[cur'][k] = "active" \/ <<"activate", k>> \in Ahead'
         /\ FileCalls \cap Ahead' # {} /\ SealCall \notin Ahead' => mem'.receipt
<1> DEFINE Claimed ==
      /\ SealCall \in Ahead' =>
           \A k \in Service(cur') : marker'[cur'][k] = "active" \/ <<"activate", k>> \in Ahead'
      /\ FileCalls \cap Ahead' # {} /\ SealCall \notin Ahead' => mem'.receipt
<1>1. ASSUME Ahead' \cap FileCalls = {}, SealCall \notin Ahead' PROVE Claimed
  BY <1>1
<1>2. ASSUME cur # Nobody
      PROVE  /\ cur \in Operations
             /\ SealCall \in Ahead =>
                  \A k \in Service(cur) : marker[cur][k] = "active" \/ <<"activate", k>> \in Ahead
             /\ FileCalls \cap Ahead # {} /\ SealCall \notin Ahead => mem.receipt
             /\ Service(cur) \subseteq Cells
  BY <1>2, FirstCall DEF Held, Worth, SealedInv, Service, FileCalls
<1>3. CASE Idles
  <2>1. /\ cur' = cur /\ todo' = todo /\ mem' = mem /\ cur # Nobody
    BY <1>3 DEF Idles, handler
  <2>2. Ahead' = Ahead
    BY <2>1 DEF Ahead
  <2>3. CASE Call = "compensate"
    <3>1. \A c \in Ahead' : c[1] \in BackNames
      BY <2>1, <2>2, <2>3, FirstCall DEF BackNames
    <3> QED BY <1>1, <3>1, QuietFiles
  <2>4. CASE Call # "compensate"
    <3>1. \A k \in Service(cur) : marker[cur][k] = "active" => marker'[cur][k] = "active"
      BY <1>2, <2>1, <2>4, ActiveStays
    <3> QED BY <1>2, <2>1, <2>2, <3>1
  <2> QED BY <2>3, <2>4
<1>4. CASE Takes
  <2>1. PICK how \in {"run", "startup"} : todo' = <<<<"enter", how>>>>
    BY <1>4 DEF Takes
  <2>2. \A c \in Ahead' : c[1] \in Single
    BY <2>1 DEF Ahead, Range, Single
  <2> QED BY <1>1, <2>2, QuietFiles
<1>5. CASE Leaves \/ \E o \in Operations : Accept(o)
  BY <1>5 DEF Leaves, Accept, handler
<1>6. CASE Decides
  <2>1. cur \in Operations /\ cur' = cur /\ mem' = mem
    BY <1>6, DecidesFacts
  <2>2. \/ Ahead' = ClosingSet \/ Ahead' = RollbackSet(cur, mem) \/ Ahead' = {ParkCall}
        \/ Ahead' = ForwardSet(cur, mem) \/ (Ahead' = TailSet \cup FinishSet /\ Sealed(mem))
    BY <1>6, DecidesFacts
  <2>3. CASE Ahead' = ForwardSet(cur, mem)
    <3>1. /\ \A k : <<"activate", k>> \in Ahead' <=> k \in Plan[cur] \cap Cells
          /\ SealCall \in Ahead' <=> "file" \in Plan[cur]
      BY <2>1, <2>3, ForwardSetFacts DEF SealCall
    <3>2. \A k \in Service(cur) : <<"activate", k>> \in Ahead'
      BY <3>1 DEF Service
    <3>3. Agenda(cur, todo') /\ Ahead' \subseteq CallSet(cur)
      <4>1. cur' # Nobody /\ Agenda(cur', todo')
        BY DEF Rest, HandlerInv, AgendaInv
      <4> QED BY <2>1, <4>1, AgendaHead DEF Ahead
    <3>4. FileCalls \cap Ahead' # {} => "file" \in Plan[cur]
      BY <3>3 DEF FileCalls, CallSet
    <3> QED BY <2>1, <3>1, <3>2, <3>4
  <2>4. CASE Ahead' = TailSet \cup FinishSet /\ Sealed(mem)
    <3>1. SealCall \notin Ahead'
      BY <2>4 DEF SealCall, TailSet, FinishSet
    <3> QED BY <2>1, <2>4, <3>1 DEF Sealed
  <2>5. CASE Ahead' = ClosingSet
    BY <1>1, <2>5, ListWays, QuietFiles
  <2>6. CASE Ahead' = RollbackSet(cur, mem)
    BY <1>1, <2>1, <2>6, RollbackSetFacts, QuietFiles
  <2>7. CASE Ahead' = {ParkCall}
    <3>1. \A c \in Ahead' : c[1] \in Single
      BY <2>7 DEF ParkCall, Single
    <3> QED BY <1>1, <3>1, QuietFiles
  <2> QED BY <2>2, <2>3, <2>4, <2>5, <2>6, <2>7
<1>7. ASSUME NEW m \in {mem, Written(Call, On), Written("record", On)}, Fails(m)
      PROVE  Claimed
  <2>1. cur \in Operations /\ (Ahead' = {ParkCall} \/ Ahead' = RollbackSet(cur, m))
    BY <1>7, FailsFacts
  <2>2. CASE Ahead' = {ParkCall}
    <3>1. \A c \in Ahead' : c[1] \in Single
      BY <2>2 DEF ParkCall, Single
    <3> QED BY <1>1, <3>1, QuietFiles
  <2>3. CASE Ahead' = RollbackSet(cur, m)
    BY <1>1, <2>1, <2>3, RollbackSetFacts, QuietFiles
  <2> QED BY <2>1, <2>2, <2>3
<1>8. CASE Goes \/ Reclaims
  <2>1. /\ cur # Nobody /\ cur' = cur /\ Later \subseteq Ahead'
        /\ Ahead' \subseteq InstallCalls \cup Later
        /\ mem.receipt => mem'.receipt
        /\ Call \in ForwardNames \ {"resume"}
    <3>1. CASE Goes
      BY <3>1, GoesFacts, PlanAssumption
    <3>2. CASE Reclaims
      BY <3>2 DEF Reclaims, Calls, ForwardNames
    <3> QED BY <1>8, <3>1, <3>2
  <2>2. SealCall \notin InstallCalls /\ FileCalls \cap InstallCalls = {}
    BY DEF SealCall, InstallCalls, FileCalls
  <2>3. SealCall \in Ahead' => SealCall \in Ahead
    BY <2>1, <2>2 DEF Later
  <2>4. ASSUME SealCall \in Ahead', NEW k \in Service(cur)
        PROVE  marker'[cur][k] = "active" \/ <<"activate", k>> \in Ahead'
    <3>1. CASE marker[cur][k] = "active"
      <4>1. Call # "compensate"
        BY <2>1 DEF ForwardNames
      <4> QED BY <1>2, <2>1, <3>1, <4>1, ActiveStays
    <3>2. CASE <<"activate", k>> \in Later
      BY <2>1, <3>2
    <3>3. CASE <<"activate", k>> = <<Call, On>>
      <4>1. Call = "activate" /\ On = k
        BY <3>3
      <4>2. marker'[cur][On] = "active"
        BY <1>8, <4>1 DEF Goes, Reclaims, Calls
      <4> QED BY <4>1, <4>2
    <3> QED BY <1>2, <2>1, <2>3, <2>4, <3>1, <3>2, <3>3 DEF Later
  <2>5. ASSUME FileCalls \cap Ahead' # {}, SealCall \notin Ahead'
        PROVE  mem'.receipt
    <3>1. FileCalls \cap Ahead # {}
      BY <2>1, <2>2, <2>5 DEF Later
    <3>2. CASE SealCall \notin Ahead
      BY <1>2, <2>1, <3>1, <3>2
    <3>3. CASE SealCall = <<Call, On>>
      <4>1. Call = "seal"
        BY <3>3 DEF SealCall
      <4>2. mem' = Written(Call, On) /\ mem \in Entry
        BY <1>8, <4>1, GoesFacts DEF Reclaims, Calls, TypeOK
      <4> QED BY <4>1, <4>2, WrittenParts
    <3> QED BY <2>1, <2>5, <3>2, <3>3 DEF Later
  <2> QED BY <2>1, <2>4, <2>5
<1>9. CASE Finishes \/ Closes
  <2>1. \A c \in Ahead' : c[1] = "resume"
    BY <1>9, FinishesFacts, ClosesFacts
  <2> QED BY <1>1, <2>1, QuietFiles
<1>10. CASE Undoes
  <2>1. Call \in BackNames \ {"resume"} /\ cur # Nobody /\ Ahead' \subseteq Later
    BY <1>10, UndoesFacts, PlanAssumption DEF BackNames
  <2>2. \A c \in Ahead' : c[1] \in BackNames
    BY <2>1, FirstCall
  <2> QED BY <1>1, <2>2, QuietFiles
<1> QED BY <1>3, <1>4, <1>5, <1>6, <1>7, <1>8, <1>9, <1>10 DEF Forms, Handles

LEMMA SealedNext ==
  ASSUME TypeOK, Rest, Held, Rest', Forms
  PROVE  SealedInv'
<1>1. \A o \in Operations : journal'[o].receipt => \A k \in Service(o) : marker'[o][k] = "active"
  BY ReceiptNext
<1>2. cur' # Nobody /\ mem'.receipt => \A k \in Service(cur') : marker'[cur'][k] = "active"
  BY ReceiptNext
<1>3. cur' # Nobody =>
        /\ SealCall \in Ahead' =>
             \A k \in Service(cur') : marker'[cur'][k] = "active" \/ <<"activate", k>> \in Ahead'
        /\ FileCalls \cap Ahead' # {} /\ SealCall \notin Ahead' => mem'.receipt
  BY SealAhead
<1> QED BY <1>1, <1>2, <1>3 DEF SealedInv, Service, SealCall, FileCalls

\* Who reaches a rolled-back entry closes a rollback that is proven.
LEMMA RolledBackBy ==
  ASSUME TypeOK, Rest, Held, Rest', Forms, NEW o \in Operations,
         journal[o].state # "RolledBack", journal'[o].state = "RolledBack"
  PROVE  o = cur /\ Calls("close") /\ RollbackProven
<1>0. journal \in [Operations -> Entry] /\ mem \in Entry
  BY DEF TypeOK
<1>1. journal'[o] # journal[o]
  OBVIOUS
<1>2. CASE Idles \/ Takes \/ Decides \/ Reclaims
  BY <1>1, <1>2 DEF Idles, Takes, Decides, Reclaims
<1>3. CASE Leaves
  <2>1. CASE Calls("park") /\ journal' = [journal EXCEPT ![cur] = mem]
    <3>1. cur \in Operations /\ mem.state = "Activate"
      BY <2>1, ParkFacts
    <3> QED BY <1>0, <2>1, <3>1
  <2>2. CASE journal' = [journal EXCEPT ![cur] = [mem EXCEPT !.state = "NeedsAttention"]]
    BY <1>0, <2>2 DEF Entry
  <2> QED BY <1>1, <1>3, <2>1, <2>2 DEF Leaves
<1>4. CASE Goes
  <2>1. journal'[cur] = mem' /\ mem'.state \in Working
        /\ \A p \in Operations : p # cur => journal'[p] = journal[p]
    BY <1>4, GoesFacts
  <2>2. "RolledBack" \notin Working
    BY StepFacts DEF Working
  <2> QED BY <1>1, <2>1, <2>2
<1>5. CASE Finishes
  <2>1. journal' = [journal EXCEPT ![cur] = mem'] /\ mem' = [mem EXCEPT !.state = "Succeeded"]
    BY <1>5, FinishesFacts
  <2> QED BY <1>0, <2>1 DEF Entry
<1>6. CASE Undoes
  <2>1. /\ journal' = [journal EXCEPT ![cur] = mem'] \/ journal' = journal
        /\ mem'.state = IF Call = "rollback" THEN "RollingBack" ELSE mem.state
        /\ cur # Nobody /\ Call \notin {"enter", "resume"}
    BY <1>6, UndoesFacts, PlanAssumption
  <2>2. mem.state # "RolledBack"
    BY <2>1, FirstCall DEF Rest, HandlerInv, CurrentInv
  <2> QED BY <1>0, <1>1, <2>1, <2>2
<1>7. CASE Closes
  <2>1. /\ journal' = [journal EXCEPT ![cur] = mem']
        /\ RollbackProven \/ mem' = [mem EXCEPT !.state = "NeedsAttention"]
    BY <1>7, ClosesFacts
  <2> QED BY <1>0, <1>1, <1>7, <2>1 DEF Entry, Closes
<1>8. ASSUME NEW m \in {mem, Written(Call, On), Written("record", On)}, Fails(m)
      PROVE  FALSE
  <2>1. m.state \in Working /\ (journal' = [journal EXCEPT ![cur] = m] \/ journal' = journal)
    BY <1>8, FailsFacts
  <2>2. "RolledBack" \notin Working
    BY StepFacts DEF Working
  <2> QED BY <1>0, <1>1, <2>1, <2>2
<1>9. ASSUME NEW p \in Operations, Accept(p) PROVE FALSE
  BY <1>0, <1>9 DEF Accept, Fresh
<1> QED BY <1>2, <1>3, <1>4, <1>5, <1>6, <1>7, <1>8, <1>9 DEF Forms, Handles

LEMMA GoneNext ==
  ASSUME TypeOK, Rest, Held, Rest', Forms
  PROVE  GoneInv'
<1>1. SUFFICES ASSUME NEW o \in Operations, journal'[o].state = "RolledBack", NEW c \in Cells
               PROVE  marker'[o][c] \notin {"staged", "active"}
  BY DEF GoneInv
<1>2. CASE journal[o].state = "RolledBack"
  <2>1. marker[o][c] \notin {"staged", "active"}
    BY <1>2 DEF Held, Worth, GoneInv
  <2>2. CASE marker'[o][c] = marker[o][c]
    BY <2>1, <2>2
  <2>3. CASE marker'[o][c] # marker[o][c]
    <3>1. cur # Nobody /\ o = cur
          /\ (Call = "stage" \/ (Call = "activate" /\ marker[o][c] = "staged")
              \/ marker'[o][c] = "undone")
      BY <2>3, MarkerMoves
    <3>2. Call # "stage"
      <4>1. Call = "stage" => mem = journal[cur] /\ mem.state \in Working
        BY <3>1, ForwardFacts DEF ForwardNames
      <4> QED BY <1>2, <3>1, <4>1, StepFacts DEF Working
    <3> QED BY <2>1, <3>1, <3>2
  <2> QED BY <2>2, <2>3
<1>3. CASE journal[o].state # "RolledBack"
  <2>1. o = cur /\ Calls("close") /\ RollbackProven
    BY <1>1, <1>3, RolledBackBy
  <2>2. marker'[o][c] = marker[o][c]
    BY <2>1, MarkerMoves DEF Calls
  <2>3. CASE c \in Plan[o]
    <3>1. Seen(c) = "Missing"
      BY <2>1, <2>3 DEF RollbackProven
    <3> QED BY <2>1, <2>2, <3>1, CellSeen
  <2>4. CASE c \notin Plan[o]
    <3>1. marker[o][c] = "none"
      BY <2>4 DEF Held, Worth, ValueInv
    <3> QED BY <2>2, <3>1
  <2> QED BY <2>3, <2>4
<1> QED BY <1>2, <1>3

\* A revocation is activated behind its publication.
LEMMA RevokeReached ==
  ASSUME TypeOK, Rest, Held, cur # Nobody, Call = "activate", On = "grant",
         cur \in Revokes, "publication" \in Plan[cur]
  PROVE  active = cur
<1>1. cur \in Operations /\ <<"activate", "grant">> \in Ahead /\ <<Call, On>> = <<"activate", "grant">>
  BY FirstCall
<1>2. Rank(cur, <<"activate", "grant">>) = 135
  BY DEF Rank, ActivationRank
<1>3. Rank(cur, <<Call, On>>) = 135
  BY <1>1, <1>2, Zenon
<1>4. /\ Rank(cur, <<"checkpoint", "publication">>) = 132
      /\ Rank(cur, <<"install", "publication">>) = 133
      /\ Rank(cur, <<"mark", "publication">>) = 134
  BY <1>1, CallRanks
<1>5. <<"checkpoint", "publication">> \notin Ahead
  BY <1>3, <1>4, Before
<1>6. <<"install", "publication">> \notin Ahead
  BY <1>3, <1>4, Before
<1>7. <<"mark", "publication">> \notin Ahead
  BY <1>3, <1>4, Before
<1>8. Ahead \cap PublishCalls = {}
  BY <1>5, <1>6, <1>7 DEF PublishCalls, InstallCalls, CheckpointCall
<1> QED BY <1>1, <1>8 DEF Held, Roots, SealInv

LEMMA RevokeNext ==
  ASSUME TypeOK, Rest, Held, Rest', Forms
  PROVE  RevokeInv'
<1>1. SUFFICES ASSUME NEW o \in Revokes, "publication" \in Plan[o], marker'[o]["grant"] = "active"
               PROVE  active' # before'[o]["publication"]
  BY DEF RevokeInv
<1>2. o \in Operations /\ "grant" \in Cells
  BY PlanAssumption, KindFacts
<1>3. CASE marker[o]["grant"] = "active"
  <2>1. active # before[o]["publication"] /\ Known(o)
    BY <1>1, <1>2, <1>3 DEF Held, Worth, RevokeInv, ValueInv
  <2>2. before'[o] = before[o] /\ Once(before[o]["publication"])
    BY <1>2, <2>1, KnownGrows, EntryFacts
  <2>3. CASE active' = active
    BY <2>1, <2>2, <2>3
  <2>4. CASE active' # active
    <3>1. active' = cur /\ prepared = cur /\ Calls("mark")
      BY <2>4 DEF Forms, Publishes
    <3>2. ~Once(cur)
      BY <3>1, EntryFacts DEF Calls
    <3> QED BY <2>2, <3>1, <3>2
  <2> QED BY <2>3, <2>4
<1>4. CASE marker[o]["grant"] # "active"
  <2>1. /\ cur # Nobody /\ o = cur /\ On = "grant" /\ Call = "activate"
        /\ UNCHANGED <<before, cur>>
    BY <1>1, <1>2, <1>4, MarkerMoves
  <2>2. active = cur
    BY <1>1, <2>1, RevokeReached
  <2>3. active' = active
    BY <2>1, ServedMoves
  <2>4. before[cur]["publication"] # cur
    BY <1>2, <2>1, EntryFacts
  <2> QED BY <2>1, <2>2, <2>3, <2>4
<1> QED BY <1>3, <1>4

LEMMA WorthNext ==
  ASSUME TypeOK, Rest, Held, Rest', Forms
  PROVE  Worth'
BY ValueNext, SealedNext, GoneNext, RevokeNext DEF Worth

-----------------------------------------------------------------------------
(***************************************************************************)
(* The requests                                                            *)
(***************************************************************************)
SuspendCall == <<"suspend", "control">>

\* What a handler that does not run forward has ahead of it activates nothing.
LEMMA QuietActivation ==
  ASSUME NEW A, \/ \A c \in A : c[1] \in BackNames
                \/ \A c \in A : c[1] \in Single
                \/ \A c \in A : c[1] = "resume"
  PROVE  ~(\E c \in A : c[1] = "activate")
BY DEF BackNames, Single

LEMMA SuspendNext ==
  ASSUME TypeOK, Rest, Held, Rest', Forms
  PROVE  SuspendInv'
<1>0. SUFFICES ASSUME cur' # Nobody, \E c \in Ahead' : c[1] = "activate", SuspendCall \notin Ahead',
                      "publication" \in Plan[cur'], ~Settings(cur')
               PROVE  suspended'
  BY DEF SuspendInv, SuspendCall, Settings
<1>1. suspended => suspended'
  BY <1>0 DEF Forms, Admission
<1>2. cur # Nobody /\ (\E c \in Ahead : c[1] = "activate") /\ SuspendCall \notin Ahead
      /\ "publication" \in Plan[cur] /\ ~Settings(cur) => suspended
  BY DEF Held, SuspendInv, SuspendCall
<1>3. CASE Idles
  <2>1. /\ cur' = cur /\ todo' = todo /\ cur # Nobody
    BY <1>0, <1>3 DEF Idles, handler
  <2>2. Ahead' = Ahead
    BY <2>1 DEF Ahead
  <2> QED BY <1>0, <1>1, <1>2, <2>1, <2>2
<1>4. CASE Takes
  <2>1. PICK how \in {"run", "startup"} : todo' = <<<<"enter", how>>>>
    BY <1>4 DEF Takes
  <2>2. \A c \in Ahead' : c[1] \in Single
    BY <2>1 DEF Ahead, Range, Single
  <2> QED BY <1>0, <2>2, QuietActivation
<1>5. CASE Leaves \/ \E o \in Operations : Accept(o)
  BY <1>0, <1>5 DEF Leaves, Accept, handler
<1>6. CASE Decides
  <2>1. cur \in Operations /\ cur' = cur /\ mem' = mem /\ cur # Nobody
    BY <1>6, DecidesFacts, PlanAssumption
  <2>2. \/ Ahead' = ClosingSet \/ Ahead' = RollbackSet(cur, mem) \/ Ahead' = {ParkCall}
        \/ Ahead' = ForwardSet(cur, mem) \/ (Ahead' = TailSet \cup FinishSet /\ Sealed(mem))
    BY <1>6, DecidesFacts
  <2>3. CASE Ahead' = ForwardSet(cur, mem)
    BY <1>0, <2>1, <2>3, ForwardSetFacts DEF SuspendCall
  <2>4. CASE Sealed(mem)
    <3>1. "file" \in Plan[cur]
      BY <2>1, <2>4 DEF Rest, HandlerInv, CopyInv, EntryInv, Sealed
    <3> QED BY <1>0, <2>1, <3>1 DEF Settings
  <2>5. CASE Ahead' = ClosingSet
    BY <1>0, <2>5, ListWays, QuietActivation
  <2>6. CASE Ahead' = RollbackSet(cur, mem)
    BY <1>0, <2>1, <2>6, RollbackSetFacts, QuietActivation
  <2>7. CASE Ahead' = {ParkCall}
    <3>1. \A c \in Ahead' : c[1] \in Single
      BY <2>7 DEF ParkCall, Single
    <3> QED BY <1>0, <3>1, QuietActivation
  <2> QED BY <2>2, <2>3, <2>4, <2>5, <2>6, <2>7
<1>7. ASSUME NEW m \in {mem, Written(Call, On), Written("record", On)}, Fails(m)
      PROVE  suspended'
  <2>1. cur \in Operations /\ (Ahead' = {ParkCall} \/ Ahead' = RollbackSet(cur, m))
    BY <1>7, FailsFacts
  <2>2. CASE Ahead' = {ParkCall}
    <3>1. \A c \in Ahead' : c[1] \in Single
      BY <2>2 DEF ParkCall, Single
    <3> QED BY <1>0, <3>1, QuietActivation
  <2>3. CASE Ahead' = RollbackSet(cur, m)
    BY <1>0, <2>1, <2>3, RollbackSetFacts, QuietActivation
  <2> QED BY <2>1, <2>2, <2>3
<1>8. CASE Goes \/ Reclaims
  <2>1. /\ cur # Nobody /\ cur' = cur /\ Later \subseteq Ahead'
        /\ Ahead' \subseteq InstallCalls \cup Later
    <3>1. CASE Goes
      BY <3>1, GoesFacts, PlanAssumption
    <3>2. CASE Reclaims
      BY <3>2 DEF Reclaims, Calls
    <3> QED BY <1>8, <3>1, <3>2
  <2>2. \A c \in InstallCalls : c[1] # "activate"
    BY DEF InstallCalls
  <2>3. \E c \in Ahead : c[1] = "activate"
    BY <1>0, <2>1, <2>2 DEF Later
  <2>4. CASE SuspendCall \notin Ahead
    BY <1>0, <1>1, <1>2, <2>1, <2>3, <2>4
  <2>5. CASE SuspendCall = <<Call, On>>
    <3>1. Call = "suspend"
      BY <2>5 DEF SuspendCall
    <3> QED BY <1>0, <1>8, <2>1, <3>1 DEF Goes, Reclaims, Calls
  <2> QED BY <1>0, <2>1, <2>4, <2>5 DEF Later
<1>9. CASE Finishes \/ Closes
  <2>1. \A c \in Ahead' : c[1] = "resume"
    BY <1>9, FinishesFacts, ClosesFacts
  <2> QED BY <1>0, <2>1, QuietActivation
<1>10. CASE Undoes
  <2>1. Call \in BackNames \ {"resume"} /\ cur # Nobody /\ Ahead' \subseteq Later
    BY <1>10, UndoesFacts, PlanAssumption DEF BackNames
  <2>2. \A c \in Ahead' : c[1] \in BackNames
    BY <2>1, FirstCall
  <2> QED BY <1>0, <2>2, QuietActivation
<1> QED BY <1>3, <1>4, <1>5, <1>6, <1>7, <1>8, <1>9, <1>10 DEF Forms, Handles

LEMMA HeldNext ==
  ASSUME TypeOK, Rest, Held, Rest', [Next]_vars
  PROVE  Held'
<1>1. Forms
  BY NextForms
<1> QED BY <1>1, PathNext, RootsNext, WorthNext, SuspendNext DEF Held

\* An ordinary effect is activated while the requests are suspended.
LEMMA SuspendReached ==
  ASSUME TypeOK, Rest, Held, cur # Nobody, Call = "activate",
         "publication" \in Plan[cur], ~Settings(cur)
  PROVE  suspended
<1>1. cur \in Operations /\ <<Call, On>> \in Ahead /\ On \in Cells
  BY FirstCall, OnFacts DEF Rest, HandlerInv
<1>2. On \in {"secret", "grant", "control", "runtime", "artifact", "file"}
  BY <1>1, KindFacts
<1>3. Rank(cur, <<Call, On>>) \in 126..138
  BY <1>2 DEF Rank, ActivationRank
<1>4. Rank(cur, <<"suspend", "control">>) = 125
  BY <1>1, CallRanks
<1>5. <<"suspend", "control">> \notin Ahead
  BY <1>3, <1>4, Before
<1>6. \E c \in Ahead : c[1] = "activate"
  BY <1>1
<1> QED BY <1>5, <1>6 DEF Held, SuspendInv, Settings

\* The requests are resumed when nobody holds the claim.
LEMMA ResumeReached ==
  ASSUME TypeOK, Rest, Held, Calls("resume"), mem.state # "NeedsAttention"
  PROVE  claim = Nobody
<1>1. cur # Nobody /\ cur \in Operations /\ Call = "resume" /\ <<Call, On>> \in Ahead
      /\ Ahead \subseteq CallSet(cur)
      /\ \A c \in Later : Rank(cur, <<Call, On>>) < Rank(cur, c)
  BY FirstCall DEF Calls
<1>2. Rank(cur, <<Call, On>>) = 600
  BY <1>1 DEF Rank, NameRank
<1>3. Later = {}
  <2> SUFFICES ASSUME NEW c \in Later PROVE FALSE
    OBVIOUS
  <2>1. c \in CallSet(cur) /\ 600 < Rank(cur, c)
    BY <1>1, <1>2 DEF Later
  <2>2. Rank(cur, c) \in 0..600
    BY <1>1, <2>1, RankType
  <2> QED BY <2>1, <2>2
<1>4. \A c \in Ahead : c[1] = "resume"
  BY <1>1, <1>3 DEF Later
<1>5. mem = journal[cur] /\ mem.state \in Terminal
  BY <1>1, <1>4 DEF Held, Path, WayInv, DoneInv
<1>6. claim # cur
  BY <1>1, <1>5, StepFacts DEF Held, Roots, HolderInv, Terminal, Working
<1> QED BY <1>1, <1>4, <1>6 DEF Held, Roots, LoneInv

LEMMA TornNext ==
  ASSUME TypeOK, Rest, Held, NoTornService, Rest', [Next]_vars
  PROVE  NoTornService'
<1>0. Forms
  BY NextForms
<1>1. SUFFICES ASSUME ~suspended', NEW o \in Operations, "publication" \in Plan[o], ~Settings(o),
                      journal'[o].state # "Succeeded", NEW c \in Cells, marker'[o][c] = "active"
               PROVE  FALSE
  BY DEF NoTornService, Settings
<1>2. CASE suspended' \in {suspended, TRUE}
  <2>1. ~suspended
    BY <1>1, <1>2
  <2>2. journal[o].state # "Succeeded"
    BY <1>0, <1>1, OutcomeStays
  <2>3. marker[o][c] # "active"
    BY <1>1, <2>1, <2>2 DEF NoTornService
  <2>4. cur # Nobody /\ o = cur /\ Call = "activate"
    BY <1>0, <1>1, <2>3, MarkerMoves
  <2> QED BY <1>1, <2>1, <2>4, SuspendReached
<1>3. CASE /\ suspended' = FALSE /\ cur' = Nobody
           /\ \/ cur = Nobody /\ claim = Nobody
              \/ Calls("resume") /\ mem.state # "NeedsAttention"
           /\ UNCHANGED <<journal, before, claim, marker>>
  <2>1. claim = Nobody
    BY <1>3, ResumeReached
  <2>2. Kept(o)
    BY <1>1, <1>3, <2>1, SettledIsKept
  <2>3. journal[o].receipt
    BY <1>1, <1>3, <2>2 DEF Kept
  <2>4. "file" \in Plan[o]
    BY <2>3 DEF Rest, JournalInv, EntryInv
  <2> QED BY <1>1, <2>4 DEF Settings
<1> QED BY <1>0, <1>2, <1>3 DEF Forms, Admission

-----------------------------------------------------------------------------
(***************************************************************************)
(* The invariants hold                                                     *)
(***************************************************************************)
LEMMA InitHeld ==
  ASSUME Init
  PROVE  Held /\ NoTornService
<1>1. /\ cur = Nobody /\ claim = Nobody /\ active = Nobody /\ prepared = Nobody /\ target = Nobody
      /\ \A o \in Operations : journal[o] = Fresh("none")
      /\ \A o \in Operations, c \in Cells : marker[o][c] = "none"
      /\ \A c \in Cells : value[c] = InitialValue
      /\ \A o \in Operations : \A c \in Cells : before[o][c] = InitialValue
      /\ suspended = TRUE
  BY DEF Init, Kinds
<1>2. /\ \A o \in Operations : ~Known(o) /\ ~Once(o)
      /\ "none" \notin Working /\ InitialValue \notin Operations
  BY <1>1, StepFacts, PlanAssumption, ValueAssumption DEF Known, Once, Working, Fresh
<1>3. \A o \in Operations : /\ journal[o].state = "none" /\ ~journal[o].receipt
                            /\ journal[o].status["CompilePublication"] = "Pending"
  BY <1>1, StepFacts DEF Fresh
<1>4. Path
  BY <1>1, <1>2, <1>3 DEF Path, ShapeInv, Shape, WayInv, ForwardInv, BackInv, ParkInv, DoneInv
<1>5. EntriesInv
  BY <1>1, <1>2, <1>3 DEF EntriesInv, RootEntry
<1>6. ClaimInv /\ HolderInv
  BY <1>1, <1>2, <1>3 DEF ClaimInv, HolderInv
<1>7. RootInv /\ SealInv /\ LoneInv /\ UndoInv /\ UndoneInv
  BY <1>1 DEF RootInv, SealInv, LoneInv, UndoInv, UndoneInv
<1>8. ValueInv
  BY <1>1, <1>2 DEF ValueInv
<1>9. SealedInv /\ GoneInv
  BY <1>1, <1>3 DEF SealedInv, GoneInv
<1>10. RevokeInv
  BY <1>1, PlanAssumption, KindFacts DEF RevokeInv
<1>11. SuspendInv /\ NoTornService
  BY <1>1 DEF SuspendInv, NoTornService
<1> QED BY <1>4, <1>5, <1>6, <1>7, <1>8, <1>9, <1>10, <1>11 DEF Held, Roots, Worth

\* The whole inductive invariant, with the one property that is part of it.
LEMMA HeldHolds == Spec => [](TypeOK /\ Rest /\ Held /\ NoTornService)
<1>1. Init => TypeOK /\ Rest /\ Held /\ NoTornService
  BY InitInv, InitHeld
<1>2. TypeOK /\ Rest /\ Held /\ NoTornService /\ [Next]_vars
        => (TypeOK /\ Rest /\ Held /\ NoTornService)'
  BY NextInv, HeldNext, TornNext
<1> QED BY <1>1, <1>2, PTL DEF Spec

\* While an ordinary Operation that publishes is half activated the Gateway
\* admits no request, however handlers, failures, crashes and restarts interleave
\* (begin_product_activation, finish_product_activation, reconcile_startup_and_open).
THEOREM NoServiceIsTorn == Spec => []NoTornService
BY HeldHolds, PTL

\* Protected material is revoked only after the publication that still accepted it
\* was replaced, in the Product and at the Gateway (activate_exact_effects).
THEOREM RevocationFollows == Spec => []RevokedAfterReplaced
<1>1. TypeOK /\ Rest /\ Held => RevokedAfterReplaced
  <2> SUFFICES ASSUME TypeOK, Rest, Held, NEW o \in Revokes, "publication" \in Plan[o],
                      marker[o]["grant"] = "active"
               PROVE  before[o]["publication"] \notin {active, target} \ {Nobody}
    BY DEF RevokedAfterReplaced
  <2>1. active # before[o]["publication"]
    BY DEF Held, Worth, RevokeInv
  <2>2. o \in Operations /\ Known(o)
    BY PlanAssumption, KindFacts DEF Held, Worth, ValueInv
  <2>3. Once(before[o]["publication"])
    BY <2>2, EntryFacts
  <2>4. target = prepared /\ prepared # Nobody => ~Once(target)
    BY DEF Held, Roots, RootInv
  <2> QED BY <2>1, <2>3, <2>4 DEF Held, Roots, RootInv
<1> QED BY <1>1, HeldHolds, PTL

\* A client file holds what an Operation wrote only behind the sealed receipt, and
\* a receipt is sealed only when the whole service segment is active
\* (seal_settings_service_completion).
THEOREM FileIsBehindReceipt == Spec => []FileFollowsService
<1>1. TypeOK /\ Held => FileFollowsService
  <2> SUFFICES ASSUME TypeOK, Held, NEW o \in Operations
               PROVE  /\ "file" \in Plan[o] /\ value["file"] = o => journal[o].receipt
                      /\ journal[o].receipt =>
                           /\ \A k \in (Plan[o] \cap Cells) \ {"file"} : marker[o][k] = "active"
                           /\ o \notin {prepared, Nobody}
    BY DEF FileFollowsService
  <2>1. value["file"] = o => journal[o].receipt
    BY KindFacts DEF Held, Worth, ValueInv
  <2>2. journal[o].receipt => \A k \in (Plan[o] \cap Cells) \ {"file"} : marker[o][k] = "active"
    BY DEF Held, Worth, SealedInv, Service
  <2>3. journal[o].receipt => o \notin {prepared, Nobody}
    BY PlanAssumption DEF Held, Roots, EntriesInv, RootEntry
  <2> QED BY <2>1, <2>2, <2>3
<1> QED BY <1>1, HeldHolds, PTL

\* A rolled-back Operation left nothing behind: no effect, no publication, and no
\* cell that still holds what it wrote (reconcile_terminal_rollback).
THEOREM RollbackIsComplete == Spec => []RollbackLeavesNothing
<1>1. TypeOK /\ Held => RollbackLeavesNothing
  <2> SUFFICES ASSUME TypeOK, Held, NEW o \in Operations, journal[o].state = "RolledBack"
               PROVE  /\ \A c \in Cells : marker[o][c] \notin {"staged", "active"} /\ value[c] # o
                      /\ o \notin {active, prepared, target}
    BY DEF RollbackLeavesNothing
  <2>1. \A c \in Cells : marker[o][c] \notin {"staged", "active"}
    BY DEF Held, Worth, GoneInv
  <2>2. \A c \in Cells : value[c] # o
    BY <2>1 DEF Held, Worth, ValueInv
  <2>3. o \notin {active, prepared, target}
    BY DEF Held, Roots, EntriesInv, RootEntry
  <2> QED BY <2>1, <2>2, <2>3
<1> QED BY <1>1, HeldHolds, PTL

-----------------------------------------------------------------------------
(***************************************************************************)
(* The lifecycle                                                           *)
(***************************************************************************)
\* The state the journal has for each Operation, as the lifecycle sees it.
Journaled == [o \in Operations |-> journal[o].state]

\* t is the step after s.
Follows(s, t) == s \in Working /\ t \in Steps /\ No(t) = No(s) + 1

\* Until the rollback is recorded the handler's copy is at most the one step
\* ahead of the journal whose beginning could not be saved.
StepInv == cur # Nobody /\ RollingCall \in Ahead =>
  mem.state = journal[cur].state \/ Follows(journal[cur].state, mem.state)

\* A run begins its steps one after the other, or the step it is in once more.
LEMMA BeginNext ==
  ASSUME TypeOK, Rest, Held, cur # Nobody, Call = "begin"
  PROVE  On \in Steps /\ (On = mem.state \/ Follows(mem.state, On))
<1>1. /\ Call \in ForwardNames \ {"resume"} /\ Call \in ForwardCalls /\ cur \in Operations
      /\ mem \in Entry /\ On \in Steps
  <2>1. Call \in ForwardNames \ {"resume"} /\ Call \in ForwardCalls
    BY DEF ForwardNames, ForwardCalls
  <2> QED BY <2>1, FirstCall, OnFacts DEF Rest, HandlerInv
<1>2. /\ mem.state \in Working
      /\ \A p \in Steps : StepNo[p] > No(mem.state) => <<"begin", p>> \in Ahead
  BY <1>1, ForwardFacts
<1>3. No(mem.state) <= No(Written(Call, On).state)
  BY <1>1, WrittenShape
<1>4. Written(Call, On).state = On
  BY <1>1, CallWritten
<1>5. /\ No(mem.state) \in Int /\ StepNo[On] \in Int /\ No(On) = StepNo[On]
      /\ No(mem.state) \in 0..6 /\ StepNo[On] \in 1..6 /\ No(mem.state) <= StepNo[On]
  BY <1>1, <1>2, <1>3, <1>4, NoFacts
<1>6. ~(StepNo[On] > No(mem.state) + 1)
  <2> SUFFICES ASSUME StepNo[On] > No(mem.state) + 1 PROVE FALSE
    OBVIOUS
  <2>1. No(mem.state) + 1 \in 1..6
    BY <1>5
  <2>2. PICK p \in Steps : StepNo[p] = No(mem.state) + 1
    BY <2>1, NoFacts
  <2>3. StepNo[p] > No(mem.state) /\ StepNo[p] \in Int /\ StepNo[p] < StepNo[On]
    BY <1>5, <2>2
  <2>4. <<"begin", p>> \in Ahead
    BY <1>2, <2>3
  <2>5. Rank(cur, <<"begin", p>>) = 20 * StepNo[p] /\ Rank(cur, <<"begin", On>>) = 20 * StepNo[On]
    BY <1>1, StepRanks
  <2>6. Rank(cur, <<Call, On>>) = 20 * StepNo[On]
    BY <2>5
  <2>7. 20 * StepNo[p] \in Int /\ 20 * StepNo[On] \in Int /\ 20 * StepNo[p] < 20 * StepNo[On]
    BY <1>5, <2>3
  <2> QED BY <2>4, <2>5, <2>6, <2>7, Before
<1>7. CASE StepNo[On] = No(mem.state)
  <2>1. mem.state \in Steps
    BY <1>2, <1>5, <1>7, NoFacts DEF Working
  <2>2. StepNo[mem.state] = StepNo[On]
    BY <1>7, <2>1, NoFacts
  <2> QED BY <1>1, <2>1, <2>2, NoFacts
<1>8. CASE StepNo[On] = No(mem.state) + 1
  BY <1>1, <1>2, <1>5, <1>8 DEF Follows
<1> QED BY <1>5, <1>6, <1>7, <1>8

\* A run ends in its last step.
LEMMA FinishReached ==
  ASSUME TypeOK, Rest, Held, cur # Nobody, Call = "finish"
  PROVE  mem.state = "Activate" /\ mem = journal[cur]
<1>1. Call \in ForwardNames \ {"resume"} /\ cur \in Operations /\ On = "Succeeded"
  <2>1. Call \in ForwardNames \ {"resume"}
    BY DEF ForwardNames
  <2> QED BY <2>1, FirstCall, OnFacts DEF Rest, HandlerInv
<1>2. Rank(cur, <<Call, On>>) = 151
  BY <1>1, CallRanks
<1>3. Rank(cur, <<"begin", "Activate">>) = 120
  <2>1. Rank(cur, <<"begin", "Activate">>) = 20 * StepNo["Activate"]
    BY <1>1, StepRanks, NoFacts
  <2> QED BY <2>1, NoFacts
<1>4. <<"begin", "Activate">> \notin Ahead
  BY <1>2, <1>3, Before
<1> QED BY <1>1, <1>4, ActivateReached, EnteredIsJournal

\* Every step keeps the copy close to the journal.
LEMMA StepNext ==
  ASSUME TypeOK, Rest, Held, StepInv, Rest', Forms
  PROVE  StepInv'
<1>0. SUFFICES ASSUME cur' # Nobody, RollingCall \in Ahead'
               PROVE  \/ mem'.state = journal'[cur'].state
                      \/ Follows(journal'[cur'].state, mem'.state)
  BY DEF StepInv, RollingCall, Follows, No, Working
<1>1. /\ cur # Nobody /\ RollingCall \in Ahead =>
           mem.state = journal[cur].state \/ Follows(journal[cur].state, mem.state)
      /\ journal \in [Operations -> Entry] /\ mem \in Entry
      /\ Nobody \notin Operations
  BY PlanAssumption DEF StepInv, TypeOK
<1>2. CASE Idles
  <2>1. /\ cur' = cur /\ todo' = todo /\ mem' = mem /\ journal' = journal
    BY <1>2 DEF Idles, handler
  <2>2. Ahead' = Ahead
    BY <2>1 DEF Ahead
  <2> QED BY <1>0, <1>1, <2>1, <2>2
<1>3. CASE Takes
  BY <1>3 DEF Takes
<1>4. CASE Leaves \/ \E o \in Operations : Accept(o)
  BY <1>0, <1>4 DEF Leaves, Accept, handler
<1>5. CASE Decides
  BY <1>5, DecidesFacts
<1>6. CASE Goes
  BY <1>6, GoesFacts
<1>7. CASE Reclaims
  <2>1. cur # Nobody /\ Call = "reclaim" /\ UNCHANGED <<journal, mem, cur>>
    BY <1>7 DEF Reclaims, Calls
  <2>2. mem = journal[cur]
    BY <2>1, ForwardFacts DEF ForwardNames
  <2> QED BY <2>1, <2>2
<1>8. CASE Finishes \/ Closes
  <2>1. cur' = cur /\ cur \in Operations /\ journal' = [journal EXCEPT ![cur] = mem']
    BY <1>8, FinishesFacts, ClosesFacts
  <2> QED BY <1>1, <2>1
<1>9. CASE Undoes
  <2>1. /\ cur \in Operations /\ cur' = cur /\ Ahead' \subseteq Later
        /\ mem'.state = IF Call = "rollback" THEN "RollingBack" ELSE mem.state
        /\ journal' = [journal EXCEPT ![cur] = mem']
              \/ (journal' = journal /\ Call \in {"reconcile", "compensate"})
    BY <1>9, UndoesFacts
  <2>2. RollingCall \in Ahead
    BY <1>0, <2>1 DEF Later
  <2> QED BY <1>1, <2>1, <2>2
<1>10. ASSUME NEW m \in {mem, Written(Call, On), Written("record", On)}, Fails(m)
       PROVE  \/ mem'.state = journal'[cur'].state
              \/ Follows(journal'[cur'].state, mem'.state)
  <2>1. /\ cur \in Operations /\ cur' = cur /\ mem' = m /\ mem = journal[cur]
        /\ \/ journal' = journal
           \/ journal' = [journal EXCEPT ![cur] = m]
    BY <1>10, FailsFacts
  <2>2. CASE journal' = [journal EXCEPT ![cur] = m]
    BY <1>1, <2>1, <2>2
  <2>3. CASE journal' = journal /\ m = mem
    BY <2>1, <2>3
  <2>4. CASE journal' = journal /\ m = Written("record", On)
    <3>1. m.state = mem.state
      BY <1>1, <2>4, WrittenParts
    <3> QED BY <2>1, <2>4, <3>1
  <2>5. CASE journal' = journal /\ m = Written(Call, On)
    <3>1. /\ Call \in {"begin", "complete", "compensating"} => On \in Steps
          /\ Call # "rollback"
      BY <1>1, <1>10, <2>1, OnFacts DEF Rest, HandlerInv, Fails, ForwardCalls
    <3>2. m.state = IF Call = "begin" THEN On ELSE mem.state
      BY <1>1, <2>5, <3>1, CallWritten
    <3>3. CASE Call = "begin"
      BY <1>1, <2>1, <2>5, <3>2, <3>3, BeginNext
    <3> QED BY <2>1, <2>5, <3>2, <3>3
  <2> QED BY <2>1, <2>2, <2>3, <2>4, <2>5
<1> QED BY <1>2, <1>3, <1>4, <1>5, <1>6, <1>7, <1>8, <1>9, <1>10 DEF Forms, Handles

\* What the lifecycle allows.
LEMMA TableFacts ==
  /\ \A s, t : Follows(s, t) => Lifecycle!CanTransitionTo(s, t)
  /\ \A s \in Working : Lifecycle!CanTransitionTo(s, "RollingBack")
  /\ Lifecycle!CanTransitionTo("Activate", "Succeeded")
  /\ Lifecycle!CanTransitionTo("RollingBack", "NeedsAttention")
  /\ Lifecycle!CanTransitionTo("RollingBack", "RolledBack")
  /\ Lifecycle!CanTransitionTo("NeedsAttention", "RolledBack")
  /\ Lifecycle!Unsettled = Working \cup {"RollingBack", "NeedsAttention"}
  /\ Lifecycle!Closed = {"Succeeded", "RolledBack"}
<1>1. Lifecycle!Working = Working
  BY StepFacts DEF Lifecycle!Working, Working
<1>2. /\ Lifecycle!NextStep["Accepted"] = "Prepare"
      /\ Lifecycle!NextStep["Prepare"] = "ApplySecrets"
      /\ Lifecycle!NextStep["ApplySecrets"] = "MaterializeSources"
      /\ Lifecycle!NextStep["MaterializeSources"] = "CompilePublication"
      /\ Lifecycle!NextStep["CompilePublication"] = "ApplyAgentArtifacts"
      /\ Lifecycle!NextStep["ApplyAgentArtifacts"] = "Activate"
      /\ Lifecycle!NextStep["Activate"] = "Succeeded"
  BY Zenon DEF Lifecycle!NextStep, Lifecycle!Working
<1>3. ASSUME NEW s, NEW t, Follows(s, t)
      PROVE  t = Lifecycle!NextStep[s]
  <2>1. s \in {"Accepted", "Prepare", "ApplySecrets", "MaterializeSources",
               "CompilePublication", "ApplyAgentArtifacts", "Activate"}
        /\ t \in {"Prepare", "ApplySecrets", "MaterializeSources",
               "CompilePublication", "ApplyAgentArtifacts", "Activate"}
    BY <1>3, StepFacts DEF Follows, Working
  <2>2. No(t) = No(s) + 1
    BY <1>3 DEF Follows
  <2>3. /\ No("Accepted") = 0 /\ No("Prepare") = 1 /\ No("ApplySecrets") = 2
        /\ No("MaterializeSources") = 3 /\ No("CompilePublication") = 4
        /\ No("ApplyAgentArtifacts") = 5 /\ No("Activate") = 6
    BY StepFacts DEF No, StepNo
  <2> QED BY <1>2, <2>1, <2>2, <2>3
<1> QED BY <1>1, <1>2, <1>3, StepFacts
        DEF Lifecycle!CanTransitionTo, Lifecycle!Unsettled, Lifecycle!Closed, Working, Follows

\* How an entry that is written changes the states.
LEMMA StateMoves ==
  ASSUME TypeOK, NEW o \in Operations, NEW m, journal' = [journal EXCEPT ![o] = m]
  PROVE  Journaled' = [Journaled EXCEPT ![o] = m.state]
<1>1. journal \in [Operations -> Entry]
  BY DEF TypeOK
<1>2. \A p \in Operations : journal'[p].state = IF p = o THEN m.state ELSE journal[p].state
  BY <1>1
<1> QED BY <1>2 DEF Journaled

\* Nothing the lifecycle sees changes.
LEMMA StateStays ==
  ASSUME TypeOK, claim' = claim,
         \A p \in Operations : journal'[p].state = journal[p].state
  PROVE  UNCHANGED Lifecycle!vars
<1>1. Journaled' = Journaled
  BY DEF Journaled
<1> QED BY <1>1 DEF Lifecycle!vars, Journaled

\* An entry is written with the state it has.
LEMMA SameState ==
  ASSUME TypeOK, claim' = claim, NEW o \in Operations, NEW m,
         journal' = journal \/ journal' = [journal EXCEPT ![o] = m], m.state = journal[o].state
  PROVE  UNCHANGED Lifecycle!vars
<1>1. journal \in [Operations -> Entry]
  BY DEF TypeOK
<1>2. \A p \in Operations : journal'[p].state = journal[p].state
  BY <1>1
<1> QED BY <1>2, StateStays

\* The writer makes a transition.
LEMMA WriterMoves ==
  ASSUME TypeOK, NEW o \in Operations, claim = o, NEW to, NEW m,
         journal' = [journal EXCEPT ![o] = m], m.state = to,
         \/ Lifecycle!CanTransitionTo(journal[o].state, to)
         \/ to = "NeedsAttention" /\ Lifecycle!CanTransitionTo(journal[o].state, "RollingBack"),
         to \in Lifecycle!Unsettled \cup Lifecycle!Closed,
         claim' = IF to \in Lifecycle!Closed THEN Nobody ELSE claim
  PROVE  Lifecycle!Next
<1>1. Journaled' = [Journaled EXCEPT ![o] = to] /\ Journaled[o] = journal[o].state
  BY StateMoves DEF Journaled
<1>2. Lifecycle!Move(o, to)
  BY <1>1 DEF Lifecycle!Move, Journaled
<1> QED BY <1>2 DEF Lifecycle!Next

\* An Operation is admitted.
LEMMA Admitted ==
  ASSUME TypeOK, NEW o \in Operations, journal[o].state = "none", claim = Nobody, claim' = o,
         journal' = [journal EXCEPT ![o] = Fresh("Accepted")]
  PROVE  Lifecycle!Next
<1>1. Journaled[o] = "none"
  BY DEF Journaled
<1>2. Fresh("Accepted").state = "Accepted"
  BY DEF Fresh
<1>3. Journaled' = [Journaled EXCEPT ![o] = "Accepted"]
  BY <1>2, StateMoves
<1>4. Lifecycle!Admit(o)
  BY <1>1, <1>3 DEF Lifecycle!Admit, Journaled
<1> QED BY <1>4 DEF Lifecycle!Next

\* The writer parks its tail.
LEMMA ParkedTail ==
  ASSUME TypeOK, NEW o \in Operations, claim = o, claim' = Nobody, journal[o].state = "Activate",
         Journaled' = Journaled
  PROVE  Lifecycle!Next
<1>1. Journaled[o] = "Activate"
  BY DEF Journaled
<1>2. Lifecycle!Park(o)
  BY <1>1 DEF Lifecycle!Park, Journaled
<1> QED BY <1>2 DEF Lifecycle!Next

\* A parked tail takes the claim again.
LEMMA Reclaimed ==
  ASSUME TypeOK, NEW o \in Operations, claim = Nobody, claim' = o, journal[o].state = "Activate",
         journal' = journal
  PROVE  Lifecycle!Next
<1>1. Journaled' = Journaled /\ Journaled[o] = "Activate"
  BY DEF Journaled
<1>2. Lifecycle!Reclaim(o)
  BY <1>1 DEF Lifecycle!Reclaim, Journaled
<1> QED BY <1>2 DEF Lifecycle!Next

\* A parked tail is left for attention.
LEMMA Abandoned ==
  ASSUME TypeOK, NEW o \in Operations, claim = Nobody, claim' = claim,
         journal[o].state = "Activate",
         NEW m, m.state = "NeedsAttention", journal' = [journal EXCEPT ![o] = m]
  PROVE  Lifecycle!Next
<1>1. Journaled[o] = "Activate"
  BY DEF Journaled
<1>2. Journaled' = [Journaled EXCEPT ![o] = "NeedsAttention"]
  BY StateMoves
<1>3. Lifecycle!Abandon(o)
  BY <1>1, <1>2 DEF Lifecycle!Abandon, Journaled
<1> QED BY <1>3 DEF Lifecycle!Next

\* Every step is a step of the lifecycle, or changes nothing it sees.
LEMMA LifecycleStep ==
  ASSUME TypeOK, Rest, Held, StepInv, Rest', Forms
  PROVE  Lifecycle!Next \/ UNCHANGED Lifecycle!vars
<1>0. /\ journal \in [Operations -> Entry] /\ mem \in Entry
      /\ claim \in Operations \cup {Nobody} /\ Nobody \notin Operations
  BY PlanAssumption DEF TypeOK
<1>1. CASE Idles \/ Takes \/ Decides
  <2>1. journal' = journal /\ claim' = claim
    BY <1>1 DEF Idles, Takes, Decides
  <2> QED BY <2>1, StateStays
<1>2. CASE Leaves
  <2>1. CASE UNCHANGED <<journal, claim>>
    BY <2>1, StateStays
  <2>2. CASE /\ Calls("park") /\ claim \in {cur, Nobody}
             /\ journal' = [journal EXCEPT ![cur] = mem] /\ claim' = Nobody
    <3>1. cur \in Operations /\ mem.state = "Activate" /\ journal[cur].state = "Activate"
      BY <2>2, ParkFacts
    <3>2. \A p \in Operations : journal'[p].state = journal[p].state
      BY <1>0, <2>2, <3>1
    <3>3. CASE claim = cur
      <4>1. Journaled' = Journaled
        BY <3>2 DEF Journaled
      <4> QED BY <2>2, <3>1, <3>3, <4>1, ParkedTail
    <3>4. CASE claim = Nobody
      BY <2>2, <3>2, <3>4, StateStays
    <3> QED BY <2>2, <3>3, <3>4
  <2>3. CASE /\ Calls("abort") /\ claim' = claim
             /\ journal' = [journal EXCEPT ![cur] = [mem EXCEPT !.state = "NeedsAttention"]]
    <3>1. cur # Nobody /\ Call = "abort" /\ cur \in Operations /\ <<Call, On>> \in Ahead
          /\ On = "publication"
      BY <2>3, FirstCall, OnFacts DEF Calls, Rest, HandlerInv
    <3>2. AbortCall \in Ahead /\ Backwards
      BY <3>1 DEF AbortCall, Backwards, BackNames
    <3>3. journal[cur].state \in Working \cup {"RollingBack"}
      BY <3>1, <3>2 DEF Held, Path, WayInv, BackInv
    <3> DEFINE m == [mem EXCEPT !.state = "NeedsAttention"]
    <3>4. m.state = "NeedsAttention" /\ journal' = [journal EXCEPT ![cur] = m]
      BY <1>0, <2>3 DEF Entry
    <3> HIDE DEF m
    <3>5. CASE claim = cur
      <4>1. \/ Lifecycle!CanTransitionTo(journal[cur].state, "NeedsAttention")
            \/ Lifecycle!CanTransitionTo(journal[cur].state, "RollingBack")
        BY <3>3, TableFacts
      <4>2. /\ "NeedsAttention" \in Lifecycle!Unsettled \cup Lifecycle!Closed
            /\ "NeedsAttention" \notin Lifecycle!Closed
        BY TableFacts
      <4> QED BY <2>3, <3>1, <3>4, <3>5, <4>1, <4>2, WriterMoves
    <3>6. CASE claim # cur
      <4>1. journal[cur].state = "Activate"
        BY <2>3, <3>6, RefusedFacts
      <4>2. claim = Nobody
        BY <3>1, <3>6 DEF Held, Roots, LoneInv
      <4> QED BY <2>3, <3>1, <3>4, <4>1, <4>2, Abandoned
    <3> QED BY <3>5, <3>6
  <2> QED BY <1>2, <2>1, <2>2, <2>3 DEF Leaves
<1>3. CASE Goes
  <2>1. /\ cur \in Operations /\ Call \in ForwardNames \ {"resume"} /\ claim' = claim
        /\ mem = journal[cur] /\ mem' = journal'[cur] /\ mem'.state \in Working
        /\ \A o \in Operations : o # cur => journal'[o] = journal[o]
        /\ mem' # mem => mem' = Written(Call, On)
        /\ mem.receipt => mem'.receipt /\ Shape(mem')
    BY <1>3, GoesFacts
  <2>2. CASE mem'.state = mem.state
    <3>1. \A p \in Operations : journal'[p].state = journal[p].state
      BY <2>1, <2>2
    <3> QED BY <2>1, <3>1, StateStays
  <2>3. CASE mem'.state # mem.state
    <3>1. mem' = Written(Call, On) /\ Call # "rollback"
      BY <2>1, <2>3 DEF ForwardNames
    <3>2. Call \in {"begin", "complete", "compensating"} => On \in Steps
      BY <1>0, <2>1, OnFacts DEF Rest, HandlerInv
    <3>3. Call = "begin" /\ mem'.state = On
      BY <1>0, <2>3, <3>1, <3>2, CallWritten
    <3>4. Follows(mem.state, On)
      BY <1>0, <2>1, <2>3, <3>3, BeginNext
    <3>5. claim = cur
      <4> SUFFICES ASSUME claim # cur PROVE FALSE
        OBVIOUS
      <4>1. mem.state = "Activate"
        BY <1>0, <2>1, RunClaim
      <4> QED BY <3>4, <4>1, NoFacts DEF Follows
    <3>6. journal' = [journal EXCEPT ![cur] = mem']
      BY <1>3, <2>3 DEF Goes, Save
    <3>7. Lifecycle!CanTransitionTo(journal[cur].state, On)
      BY <2>1, <3>4, TableFacts
    <3>8. On \in Lifecycle!Unsettled /\ On \notin Lifecycle!Closed
      BY <3>4, StepFacts, TableFacts DEF Follows, Working
    <3> QED BY <2>1, <3>3, <3>5, <3>6, <3>7, <3>8, WriterMoves
  <2> QED BY <2>2, <2>3
<1>4. CASE Reclaims
  <2>1. /\ cur # Nobody /\ Call = "reclaim" /\ claim \in {cur, Nobody} /\ claim' = cur
        /\ journal' = journal
    BY <1>4 DEF Reclaims, Calls
  <2>2. CASE claim = cur
    BY <2>1, <2>2, StateStays
  <2>3. CASE claim # cur
    <3>1. Call \in ForwardNames \ {"resume"} /\ cur \in Operations
      BY <2>1, FirstCall DEF ForwardNames
    <3>2. journal[cur].state = "Activate"
      BY <2>1, <2>3, <3>1, RunClaim
    <3> QED BY <2>1, <2>3, <3>1, <3>2, Reclaimed
  <2> QED BY <2>2, <2>3
<1>5. CASE Finishes
  <2>1. /\ cur \in Operations /\ claim = cur /\ claim' = Nobody
        /\ mem' = [mem EXCEPT !.state = "Succeeded"]
        /\ journal' = [journal EXCEPT ![cur] = mem']
    BY <1>5, FinishesFacts
  <2>2. mem'.state = "Succeeded"
    BY <1>0, <2>1 DEF Entry
  <2>3. journal[cur].state = "Activate"
    BY <1>5, FinishReached DEF Finishes, Calls
  <2>4. /\ Lifecycle!CanTransitionTo(journal[cur].state, "Succeeded")
        /\ "Succeeded" \in Lifecycle!Closed
    BY <2>3, TableFacts
  <2> QED BY <2>1, <2>2, <2>4, WriterMoves
<1>6. CASE Undoes
  <2>1. /\ cur \in Operations /\ Backwards
        /\ mem'.state = IF Call = "rollback" THEN "RollingBack" ELSE mem.state
        /\ Call \in {"abort", "rollback", "compensating", "reconcile", "compensate", "settle"}
        /\ journal' = [journal EXCEPT ![cur] = mem'] \/ journal' = journal
        /\ Call \notin {"reconcile", "compensate"} => journal' = [journal EXCEPT ![cur] = mem']
    BY <1>6, UndoesFacts
  <2>2. claim = cur /\ claim' = claim /\ cur # Nobody
    BY <1>6, UndoClaim, UndoesFacts
  <2>3. <<Call, On>> \in Ahead /\ (Call = "abort" => On = "publication")
        /\ (Call = "rollback" => On = "RollingBack")
    BY <2>2, FirstCall, OnFacts DEF Rest, HandlerInv
  <2>4. BackInv
    BY DEF Held, Path, WayInv
  <2>5. CASE mem'.state = journal[cur].state
    BY <2>1, <2>2, <2>5, SameState
  <2>6. CASE Call = "abort" /\ mem'.state # journal[cur].state
    <3>1. RollingCall \in Ahead
      BY <2>1, <2>2, <2>3, <2>4, <2>6 DEF BackInv, AbortCall
    <3>2. Follows(journal[cur].state, mem'.state)
      BY <2>1, <2>2, <2>6, <3>1 DEF StepInv
    <3>3. Lifecycle!CanTransitionTo(journal[cur].state, mem'.state)
      BY <3>2, TableFacts
    <3>4. mem'.state \in Lifecycle!Unsettled /\ mem'.state \notin Lifecycle!Closed
      BY <3>2, StepFacts, TableFacts DEF Follows, Working
    <3> QED BY <2>1, <2>2, <2>6, <3>3, <3>4, WriterMoves
  <2>7. CASE Call = "rollback" /\ mem'.state # journal[cur].state
    <3>1. RollingCall \in Ahead
      BY <2>3, <2>7 DEF RollingCall
    <3>2. journal[cur].state \in Working /\ mem'.state = "RollingBack"
      BY <2>1, <2>2, <2>4, <2>7, <3>1 DEF BackInv
    <3>3. Lifecycle!CanTransitionTo(journal[cur].state, "RollingBack")
      BY <3>2, TableFacts
    <3>4. "RollingBack" \in Lifecycle!Unsettled /\ "RollingBack" \notin Lifecycle!Closed
      BY TableFacts
    <3> QED BY <2>1, <2>2, <2>7, <3>2, <3>3, <3>4, WriterMoves
  <2>8. CASE Call \notin {"abort", "rollback"}
    <3>1. RollingCall \notin Ahead
      BY <2>1, <2>2, <2>8, RollingPassed
    <3>2. mem'.state = journal[cur].state
      BY <2>1, <2>2, <2>4, <2>8, <3>1 DEF BackInv
    <3> QED BY <2>5, <3>2
  <2> QED BY <2>5, <2>6, <2>7, <2>8
<1>7. CASE Closes
  <2>1. /\ cur \in Operations /\ claim = cur
        /\ journal[cur].state \in {"RollingBack", "NeedsAttention"}
        /\ journal' = [journal EXCEPT ![cur] = mem']
        /\ \/ claim' = Nobody /\ mem' = [mem EXCEPT !.state = "RolledBack"]
           \/ claim' = claim /\ mem' = [mem EXCEPT !.state = "NeedsAttention"]
    BY <1>7, ClosesFacts, UndoClaim
  <2>2. CASE claim' = Nobody /\ mem' = [mem EXCEPT !.state = "RolledBack"]
    <3>1. mem'.state = "RolledBack"
      BY <1>0, <2>2 DEF Entry
    <3>2. Lifecycle!CanTransitionTo(journal[cur].state, "RolledBack") /\ "RolledBack" \in Lifecycle!Closed
      BY <2>1, TableFacts
    <3> QED BY <2>1, <2>2, <3>1, <3>2, WriterMoves
  <2>3. CASE claim' = claim /\ mem' = [mem EXCEPT !.state = "NeedsAttention"]
    <3>1. mem'.state = "NeedsAttention"
      BY <1>0, <2>3 DEF Entry
    <3>2. CASE journal[cur].state = "NeedsAttention"
      BY <2>1, <2>3, <3>1, <3>2, SameState
    <3>3. CASE journal[cur].state = "RollingBack"
      <4>1. /\ Lifecycle!CanTransitionTo(journal[cur].state, "NeedsAttention")
            /\ "NeedsAttention" \in Lifecycle!Unsettled
            /\ "NeedsAttention" \notin Lifecycle!Closed
        BY <3>3, TableFacts
      <4> QED BY <2>1, <2>3, <3>1, <4>1, WriterMoves
    <3> QED BY <2>1, <3>2, <3>3
  <2> QED BY <2>1, <2>2, <2>3
<1>8. ASSUME NEW m \in {mem, Written(Call, On), Written("record", On)}, Fails(m)
      PROVE  UNCHANGED Lifecycle!vars
  <2>1. /\ cur \in Operations /\ mem = journal[cur] /\ claim' = claim
        /\ \/ journal' = journal
           \/ m = Written("record", On) /\ journal' = [journal EXCEPT ![cur] = m]
    BY <1>8, FailsFacts
  <2>2. Written("record", On).state = mem.state
    BY <1>0, WrittenParts
  <2>3. CASE journal' = journal
    BY <2>1, <2>3, StateStays
  <2>4. CASE m = Written("record", On) /\ journal' = [journal EXCEPT ![cur] = m]
    BY <2>1, <2>2, <2>4, SameState
  <2> QED BY <2>1, <2>3, <2>4
<1>9. ASSUME NEW o \in Operations, Accept(o)
      PROVE  Lifecycle!Next
  BY <1>9, Admitted DEF Accept
<1> QED BY <1>1, <1>2, <1>3, <1>4, <1>5, <1>6, <1>7, <1>8, <1>9 DEF Forms, Handles

\* The engine moves its durable Operations as the lifecycle promises, whatever
\* effects they have and however handlers, failures, crashes and restarts
\* interleave (OperationState::can_transition_to, begin_operation, save_operation,
\* save_operation_tail, reclaim_operation_writer).
THEOREM EngineImplementsLifecycle == Spec => ImplementsLifecycle
<1>1. Init => Lifecycle!Init /\ StepInv
  <2> SUFFICES ASSUME Init PROVE Lifecycle!Init /\ StepInv
    OBVIOUS
  <2>1. claim = Nobody /\ cur = Nobody /\ \A o \in Operations : journal[o].state = "none"
    BY DEF Init, Fresh
  <2>2. Journaled = [o \in Operations |-> "none"]
    BY <2>1 DEF Journaled
  <2> QED BY <2>1, <2>2 DEF Lifecycle!Init, Journaled, StepInv
<1>2. TypeOK /\ Rest /\ Held /\ StepInv /\ (TypeOK /\ Rest /\ Held)' /\ [Next]_vars
        => StepInv' /\ [Lifecycle!Next]_(Lifecycle!vars)
  BY NextForms, StepNext, LifecycleStep
<1> QED BY <1>1, <1>2, HeldHolds, PTL DEF Spec, ImplementsLifecycle, Lifecycle!Spec

-----------------------------------------------------------------------------
(***************************************************************************)
(* What the lifecycle says of the engine                                   *)
(***************************************************************************)
\* At most one durable Operation is under way outside a parked tail and it holds
\* the writer claim; no settled Operation ever holds it (begin_operation,
\* release_writer).
THEOREM EngineOneWriter == Spec => []Lifecycle!OneWriter
<1>1. ASSUME TypeOK, Held PROVE Lifecycle!OneWriter
  <2>1. \A o \in Operations : [p \in Operations |-> journal[p].state][o] = journal[o].state
    OBVIOUS
  <2>2. \A o \in Operations :
          journal[o].state \in Lifecycle!Unsettled \ {"Activate", "NeedsAttention"} => claim = o
    <3>1. ClaimInv /\ Lifecycle!Unsettled = Working \cup {"RollingBack", "NeedsAttention"}
      BY <1>1, TableFacts DEF Held, Roots, Lifecycle!Unsettled
    <3> QED BY <3>1, Zenon DEF ClaimInv
  <2>3. claim # Nobody => claim \in Operations /\ journal[claim].state \in Lifecycle!Unsettled
    <3>1. HolderInv /\ Lifecycle!Unsettled = Working \cup {"RollingBack", "NeedsAttention"}
      BY <1>1, TableFacts DEF Held, Roots, Lifecycle!Unsettled
    <3>2. claim \in Operations \cup {Nobody}
      BY <1>1 DEF TypeOK
    <3> QED BY <3>1, <3>2, Zenon DEF HolderInv
  <2> QED BY <2>1, <2>2, <2>3 DEF Lifecycle!OneWriter
<1> QED BY <1>1, EngineTypeCorrect, HeldHolds, PTL

\* What was written off as lost: it needs attention and nobody holds the claim for it.
WrittenOff(o) == journal[o].state = "NeedsAttention" /\ claim # o

\* A step of the lifecycle leaves alone what is closed or written off.
LEMMA StepsLeave ==
  ASSUME TypeOK, Lifecycle!Next \/ UNCHANGED Lifecycle!vars, NEW o \in Operations
  PROVE  /\ journal[o].state \in Lifecycle!Closed => journal'[o].state = journal[o].state
         /\ WrittenOff(o) => WrittenOff(o)'
<1> DEFINE s == [p \in Operations |-> journal[p].state]
           t == [p \in Operations |-> journal'[p].state]
<1>1. /\ s \in [Operations -> States] /\ \A p \in Operations : s[p] = journal[p].state
      /\ \A p \in Operations : t[p] = journal'[p].state
      /\ Nobody \notin Operations
  BY PlanAssumption DEF TypeOK, Entry
<1>2. SUFFICES /\ s[o] \in Lifecycle!Closed => t[o] = s[o]
               /\ s[o] = "NeedsAttention" /\ claim # o => t[o] = "NeedsAttention" /\ claim' # o
  BY <1>1 DEF WrittenOff
<1>3. CASE UNCHANGED Lifecycle!vars
  <2>1. t = s /\ claim' = claim
    BY <1>3 DEF Lifecycle!vars
  <2> QED BY <2>1
<1>4. ASSUME NEW p \in Operations, Lifecycle!Admit(p) PROVE <1>2!1
  <2>1. s[p] = "none" /\ claim = Nobody /\ t = [s EXCEPT ![p] = "Accepted"] /\ claim' = p
    BY <1>4 DEF Lifecycle!Admit
  <2> HIDE DEF s, t
  <2> QED BY <1>1, <2>1 DEF Lifecycle!Closed
<1>5. ASSUME NEW p \in Operations, Lifecycle!Park(p) \/ Lifecycle!Reclaim(p) PROVE <1>2!1
  <2>1. s[p] = "Activate" /\ t = s /\ claim' \in {p, Nobody}
    BY <1>5 DEF Lifecycle!Park, Lifecycle!Reclaim
  <2> HIDE DEF s, t
  <2> QED BY <1>1, <2>1
<1>6. ASSUME NEW p \in Operations, Lifecycle!Abandon(p) PROVE <1>2!1
  <2>1. s[p] = "Activate" /\ t = [s EXCEPT ![p] = "NeedsAttention"] /\ claim' = claim
    BY <1>6 DEF Lifecycle!Abandon
  <2> HIDE DEF s, t
  <2> QED BY <1>1, <2>1 DEF Lifecycle!Closed
<1>7. ASSUME NEW p \in Operations, NEW to, Lifecycle!Move(p, to) PROVE <1>2!1
  <2>1. /\ claim = p /\ t = [s EXCEPT ![p] = to] /\ claim' \in {Nobody, claim}
        /\ \/ Lifecycle!CanTransitionTo(s[p], to)
           \/ Lifecycle!CanTransitionTo(s[p], "RollingBack")
    BY <1>7 DEF Lifecycle!Move
  <2> HIDE DEF s, t
  <2>2. s[p] \notin Lifecycle!Closed
    BY <2>1 DEF Lifecycle!CanTransitionTo, Lifecycle!Closed, Lifecycle!Working
  <2> QED BY <1>1, <2>1, <2>2
<1> QED BY <1>3, <1>4, <1>5, <1>6, <1>7 DEF Lifecycle!Next

\* A durable Operation that succeeded or was rolled back is never run again, so a
\* retried request can only be answered from its record (run_accepted,
\* reconcile_startup_and_open).
THEOREM EngineClosedForGood ==
  Spec => [][ \A o \in Operations : journal[o].state \in Lifecycle!Closed
                => journal'[o].state = journal[o].state ]_(Lifecycle!vars)
<1>1. TypeOK /\ [Lifecycle!Next]_(Lifecycle!vars)
        => [\A o \in Operations : journal[o].state \in Lifecycle!Closed
              => journal'[o].state = journal[o].state]_(Lifecycle!vars)
  BY StepsLeave
<1> QED BY <1>1, EngineImplementsLifecycle, EngineTypeCorrect, PTL
      DEF ImplementsLifecycle, Lifecycle!Spec

\* The price of leaving a parked tail for attention without the claim: no retry and
\* no restart ever moves such an Operation again (finish_rollback).
THEOREM EngineAbandonedForGood ==
  Spec => [][ \A o \in Operations : WrittenOff(o) => WrittenOff(o)' ]_Lifecycle!vars
<1>1. TypeOK /\ [Lifecycle!Next]_(Lifecycle!vars)
        => [\A o \in Operations : WrittenOff(o) => WrittenOff(o)']_(Lifecycle!vars)
  BY StepsLeave
<1> QED BY <1>1, EngineImplementsLifecycle, EngineTypeCorrect, PTL
      DEF ImplementsLifecycle, Lifecycle!Spec

-----------------------------------------------------------------------------
(***************************************************************************)
(* The lifecycle itself, for any states and any claim.  Both parts of      *)
(* OneWriter and the type invariant are inductive together; what stays for *)
(* good needs only the transition table.                                   *)
(***************************************************************************)
VARIABLES anyState, anyWriter

Any == INSTANCE OperationLifecycle WITH state <- anyState, writer <- anyWriter

\* What the constants have to satisfy: "nobody" is not an Operation.
NobodyIsNoOperation == Nobody \notin Operations

\* The inductive invariant.
AbstractInv == Any!TypeOK /\ Any!OneWriter /\ NobodyIsNoOperation

LEMMA AbstractInit == NobodyIsNoOperation /\ Any!Init => AbstractInv
BY DEF NobodyIsNoOperation, Any!Init, AbstractInv, Any!TypeOK, Any!OneWriter, Any!Unsettled, Any!Working, Any!Closed

\* A Move goes on or settles, and comes from an unsettled state.
LEMMA AbstractMove ==
  ASSUME NEW from, NEW to,
         Any!CanTransitionTo(from, to) \/ (Any!CanTransitionTo(from, "RollingBack") /\ to = "NeedsAttention")
  PROVE  /\ from \in Any!Unsettled
         /\ from \notin Any!Closed
         /\ to \in Any!Unsettled \cup Any!Closed
<1>1. \A s \in Any!Working : Any!NextStep[s] \in Any!Working \cup Any!Closed
  BY DEF Any!NextStep, Any!Working, Any!Closed
<1>2. CASE from \in Any!Working
  <2>1. to \in {Any!NextStep[from], "RollingBack", "NeedsAttention"}
    BY <1>2 DEF Any!CanTransitionTo, Any!Working
  <2> QED BY <2>1, <1>1, <1>2 DEF Any!Unsettled, Any!Working, Any!Closed
<1>3. CASE from \notin Any!Working
  BY <1>3 DEF Any!CanTransitionTo, Any!Unsettled, Any!Working, Any!Closed
<1> QED BY <1>2, <1>3

LEMMA AbstractStep == AbstractInv /\ [Any!Next]_(Any!vars) => AbstractInv'
<1> SUFFICES ASSUME AbstractInv, [Any!Next]_(Any!vars) PROVE AbstractInv'
  OBVIOUS
<1> USE DEF AbstractInv, NobodyIsNoOperation
<1>1. ASSUME NEW o \in Operations, Any!Admit(o) PROVE AbstractInv'
  BY <1>1 DEF Any!Admit, Any!TypeOK, Any!OneWriter, Any!Unsettled, Any!Working, Any!Closed
<1>2. ASSUME NEW o \in Operations, Any!Park(o) PROVE AbstractInv'
  BY <1>2 DEF Any!Park, Any!TypeOK, Any!OneWriter
<1>3. ASSUME NEW o \in Operations, Any!Reclaim(o) PROVE AbstractInv'
  BY <1>3 DEF Any!Reclaim, Any!TypeOK, Any!OneWriter, Any!Unsettled, Any!Working
<1>4. ASSUME NEW o \in Operations, NEW to \in Any!Unsettled \cup Any!Closed, Any!Move(o, to)
      PROVE  AbstractInv'
  <2>1. \A p \in Operations \ {o} :
          anyState'[p] = anyState[p] /\ anyState[p] \notin Any!Unsettled \ {"Activate", "NeedsAttention"}
    BY <1>4 DEF Any!Move, Any!TypeOK, Any!OneWriter
  <2>2. Any!TypeOK'
    BY <1>4 DEF Any!Move, Any!TypeOK
  <2>3. anyState'[o] = to
    BY <1>4 DEF Any!Move, Any!TypeOK
  <2>4. CASE to \in Any!Closed
    <3>1. anyWriter' = Nobody
      BY <1>4, <2>4 DEF Any!Move
    <3>2. to \notin Any!Unsettled
      BY <2>4 DEF Any!Closed, Any!Unsettled, Any!Working
    <3> QED BY <2>1, <2>2, <2>3, <3>1, <3>2 DEF Any!OneWriter
  <2>5. CASE to \notin Any!Closed
    <3>1. anyWriter' = o
      BY <1>4, <2>5 DEF Any!Move
    <3> QED BY <2>1, <2>2, <2>3, <2>5, <3>1 DEF Any!OneWriter
  <2> QED BY <2>4, <2>5
<1>5. ASSUME NEW o \in Operations, Any!Abandon(o) PROVE AbstractInv'
  BY <1>5 DEF Any!Abandon, Any!TypeOK, Any!OneWriter, Any!Unsettled
<1>6. CASE UNCHANGED Any!vars
  BY <1>6 DEF Any!vars, Any!TypeOK, Any!OneWriter
<1> QED BY <1>1, <1>2, <1>3, <1>4, <1>5, <1>6 DEF Any!Next

\* The states and the claim are well typed in every reachable state.
THEOREM LifecycleTypeCorrect == NobodyIsNoOperation => (Any!Spec => []Any!TypeOK)
BY AbstractInit, AbstractStep, PTL DEF Any!Spec, AbstractInv

\* However many Operations there are, at most one is under way outside a parked
\* tail and it holds the writer claim; no settled Operation ever holds it.
THEOREM LifecycleOneWriter == NobodyIsNoOperation => (Any!Spec => []Any!OneWriter)
BY AbstractInit, AbstractStep, PTL DEF Any!Spec, AbstractInv

LEMMA AbstractClosed ==
  AbstractInv /\ [Any!Next]_(Any!vars)
    => [\A o \in Operations : anyState[o] \in Any!Closed => anyState'[o] = anyState[o]]_(Any!vars)
<1> SUFFICES ASSUME AbstractInv, Any!Next,
                    NEW o \in Operations, anyState[o] \in Any!Closed
             PROVE  anyState'[o] = anyState[o]
  OBVIOUS
<1>1. PICK p \in Operations : \/ Any!Admit(p) \/ Any!Park(p) \/ Any!Reclaim(p) \/ Any!Abandon(p)
                              \/ \E to \in Any!Unsettled \cup Any!Closed : Any!Move(p, to)
  BY DEF Any!Next
<1>2. CASE Any!Admit(p)
  BY <1>2 DEF Any!Admit, Any!Closed, AbstractInv, Any!TypeOK
<1>3. CASE Any!Park(p) \/ Any!Reclaim(p) \/ Any!Abandon(p)
  BY <1>3 DEF Any!Park, Any!Reclaim, Any!Abandon, Any!Closed, AbstractInv, Any!TypeOK
<1>4. ASSUME NEW to \in Any!Unsettled \cup Any!Closed, Any!Move(p, to) PROVE anyState'[o] = anyState[o]
  <2>1. anyState[p] \notin Any!Closed
    BY <1>4, AbstractMove DEF Any!Move
  <2> QED BY <1>4, <2>1 DEF Any!Move, AbstractInv, Any!TypeOK
<1> QED BY <1>1, <1>2, <1>3, <1>4

\* An Operation that succeeded or was rolled back is never run again, so a
\* retried request can only be answered from its record.
THEOREM LifecycleClosedForGood == NobodyIsNoOperation => (Any!Spec => Any!ClosedForGood)
BY AbstractInit, AbstractStep, AbstractClosed, PTL DEF Any!Spec, Any!ClosedForGood

\* An Operation left for attention while nobody holds the claim for it.
LeftAlone(o) == anyState[o] = "NeedsAttention" /\ anyWriter # o

AbandonedForGood == [][ \A o \in Operations : LeftAlone(o) => LeftAlone(o)' ]_(Any!vars)

LEMMA AbstractAbandoned ==
  AbstractInv /\ [Any!Next]_(Any!vars) => [\A o \in Operations : LeftAlone(o) => LeftAlone(o)']_Any!vars
<1> SUFFICES ASSUME AbstractInv, Any!Next,
                    NEW o \in Operations, anyState[o] = "NeedsAttention", anyWriter # o
             PROVE  anyState'[o] = "NeedsAttention" /\ anyWriter' # o
  BY DEF LeftAlone
<1>1. PICK p \in Operations : \/ Any!Admit(p) \/ Any!Park(p) \/ Any!Reclaim(p) \/ Any!Abandon(p)
                              \/ \E to \in Any!Unsettled \cup Any!Closed : Any!Move(p, to)
  BY DEF Any!Next
<1>2. CASE Any!Admit(p)
  BY <1>2 DEF Any!Admit, AbstractInv, Any!TypeOK
<1>3. CASE Any!Park(p) \/ Any!Reclaim(p) \/ Any!Abandon(p)
  BY <1>3 DEF Any!Park, Any!Reclaim, Any!Abandon, AbstractInv, Any!TypeOK, NobodyIsNoOperation
<1>4. ASSUME NEW to \in Any!Unsettled \cup Any!Closed, Any!Move(p, to)
      PROVE  anyState'[o] = "NeedsAttention" /\ anyWriter' # o
  BY <1>4 DEF Any!Move, AbstractInv, Any!TypeOK, NobodyIsNoOperation
<1> QED BY <1>1, <1>2, <1>3, <1>4

\* The price of leaving a parked tail for attention without the claim: no
\* retry and no restart ever moves such an Operation again.
THEOREM LifecycleAbandonedForGood == NobodyIsNoOperation => (Any!Spec => AbandonedForGood)
BY AbstractInit, AbstractStep, AbstractAbandoned, PTL DEF Any!Spec, AbandonedForGood

=============================================================================
