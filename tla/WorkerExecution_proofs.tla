----------------------- MODULE WorkerExecution_proofs -----------------------
(***************************************************************************)
(* Proofs about WorkerExecution, for any number of cancellations, failing  *)
(* calls and crashes.                                                      *)
(*                                                                         *)
(* The argument: whatever a checkpoint does to the record, only the three  *)
(* checkpoints of a start can start something (Follows), and those are     *)
(* written at a revision at which the run was not revoked (RevokedInv).    *)
(* What a checkpoint proves about the Worker holds for good, since a       *)
(* process is spawned once, before anything about it is recorded           *)
(* (WorkerInv).                                                            *)
(***************************************************************************)
EXTENDS WorkerExecution, TLAPS

Starting  == {"Accepted", "Preparing", "Running"}
Early     == {"new", "begin", "prepare", "attach", "ready", "checked", "launch"}
Unspawned == Early \cup {"spawned", "bind"}
Ending    == {"finish", "detach", "done", "lost"}
Settled   == Ending \cup {"stopIntent", "stopping", "recordStop", "refresh", "restop"}
Proof     == {"stopped", "stopped cleanly"}

Dispatches ==
  [stage : {"idle", "woken", "look", "stop", "missing", "record", "done"},
   revision : Nat, process : BOOLEAN, evidence : Asked]

DispatchOK == dispatch \in [Cancels -> Dispatches]

\* The types, of the dispatchers as well.
TypeInv ==
  /\ TypeOK /\ DispatchOK
  /\ pc \in {"recordStop", "refresh", "restop"} => evidence \in Asked

\* The record and the journal's copy of it.
RecordInv ==
  /\ run.revision >= 1
  /\ run.process => run.revision > 1
  /\ run.state = "Accepted" => ~run.prompt
  /\ run.cancel => run.state \notin Starting
  /\ copy.revision = run.revision => copy.process = run.process
  /\ <<"prompt-intent", "PromptSendIntent">> \in events => run.prompt
  /\ <<"result", "ResultRecorded">> \in events => run.result

\* A revoked run is not starting, unless a stop that found the Worker running was
\* recorded, and then the executor is past its last step.
RevokedInv ==
  /\ run.revoked /\ run.state \in Starting => pc \in Ending
  /\ \A c \in Cancels :
       dispatch[c].stage \in {"look", "stop", "record", "missing"} => run.revoked

PromptInv ==
  /\ pc = "send" \/ sent => run.prompt
  /\ pc = "prompted" \/ outcome = "ok" => sent
  /\ pc = "complete" => outcome = "ok" /\ run.result
  /\ run.state = "Succeeded" => sent /\ outcome = "ok" /\ run.result /\ pc \in Settled

\* What is recorded of the Worker is true of it.
WorkerInv ==
  /\ proc # "none" \/ owned => pc \notin Early
  /\ run.process => pc \notin Unspawned
  /\ evidence \in Proof => proc = "gone"
  /\ \A c \in Cancels : dispatch[c].evidence \in Proof => proc = "gone"
  /\ run.process /\ run.cleanup = "Complete" => proc # "alive"

IInv == TypeInv /\ RecordInv /\ RevokedInv /\ PromptInv /\ WorkerInv

-----------------------------------------------------------------------------
(***************************************************************************)
(* What a checkpoint may do to the record.                                 *)
(***************************************************************************)
Follows(r, s, c) ==
  /\ s \in Run /\ s.revision >= r.revision
  /\ s.revision > r.revision \/ s.process = r.process
  /\ r.process => s.process
  /\ r.session => s.session
  /\ r.prompt => s.prompt
  /\ r.result => s.result
  /\ r.revoked => s.revoked
  /\ s.process => r.process \/ (c = "ProcessSpawned" /\ r.state = "Preparing")
  /\ s.session => r.session \/ (c = "SessionBound" /\ r.state = "Preparing")
  /\ s.prompt => r.prompt \/ (c = "PromptSendIntent" /\ r.state = "Preparing")
  /\ s.state \in Starting =>
       \/ s.state = r.state
       \/ c = "Preparing" /\ r.state = "Accepted"
       \/ c = "PromptSendIntent" /\ r.state = "Preparing" /\ s.state = "Running"
  /\ (r.cancel => r.state \notin Starting) /\ s.cancel => s.state \notin Starting
  /\ s.state = "Succeeded" => r.state = "Succeeded" \/ (c = "PromptCompleted" /\ r.state = "Running")
  /\ s.process /\ s.cleanup = "Complete" =>
       \/ r.process /\ r.cleanup = "Complete"
       \/ c \in Proof \cup {"LaunchFailedBeforeSpawn"}
  /\ s.revoked /\ s.state \in Starting => r.revoked \/ s.cancel \/ c = "running"

\* The event of each checkpoint.
LEMMA EventsOf ==
  /\ \A c \in Progress : EventOf(c) = c
  /\ EventOf("stopped") = "ScopeStopped"
  /\ EventOf("stopped cleanly") = "ScopeStoppedCleanly"
  /\ EventOf("running") = "ProcessRunning"
  /\ EventOf("ProcessSpawned") = "ProcessRunning"
  /\ EventOf("unknown") = "ProcessUnknown"
  /\ EventOf("ProcessObserved") = "ProcessUnknown"
BY DEF EventOf, Progress, Events

\* What an event does to a record that admits it.
Moves(r, s, e) ==
  /\ s \in Run /\ s.revision \in {r.revision, r.revision + 1}
  /\ s.process = r.process /\ s.session = r.session
  /\ s.result = r.result /\ s.revoked = r.revoked
  /\ s.prompt <=> r.prompt \/ e = "PromptSendIntent"
  /\ s.state \in Starting =>
       \/ s.state = r.state /\ e \notin {"ProcessUnknown", "ScopeStopped", "ScopeStoppedCleanly"}
       \/ e = "Preparing" /\ r.state = "Accepted"
       \/ e = "PromptSendIntent" /\ r.state = "Preparing" /\ s.state = "Running"
  /\ (r.cancel => r.state \notin Starting) /\ s.cancel => s.state \notin Starting
  /\ s.state = "Succeeded" =>
       r.state = "Succeeded" \/ (e = "PromptCompleted" /\ r.state = "Running")
  /\ s.cleanup = "Complete" =>
       \/ r.cleanup = "Complete" /\ e # "ProcessRunning"
       \/ e \in {"LaunchFailedBeforeSpawn", "ScopeStopped", "ScopeStoppedCleanly"}

\* How a stopped run ends.
LEMMA StoppedEnds ==
  ASSUME NEW r \in Run, NEW b \in BOOLEAN
  PROVE  /\ Stopped(r, b) \in Ended \cup {"Unknown"}
         /\ Stopped(r, b) = "Succeeded" => r.state = "Succeeded"
BY DEF Stopped, Ended, Run, States

\* A record of which some fields are replaced.
Is(s, r, state, prompt, cancel, running, cleanup, revision) ==
  /\ s \in Run /\ s.state = state /\ s.prompt = prompt /\ s.cancel = cancel
  /\ s.running = running /\ s.cleanup = cleanup /\ s.revision = revision
  /\ s.process = r.process /\ s.session = r.session
  /\ s.result = r.result /\ s.revoked = r.revoked

SetState(r, a, n) == [r EXCEPT !.state = a, !.revision = n]
SetPrompt(r, a, b, n) == [r EXCEPT !.state = a, !.prompt = b, !.revision = n]
SetCancel(r, a, b, n) == [r EXCEPT !.state = a, !.cancel = b, !.revision = n]
SetCleanup(r, a, c, n) == [r EXCEPT !.state = a, !.cleanup = c, !.revision = n]
SetRunning(r, b, c, n) == [r EXCEPT !.running = b, !.cleanup = c, !.revision = n]
SetStopped(r, a, b, c, n) == [r EXCEPT !.state = a, !.running = b, !.cleanup = c, !.revision = n]

LEMMA Updates ==
  ASSUME NEW r \in Run, NEW a \in States, NEW b \in BOOLEAN, NEW n \in Nat,
         NEW c \in {"Pending", "Complete", "Unknown"}
  PROVE  /\ Is(SetState(r, a, n), r, a, r.prompt, r.cancel, r.running, r.cleanup, n)
         /\ Is(SetPrompt(r, a, b, n), r, a, b, r.cancel, r.running, r.cleanup, n)
         /\ Is(SetCancel(r, a, b, n), r, a, r.prompt, b, r.running, r.cleanup, n)
         /\ Is(SetCleanup(r, a, c, n), r, a, r.prompt, r.cancel, r.running, c, n)
         /\ Is(SetRunning(r, b, c, n), r, r.state, r.prompt, r.cancel, b, c, n)
         /\ Is(SetStopped(r, a, b, c, n), r, a, r.prompt, r.cancel, b, c, n)
<1> USE DEF Is, Run
<1>1. Is(SetState(r, a, n), r, a, r.prompt, r.cancel, r.running, r.cleanup, n)
  BY DEF SetState
<1>2. Is(SetPrompt(r, a, b, n), r, a, b, r.cancel, r.running, r.cleanup, n)
  BY DEF SetPrompt
<1>3. Is(SetCancel(r, a, b, n), r, a, r.prompt, b, r.running, r.cleanup, n)
  BY DEF SetCancel
<1>4. Is(SetCleanup(r, a, c, n), r, a, r.prompt, r.cancel, r.running, c, n)
  BY DEF SetCleanup
<1>5. Is(SetRunning(r, b, c, n), r, r.state, r.prompt, r.cancel, b, c, n)
  BY DEF SetRunning
<1>6. Is(SetStopped(r, a, b, c, n), r, a, r.prompt, r.cancel, b, c, n)
  BY DEF SetStopped
<1> QED
  BY <1>1, <1>2, <1>3, <1>4, <1>5, <1>6, Zenon

LEMMA AdvancedMoves ==
  ASSUME NEW r \in Run, NEW e \in Events, CanAdvance(r, e)
  PROVE  Moves(r, Advanced(r, e), e)
<1> DEFINE n          == r.revision + 1
           lost       == IF r.prompt THEN "Unknown" ELSE "Failed"
           unlaunched == IF r.cancel THEN "Cancelled" ELSE "Failed"
<1> USE DEF Ignored, CanAdvance, Starting, Active, Ended
<1>1. CASE Ignored(r, e)
  <2>1. Advanced(r, e) = r
    BY <1>1, Zenon DEF Advanced
  <2> QED
    BY <1>1, <2>1 DEF Moves, Run
<1>2. CASE ~Ignored(r, e)
  <2>1. Advanced(r, e) = [Effect(r, e) EXCEPT !.revision = n]
    BY <1>2, Zenon DEF Advanced
  <2>2. n \in Nat /\ States = {"Accepted", "Preparing", "Running", "Cancelling", "Succeeded", "Failed",
                               "Cancelled", "Unknown"}
    BY DEF Run, States
  <2>3. /\ {lost, unlaunched, Unobserved(r)} \subseteq {"Unknown", "Failed", "Cancelled", "Succeeded"}
        /\ lost # "Succeeded" /\ unlaunched # "Succeeded"
        /\ Unobserved(r) = "Succeeded" => r.state = "Succeeded"
    BY DEF Unobserved
  <2>4. \A b \in BOOLEAN :
          /\ Stopped(r, b) \in {"Unknown", "Failed", "Cancelled", "Succeeded"}
          /\ Stopped(r, b) = "Succeeded" => r.state = "Succeeded"
    BY StoppedEnds
  <2> HIDE DEF n, lost, unlaunched
  <2>5. CASE e = "Preparing"
    <3>1. Effect(r, e) = [r EXCEPT !.state = "Preparing"]
      BY <2>5, Zenon DEF Effect
    <3>2. Advanced(r, e) = SetState(r, "Preparing", n)
      BY <2>1, <3>1, Zenon DEF SetState
    <3>3. Is(Advanced(r, e), r, "Preparing", r.prompt, r.cancel, r.running, r.cleanup, n)
      BY <2>2, <3>2, Updates
    <3> QED
      BY <1>2, <2>5, <3>3 DEF Is, Moves, Run, n
  <2>6. CASE e = "PromptSendIntent"
    <3>1. Effect(r, e) = [r EXCEPT !.state = "Running", !.prompt = TRUE]
      BY <2>6, Zenon DEF Effect
    <3>2. Advanced(r, e) = SetPrompt(r, "Running", TRUE, n)
      BY <2>1, <3>1, Zenon DEF SetPrompt
    <3>3. Is(Advanced(r, e), r, "Running", TRUE, r.cancel, r.running, r.cleanup, n)
      BY <2>2, <3>2, Updates
    <3> QED
      BY <1>2, <2>6, <3>3 DEF Is, Moves, Run, n
  <2>7. CASE e = "PromptCompleted"
    <3>1. Effect(r, e) = [r EXCEPT !.state = "Succeeded"]
      BY <2>7, Zenon DEF Effect
    <3>2. Advanced(r, e) = SetState(r, "Succeeded", n)
      BY <2>1, <3>1, Zenon DEF SetState
    <3>3. Is(Advanced(r, e), r, "Succeeded", r.prompt, r.cancel, r.running, r.cleanup, n)
      BY <2>2, <3>2, Updates
    <3> QED
      BY <1>2, <2>7, <3>3 DEF Is, Moves, Run, n
  <2>8. CASE e = "PromptFailed"
    <3>1. Effect(r, e) = [r EXCEPT !.state = "Failed"]
      BY <2>8, Zenon DEF Effect
    <3>2. Advanced(r, e) = SetState(r, "Failed", n)
      BY <2>1, <3>1, Zenon DEF SetState
    <3>3. Is(Advanced(r, e), r, "Failed", r.prompt, r.cancel, r.running, r.cleanup, n)
      BY <2>2, <3>2, Updates
    <3> QED
      BY <1>2, <2>8, <3>3 DEF Is, Moves, Run, n
  <2>9. CASE e = "CancelRequested"
    <3>1. Effect(r, e) = [r EXCEPT !.state = "Cancelling", !.cancel = TRUE]
      BY <2>9, Zenon DEF Effect
    <3>2. Advanced(r, e) = SetCancel(r, "Cancelling", TRUE, n)
      BY <2>1, <3>1, Zenon DEF SetCancel
    <3>3. Is(Advanced(r, e), r, "Cancelling", r.prompt, TRUE, r.running, r.cleanup, n)
      BY <2>2, <3>2, Updates
    <3> QED
      BY <1>2, <2>9, <3>3 DEF Is, Moves, Run, n
  <2>10. CASE e = "ConnectionLost"
    <3>1. Effect(r, e) = [r EXCEPT !.state = lost, !.cleanup = "Unknown"]
      BY <2>10, Zenon DEF Effect, lost
    <3>2. Advanced(r, e) = SetCleanup(r, lost, "Unknown", n)
      BY <2>1, <3>1, Zenon DEF SetCleanup
    <3>3. Is(Advanced(r, e), r, lost, r.prompt, r.cancel, r.running, "Unknown", n)
      BY <2>2, <2>3, <3>2, Updates
    <3> QED
      BY <1>2, <2>10, <2>3, <3>3 DEF Is, Moves, Run, n
  <2>11. CASE e = "LaunchFailedBeforeSpawn"
    <3>1. Effect(r, e) = [r EXCEPT !.state = unlaunched, !.running = FALSE, !.cleanup = "Complete"]
      BY <2>11, Zenon DEF Effect, unlaunched
    <3>2. Advanced(r, e) = SetStopped(r, unlaunched, FALSE, "Complete", n)
      BY <2>1, <3>1, Zenon DEF SetStopped
    <3>3. Is(Advanced(r, e), r, unlaunched, r.prompt, r.cancel, FALSE, "Complete", n)
      BY <2>2, <2>3, <3>2, Updates
    <3> QED
      BY <1>2, <2>11, <2>3, <3>3 DEF Is, Moves, Run, n
  <2>12. CASE e = "ProcessRunning"
    <3>1. Effect(r, e) = [r EXCEPT !.running = TRUE, !.cleanup = "Pending"]
      BY <2>12, Zenon DEF Effect
    <3>2. Advanced(r, e) = SetRunning(r, TRUE, "Pending", n)
      BY <2>1, <3>1, Zenon DEF SetRunning
    <3>3. Is(Advanced(r, e), r, r.state, r.prompt, r.cancel, TRUE, "Pending", n)
      BY <2>2, <3>2, Updates
    <3> QED
      BY <1>2, <2>12, <3>3 DEF Is, Moves, Run, n
  <2>13. CASE e = "ProcessUnknown"
    <3>1. Effect(r, e) = [r EXCEPT !.state = Unobserved(r), !.running = FALSE, !.cleanup = "Unknown"]
      BY <2>13, Zenon DEF Effect
    <3>2. Advanced(r, e) = SetStopped(r, Unobserved(r), FALSE, "Unknown", n)
      BY <2>1, <3>1, Zenon DEF SetStopped
    <3>3. Is(Advanced(r, e), r, Unobserved(r), r.prompt, r.cancel, FALSE, "Unknown", n)
      BY <2>2, <2>3, <3>2, Updates
    <3> QED
      BY <1>2, <2>13, <2>3, <3>3 DEF Is, Moves, Run, n
  <2>14. CASE e = "ScopeStopped"
    <3>1. Effect(r, e) = [r EXCEPT !.state = Stopped(r, FALSE), !.running = FALSE, !.cleanup = "Complete"]
      BY <2>14, Zenon DEF Effect
    <3>2. Advanced(r, e) = SetStopped(r, Stopped(r, FALSE), FALSE, "Complete", n)
      BY <2>1, <3>1, Zenon DEF SetStopped
    <3>3. Is(Advanced(r, e), r, Stopped(r, FALSE), r.prompt, r.cancel, FALSE, "Complete", n)
      BY <2>2, <2>4, <3>2, Updates
    <3> QED
      BY <1>2, <2>14, <2>4, <3>3 DEF Is, Moves, Run, n
  <2>15. CASE e = "ScopeStoppedCleanly"
    <3>1. Effect(r, e) = [r EXCEPT !.state = Stopped(r, TRUE), !.running = FALSE, !.cleanup = "Complete"]
      BY <2>15, Zenon DEF Effect
    <3>2. Advanced(r, e) = SetStopped(r, Stopped(r, TRUE), FALSE, "Complete", n)
      BY <2>1, <3>1, Zenon DEF SetStopped
    <3>3. Is(Advanced(r, e), r, Stopped(r, TRUE), r.prompt, r.cancel, FALSE, "Complete", n)
      BY <2>2, <2>4, <3>2, Updates
    <3> QED
      BY <1>2, <2>15, <2>4, <3>3 DEF Is, Moves, Run, n
  <2> QED
    BY <2>5, <2>6, <2>7, <2>8, <2>9, <2>10, <2>11, <2>12, <2>13, <2>14, <2>15 DEF Events
<1> QED
  BY <1>1, <1>2

\* The bindings and the revocation: what they replace and what they keep.
SetProcess(r)       == [r EXCEPT !.process = TRUE]
SetSession(r)       == [r EXCEPT !.session = TRUE]
SetResult(r)        == [r EXCEPT !.result = TRUE]
SetRevoked(r, b, n) == [r EXCEPT !.revision = n, !.revoked = b]

Binds(s, r, process, session, result, revoked, revision) ==
  /\ s \in Run /\ s.state = r.state /\ s.prompt = r.prompt /\ s.cancel = r.cancel
  /\ s.running = r.running /\ s.cleanup = r.cleanup /\ s.revision = revision
  /\ s.process = process /\ s.session = session /\ s.result = result /\ s.revoked = revoked

LEMMA Replaced ==
  ASSUME NEW r \in Run, NEW b \in BOOLEAN, NEW n \in Nat
  PROVE  /\ Binds(SetProcess(r), r, TRUE, r.session, r.result, r.revoked, r.revision)
         /\ Binds(SetSession(r), r, r.process, TRUE, r.result, r.revoked, r.revision)
         /\ Binds(SetResult(r), r, r.process, r.session, TRUE, r.revoked, r.revision)
         /\ Binds(SetRevoked(r, b, n), r, r.process, r.session, r.result, b, n)
<1> USE DEF Binds, Run
<1>1. Binds(SetProcess(r), r, TRUE, r.session, r.result, r.revoked, r.revision)
  BY DEF SetProcess
<1>2. Binds(SetSession(r), r, r.process, TRUE, r.result, r.revoked, r.revision)
  BY DEF SetSession
<1>3. Binds(SetResult(r), r, r.process, r.session, TRUE, r.revoked, r.revision)
  BY DEF SetResult
<1>4. Binds(SetRevoked(r, b, n), r, r.process, r.session, r.result, b, n)
  BY DEF SetRevoked
<1> QED
  BY <1>1, <1>2, <1>3, <1>4, Zenon

LEMMA RecordedFollows ==
  ASSUME NEW r \in Run, NEW c \in Checkpoints, Recordable(r, c)
  PROVE  /\ Follows(r, Recorded(r, c), c)
         /\ Recorded(r, c).revision = r.revision + 1
         /\ c = "PromptSendIntent" => Recorded(r, c).prompt
         /\ c = "ResultRecorded" => Recorded(r, c).result
<1> DEFINE n      == r.revision + 1
           moved  == IF c \in {"SessionBound", "ResultRecorded"} THEN Bound(r, c)
                     ELSE Advanced(Bound(r, c), EventOf(c))
           end    == moved.revoked \/ Revoking(moved, c)
<1>1. Recorded(r, c) = SetRevoked(moved, end, n)
  BY Zenon DEF Recorded, SetRevoked
<1>2. n \in Nat /\ n = r.revision + 1 /\ end \in BOOLEAN
  BY DEF Run
<1>3. end <=> moved.revoked \/ Revoking(moved, c)
  OBVIOUS
<1>4. ASSUME moved \in Run
      PROVE  Binds(Recorded(r, c), moved, moved.process, moved.session, moved.result, end, n)
  <2> HIDE DEF moved, end, n
  <2> QED
    BY <1>1, <1>2, <1>4, Replaced
<1>5. CASE c = "SessionBound"
  <2>1. moved = SetSession(r)
    BY <1>5, Zenon DEF Bound, SetSession
  <2>2. Binds(moved, r, r.process, TRUE, r.result, r.revoked, r.revision)
    BY <2>1, Replaced
  <2>3. r.state = "Preparing" /\ ~Revoking(moved, c)
    BY <1>5 DEF Recordable, Bindings, Revoking, Progress, Events, Evidence
  <2> HIDE DEF moved, end, n
  <2> QED
    BY <1>2, <1>3, <1>4, <1>5, <2>2, <2>3 DEF Binds, Follows, Run, Starting, Proof
<1>6. CASE c = "ResultRecorded"
  <2>1. moved = SetResult(r)
    BY <1>6, Zenon DEF Bound, SetResult
  <2>2. Binds(moved, r, r.process, r.session, TRUE, r.revoked, r.revision)
    BY <2>1, Replaced
  <2>3. ~Revoking(moved, c)
    BY <1>6 DEF Revoking, Progress, Events, Evidence
  <2> HIDE DEF moved, end, n
  <2> QED
    BY <1>2, <1>3, <1>4, <1>6, <2>2, <2>3 DEF Binds, Follows, Run, Starting, Proof
<1>7. CASE c = "ProcessSpawned"
  <2>1. Bound(r, c) = SetProcess(r)
    BY <1>7, Zenon DEF Bound, SetProcess
  <2>2. Binds(Bound(r, c), r, TRUE, r.session, r.result, r.revoked, r.revision)
    BY <2>1, Replaced
  <2>3. Bound(r, c) \in Run /\ CanAdvance(Bound(r, c), "ProcessRunning")
    BY <2>2 DEF Binds, CanAdvance
  <2>4. moved = Advanced(Bound(r, c), "ProcessRunning")
    BY <1>7, EventsOf, Zenon
  <2>5. Moves(Bound(r, c), moved, "ProcessRunning")
    BY <2>3, <2>4, AdvancedMoves DEF Events
  <2>6. r.state = "Preparing" /\ ~Revoking(moved, c)
    BY <1>7 DEF Recordable, Bindings, Revoking, Progress, Events, Evidence
  <2> HIDE DEF moved, end, n
  <2> QED
    BY <1>2, <1>3, <1>4, <1>7, <2>2, <2>5, <2>6 DEF Binds, Moves, Follows, Run, Starting, Proof
<1>8. CASE c \notin Bindings
  <2>1. Bound(r, c) = r
    BY <1>8, Zenon DEF Bound, Bindings
  <2>2. EventOf(c) \in Events /\ CanAdvance(r, EventOf(c))
    BY <1>8, EventsOf DEF Recordable, Checkpoints, Progress, Events, Evidence, Bindings
  <2>3. Moves(r, moved, EventOf(c))
    BY <1>8, <2>1, <2>2, AdvancedMoves DEF Bindings
  <2> HIDE DEF moved, end, n
  <2>4. CASE c \in Progress
    <3>1. EventOf(c) = c
      BY <2>4, EventsOf
    <3>2. Revoking(moved, c) <=> moved.cancel \/ moved.state \notin Starting
      BY <2>4 DEF Revoking, Progress, Evidence, Events, Starting
    <3> QED
      <4>1. Moves(r, moved, c)
        BY <2>3, <3>1, Zenon
      <4>2. c \notin {"ProcessUnknown", "ScopeStopped", "ScopeStoppedCleanly", "SessionBound",
                     "ResultRecorded", "ProcessSpawned", "running"}
        BY <2>4 DEF Progress, Events
      <4>3. c = "PromptSendIntent" => r.state = "Preparing"
        BY DEF Recordable, Bindings, CanAdvance, Ignored
      <4>4. Binds(Recorded(r, c), moved, moved.process, moved.session, moved.result, end, n)
        BY <1>4, <4>1 DEF Moves
      <4> DEFINE s == Recorded(r, c)
      <4>5. /\ s \in Run /\ s.revision = r.revision + 1
            /\ s.process = r.process /\ s.session = r.session /\ s.result = r.result
            /\ s.prompt <=> r.prompt \/ c = "PromptSendIntent"
            /\ s.revoked <=> r.revoked \/ s.cancel \/ s.state \notin Starting
        BY <1>2, <1>3, <3>2, <4>1, <4>4 DEF Binds, Moves, Run
      <4>6. /\ s.state = moved.state /\ s.cancel = moved.cancel /\ s.cleanup = moved.cleanup
        BY <4>4 DEF Binds
      <4> HIDE DEF s
      <4>7. Follows(r, s, c)
        <5>1. s.revision >= r.revision /\ s.revision > r.revision
          BY <4>1, <4>2, <4>5, <4>6, <4>3 DEF Moves, Run
        <5>2. /\ r.process => s.process
              /\ r.session => s.session
              /\ r.prompt => s.prompt
              /\ r.result => s.result
              /\ r.revoked => s.revoked
          BY <4>1, <4>2, <4>5, <4>6, <4>3 DEF Moves
        <5>3. /\ s.process => r.process
              /\ s.session => r.session
              /\ s.prompt => r.prompt \/ (c = "PromptSendIntent" /\ r.state = "Preparing")
          BY <4>1, <4>2, <4>5, <4>6, <4>3 DEF Moves
        <5>4. s.state \in Starting =>
                \/ s.state = r.state
                \/ c = "Preparing" /\ r.state = "Accepted"
                \/ c = "PromptSendIntent" /\ r.state = "Preparing" /\ s.state = "Running"
          BY <4>1, <4>2, <4>5, <4>6, <4>3 DEF Moves
        <5>5. (r.cancel => r.state \notin Starting) /\ s.cancel => s.state \notin Starting
          BY <4>1, <4>2, <4>5, <4>6, <4>3 DEF Moves
        <5>6. s.state = "Succeeded" =>
                r.state = "Succeeded" \/ (c = "PromptCompleted" /\ r.state = "Running")
          BY <4>1, <4>2, <4>5, <4>6, <4>3 DEF Moves
        <5>7. s.process /\ s.cleanup = "Complete" =>
                \/ r.process /\ r.cleanup = "Complete"
                \/ c \in Proof \cup {"LaunchFailedBeforeSpawn"}
          BY <4>1, <4>2, <4>5, <4>6, <4>3 DEF Moves, Proof
        <5>8. s.revoked /\ s.state \in Starting => r.revoked \/ s.cancel \/ c = "running"
          BY <4>1, <4>2, <4>5, <4>6, <4>3 DEF Moves, Starting
        <5> QED
          BY <5>1, <5>2, <5>3, <5>4, <5>5, <5>6, <5>7, <5>8, <4>5 DEF Follows
      <4> QED
        BY <4>2, <4>5, <4>7 DEF s
  <2>5. CASE c \in Evidence
    <3>1. EventOf(c) \in {"ProcessRunning", "ProcessUnknown", "ScopeStopped", "ScopeStoppedCleanly"}
      BY <2>5, EventsOf DEF Evidence
    <3>2. /\ c # "running" => EventOf(c) \in {"ProcessUnknown", "ScopeStopped", "ScopeStoppedCleanly"}
          /\ EventOf(c) \in {"ScopeStopped", "ScopeStoppedCleanly"} => c \in Proof
      BY <2>5, EventsOf DEF Evidence, Proof
    <3> QED
      <4>1. c \in {"running", "unknown"} \cup Proof
        BY <2>5 DEF Evidence, Proof
      <4>2. Binds(Recorded(r, c), moved, moved.process, moved.session, moved.result, end, n)
        BY <1>4, <2>3 DEF Moves
      <4> DEFINE s == Recorded(r, c)
      <4>3. /\ s \in Run /\ s.revision = r.revision + 1
            /\ s.process = r.process /\ s.session = r.session /\ s.result = r.result
            /\ s.prompt = r.prompt
            /\ r.revoked => s.revoked
        BY <1>2, <1>3, <2>3, <3>1, <4>2 DEF Binds, Moves, Run
      <4>4. /\ s.state = moved.state /\ s.cancel = moved.cancel /\ s.cleanup = moved.cleanup
        BY <4>2 DEF Binds
      <4> HIDE DEF s
      <4>5. Follows(r, s, c)
        <5>1. s.revision >= r.revision /\ s.revision > r.revision
          BY <2>3, <3>1, <3>2, <4>1, <4>3, <4>4 DEF Moves, Run
        <5>2. /\ r.process => s.process
              /\ r.session => s.session
              /\ r.prompt => s.prompt
              /\ r.result => s.result
              /\ r.revoked => s.revoked
          BY <2>3, <3>1, <3>2, <4>1, <4>3, <4>4 DEF Moves
        <5>3. /\ s.process => r.process
              /\ s.session => r.session
              /\ s.prompt => r.prompt \/ (c = "PromptSendIntent" /\ r.state = "Preparing")
          BY <2>3, <3>1, <3>2, <4>1, <4>3, <4>4 DEF Moves
        <5>4. s.state \in Starting =>
                \/ s.state = r.state
                \/ c = "Preparing" /\ r.state = "Accepted"
                \/ c = "PromptSendIntent" /\ r.state = "Preparing" /\ s.state = "Running"
          BY <2>3, <3>1, <3>2, <4>1, <4>3, <4>4 DEF Moves
        <5>5. (r.cancel => r.state \notin Starting) /\ s.cancel => s.state \notin Starting
          BY <2>3, <3>1, <3>2, <4>1, <4>3, <4>4 DEF Moves
        <5>6. s.state = "Succeeded" =>
                r.state = "Succeeded" \/ (c = "PromptCompleted" /\ r.state = "Running")
          BY <2>3, <3>1, <3>2, <4>1, <4>3, <4>4 DEF Moves
        <5>7. s.process /\ s.cleanup = "Complete" =>
                \/ r.process /\ r.cleanup = "Complete"
                \/ c \in Proof \cup {"LaunchFailedBeforeSpawn"}
          BY <2>3, <3>1, <3>2, <4>1, <4>3, <4>4 DEF Moves, Proof
        <5>8. s.revoked /\ s.state \in Starting => r.revoked \/ s.cancel \/ c = "running"
          BY <2>3, <3>1, <3>2, <4>1, <4>3, <4>4 DEF Moves, Starting
        <5> QED
          BY <5>1, <5>2, <5>3, <5>4, <5>5, <5>6, <5>7, <5>8, <4>3 DEF Follows
      <4> QED
        BY <4>1, <4>3, <4>5 DEF s, Proof
  <2>6. CASE c = "ProcessObserved"
    <3>1. EventOf(c) = "ProcessUnknown" /\ ~Revoking(moved, c)
      BY <2>6, EventsOf DEF Revoking, Progress, Events, Evidence
    <3> QED
      BY <1>2, <1>3, <1>4, <2>3, <2>6, <3>1 DEF Binds, Moves, Follows, Run, Starting
  <2> QED
    BY <1>8, <2>4, <2>5, <2>6 DEF Checkpoints
<1> QED
  BY <1>5, <1>6, <1>7, <1>8 DEF Bindings

LEMMA CancelledFollows ==
  ASSUME NEW r \in Run
  PROVE  /\ Follows(r, CancelledBy(r), "CancelRequested")
         /\ CancelledBy(r).revoked
         /\ CancelledBy(r).state \notin Starting
<1> DEFINE moved == Advanced(r, "CancelRequested")
<1>1. Moves(r, moved, "CancelRequested") /\ moved.state \notin Starting
  <2>1. CanAdvance(r, "CancelRequested") /\ "CancelRequested" \in Events
    BY DEF CanAdvance, Ignored, Run, States, Active, Ended, Events
  <2>2. Moves(r, moved, "CancelRequested")
    BY <2>1, AdvancedMoves
  <2>3. CASE Ignored(r, "CancelRequested")
    <3>1. moved = r
      BY <2>3, Zenon DEF Advanced
    <3> QED
      BY <2>2, <2>3, <3>1 DEF Ignored, Ended, Starting
  <2>4. CASE ~Ignored(r, "CancelRequested")
    <3>1. moved = SetCancel(r, "Cancelling", TRUE, r.revision + 1)
      BY <2>4, Zenon DEF Advanced, Effect, SetCancel
    <3>2. "Cancelling" \in States /\ TRUE \in BOOLEAN /\ r.revision + 1 \in Nat
      BY DEF Run, States, Active
    <3>3. Is(SetCancel(r, "Cancelling", TRUE, r.revision + 1),
             r, "Cancelling", r.prompt, TRUE, r.running, r.cleanup, r.revision + 1)
      BY <3>2, Updates
    <3>4. moved.state = "Cancelling"
      BY <3>1, <3>3 DEF Is
    <3> QED
      BY <2>2, <3>4 DEF Starting
  <2> QED
    BY <2>2, <2>3, <2>4
<1>2. CancelledBy(r) = SetRevoked(moved, TRUE, moved.revision)
  BY <1>1 DEF CancelledBy, SetRevoked, Moves, Run
<1> HIDE DEF moved
<1>3. Binds(CancelledBy(r), moved, moved.process, moved.session, moved.result, TRUE, moved.revision)
  BY <1>1, <1>2, Replaced DEF Moves, Run
<1> QED
  BY <1>1, <1>3 DEF Binds, Moves, Follows, Run, Starting, Proof

LEMMA SameFollows ==
  ASSUME NEW r \in Run, NEW c
  PROVE  Follows(r, r, c)
BY DEF Follows, Run, Starting
-----------------------------------------------------------------------------
(***************************************************************************)
(* The journal.                                                            *)
(***************************************************************************)
\* A step that starts nothing of a revoked run.
Restrained ==
  run.revoked =>
    /\ run'.revoked
    /\ run'.process => run.process
    /\ run'.session => run.session
    /\ run'.prompt => run.prompt
    /\ run'.state \in {"Accepted", "Preparing", "Running"} => run'.state = run.state

\* A step that changes the record as the checkpoint c would, if at all.
Step(c) ==
  /\ Follows(run, run', c)
  /\ run'.revoked /\ run'.state \in Starting => run.revoked \/ c = "running"
  /\ RecordInv'
  /\ copy' \in Run /\ copy'.revision <= run'.revision
  /\ faults' \in 0..MaxFaults

LEMMA CommitFollows ==
  ASSUME TypeInv, NEW id, NEW c \in Checkpoints, NEW n, Accepts(id, c, n), Commit(id, c)
  PROVE  /\ Follows(run, run', c)
         /\ events' = events \cup {<<id, c>>}
         /\ run' = run \/ n = run.revision
         /\ \/ <<id, c>> \in events /\ run' = run
            \/ /\ run'.revision > run.revision
               /\ c = "PromptSendIntent" => run'.prompt
               /\ c = "ResultRecorded" => run'.result
<1>1. run \in Run
  BY DEF TypeInv, TypeOK
<1>2. CASE Known(id)
  BY <1>1, <1>2, SameFollows DEF Accepts, Commit
<1>3. CASE ~Known(id)
  <2>1. run.revision = n /\ Recordable(run, c) /\ run' = Recorded(run, c)
    BY <1>3 DEF Accepts, Commit
  <2>2. run'.revision = run.revision + 1 /\ run.revision \in Nat
    BY <1>1, <2>1, RecordedFollows DEF Run
  <2> QED
    BY <1>1, <2>1, <2>2, RecordedFollows DEF Commit
<1> QED
  BY <1>2, <1>3

\* The parts of the invariant that speak of the record and its copy alone.
LEMMA RecordKept ==
  ASSUME TypeInv, RecordInv, NEW id, NEW c, Follows(run, run', c),
         copy' = copy \/ copy' = run' \/ copy' = AcceptedRun,
         events' = events \/ events' = events \cup {<<id, c>>},
         events' # events /\ id = "prompt-intent" /\ c = "PromptSendIntent" => run'.prompt,
         events' # events /\ id = "result" /\ c = "ResultRecorded" => run'.result
  PROVE  RecordInv' /\ copy' \in Run /\ copy'.revision <= run'.revision
<1>1. /\ run \in Run /\ copy \in Run /\ copy.revision <= run.revision
      /\ AcceptedRun \in Run /\ AcceptedRun.revision = 1 /\ ~AcceptedRun.process
  BY DEF TypeInv, TypeOK, AcceptedRun, Run, States, Active
<1>2. /\ run' \in Run /\ run'.revision >= run.revision
      /\ run'.revision > run.revision \/ run'.process = run.process
  BY DEF Follows
<1>3. {run.revision, run'.revision, copy.revision} \subseteq Nat /\ run.revision >= 1
  BY <1>1, <1>2 DEF Run, RecordInv
<1>4. copy' \in Run /\ copy'.revision <= run'.revision
  BY <1>1, <1>2, <1>3
<1>5. copy'.revision = run'.revision => copy'.process = run'.process
  BY <1>1, <1>2, <1>3 DEF RecordInv, Run
<1>6. /\ run'.revision >= 1
      /\ run'.process => run'.revision > 1
      /\ run'.cancel => run'.state \notin Starting
  BY <1>1, <1>2, <1>3 DEF RecordInv, Follows, Run
<1>8. run'.state = "Accepted" => ~run'.prompt
  BY DEF RecordInv, Follows, Starting
<1>7. /\ <<"prompt-intent", "PromptSendIntent">> \in events' => run'.prompt
      /\ <<"result", "ResultRecorded">> \in events' => run'.result
  BY DEF RecordInv, Follows
<1> QED
  BY <1>4, <1>5, <1>6, <1>7, <1>8 DEF RecordInv

LEMMA RevokedBefore ==
  ASSUME NEW c, Follows(run, run', c), RecordInv'
  PROVE  run'.revoked /\ run'.state \in Starting => run.revoked \/ c = "running"
BY DEF Follows, RecordInv

LEMMA RecordsStep ==
  ASSUME TypeInv, RecordInv, NEW id, NEW c \in Checkpoints, Records(id, c)
  PROVE  /\ Step(c) /\ copy' = run'
         /\ run' = run \/ copy.revision = run.revision
         /\ id = "prompt-intent" /\ c = "PromptSendIntent" => run'.prompt
         /\ id = "result" /\ c = "ResultRecorded" => run'.result
<1>1. /\ Follows(run, run', c) /\ events' = events \cup {<<id, c>>} /\ copy' = run' /\ UNCHANGED faults
      /\ run' = run \/ copy.revision = run.revision
  <2>1. Accepts(id, c, copy.revision) /\ Commit(id, c) /\ copy' = run' /\ UNCHANGED faults
    BY DEF Records
  <2>2. Follows(run, run', c)
    BY <2>1, CommitFollows
  <2>3. events' = events \cup {<<id, c>>}
    BY <2>1, CommitFollows
  <2>4. run' = run \/ copy.revision = run.revision
    BY <2>1 DEF Accepts, Commit
  <2> QED
    BY <2>1, <2>2, <2>3, <2>4
<1>2. /\ id = "prompt-intent" /\ c = "PromptSendIntent" => run'.prompt
      /\ id = "result" /\ c = "ResultRecorded" => run'.result
  BY CommitFollows DEF Records, RecordInv
<1>3. RecordInv' /\ copy' \in Run /\ copy'.revision <= run'.revision
  BY <1>1, <1>2, RecordKept
<1> QED
  BY <1>1, <1>2, <1>3, RevokedBefore DEF Step, TypeInv, TypeOK

\* One more failed call stays within the bound.
LEMMA FaultsKept ==
  ASSUME TypeInv, UNCHANGED faults \/ StorageFails
  PROVE  faults' \in 0..MaxFaults
<1>1. faults \in 0..MaxFaults /\ MaxFaults \in Nat
  BY BoundsAssumption DEF TypeInv, TypeOK
<1> QED
  BY <1>1 DEF StorageFails

LEMMA UnrecordedStep ==
  ASSUME TypeInv, RecordInv, NEW c, UNCHANGED <<run, events>>,
         copy' = copy \/ copy' = run \/ copy' = AcceptedRun,
         UNCHANGED faults \/ StorageFails
  PROVE  Step(c)
<1>1. Follows(run, run', c)
  BY SameFollows DEF TypeInv, TypeOK
<1>2. RecordInv' /\ copy' \in Run /\ copy'.revision <= run'.revision
  BY <1>1, RecordKept
<1>3. faults' \in 0..MaxFaults
  BY FaultsKept
<1> QED
  BY <1>1, <1>2, <1>3, RevokedBefore DEF Step

LEMMA CancelStep ==
  ASSUME TypeInv, RecordInv, run' = CancelledBy(run), UNCHANGED <<events, copy, faults>>
  PROVE  Step("CancelRequested") /\ run'.revoked /\ run'.state \notin Starting
<1>1. Follows(run, run', "CancelRequested") /\ run'.revoked /\ run'.state \notin Starting
  BY CancelledFollows DEF TypeInv, TypeOK
<1>2. RecordInv' /\ copy' \in Run /\ copy'.revision <= run'.revision
  BY <1>1, RecordKept
<1> QED
  BY <1>1, <1>2, RevokedBefore DEF Step, TypeInv, TypeOK
-----------------------------------------------------------------------------
(***************************************************************************)
(* The executor's steps that record nothing.                               *)
(***************************************************************************)
Quiet ==
  \/ Wake \/ Begin \/ PrepareFails \/ AttachRead \/ AttachInsert \/ Ready \/ Launch \/ LaunchFails
  \/ Check \/ Connect \/ SendPrompt \/ WorkerFails \/ Refresh \/ Detach
  \/ (\E e \in Asked : Stop(e))
  \/ (\E o \in {"ok", "cancelled", "prompt failed"} : Answer(o))

LEMMA QuietStep ==
  ASSUME IInv, Quiet
  PROVE  IInv' /\ Restrained
<1> USE DEF IInv, Goes, Others, journal, talk, entry, worker
<1> DEFINE none == "ProcessObserved"
<1>s. Step(none) /\ Restrained
  <2>1. /\ UNCHANGED <<run, events>>
        /\ copy' = copy \/ copy' = run \/ copy' = AcceptedRun
        /\ UNCHANGED faults \/ StorageFails
    BY Zenon DEF Quiet, Wake, Begin, PrepareFails, AttachRead, AttachInsert, Ready, Launch, LaunchFails, Check,
       Connect, SendPrompt, WorkerFails, Refresh, Detach, Stop, Answer, NoJournal, CheckFails
  <2> QED
    BY <2>1, UnrecordedStep DEF Restrained
<1> USE DEF TypeInv, TypeOK, DispatchOK, RevokedInv, PromptInv, WorkerInv, Step, Follows, Stages, Waiting,
            Starting, Early, Unspawned, Ending, Settled, Proof
<1>1. CASE Wake
  BY <1>s, <1>1 DEF Wake
<1>2. CASE Begin
  BY <1>s, <1>2 DEF Begin
<1>3. CASE PrepareFails
  BY <1>s, <1>3 DEF PrepareFails
<1>4. CASE AttachRead
  <2>1. run.revoked \in BOOLEAN /\ seen' \in BOOLEAN
    BY <1>4 DEF AttachRead, Run
  <2>2. TypeInv'
    BY <1>s, <1>4, <2>1 DEF AttachRead
  <2>3. RevokedInv'
    BY <1>s, <1>4 DEF AttachRead
  <2>4. PromptInv'
    BY <1>s, <1>4 DEF AttachRead
  <2>5. WorkerInv'
    BY <1>s, <1>4 DEF AttachRead
  <2> QED
    BY <1>s, <2>2, <2>3, <2>4, <2>5
<1>5. CASE AttachInsert
  BY <1>s, <1>5 DEF AttachInsert
<1>6. CASE Ready
  BY <1>s, <1>6 DEF Ready
<1>7. CASE Launch
  BY <1>s, <1>7 DEF Launch
<1>8. CASE LaunchFails
  BY <1>s, <1>8 DEF LaunchFails
<1>9. CASE Check
  <2>1. CASE Goes("spawned", "bind") \/ Goes("session", "bindSession") \/ Goes("bound", "intent")
    <3>2. TypeInv'
      BY <1>s, <2>1, <1>9 DEF Check
    <3>3. RevokedInv'
      BY <1>s, <2>1, <1>9 DEF Check
    <3>4. PromptInv'
      BY <1>s, <2>1, <1>9 DEF Check
    <3>5. WorkerInv'
      BY <1>s, <2>1, <1>9 DEF Check
    <3> QED
      BY <1>s, <3>2, <3>3, <3>4, <3>5
  <2>2. CASE Goes("spawned", "unrecorded")
    BY <1>s, <1>9, <2>2 DEF Check
  <2>3. CASE Goes("session", "settle") \/ Goes("bound", "settle")
    <3>2. TypeInv'
      BY <1>s, <1>9, <2>3 DEF Check
    <3>3. RevokedInv'
      BY <1>s, <1>9, <2>3 DEF Check
    <3>4. PromptInv'
      BY <1>s, <1>9, <2>3 DEF Check
    <3>5. WorkerInv'
      BY <1>s, <1>9, <2>3 DEF Check
    <3> QED
      BY <1>s, <3>2, <3>3, <3>4, <3>5
  <2> QED
    BY <1>9, <2>1, <2>2, <2>3 DEF Check
<1>10. CASE Connect
  BY <1>s, <1>10 DEF Connect
<1>11. CASE SendPrompt
  BY <1>s, <1>11 DEF SendPrompt
<1>12. CASE WorkerFails
  BY <1>s, <1>12 DEF WorkerFails
<1>13. CASE Refresh
  <2>1. /\ pc = "refresh" /\ pc' \in {"finish", "restop"}
        /\ UNCHANGED <<events, failed, completed, talk, entry, worker>> /\ Others /\ UNCHANGED run
    BY <1>13 DEF Refresh
  <2>2. TypeInv'
    BY <1>s, <2>1
  <2>3. RevokedInv'
    BY <1>s, <2>1
  <2>4. PromptInv'
    BY <1>s, <2>1
  <2>5. WorkerInv'
    BY <1>s, <2>1
  <2> QED
    BY <1>s, <2>2, <2>3, <2>4, <2>5
<1>14. CASE Detach
  BY <1>s, <1>14 DEF Detach, NoJournal
<1>15. ASSUME NEW e \in Asked, Stop(e) PROVE IInv' /\ Restrained
  <2>1. /\ proc = "gone" => proc' = "gone"
        /\ proc' \in {"none", "alive", "gone"}
        /\ proc' # "none" => proc # "none" \/ owned
        /\ proc' = "alive" => proc = "alive"
        /\ e \in Proof => proc' = "gone"
    BY <1>15 DEF Stop, StopOwned, TypeOK
  <2>2. /\ pc = "stopping" /\ pc' = "recordStop" /\ evidence' = e /\ UNCHANGED <<owned, sent>>
        /\ UNCHANGED <<run, events, journal, outcome, entry, faults>> /\ Others
    BY <1>15 DEF Stop, StopOwned
  <2> QED
    BY <1>s, <2>1, <2>2
<1>16. ASSUME NEW o \in {"ok", "cancelled", "prompt failed"}, Answer(o) PROVE IInv' /\ Restrained
  BY <1>s, <1>16 DEF Answer
<1> QED
  BY <1>1, <1>2, <1>3, <1>4, <1>5, <1>6, <1>7, <1>8, <1>9, <1>10, <1>11, <1>12, <1>13, <1>14, <1>15, <1>16 DEF Quiet

-----------------------------------------------------------------------------
(***************************************************************************)
(* The steps that write a checkpoint.                                      *)
(***************************************************************************)
LEMMA StopIntentStep ==
  ASSUME IInv, StopIntent
  PROVE  Step("CancelRequested")
<1>1. CASE Records("stop-intent", "CancelRequested")
  BY <1>1, RecordsStep DEF IInv, Checkpoints, Progress, Events
<1>2. CASE (Misses("stop-intent", "CancelRequested") \/ (Unrecorded /\ UNCHANGED faults))
  BY <1>2, UnrecordedStep DEF IInv, Misses, Refused, Unrecorded
<1> QED
  BY <1>1, <1>2 DEF StopIntent

\* A failure frees a workspace only if no process is recorded.
LEMMA FailureStep ==
  ASSUME IInv, RecordFailure
  PROVE  \E c \in {"PromptFailed", "ConnectionLost", "LaunchFailedBeforeSpawn"} :
           Step(c) /\ (c = "LaunchFailedBeforeSpawn" => run' = run \/ ~run.process)
<1>1. FailureEvent \in {"PromptFailed", "ConnectionLost", "LaunchFailedBeforeSpawn"}
  BY DEF FailureEvent
<1>2. CASE Records(FailureId, FailureEvent)
  <2>1. Step(FailureEvent) /\ (run' = run \/ copy.revision = run.revision)
    BY <1>1, <1>2, RecordsStep DEF IInv, Checkpoints, Progress, Events
  <2>2. FailureEvent = "LaunchFailedBeforeSpawn" => ~copy.process
    BY DEF FailureEvent
  <2> QED
    BY <1>1, <2>1, <2>2 DEF IInv, RecordInv
<1>3. CASE (Misses(FailureId, FailureEvent) \/ (Unrecorded /\ UNCHANGED faults))
  BY <1>3, UnrecordedStep DEF IInv, Misses, Refused, Unrecorded
<1> QED
  BY <1>2, <1>3 DEF RecordFailure

Writing ==
  \/ FailBeforeLaunch \/ BeforeLaunch \/ Abort \/ ProcessSpawned \/ SpawnedUnrecorded \/ SessionBound
  \/ PromptIntent \/ Interrupt \/ Completed \/ PromptCompleted \/ ExecutionFailed \/ IntendStop
  \/ RecordStop

LEMMA WritingStep ==
  ASSUME IInv, Writing
  PROVE  IInv' /\ Restrained
<1> USE DEF IInv, Goes, Others, journal, talk, entry, worker
<1> SUFFICES TypeInv' /\ RecordInv' /\ RevokedInv' /\ PromptInv' /\ WorkerInv' /\ Restrained
  OBVIOUS
<1>1. CASE BeforeLaunch
  <2>1. Step("Preparing")
    <3>1. CASE Records("preparing", "Preparing")
      BY <3>1, RecordsStep DEF Checkpoints, Progress, Events, Bindings
    <3>2. CASE Misses("preparing", "Preparing")
      BY <3>2, UnrecordedStep DEF Misses, Refused, Unrecorded
    <3> QED
      BY <1>1, <3>1, <3>2 DEF BeforeLaunch
  <2> USE DEF TypeInv, TypeOK, DispatchOK, RevokedInv, PromptInv, WorkerInv, Step, Follows, Stages,
             Waiting, Starting, Early, Unspawned, Ending, Settled, Proof
  <2>2. TypeInv'
    BY <1>1, <2>1 DEF BeforeLaunch
  <2>3. RevokedInv'
    BY <1>1, <2>1 DEF BeforeLaunch
  <2>4. PromptInv'
    BY <1>1, <2>1 DEF BeforeLaunch
  <2>5. WorkerInv'
    BY <1>1, <2>1 DEF BeforeLaunch
  <2>6. Restrained
    BY <1>1, <2>1 DEF BeforeLaunch, Restrained
  <2> QED
    BY <2>1, <2>2, <2>3, <2>4, <2>5, <2>6 DEF Step
<1>2. CASE Abort
  <2>1. \E c \in {"PromptFailed", "ConnectionLost", "LaunchFailedBeforeSpawn"} :
          Step(c) /\ (c = "LaunchFailedBeforeSpawn" => run' = run \/ ~run.process)
    BY <1>2, FailureStep DEF Abort
  <2>2. failed' \in BOOLEAN /\ UNCHANGED completed
    BY <1>2 DEF Abort, RecordFailure, TypeInv, TypeOK
  <2> USE DEF TypeInv, TypeOK, DispatchOK, RevokedInv, PromptInv, WorkerInv, Step, Follows, Stages,
             Waiting, Starting, Early, Unspawned, Ending, Settled, Proof
  <2>3. TypeInv'
    BY <1>2, <2>1, <2>2 DEF Abort
  <2>4. RevokedInv'
    BY <1>2, <2>1 DEF Abort
  <2>5. PromptInv'
    BY <1>2, <2>1 DEF Abort
  <2>6. WorkerInv'
    BY <1>2, <2>1 DEF Abort
  <2>7. Restrained
    BY <1>2, <2>1 DEF Abort, Restrained
  <2> QED
    BY <2>1, <2>3, <2>4, <2>5, <2>6, <2>7 DEF Step
<1>3. CASE ProcessSpawned
  <2>1. Step("ProcessSpawned")
    <3>1. CASE Records("process-spawned", "ProcessSpawned")
      BY <3>1, RecordsStep DEF Checkpoints, Progress, Events, Bindings
    <3>2. CASE Misses("process-spawned", "ProcessSpawned")
      BY <3>2, UnrecordedStep DEF Misses, Refused, Unrecorded
    <3> QED
      BY <1>3, <3>1, <3>2 DEF ProcessSpawned
  <2> USE DEF TypeInv, TypeOK, DispatchOK, RevokedInv, PromptInv, WorkerInv, Step, Follows, Stages,
             Waiting, Starting, Early, Unspawned, Ending, Settled, Proof
  <2>2. TypeInv'
    BY <1>3, <2>1 DEF ProcessSpawned
  <2>3. RevokedInv'
    BY <1>3, <2>1 DEF ProcessSpawned
  <2>4. PromptInv'
    BY <1>3, <2>1 DEF ProcessSpawned
  <2>5. WorkerInv'
    BY <1>3, <2>1 DEF ProcessSpawned
  <2>6. Restrained
    BY <1>3, <2>1 DEF ProcessSpawned, Restrained
  <2> QED
    BY <2>1, <2>2, <2>3, <2>4, <2>5, <2>6 DEF Step
<1>4. CASE SpawnedUnrecorded
  <2>1. Step("ProcessObserved")
    <3>1. CASE Records("spawned-unrecorded", "ProcessObserved")
      BY <3>1, RecordsStep DEF Checkpoints, Progress, Events, Bindings
    <3>2. CASE Misses("spawned-unrecorded", "ProcessObserved")
      BY <3>2, UnrecordedStep DEF Misses, Refused, Unrecorded
    <3> QED
      BY <1>4, <3>1, <3>2 DEF SpawnedUnrecorded
  <2> USE DEF TypeInv, TypeOK, DispatchOK, RevokedInv, PromptInv, WorkerInv, Step, Follows, Stages,
             Waiting, Starting, Early, Unspawned, Ending, Settled, Proof
  <2>2. TypeInv'
    BY <1>4, <2>1 DEF SpawnedUnrecorded
  <2>3. RevokedInv'
    BY <1>4, <2>1 DEF SpawnedUnrecorded
  <2>4. PromptInv'
    BY <1>4, <2>1 DEF SpawnedUnrecorded
  <2>5. WorkerInv'
    BY <1>4, <2>1 DEF SpawnedUnrecorded
  <2>6. Restrained
    BY <1>4, <2>1 DEF SpawnedUnrecorded, Restrained
  <2> QED
    BY <2>1, <2>2, <2>3, <2>4, <2>5, <2>6 DEF Step
<1>5. CASE SessionBound
  <2>1. Step("SessionBound")
    <3>1. CASE Records("session-bound", "SessionBound")
      BY <3>1, RecordsStep DEF Checkpoints, Progress, Events, Bindings
    <3>2. CASE Misses("session-bound", "SessionBound")
      BY <3>2, UnrecordedStep DEF Misses, Refused, Unrecorded
    <3> QED
      BY <1>5, <3>1, <3>2 DEF SessionBound
  <2> USE DEF TypeInv, TypeOK, DispatchOK, RevokedInv, PromptInv, WorkerInv, Step, Follows, Stages,
             Waiting, Starting, Early, Unspawned, Ending, Settled, Proof
  <2>2. TypeInv'
    BY <1>5, <2>1 DEF SessionBound
  <2>3. RevokedInv'
    BY <1>5, <2>1 DEF SessionBound
  <2>4. PromptInv'
    BY <1>5, <2>1 DEF SessionBound
  <2>5. WorkerInv'
    BY <1>5, <2>1 DEF SessionBound
  <2>6. Restrained
    BY <1>5, <2>1 DEF SessionBound, Restrained
  <2> QED
    BY <2>1, <2>2, <2>3, <2>4, <2>5, <2>6 DEF Step
<1>6. CASE PromptIntent
  <2>1. Step("PromptSendIntent")
    <3>1. CASE Records("prompt-intent", "PromptSendIntent")
      BY <3>1, RecordsStep DEF Checkpoints, Progress, Events, Bindings
    <3>2. CASE Misses("prompt-intent", "PromptSendIntent")
      BY <3>2, UnrecordedStep DEF Misses, Refused, Unrecorded
    <3> QED
      BY <1>6, <3>1, <3>2 DEF PromptIntent
  <2>2. pc' = "send" => run'.prompt
    BY <1>6, RecordsStep DEF PromptIntent, Checkpoints, Progress, Events
  <2> USE DEF TypeInv, TypeOK, DispatchOK, RevokedInv, PromptInv, WorkerInv, Step, Follows, Stages,
             Waiting, Starting, Early, Unspawned, Ending, Settled, Proof
  <2>3. TypeInv'
    BY <1>6, <2>1, <2>2 DEF PromptIntent
  <2>4. RevokedInv'
    BY <1>6, <2>1, <2>2 DEF PromptIntent
  <2>5. PromptInv'
    BY <1>6, <2>1, <2>2 DEF PromptIntent
  <2>6. WorkerInv'
    BY <1>6, <2>1, <2>2 DEF PromptIntent
  <2>7. Restrained
    BY <1>6, <2>1, <2>2 DEF PromptIntent, Restrained
  <2> QED
    BY <2>1, <2>2, <2>3, <2>4, <2>5, <2>6, <2>7 DEF Step
<1>7. CASE Interrupt
  <2>1. Step("CancelRequested")
    BY <1>7, StopIntentStep DEF Interrupt
  <2> USE DEF TypeInv, TypeOK, DispatchOK, RevokedInv, PromptInv, WorkerInv, Step, Follows, Stages,
             Waiting, Starting, Early, Unspawned, Ending, Settled, Proof
  <2>2. TypeInv'
    BY <1>7, <2>1 DEF Interrupt
  <2>3. RevokedInv'
    BY <1>7, <2>1 DEF Interrupt
  <2>4. PromptInv'
    BY <1>7, <2>1 DEF Interrupt
  <2>5. WorkerInv'
    BY <1>7, <2>1 DEF Interrupt
  <2>6. Restrained
    BY <1>7, <2>1 DEF Interrupt, Restrained
  <2> QED
    BY <2>1, <2>2, <2>3, <2>4, <2>5, <2>6 DEF Step
<1>8. CASE Completed
  <2>1. Step("ResultRecorded")
    <3>1. CASE Records("result", "ResultRecorded")
      BY <3>1, RecordsStep DEF Checkpoints, Bindings
    <3>2. CASE (Misses("result", "ResultRecorded") \/ (Unrecorded /\ UNCHANGED faults))
      BY <3>2, UnrecordedStep DEF Misses, Refused, Unrecorded
    <3> QED
      BY <1>8, <3>1, <3>2 DEF Completed
  <2>2. pc' = "complete" => run'.result
    BY <1>8, RecordsStep DEF Completed, Checkpoints, Bindings
  <2> USE DEF TypeInv, TypeOK, DispatchOK, RevokedInv, PromptInv, WorkerInv, Step, Follows, Stages,
             Waiting, Starting, Early, Unspawned, Ending, Settled, Proof
  <2>3. TypeInv'
    BY <1>8, <2>1, <2>2 DEF Completed
  <2>4. RevokedInv'
    BY <1>8, <2>1, <2>2 DEF Completed
  <2>5. PromptInv'
    BY <1>8, <2>1, <2>2 DEF Completed
  <2>6. WorkerInv'
    BY <1>8, <2>1, <2>2 DEF Completed
  <2>7. Restrained
    BY <1>8, <2>1, <2>2 DEF Completed, Restrained
  <2> QED
    BY <2>1, <2>2, <2>3, <2>4, <2>5, <2>6, <2>7 DEF Step
<1>9. CASE PromptCompleted
  <2>1. Step("PromptCompleted")
    <3>1. CASE Records("prompt-completed", "PromptCompleted")
      BY <3>1, RecordsStep DEF Checkpoints, Progress, Events, Bindings
    <3>2. CASE Misses("prompt-completed", "PromptCompleted")
      BY <3>2, UnrecordedStep DEF Misses, Refused, Unrecorded
    <3> QED
      BY <1>9, <3>1, <3>2 DEF PromptCompleted
  <2> USE DEF TypeInv, TypeOK, DispatchOK, RevokedInv, PromptInv, WorkerInv, Step, Follows, Stages,
             Waiting, Starting, Early, Unspawned, Ending, Settled, Proof
  <2>2. TypeInv'
    BY <1>9, <2>1 DEF PromptCompleted
  <2>3. RevokedInv'
    BY <1>9, <2>1 DEF PromptCompleted
  <2>4. PromptInv'
    BY <1>9, <2>1 DEF PromptCompleted
  <2>5. WorkerInv'
    BY <1>9, <2>1 DEF PromptCompleted
  <2>6. Restrained
    BY <1>9, <2>1 DEF PromptCompleted, Restrained
  <2> QED
    BY <2>1, <2>2, <2>3, <2>4, <2>5, <2>6 DEF Step
<1>10. CASE ExecutionFailed
  <2>1. \E c \in {"PromptFailed", "ConnectionLost", "LaunchFailedBeforeSpawn"} :
          Step(c) /\ (c = "LaunchFailedBeforeSpawn" => run' = run \/ ~run.process)
    BY <1>10, FailureStep DEF ExecutionFailed
  <2>2. failed' \in BOOLEAN /\ UNCHANGED completed
    BY <1>10 DEF ExecutionFailed, RecordFailure, TypeInv, TypeOK
  <2> USE DEF TypeInv, TypeOK, DispatchOK, RevokedInv, PromptInv, WorkerInv, Step, Follows, Stages,
             Waiting, Starting, Early, Unspawned, Ending, Settled, Proof
  <2>3. TypeInv'
    BY <1>10, <2>1, <2>2 DEF ExecutionFailed
  <2>4. RevokedInv'
    BY <1>10, <2>1 DEF ExecutionFailed
  <2>5. PromptInv'
    BY <1>10, <2>1 DEF ExecutionFailed
  <2>6. WorkerInv'
    BY <1>10, <2>1 DEF ExecutionFailed
  <2>7. Restrained
    BY <1>10, <2>1 DEF ExecutionFailed, Restrained
  <2> QED
    BY <2>1, <2>3, <2>4, <2>5, <2>6, <2>7 DEF Step
<1>11. CASE IntendStop
  <2>1. Step("CancelRequested")
    BY <1>11, StopIntentStep DEF IntendStop
  <2> USE DEF TypeInv, TypeOK, DispatchOK, RevokedInv, PromptInv, WorkerInv, Step, Follows, Stages,
             Waiting, Starting, Early, Unspawned, Ending, Settled, Proof
  <2>2. TypeInv'
    BY <1>11, <2>1 DEF IntendStop
  <2>3. RevokedInv'
    BY <1>11, <2>1 DEF IntendStop
  <2>4. PromptInv'
    BY <1>11, <2>1 DEF IntendStop
  <2>5. WorkerInv'
    BY <1>11, <2>1 DEF IntendStop
  <2>6. Restrained
    BY <1>11, <2>1 DEF IntendStop, Restrained
  <2> QED
    BY <2>1, <2>2, <2>3, <2>4, <2>5, <2>6 DEF Step
<1>12. CASE RecordStop
  <2>1. StopCheckpoint(evidence) \in Evidence \cup {"ProcessObserved"}
        /\ (StopCheckpoint(evidence) \in Proof => proc = "gone")
    BY <1>12 DEF RecordStop, StopCheckpoint, TypeInv, WorkerInv, Asked, Evidence, Proof
  <2>2. Step(StopCheckpoint(evidence))
    <3>1. CASE Records("stop", StopCheckpoint(evidence))
      BY <2>1, <3>1, RecordsStep DEF Checkpoints
    <3>2. CASE Misses("stop", StopCheckpoint(evidence)) \/ (Unrecorded /\ UNCHANGED faults)
                \/ (Unrecorded /\ StorageFails)
      BY <3>2, UnrecordedStep DEF Misses, Refused, Unrecorded
    <3> QED
      BY <1>12, <3>1, <3>2 DEF RecordStop, Refused
  <2> USE DEF TypeInv, TypeOK, DispatchOK, RevokedInv, PromptInv, WorkerInv, Step, Follows, Stages,
             Waiting, Starting, Early, Unspawned, Ending, Settled, Proof
  <2>3. TypeInv'
    BY <1>12, <2>1, <2>2 DEF RecordStop
  <2>4. RevokedInv'
    BY <1>12, <2>1, <2>2 DEF RecordStop, Unrecorded, Evidence
  <2>5. PromptInv'
    BY <1>12, <2>1, <2>2 DEF RecordStop, Unrecorded, Evidence
  <2>6. WorkerInv'
    BY <1>12, <2>1, <2>2 DEF RecordStop, Unrecorded, Evidence
  <2>7. Restrained
    BY <1>12, <2>1, <2>2 DEF RecordStop, Unrecorded, Evidence, Restrained
  <2> QED
    BY <2>1, <2>2, <2>3, <2>4, <2>5, <2>6, <2>7 DEF Step
<1>13. CASE FailBeforeLaunch
  <2>1. Step("LaunchFailedBeforeSpawn")
    <3>1. CASE /\ Commit("executor", "LaunchFailedBeforeSpawn") /\ run.state = "Accepted"
               /\ UNCHANGED faults \/ StorageFails
      <4>1. run \in Run
        BY DEF TypeInv, TypeOK
      <4>2. Recordable(run, "LaunchFailedBeforeSpawn")
        BY <3>1, EventsOf DEF RecordInv, Recordable, Bindings, CanAdvance, EventOf, Progress, Events, Active
      <4>3. Follows(run, run', "LaunchFailedBeforeSpawn")
        BY <3>1, <4>1, <4>2, RecordedFollows, SameFollows DEF Commit, Checkpoints, Progress, Events
      <4>4. RecordInv' /\ copy' \in Run /\ copy'.revision <= run'.revision
        BY <1>13, <3>1, <4>3, RecordKept DEF FailBeforeLaunch, Commit
      <4>5. faults' \in 0..MaxFaults
        BY <3>1, FaultsKept
      <4> QED
        BY <4>3, <4>4, <4>5, RevokedBefore DEF Step
    <3>2. CASE UNCHANGED <<run, events>> /\ (UNCHANGED faults \/ StorageFails)
      BY <1>13, <3>2, UnrecordedStep DEF FailBeforeLaunch
    <3> QED
      BY <1>13, <3>1, <3>2 DEF FailBeforeLaunch
  <2> USE DEF TypeInv, TypeOK, DispatchOK, RevokedInv, PromptInv, WorkerInv, Step, Follows, Stages,
             Waiting, Starting, Early, Unspawned, Ending, Settled, Proof
  <2>2. TypeInv'
    BY <1>13, <2>1 DEF FailBeforeLaunch
  <2>3. RevokedInv'
    BY <1>13, <2>1 DEF FailBeforeLaunch
  <2>4. PromptInv'
    BY <1>13, <2>1 DEF FailBeforeLaunch
  <2>5. WorkerInv'
    BY <1>13, <2>1 DEF FailBeforeLaunch
  <2>6. Restrained
    BY <1>13, <2>1 DEF FailBeforeLaunch, Restrained
  <2> QED
    BY <2>1, <2>2, <2>3, <2>4, <2>5, <2>6 DEF Step
<1> QED
  BY <1>1, <1>2, <1>3, <1>4, <1>5, <1>6, <1>7, <1>8, <1>9, <1>10, <1>11, <1>12, <1>13
     DEF Writing
-----------------------------------------------------------------------------
(***************************************************************************)
(* Cancellations, dispatchers and the rest.                                *)
(***************************************************************************)
\* A dispatcher's checkpoint, which it writes to a run that is revoked.
LEMMA DispatchWritesStep ==
  ASSUME IInv, NEW c \in Cancels, NEW id, NEW x \in Evidence \cup {"ProcessObserved"},
         DispatchWrites(c, id, x)
  PROVE  Step(x)
<1>1. CASE Accepts(id, x, dispatch[c].revision) /\ Commit(id, x) /\ UNCHANGED faults
  <2>1. Follows(run, run', x) /\ events' = events \cup {<<id, x>>}
    BY <1>1, CommitFollows DEF IInv, Checkpoints
  <2>2. UNCHANGED copy
    BY DEF DispatchWrites, Beside, journal
  <2>3. x # "PromptSendIntent" /\ x # "ResultRecorded"
    BY DEF Evidence
  <2>4. RecordInv' /\ copy' \in Run /\ copy'.revision <= run'.revision
    BY <2>1, <2>2, <2>3, RecordKept DEF IInv
  <2> QED
    BY <1>1, <2>1, <2>4, RevokedBefore DEF Step, IInv, TypeInv, TypeOK
<1>2. CASE UNCHANGED <<run, events>> /\ (UNCHANGED faults \/ StorageFails)
  <2>1. UNCHANGED copy
    BY DEF DispatchWrites, Beside, journal
  <2> QED
    BY <1>2, <2>1, UnrecordedStep DEF IInv
<1> QED
  BY <1>1, <1>2 DEF DispatchWrites

\* The dispatcher c goes on to one of some stages.
Turn(c, stages) ==
  /\ DispatchOK'
  /\ \A d \in Cancels \ {c} : dispatch'[d] = dispatch[d]
  /\ dispatch'[c].stage \in stages
  /\ dispatch'[c].evidence \in Proof => dispatch[c].evidence \in Proof

LEMMA Turns ==
  ASSUME DispatchOK, NEW c \in Cancels, NEW d \in Dispatches, dispatch' = [dispatch EXCEPT ![c] = d]
  PROVE  /\ DispatchOK' /\ dispatch'[c] = d
         /\ \A x \in Cancels \ {c} : dispatch'[x] = dispatch[x]
BY DEF DispatchOK

LEMMA ServedTurn ==
  ASSUME DispatchOK, NEW c \in Cancels, dispatch' = [dispatch EXCEPT ![c] = Served]
  PROVE  Turn(c, {"done"})
<1>1. Served \in Dispatches /\ Served.stage = "done" /\ Served.evidence = "none"
  BY DEF Served, Idle, Dispatches, Asked
<1> QED
  BY <1>1, Turns DEF Turn, Proof

LEMMA StageTurn ==
  ASSUME DispatchOK, NEW c \in Cancels,
         NEW stage \in {"woken", "stop", "missing"},
         dispatch' = [dispatch EXCEPT ![c] = [dispatch[c] EXCEPT !.stage = stage]]
  PROVE  Turn(c, {stage})
<1> DEFINE d == [dispatch[c] EXCEPT !.stage = stage]
<1>1. d \in Dispatches /\ d.stage = stage /\ d.evidence = dispatch[c].evidence
  BY DEF DispatchOK, Dispatches
<1> HIDE DEF d
<1>2. dispatch' = [dispatch EXCEPT ![c] = d]
  BY DEF d
<1> QED
  BY <1>1, <1>2, Turns DEF Turn

\* What the steps of a dispatcher leave of the invariant.
LEMMA TurnStep ==
  ASSUME IInv, NEW c \in Cancels, NEW x, NEW stages, Turn(c, stages), Step(x),
         "ProcessSpawned" # x, "SessionBound" # x, "Preparing" # x, "PromptSendIntent" # x,
         "PromptCompleted" # x, "LaunchFailedBeforeSpawn" # x,
         x \in Proof => proc' = "gone",
         x = "running" => run.revoked,
         stages \cap {"look", "stop", "record", "missing"} # {} => run'.revoked,
         proc' = proc \/ (proc' = "gone" /\ proc # "none"),
         token' \in BOOLEAN,
         Beside
  PROVE  IInv' /\ Restrained
<1> USE DEF IInv, Beside, journal, talk, entry, worker, TypeInv, TypeOK, Turn
<1>1. TypeInv'
  BY DEF Step, Follows
<1>2. RecordInv'
  BY DEF Step
<1>3. RevokedInv'
  <2>1. run'.revoked /\ run'.state \in Starting => pc' \in Ending
    BY DEF Step, Follows, RevokedInv
  <2>2. ASSUME NEW d \in Cancels, dispatch'[d].stage \in {"look", "stop", "record", "missing"}
        PROVE  run'.revoked
    BY <2>2 DEF Step, Follows, RevokedInv
  <2> QED
    BY <2>1, <2>2 DEF RevokedInv
<1>4. PromptInv'
  BY DEF Step, Follows, PromptInv
<1>5. WorkerInv'
  BY DEF Step, Follows, WorkerInv, Proof
<1>6. Restrained
  BY DEF Step, Follows, Restrained, RevokedInv, Starting
<1> QED
  BY <1>1, <1>2, <1>3, <1>4, <1>5, <1>6

LEMMA CancelsStep ==
  ASSUME IInv, NEW c \in Cancels, Cancel(c) \/ Revoke(c)
  PROVE  IInv' /\ Restrained
<1>1. Step("CancelRequested")
  BY CancelStep DEF IInv, Cancel, Revoke, Beside, journal
<1>2. CASE Cancel(c)
  <2>1. Turn(c, {"woken"})
    BY <1>2, StageTurn DEF IInv, TypeInv, Cancel
  <2> QED
    BY <1>1, <1>2, <2>1, TurnStep DEF Cancel, IInv, TypeInv, TypeOK, Proof
<1>3. CASE Revoke(c)
  <2>1. Turn(c, {"done"})
    BY <1>3, ServedTurn DEF IInv, TypeInv, Revoke
  <2> QED
    BY <1>1, <1>3, <2>1, TurnStep DEF Revoke, IInv, TypeInv, TypeOK, Proof
<1> QED
  BY <1>2, <1>3

LEMMA DispatcherStep ==
  ASSUME IInv, NEW c \in Cancels, Dispatcher(c)
  PROVE  IInv' /\ Restrained
<1>1. DispatchOK
  BY DEF IInv, TypeInv
<1> DEFINE none == "ProcessObserved"
<1>2. ASSUME UNCHANGED <<run, events, faults>>, Beside PROVE Step(none)
  BY <1>2, UnrecordedStep DEF IInv, Beside, journal
<1>3. CASE DispatchRead(c)
  <2>1. CASE run.revoked /\ ~Releasable(run)
    <3> DEFINE d == [Idle EXCEPT !.stage = "look", !.revision = run.revision, !.process = run.process]
    <3>1. run.revision \in Nat /\ run.process \in BOOLEAN
      BY DEF IInv, TypeInv, TypeOK, Run
    <3>2. d \in Dispatches /\ d.stage = "look" /\ d.evidence = "none"
      BY <3>1 DEF Idle, Dispatches, Asked
    <3>3. dispatch' = [dispatch EXCEPT ![c] = d]
      BY <1>3, <2>1 DEF DispatchRead
    <3> HIDE DEF d
    <3>4. Turn(c, {"look"})
      BY <1>1, <3>2, <3>3, Turns DEF Turn, Proof
    <3> QED
      BY <1>2, <1>3, <2>1, <3>4, TurnStep DEF DispatchRead, IInv, TypeInv, TypeOK, Proof
  <2>2. CASE ~(run.revoked /\ ~Releasable(run))
    <3>1. Turn(c, {"done"})
      BY <1>1, <1>3, <2>2, ServedTurn DEF DispatchRead
    <3> QED
      BY <1>2, <1>3, <3>1, TurnStep DEF DispatchRead, IInv, TypeInv, TypeOK, Proof
  <2> QED
    BY <2>1, <2>2
<1>4. CASE DispatchLook(c)
  <2>1. run.revoked
    BY <1>4 DEF DispatchLook, IInv, RevokedInv
  <2>2. token' \in BOOLEAN
    BY <1>4 DEF DispatchLook, IInv, TypeInv, TypeOK
  <2>3. CASE attached
    <3>1. Turn(c, {"done"})
      BY <1>1, <1>4, <2>3, ServedTurn DEF DispatchLook
    <3> QED
      BY <1>2, <1>4, <2>2, <3>1, TurnStep DEF DispatchLook, Proof
  <2>4. CASE ~attached
    <3> DEFINE stage == IF dispatch[c].process THEN "stop" ELSE "missing"
    <3>1. stage \in {"stop", "missing"}
      OBVIOUS
    <3>2. dispatch' = [dispatch EXCEPT ![c] = [dispatch[c] EXCEPT !.stage = stage]]
      BY <1>4, <2>4 DEF DispatchLook
    <3> HIDE DEF stage
    <3>3. Turn(c, {stage})
      BY <1>1, <3>1, <3>2, StageTurn
    <3> QED
      BY <1>2, <1>4, <2>1, <2>2, <3>3, TurnStep DEF DispatchLook, Proof
  <2> QED
    BY <2>3, <2>4
<1>5. CASE DispatchRecord(c)
  <2>1. run.revoked /\ dispatch[c].evidence \in Asked
    BY <1>1, <1>5 DEF DispatchRecord, DispatchOK, Dispatches, IInv, RevokedInv
  <2> DEFINE e == dispatch[c].evidence
             x == StopCheckpoint(e)
  <2>2. x \in Evidence \cup {none} /\ (x \in Proof => proc = "gone")
    BY <2>1 DEF StopCheckpoint, Asked, Evidence, Proof, IInv, WorkerInv
  <2>3. DispatchWrites(c, e, x)
    BY <1>5 DEF DispatchRecord
  <2> HIDE DEF e, x
  <2>4. Step(x)
    BY <2>2, <2>3, DispatchWritesStep
  <2>5. Turn(c, {"done"})
    BY <1>1, <2>3, ServedTurn DEF DispatchWrites
  <2> QED
    BY <2>1, <2>2, <2>3, <2>4, <2>5, TurnStep DEF DispatchWrites, Evidence, IInv, TypeInv, TypeOK
<1>6. CASE DispatchMissing(c)
  <2>1. DispatchWrites(c, "missing", none)
    BY <1>6 DEF DispatchMissing
  <2>2. Step(none)
    BY <2>1, DispatchWritesStep
  <2>3. Turn(c, {"done"})
    BY <1>1, <2>1, ServedTurn DEF DispatchWrites
  <2> QED
    BY <2>1, <2>2, <2>3, TurnStep DEF DispatchWrites, Proof, IInv, TypeInv, TypeOK
<1>7. ASSUME NEW e \in Asked, DispatchStop(c, e) PROVE IInv' /\ Restrained
  <2> DEFINE d == [dispatch[c] EXCEPT !.stage = "record", !.evidence = e]
  <2>1. d \in Dispatches /\ d.evidence = e
    BY <1>1 DEF DispatchOK, Dispatches
  <2>2. dispatch' = [dispatch EXCEPT ![c] = d]
    BY <1>7 DEF DispatchStop
  <2> HIDE DEF d
  <2>3. /\ DispatchOK' /\ dispatch'[c].evidence = e
        /\ \A x \in Cancels \ {c} : dispatch'[x] = dispatch[x]
    BY <1>1, <2>1, <2>2, Turns
  <2>4. /\ UNCHANGED <<run, events, pc, journal, talk, entry, deadline, faults, crashes>>
        /\ UNCHANGED <<owned, sent>> /\ dispatch[c].stage = "stop"
    BY <1>7 DEF DispatchStop, StopOwned
  <2>5. /\ proc = "gone" => proc' = "gone"
        /\ proc' \in {"none", "alive", "gone"}
        /\ proc' # "none" => proc # "none" \/ owned
        /\ proc' = "alive" => proc = "alive"
        /\ e \in Proof => proc' = "gone"
    BY <1>7 DEF DispatchStop, StopOwned, IInv, TypeInv, TypeOK, Proof
  <2>6. Step(none)
    BY <2>4, UnrecordedStep DEF IInv, journal
  <2> USE <2>3, <2>4, <2>5, <2>6 DEF journal, talk, entry
  <2>7. TypeInv'
    BY DEF IInv, TypeInv, TypeOK
  <2>8. RevokedInv'
    BY DEF IInv, RevokedInv
  <2>9. PromptInv'
    BY DEF IInv, PromptInv
  <2>10. WorkerInv'
    BY DEF IInv, WorkerInv
  <2> QED
    BY <2>7, <2>8, <2>9, <2>10 DEF IInv, Step, Restrained
<1> QED
  BY <1>3, <1>4, <1>5, <1>6, <1>7 DEF Dispatcher

LEMMA OutsideStep ==
  ASSUME IInv, WorkerExits \/ DeadlinePasses \/ Crash
  PROVE  IInv' /\ Restrained
<1> USE DEF journal, talk, entry, worker
<1>1. Step("ProcessObserved") /\ UNCHANGED run
  BY UnrecordedStep DEF IInv, WorkerExits, DeadlinePasses, Crash, Beside, NoJournal
<1>2. CASE WorkerExits
  <2> USE <1>2 DEF WorkerExits, Beside
  <2>1. TypeInv'
    BY <1>1 DEF IInv, TypeInv, TypeOK, DispatchOK, Step
  <2>2. RevokedInv'
    BY DEF IInv, RevokedInv
  <2>3. PromptInv'
    BY DEF IInv, PromptInv
  <2>4. WorkerInv'
    BY DEF IInv, WorkerInv
  <2> QED
    BY <1>1, <2>1, <2>2, <2>3, <2>4 DEF IInv, Step, Restrained
<1>3. CASE DeadlinePasses
  <2> USE <1>3 DEF DeadlinePasses
  <2>1. TypeInv'
    BY <1>1 DEF IInv, TypeInv, TypeOK, DispatchOK, Step
  <2>2. RevokedInv'
    BY DEF IInv, RevokedInv
  <2>3. PromptInv'
    BY DEF IInv, PromptInv
  <2>4. WorkerInv'
    BY DEF IInv, WorkerInv
  <2> QED
    BY <1>1, <2>1, <2>2, <2>3, <2>4 DEF IInv, Step, Restrained
<1>4. CASE Crash
  <2>1. crashes' \in 0..MaxCrashes
    <3>1. crashes \in 0..MaxCrashes /\ MaxCrashes \in Nat
      BY BoundsAssumption DEF IInv, TypeInv, TypeOK
    <3> QED
      BY <1>4, <3>1 DEF Crash
  <2>2. /\ Idle \in Dispatches /\ Idle.stage = "idle" /\ Idle.evidence = "none"
        /\ Served \in Dispatches /\ Served.stage = "done" /\ Served.evidence = "none"
    BY DEF Idle, Served, Dispatches, Asked
  <2>3. /\ DispatchOK'
        /\ \A c \in Cancels : dispatch'[c].stage \in {"idle", "done"} /\ dispatch'[c].evidence = "none"
    <3>1. dispatch' = [c \in Cancels |-> IF dispatch[c].stage = "idle" THEN Idle ELSE Served]
      BY <1>4 DEF Crash
    <3> HIDE DEF Idle, Served, Dispatches
    <3> QED
      BY <2>2, <3>1 DEF DispatchOK
  <2> USE <1>4, <2>3 DEF Crash, NoJournal
  <2>4. TypeInv'
    BY <1>1, <2>1 DEF IInv, TypeInv, TypeOK, Step, Stages, Asked
  <2>5. RevokedInv'
    BY DEF RevokedInv, Ending
  <2>6. PromptInv'
    BY DEF IInv, PromptInv, Settled, Ending
  <2>7. WorkerInv'
    BY DEF IInv, WorkerInv, Early, Unspawned, Proof
  <2> QED
    BY <1>1, <2>4, <2>5, <2>6, <2>7 DEF IInv, Step, Restrained
<1> QED
  BY <1>2, <1>3, <1>4

-----------------------------------------------------------------------------
(***************************************************************************)
(* The invariant, and what follows from it.                                *)
(***************************************************************************)
LEMMA InvInit == Init => IInv
<1> SUFFICES ASSUME Init PROVE IInv
  OBVIOUS
<1> USE DEF Init
<1>1. /\ AcceptedRun \in Run /\ AcceptedRun.revision = 1 /\ ~AcceptedRun.process
      /\ ~AcceptedRun.cancel /\ ~AcceptedRun.prompt /\ ~AcceptedRun.revoked
      /\ AcceptedRun.state = "Accepted"
  BY DEF AcceptedRun, Run, States, Active
<1>2. Idle \in Dispatches /\ Idle.stage = "idle" /\ Idle.evidence = "none"
  BY DEF Idle, Dispatches, Asked
<1>3. DispatchOK /\ \A c \in Cancels : dispatch[c] = Idle
  <2> HIDE DEF Idle, Dispatches
  <2> QED
    BY <1>2 DEF DispatchOK
<1> HIDE DEF AcceptedRun, Idle
<1>4. TypeInv
  <2>1. 0 \in 0..MaxFaults /\ 0 \in 0..MaxCrashes
    BY BoundsAssumption
  <2>2. pc \in Stages /\ {failed, completed, seen, attached, token, deadline, owned, sent} \subseteq BOOLEAN
    BY DEF Stages
  <2>3. copy.revision <= run.revision
    BY <1>1
  <2>4. TypeOK
    BY <1>1, <2>1, <2>2, <2>3 DEF TypeOK
  <2> QED
    BY <1>3, <2>4 DEF TypeInv
<1>5. RecordInv
  BY <1>1 DEF RecordInv
<1>6. RevokedInv
  BY <1>1, <1>2, <1>3 DEF RevokedInv
<1>7. PromptInv
  BY <1>1 DEF PromptInv
<1>8. WorkerInv
  BY <1>1, <1>2, <1>3 DEF WorkerInv, Early, Unspawned, Proof
<1> QED
  BY <1>4, <1>5, <1>6, <1>7, <1>8 DEF IInv

LEMMA InvStep ==
  ASSUME IInv, [Next]_vars
  PROVE  IInv' /\ Restrained
<1>1. CASE Executor \/ Connect \/ WorkerFails \/ \E o \in {"ok", "cancelled", "prompt failed"} : Answer(o)
  <2>1. Quiet \/ Writing
    BY <1>1, Zenon DEF Executor, Quiet, Writing
  <2> QED
    BY <2>1, QuietStep, WritingStep
<1>2. ASSUME NEW c \in Cancels, Cancel(c) \/ Revoke(c) \/ Dispatcher(c) PROVE IInv' /\ Restrained
  BY <1>2, CancelsStep, DispatcherStep
<1>3. CASE WorkerExits \/ DeadlinePasses \/ Crash
  BY <1>3, OutsideStep
<1>4. CASE UNCHANGED vars
  <2> USE <1>4 DEF vars, journal, talk, entry, worker
  <2>1. TypeInv'
    BY DEF IInv, TypeInv, TypeOK, DispatchOK
  <2>2. RecordInv'
    BY DEF IInv, RecordInv
  <2>3. RevokedInv'
    BY DEF IInv, RevokedInv
  <2>4. PromptInv'
    BY DEF IInv, PromptInv
  <2>5. WorkerInv'
    BY DEF IInv, WorkerInv
  <2> QED
    BY <2>1, <2>2, <2>3, <2>4, <2>5 DEF IInv, Restrained
<1> QED
  BY <1>1, <1>2, <1>3, <1>4 DEF Next

THEOREM Inductive == Spec => []IInv
<1>1. Init => IInv
  BY InvInit
<1>2. IInv /\ [Next]_vars => IInv'
  BY InvStep
<1> QED
  BY <1>1, <1>2, PTL DEF Spec

\* Every variable has its type; an executor that has ended left no entry behind
\* with the dispatcher (detach), and the journal's copy is never ahead of the record.
THEOREM ExecutionTypeCorrect == Spec => []TypeOK
<1>1. IInv => TypeOK
  BY DEF IInv, TypeInv
<1> QED
  BY <1>1, Inductive, PTL

\* A prompt is sent only after its intent was recorded, and a run succeeds only on a
\* result that was recorded of a prompt the Worker answered (mark_prompt_send_intent
\* and mark_prompt_completed of the journal).
THEOREM PromptAlwaysAccounted == Spec => []PromptIsAccounted
<1>1. IInv => PromptIsAccounted
  BY DEF IInv, PromptInv, PromptIsAccounted
<1> QED
  BY <1>1, Inductive, PTL

\* Executor and dispatcher free the workspace of a bound run only on the proof that
\* its process has stopped, in whatever order and from however old a copy they write.
THEOREM FreedRunHasStopped == Spec => []FreedRunIsStopped
<1>1. IInv => FreedRunIsStopped
  BY DEF IInv, WorkerInv, FreedRunIsStopped, Releasable
<1> QED
  BY <1>1, Inductive, PTL

\* However a revocation falls between the executor's checks and its writes, nothing
\* of a revoked run starts: the revision the executor writes at refuses it.
THEOREM RevokedRunStartsNothing == Spec => NothingStartsRevoked
<1>1. IInv /\ [Next]_vars =>
        [run.revoked =>
           /\ run'.revoked
           /\ run'.process => run.process
           /\ run'.session => run.session
           /\ run'.prompt => run.prompt
           /\ run'.state \in {"Accepted", "Preparing", "Running"} => run'.state = run.state]_run
  BY InvStep DEF Restrained
<1> QED
  BY <1>1, Inductive, PTL DEF Spec, NothingStartsRevoked
=============================================================================
