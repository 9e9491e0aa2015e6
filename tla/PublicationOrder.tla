-------------------------- MODULE PublicationOrder --------------------------
(***************************************************************************)
(* The order in which gateway-core lets one publication root replace       *)
(* another (crates/gateway-core/src/core/publication.rs).                  *)
(*                                                                         *)
(* A candidate is what compare_candidate reads of a compiled envelope: who *)
(* published it, in which authority epoch, its config revision, the digest *)
(* of its payload and its two flags.  A root is a candidate that was       *)
(* prepared; gen is the ticket number under which its Arc was created, so  *)
(* two roots are the same Arc exactly when they are equal here.            *)
(***************************************************************************)
EXTENDS Naturals

CONSTANTS Candidates,   \* the envelopes callers may offer
          MaxRevision,  \* u64::MAX of the build: ConfigRevision saturates there
          NoRoot        \* the empty ArcSwapOption

ASSUME MaxRevisionAssumption == MaxRevision \in Nat

ASSUME CandidatesAssumption ==
  \A c \in Candidates :
    /\ DOMAIN c = {"authority", "epoch", "revision", "digest", "rollback", "full"}
    /\ c.epoch \in Nat
    /\ c.revision \in 0..MaxRevision
    /\ c.rollback \in BOOLEAN
    /\ c.full \in BOOLEAN

Root == [cand : Candidates, gen : Nat \ {0}]

ASSUME NoRootAssumption == NoRoot \notin Root

\* u64::saturating_add(1)
SaturatingNext(revision) ==
  IF revision < MaxRevision THEN revision + 1 ELSE MaxRevision

(***************************************************************************)
(* compare_candidate: the verdict on candidate c while root is active.     *)
(***************************************************************************)
SameEpochVerdict(active, c) ==
  CASE c.revision = active.revision /\ c.digest = active.digest -> "Duplicate"
    [] c.revision = active.revision /\ c.digest # active.digest -> "RevisionDigestConflict"
    [] c.revision < active.revision /\ ~c.rollback -> "RollbackNotAuthorized"
    [] c.revision > SaturatingNext(active.revision) /\ ~c.full -> "ResyncRequired"
    [] OTHER -> "Accept"

CompareCandidate(active, c) ==
  CASE c.authority # active.authority -> "AuthorityConflict"
    [] c.authority = active.authority /\ c.epoch < active.epoch -> "StaleAuthorityEpoch"
    [] c.authority = active.authority /\ c.epoch > active.epoch -> "Accept"
    [] OTHER -> SameEpochVerdict(active, c)

\* prepare compares only when something is active: the first root is free.
Admissible(root, c) ==
  root # NoRoot => CompareCandidate(root.cand, c) = "Accept"

\* The same where the active root is known by its candidate.
Follows(active, c) ==
  active # NoRoot => CompareCandidate(active, c) = "Accept"
=============================================================================
