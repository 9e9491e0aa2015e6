----------------------- MODULE MCPublicationInstaller -----------------------
(* A small instance of PublicationInstaller.                               *)
EXTENDS PublicationInstaller

CONSTANTS d1, d2   \* payload digests

Candidate(authority, epoch, revision, digest, rollback, full) ==
  [authority |-> authority, epoch |-> epoch, revision |-> revision,
   digest |-> digest, rollback |-> rollback, full |-> full]

\* A successor, a gap with and without a full snapshot, a conflicting digest, a
\* rollback with and without authority, a newer epoch that restarts the
\* revisions, and a foreign authority: every verdict of the order is reached.
MCCandidates ==
  { Candidate("A", 1, 1, d1, TRUE,  FALSE),
    Candidate("A", 1, 2, d1, FALSE, FALSE),
    Candidate("A", 1, 3, d1, FALSE, TRUE),
    Candidate("A", 1, 3, d2, FALSE, FALSE),
    Candidate("A", 2, 1, d1, FALSE, FALSE),
    Candidate("B", 1, 2, d1, FALSE, FALSE) }
=============================================================================
