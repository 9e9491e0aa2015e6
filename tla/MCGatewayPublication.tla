------------------------ MODULE MCGatewayPublication ------------------------
(* A small instance of GatewayPublication.  The compiler of the Gateway     *)
(* marks no publication as a full snapshot or as an authorized rollback.    *)
EXTENDS GatewayPublication

CONSTANTS d1, d2   \* payload digests

Record(epoch, revision, digest) ==
  [authority |-> "A", epoch |-> epoch, revision |-> revision, digest |-> digest,
   rollback |-> FALSE, full |-> FALSE]

\* A chain of successors, a conflicting digest and a newer epoch.
MCRecords == { Record(1, 1, d1), Record(1, 2, d1), Record(1, 2, d2), Record(1, 3, d1),
               Record(2, 1, d1) }
=============================================================================
