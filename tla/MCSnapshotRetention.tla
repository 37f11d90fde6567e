------------------------ MODULE MCSnapshotRetention ------------------------
(* Instances of SnapshotRetention for TLC.                                 *)
EXTENDS SnapshotRetention, TLC

CONSTANTS p1, p2

Symmetric == Permutations({p1, p2})
=============================================================================
