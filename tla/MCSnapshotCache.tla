-------------------------- MODULE MCSnapshotCache --------------------------
(* SnapshotCache under its configurations. *)
EXTENDS SnapshotCache

\* The mount expands or not, and either refreshes are forced or stale answers are allowed.
MCModes == {[through |-> t, force |-> f, stale |-> ~f] : t \in BOOLEAN, f \in BOOLEAN}
=============================================================================
