-------------------------- MODULE MCSnapshotStore --------------------------
(***************************************************************************)
(* An instance of SnapshotStore for TLC.                                   *)
(***************************************************************************)
EXTENDS SnapshotStore, TLC

ClientSymmetry == Permutations(Clients)
=============================================================================
