-------------------------- MODULE MCSnapshotStream --------------------------
(***************************************************************************)
(* Small instances of SnapshotStream for TLC.                              *)
(***************************************************************************)
EXTENDS SnapshotStream
=============================================================================
