--------------------------- MODULE MCSnapshotter ---------------------------
(***************************************************************************)
(* Small instances of Snapshotter for TLC.                                 *)
(***************************************************************************)
EXTENDS Snapshotter
=============================================================================
