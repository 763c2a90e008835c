---------------------------- MODULE MCKeepOnline ----------------------------
(***************************************************************************)
(* Small instances of KeepOnline for TLC.                                  *)
(***************************************************************************)
EXTENDS KeepOnline
=============================================================================
