---------------------------- MODULE MCCompanion -----------------------------
(***************************************************************************)
(* Small instances of Companion for TLC.                                   *)
(***************************************************************************)
EXTENDS Companion
=============================================================================
