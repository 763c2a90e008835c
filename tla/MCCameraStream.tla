--------------------------- MODULE MCCameraStream ---------------------------
(***************************************************************************)
(* Small instances of CameraStream for TLC.                                *)
(***************************************************************************)
EXTENDS CameraStream
=============================================================================
