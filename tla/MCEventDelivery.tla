-------------------------- MODULE MCEventDelivery --------------------------
(***************************************************************************)
(* Small instances of EventDelivery for TLC; the bounds are in the .cfg    *)
(* files.                                                                  *)
(***************************************************************************)
EXTENDS EventDelivery
=============================================================================
