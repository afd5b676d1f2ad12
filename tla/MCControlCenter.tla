--------------------------- MODULE MCControlCenter ---------------------------
(* A small instance of the Control Center. *)
EXTENDS ControlCenter, TLC
=============================================================================
