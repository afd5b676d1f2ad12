----------------------------- MODULE MCDesktop ------------------------------
(* A small instance of the desktop process. *)
EXTENDS Desktop, TLC
=============================================================================
