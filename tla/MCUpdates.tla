----------------------------- MODULE MCUpdates -----------------------------
(* Small instances of updates on one device. *)
EXTENDS Updates, TLC

UpdaterSymmetry == Permutations(Updaters)
=============================================================================
