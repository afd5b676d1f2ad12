--------------------------- MODULE MCUpdatePolicy ---------------------------
(* Small instances of the update policy. *)
EXTENDS UpdatePolicy, TLC

PolicySymmetry == Permutations(Admins) \cup Permutations(Publishers) \cup Permutations(Readers)
=============================================================================
