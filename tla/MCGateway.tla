----------------------------- MODULE MCGateway -----------------------------
(* A small instance of the Gateway: one key with two handlers.             *)
EXTENDS Gateway, TLC

\* Ids are only compared for equality, so each of these sets is symmetric.
Symmetry == Permutations(Devices) \cup Permutations(Bindings)
            \cup Permutations(Tunnels) \cup Permutations(Requests)
=============================================================================
