----------------------------- MODULE MCAdminPage -----------------------------
(* Two keys and two devices over every order of the store's statements; or a  *)
(* tab beside other administrators and the devices.                           *)
EXTENDS AdminPage, TLC

Symmetry == Permutations(Devices) \cup Permutations(Bindings) \cup
            Permutations(Keys) \cup Permutations(Labels)
=============================================================================
