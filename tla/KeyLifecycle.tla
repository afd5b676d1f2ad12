---------------------------- MODULE KeyLifecycle ----------------------------
(* What the Gateway promises of an access key, whatever its table holds.    *)
(* KeyStore implements it.                                                  *)
(*                                                                          *)
(*   unused --> free <--> owned       A key has one owner at a time: a      *)
(*               ^  \       |         device under a binding never used     *)
(*               |   v      v         before.  The owner loses it only by   *)
(*               +--- denied          denial, and another owner can come    *)
(*                      |             only after it was let go.  A dead     *)
(*        any key --> dead --> gone   key never works again.                *)
EXTENDS Naturals

CONSTANTS Keys, Devices, Bindings, Nobody

VARIABLES phase,   \* of each key
          owner,   \* <<device, binding>> of each key, or Nobody
          used     \* bindings ever given

lifecycleVars == <<phase, owner, used>>
Phases == {"unused", "free", "owned", "denied", "dead", "gone"}

LifecycleInit ==
    /\ phase = [k \in Keys |-> "unused"]
    /\ owner = [k \in Keys |-> Nobody]
    /\ used = {}

Create(k) ==
    /\ phase[k] = "unused"
    /\ phase' = [phase EXCEPT ![k] = "free"]
    /\ UNCHANGED <<owner, used>>

Own(k, d, b) ==
    /\ phase[k] = "free" /\ b \notin used
    /\ phase' = [phase EXCEPT ![k] = "owned"]
    /\ owner' = [owner EXCEPT ![k] = <<d, b>>]
    /\ used' = used \cup {b}

\* The owner is denied at once, and remembered until it is let go.
Deny(k) ==
    /\ phase[k] \in {"free", "owned", "denied"}
    /\ phase' = [phase EXCEPT ![k] = "denied"]
    /\ UNCHANGED <<owner, used>>

LetGo(k) ==
    /\ phase[k] = "denied"
    /\ phase' = [phase EXCEPT ![k] = "free"]
    /\ owner' = [owner EXCEPT ![k] = Nobody]
    /\ UNCHANGED used

Kill(k) ==
    /\ phase[k] \notin {"unused", "gone"}
    /\ phase' = [phase EXCEPT ![k] = "dead"]
    /\ UNCHANGED <<owner, used>>

Bury(K) ==
    /\ \A k \in K : phase[k] = "dead"
    /\ phase' = [k \in Keys |-> IF k \in K THEN "gone" ELSE phase[k]]
    /\ owner' = [k \in Keys |-> IF k \in K THEN Nobody ELSE owner[k]]
    /\ UNCHANGED used

LifecycleNext ==
    \/ \E k \in Keys :
        \/ Create(k) \/ Deny(k) \/ LetGo(k) \/ Kill(k)
        \/ \E d \in Devices, b \in Bindings : Own(k, d, b)
    \/ \E K \in SUBSET Keys : Bury(K)

LifecycleSpec == LifecycleInit /\ [][LifecycleNext]_lifecycleVars
=============================================================================
