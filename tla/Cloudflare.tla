----------------------------- MODULE Cloudflare -----------------------------
(***************************************************************************)
(* The Cloudflare account the Gateway drives, modelled from how            *)
(* gateway/cloudflare.mjs uses its API: named tunnels (a live name is      *)
(* unique, "named tunnels are the idempotency primitive"), the ingress     *)
(* configuration and secret of a tunnel, the connectors attached to it,    *)
(* and one CNAME record per device hostname.  A hostname and a tunnel name *)
(* are functions of the binding id, so both are indexed by it.             *)
(*                                                                         *)
(* Each action is one API call that succeeds.  A call that fails without   *)
(* an effect, or whose answer is lost, ends the invocation that made it:   *)
(* that is Fail in Gateway.tla (PostLost where the code retries).          *)
(***************************************************************************)
CONSTANTS Devices, Bindings, Tunnels, None

VARIABLES
    tun,     \* the tunnels, by id
    dns      \* the CNAME content of each hostname: a tunnel id or None

Tunnel == [of: Bindings \cup {None},             \* binding in its name; None: unused id
           live: BOOLEAN,                         \* not deleted
           ingress: {"none", "serve", "gone"},    \* no config, the Bridge, or 410
           rotated: BOOLEAN,                      \* secret replaced by remove()
           tokens: SUBSET Devices,                \* devices whose token still authenticates
           conn: SUBSET Devices]                  \* connectors attached

UnusedTunnel == [of |-> None, live |-> FALSE, ingress |-> "none",
                 rotated |-> FALSE, tokens |-> {}, conn |-> {}]

CloudInit ==
    /\ tun = [t \in Tunnels |-> UnusedTunnel]
    /\ dns = [b \in Bindings |-> None]

Live(t) == tun[t].live
LiveNamed(b) == {t \in Tunnels : tun[t].live /\ tun[t].of = b}

CreateTunnel(b, t) ==
    /\ LiveNamed(b) = {}
    /\ tun[t].of = None
    /\ tun' = [tun EXCEPT ![t] = [UnusedTunnel EXCEPT !.of = b, !.live = TRUE]]
    /\ UNCHANGED dns

PutIngress(t, service) ==
    /\ Live(t)
    /\ tun' = [tun EXCEPT ![t].ingress = service]
    /\ UNCHANGED dns

\* Every token issued so far stops authenticating.
RotateSecret(t) ==
    /\ Live(t)
    /\ tun' = [tun EXCEPT ![t] = [@ EXCEPT !.rotated = TRUE, !.tokens = {}]]
    /\ UNCHANGED dns

DropConnections(t) ==
    /\ tun' = [tun EXCEPT ![t].conn = {}]
    /\ UNCHANGED dns

DeleteTunnel(t) ==
    /\ tun' = [tun EXCEPT ![t] = [@ EXCEPT !.live = FALSE, !.tokens = {}, !.conn = {}]]
    /\ UNCHANGED dns

PutRecord(b, t) ==
    /\ dns[b] \in {None, t}
    /\ dns' = [dns EXCEPT ![b] = t]
    /\ UNCHANGED tun

DeleteRecord(b, t) ==
    /\ dns' = [dns EXCEPT ![b] = IF @ = t THEN None ELSE @]
    /\ UNCHANGED tun

\* The token a device was handed; worthless if the secret was rotated since.
HandToken(t, d, rotated) ==
    /\ tun' = [tun EXCEPT ![t].tokens =
                  IF Live(t) /\ tun[t].rotated = rotated THEN @ \cup {d} ELSE @]
    /\ UNCHANGED dns

\* cloudflared on a device attaches with its token, or goes away.
Connect(d, t) ==
    /\ Live(t)
    /\ d \in tun[t].tokens \ tun[t].conn
    /\ tun' = [tun EXCEPT ![t].conn = @ \cup {d}]
    /\ UNCHANGED dns
Disconnect(d, t) ==
    /\ d \in tun[t].conn
    /\ tun' = [tun EXCEPT ![t].conn = @ \ {d}]
    /\ UNCHANGED dns

\* A request to the hostname of b arrives at d's Bridge.
Reaches(b, d) ==
    \E t \in Tunnels : /\ dns[b] = t
                       /\ Live(t)
                       /\ tun[t].ingress = "serve"
                       /\ d \in tun[t].conn

CloudTypeOK ==
    /\ tun \in [Tunnels -> Tunnel]
    /\ dns \in [Bindings -> Tunnels \cup {None}]
=============================================================================
