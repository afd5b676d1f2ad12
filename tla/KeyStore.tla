------------------------------ MODULE KeyStore ------------------------------
(***************************************************************************)
(* The Gateway's D1 table of access keys (gateway/store.mjs).  Every       *)
(* method of KeyStore that writes is ONE statement or one D1 batch, so it  *)
(* is one atomic action here: its WHERE clause is the operator Can...,     *)
(* its SET clause the primed row.  A statement whose WHERE clause matches  *)
(* nothing changes nothing, which is a stuttering step.                    *)
(*                                                                         *)
(* In this module the caller is unconstrained: any method, with any        *)
(* argument, in any order.  What holds here holds whatever the request     *)
(* handlers do; Gateway.tla adds the handlers and refines this module.     *)
(***************************************************************************)
EXTENDS Integers

CONSTANTS
    Keys,        \* access_keys.id (label and key_hash are functions of it)
    Devices,     \* what authenticates a device: id, secret and bridge port
    Bindings,    \* the pool crypto.randomUUID() draws binding ids from
    Tunnels,     \* Cloudflare tunnel ids
    Versions,    \* client versions, as naturals
    None,        \* SQL NULL
    Grace,       \* ticks a provisioning row may age before it is stale
    MaxTime      \* bound on the clock

ASSUME NoneAssumption ==
    /\ None \notin Devices
    /\ None \notin Bindings
    /\ None \notin Tunnels
    /\ None \notin Versions
    /\ None \notin Keys \X Devices
ASSUME ClockAssumption == Grace \in Nat /\ MaxTime \in Nat

VARIABLES
    rows,        \* the table: one record per key id, NoRow when absent
    events,      \* access_key_events, as pairs <<key, event>>
    minted,      \* history: <<key, device>> each binding id was written for
    now          \* the clock behind updated_at

storeVars == <<rows, events, minted, now>>

States == {"absent", "issued", "provisioning", "active", "suspended",
           "resetting", "revoked"}
EventKinds == {"created", "revoked", "revoked_cleanup_completed", "reset",
               "deleted"}
Enabled == {"provisioning", "active", "suspended"}

Row == [state: States, device: Devices \cup {None}, binding: Bindings \cup {None},
        tunnel: Tunnels \cup {None}, version: Versions \cup {None},
        cleanup: BOOLEAN, at: 0 .. MaxTime]

\* A row without a device, as INSERT and finishCleanup('reset') leave it.
BlankRow(s, t) == [state |-> s, device |-> None, binding |-> None,
                   tunnel |-> None, version |-> None, cleanup |-> FALSE,
                   at |-> t]
NoRow == BlankRow("absent", 0)

StoreInit ==
    /\ rows = [k \in Keys |-> NoRow]
    /\ events = {}
    /\ minted = [b \in Bindings |-> None]
    /\ now = 0

Exists(k) == rows[k].state # "absent"

-----------------------------------------------------------------------------
(* Issuing a key.  INSERT OR IGNORE ... WHERE NOT EXISTS a 'deleted' event *)

CanIssue(k) == ~Exists(k) /\ <<k, "deleted">> \notin events
Issue(k) ==
    /\ CanIssue(k)
    /\ rows' = [rows EXCEPT ![k] = BlankRow("issued", now)]
    /\ events' = events \cup {<<k, "created">>}
    /\ UNCHANGED <<minted, now>>

-----------------------------------------------------------------------------
(* Enrolling a device.                                                     *)

CanBind(k) == rows[k].state = "issued" /\ rows[k].binding = None
\* Mutant: the binding id is derived instead of drawn, so it can repeat.
BindReused(k, d, b) ==
    /\ CanBind(k)
    /\ rows' = [rows EXCEPT ![k] = [@ EXCEPT !.state = "provisioning",
                    !.device = d, !.binding = b, !.at = now]]
    /\ minted' = [minted EXCEPT ![b] = <<k, d>>]
    /\ UNCHANGED <<events, now>>
Bind(k, d, b) ==
    /\ CanBind(k)
    /\ minted[b] = None
    /\ rows' = [rows EXCEPT ![k] = [@ EXCEPT !.state = "provisioning",
                    !.device = d, !.binding = b, !.at = now]]
    /\ minted' = [minted EXCEPT ![b] = <<k, d>>]
    /\ UNCHANGED <<events, now>>

CanSaveTunnel(k, b, t) ==
    /\ rows[k].binding = b
    /\ rows[k].state \in Enabled
    /\ rows[k].tunnel \in {None, t}
SaveTunnel(k, b, t) ==
    /\ CanSaveTunnel(k, b, t)
    /\ rows' = [rows EXCEPT ![k] = [@ EXCEPT !.tunnel = t, !.at = now]]
    /\ UNCHANGED <<events, minted, now>>

\* A repair of a suspended device stays suspended.
\* Mutant: the activation does not look at the state.
CanActivateAnyState(k, b) == Exists(k) /\ rows[k].binding = b
CanActivate(k, b) == rows[k].binding = b /\ rows[k].state \in Enabled
\* Mutant: a repair turns a suspended device active.
ActivateAlways(k, b) ==
    /\ CanActivate(k, b)
    /\ rows' = [rows EXCEPT ![k] = [@ EXCEPT !.state = "active",
                    !.cleanup = FALSE, !.at = now]]
    /\ UNCHANGED <<events, minted, now>>
Activate(k, b) ==
    /\ CanActivate(k, b)
    /\ rows' = [rows EXCEPT ![k] = [@ EXCEPT
                    !.state = IF rows[k].state = "suspended" THEN "suspended" ELSE "active",
                    !.cleanup = FALSE, !.at = now]]
    /\ UNCHANGED <<events, minted, now>>

-----------------------------------------------------------------------------
(* Pausing and resuming remote access, and the version inventory.          *)

CanPause(k, b) == rows[k].binding = b /\ rows[k].state \in {"active", "suspended"}
SetAccess(k, b, s) ==
    /\ CanPause(k, b)
    /\ rows' = [rows EXCEPT ![k] = [@ EXCEPT !.state = s, !.at = now]]
    /\ UNCHANGED <<events, minted, now>>
Suspend(k, b) == SetAccess(k, b, "suspended")
Resume(k, b) == SetAccess(k, b, "active")

ReportVersion(k, b, v) ==
    /\ CanPause(k, b)
    /\ rows' = [rows EXCEPT ![k].version = v]
    /\ UNCHANGED <<events, minted, now>>

-----------------------------------------------------------------------------
(* Denying a key: revoke for good, reset for another device.  `expected`   *)
(* is the binding the change is authorised for, None when an administrator *)
(* asks.                                                                   *)

CanDisable(k, op, expected) ==
    /\ Exists(k)
    /\ op = "revoke" \/ rows[k].state # "revoked"
    /\ expected = None \/ rows[k].binding = expected
Disabled(k, op) ==
    [rows[k] EXCEPT !.state = IF op = "revoke" THEN "revoked" ELSE "resetting",
                    !.cleanup = TRUE, !.at = now]
Disable(k, op, expected) ==
    /\ CanDisable(k, op, expected)
    /\ rows' = [rows EXCEPT ![k] = Disabled(k, op)]
    /\ events' = events \cup {<<k, IF op = "revoke" THEN "revoked" ELSE "reset">>}
    /\ UNCHANGED <<minted, now>>

\* The scheduled scan claims exactly the stale snapshot it read.
\* Mutant: the stale snapshot is not compared with the row.
CanExpireUnclaimed(k, b, at) == rows[k].binding = b /\ rows[k].state \in Enabled
CanExpire(k, b, at) ==
    /\ rows[k].state = "provisioning"
    /\ rows[k].binding = b
    /\ rows[k].at = at
    /\ now - rows[k].at > Grace
ExpireProvisioning(k, b, at) ==
    /\ CanExpire(k, b, at)
    /\ rows' = [rows EXCEPT ![k] = Disabled(k, "reset")]
    /\ UNCHANGED <<events, minted, now>>

\* Mutants: the cleanup is finished whatever the state, or whatever the binding.
CanFinishResetAnyState(k, b) == Exists(k) /\ rows[k].binding = b
CanFinishResetAnyBinding(k, b) == rows[k].state = "resetting"
CanFinishReset(k, b) == rows[k].state = "resetting" /\ rows[k].binding = b
FinishReset(k, b) ==
    /\ CanFinishReset(k, b)
    /\ rows' = [rows EXCEPT ![k] = BlankRow("issued", now)]
    /\ UNCHANGED <<events, minted, now>>

CanFinishRevoke(k, b) ==
    rows[k].state = "revoked" /\ rows[k].binding = b /\ rows[k].cleanup
FinishRevoke(k, b) ==
    /\ CanFinishRevoke(k, b)
    /\ rows' = [rows EXCEPT ![k] = [@ EXCEPT !.cleanup = FALSE, !.at = now]]
    /\ events' = events \cup {<<k, "revoked_cleanup_completed">>}
    /\ UNCHANGED <<minted, now>>

-----------------------------------------------------------------------------
(* Deleting revoked keys, one or all of them.                              *)

CanDelete(k) == rows[k].state = "revoked" /\ ~rows[k].cleanup
Purge(K) ==
    /\ rows' = [k \in Keys |-> IF k \in K THEN NoRow ELSE rows[k]]
    /\ events' = events \cup {<<k, "deleted">> : k \in K}
    /\ UNCHANGED <<minted, now>>
DeleteRevoked(k) == CanDelete(k) /\ Purge({k})
DeleteAllRevoked == Purge({k \in Keys : CanDelete(k)})

-----------------------------------------------------------------------------
(* What the scheduled scan selects, oldest first; its limit of 10 rows is  *)
(* larger than any Keys checked here.                                      *)
CleanupCandidates ==
    {k \in Keys : \/ rows[k].cleanup
                  \/ rows[k].state = "provisioning" /\ now - rows[k].at > Grace}

\* Time passes; the clock is bounded by MaxTime.
Tick == now < MaxTime /\ now' = now + 1 /\ UNCHANGED <<rows, events, minted>>

StoreNext ==
    \/ \E k \in Keys :
        \/ Issue(k)
        \/ DeleteRevoked(k)
        \/ \E d \in Devices, b \in Bindings : Bind(k, d, b)
        \/ \E b \in Bindings, t \in Tunnels : SaveTunnel(k, b, t)
        \/ \E b \in Bindings : Activate(k, b)
        \/ \E b \in Bindings : Suspend(k, b)
        \/ \E b \in Bindings : Resume(k, b)
        \/ \E b \in Bindings, v \in Versions : ReportVersion(k, b, v)
        \/ \E op \in {"revoke", "reset"}, b \in Bindings \cup {None} : Disable(k, op, b)
        \/ \E b \in Bindings, at \in 0 .. MaxTime : ExpireProvisioning(k, b, at)
        \/ \E b \in Bindings \cup {None} : FinishReset(k, b)
        \/ \E b \in Bindings \cup {None} : FinishRevoke(k, b)
    \/ DeleteAllRevoked
    \/ Tick

StoreSpec == StoreInit /\ [][StoreNext]_storeVars

-----------------------------------------------------------------------------
(* Properties.                                                             *)

StoreTypeOK ==
    /\ rows \in [Keys -> Row]
    /\ events \in SUBSET (Keys \X EventKinds)
    /\ minted \in [Bindings -> (Keys \X Devices) \cup {None}]
    /\ now \in 0 .. MaxTime

\* The columns of a row agree with its state: a key that can be bound carries
\* nothing of an earlier device (finishCleanup clears every column of it), and
\* an enabled key has a binding and no cleanup outstanding, so that the
\* scheduled scan never selects a key in use.
Consistent(r) ==
    /\ r.state \in {"absent", "issued"} => r = BlankRow(r.state, r.at)
    /\ r.state \in Enabled => r.binding # None /\ r.device # None /\ ~r.cleanup
    /\ r.state = "resetting" => r.cleanup
    /\ r.binding = None <=> r.device = None
    /\ r.binding = None => r.tunnel = None /\ r.version = None
RowShape == \A k \in Keys : Consistent(rows[k])

\* One Access Key, one Device: a binding id sits only in the row, and next to
\* the device, it was written for, in every state until it is cleared; so no
\* two rows ever share a binding.
BindingOwner ==
    \A k \in Keys : rows[k].binding # None =>
        minted[rows[k].binding] = <<k, rows[k].device>>

\* The audit trail is never behind the table: every key was created on record,
\* a denied-for-good key has its 'revoked' entry, one whose cleanup is done has
\* the completion entry, and a deleted id has no row again.
AuditTrail ==
    \A k \in Keys :
        /\ Exists(k) => <<k, "created">> \in events
        /\ rows[k].state = "revoked" => <<k, "revoked">> \in events
        /\ CanDelete(k) => <<k, "revoked_cleanup_completed">> \in events
        /\ <<k, "deleted">> \in events =>
              ~Exists(k) /\ <<k, "revoked_cleanup_completed">> \in events

\* A row is one of the shapes a key can have, its binding is its own, and what
\* happened to it is on record.
StoreIsSound == RowShape /\ BindingOwner /\ AuditTrail

\* A revoked key never works again: no delayed activation, resume, expiry or
\* reset takes it out of `revoked`; only deletion does, and a deleted id stays
\* unused.
RevokedForGood ==
    [][\A k \in Keys :
        /\ rows[k].state = "revoked" => rows'[k].state \in {"revoked", "absent"}
        /\ <<k, "deleted">> \in events => rows'[k].state = "absent"]_storeVars

\* A binding ends only through cleanup: what a row says of its binding and its
\* device never changes while it has one, and it is dropped only by finishing
\* the cleanup of a disabled key.
BindingEndsInCleanup ==
    [][\A k \in Keys : rows[k].binding # None =>
        \/ rows'[k].binding = rows[k].binding /\ rows'[k].device = rows[k].device
        \/ /\ rows'[k].binding = None
           /\ rows[k].state \in {"resetting", "revoked"}]_storeVars

-----------------------------------------------------------------------------
(* The table implements the promise of KeyLifecycle.                       *)

PhaseOf == [issued |-> "free", provisioning |-> "owned", active |-> "owned",
            suspended |-> "owned", resetting |-> "denied", revoked |-> "dead"]
Phase(k) ==
    IF Exists(k) THEN PhaseOf[rows[k].state]
    ELSE IF <<k, "deleted">> \in events THEN "gone" ELSE "unused"
Owner(k) ==
    IF rows[k].binding = None THEN None ELSE <<rows[k].device, rows[k].binding>>

Lifecycle == INSTANCE KeyLifecycle WITH
    Nobody <- None,
    phase <- [k \in Keys |-> Phase(k)],
    owner <- [k \in Keys |-> Owner(k)],
    used <- {b \in Bindings : minted[b] # None}

\* One owner at a time, under a binding never used before; denied before it is
\* let go; dead for good: every statement of the store is a step of the
\* lifecycle or none at all.
ImplementsLifecycle == Lifecycle!LifecycleSpec
=============================================================================
