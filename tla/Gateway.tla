------------------------------ MODULE Gateway ------------------------------
(***************************************************************************)
(* The Gateway Worker (gateway/index.mjs, admin-service.mjs,               *)
(* cloudflare.mjs) over the key store and the Cloudflare account.          *)
(*                                                                         *)
(* A Worker invocation is a request handler or a turn of the scheduled     *)
(* scan.  It runs up to its next `await`, so each action below is one      *)
(* awaited call with the local computation around it, and everything else  *)
(* - other requests, devices, the other data centre's invocations - may    *)
(* happen between two of them while the handler keeps using the row it     *)
(* read.  The handler's own copy of the row is w[p].row.                   *)
(***************************************************************************)
EXTENDS KeyStore

CONSTANTS
    Requests,    \* concurrent request handlers
    Scans,       \* concurrent turns of the scheduled scan
    MaxFaults    \* bound on failed calls and killed invocations

ASSUME ProcessAssumption == Requests \cap Scans = {} /\ MaxFaults \in Nat

VARIABLES
    tun, dns,    \* the Cloudflare account
    w,           \* the invocations
    held,        \* binding ids each device has been told it owns
    faults       \* calls that failed or invocations that died so far

INSTANCE Cloudflare

cloudVars == <<tun, dns>>
gatewayVars == <<rows, events, minted, now, tun, dns, w, held, faults>>

Procs == Requests \cup Scans

\* The columns a handler uses of the row it read.
Seen(r) == [state |-> r.state, device |-> r.device, binding |-> r.binding,
            tunnel |-> r.tunnel, version |-> r.version, at |-> r.at]
Nothing == Seen(NoRow)

Ops == {"none", "enroll", "revoke", "reset", "suspend", "resume", "mcp"}
PCs == {"idle", "bind", "readback", "find", "post", "refind", "save", "put",
        "record", "token", "activate", "report", "disable", "rmFind", "rm410",
        "rmRotate", "rmDisconnect", "rmDelete", "rmList", "rmRecord", "finish",
        "claim", "suspend", "probe", "resume", "forward", "delivered"}

Idle == [pc |-> "idle", op |-> "none", key |-> None, dev |-> None,
         row |-> Nothing, tunnel |-> None, rotated |-> FALSE]

GatewayInit ==
    /\ StoreInit
    /\ CloudInit
    /\ w = [p \in Procs |-> Idle]
    /\ held = [d \in Devices |-> {}]
    /\ faults = 0

\* Invocation p goes on at `pc`, ends, or starts an operation on a key.
Goto(p, pc) == w' = [w EXCEPT ![p].pc = pc]
End(p) == w' = [w EXCEPT ![p] = Idle]
Start(p, op, k, d, r, pc) ==
    /\ w[p] = Idle
    /\ w' = [w EXCEPT ![p] = [Idle EXCEPT !.op = op, !.key = k, !.dev = d,
                                          !.row = Seen(r), !.pc = pc]]

\* remove(row) returns at once for a row that never had a binding.
\* Mutant: the cleanup is reported done without being started.
RemovalSkipped(r) == "finish"
RemovalOf(r) == IF r.binding = None THEN "finish" ELSE "rmFind"

-----------------------------------------------------------------------------
(* POST /v1/enroll                                                         *)

\* The device proves it is the one the row is bound to.
BoundTo(r, d) == r.state \in Enabled /\ r.device = d

Enroll(p, k, d) ==
    /\ rows[k].state = "issued" \/ BoundTo(rows[k], d)
    /\ Start(p, "enroll", k, d, rows[k],
             IF rows[k].state = "issued" THEN "bind" ELSE "find")
    /\ UNCHANGED <<storeVars, cloudVars, held, faults>>

EnrollBind(p) ==
    /\ w[p].pc = "bind"
    /\ IF CanBind(w[p].key)
         THEN \E b \in Bindings : Bind(w[p].key, w[p].dev, b)
         ELSE UNCHANGED storeVars
    /\ Goto(p, "readback")
    /\ UNCHANGED <<cloudVars, held, faults>>

EnrollReadBack(p) ==
    /\ w[p].pc = "readback"
    /\ IF BoundTo(rows[w[p].key], w[p].dev)
         THEN w' = [w EXCEPT ![p] = [@ EXCEPT !.pc = "find", !.row = Seen(rows[w[p].key])]]
         ELSE End(p)
    /\ UNCHANGED <<storeVars, cloudVars, held, faults>>

\* ensureTunnel looks the recorded tunnel up by id, otherwise by name.
Lookup(r) == IF r.tunnel # None THEN {t \in {r.tunnel} : Live(t)} ELSE LiveNamed(r.binding)

EnrollFind(p) ==
    /\ w[p].pc \in {"find", "refind"}
    /\ \/ \E t \in IF w[p].pc = "find" THEN Lookup(w[p].row) ELSE LiveNamed(w[p].row.binding) :
             w' = [w EXCEPT ![p] = [@ EXCEPT !.pc = "save", !.tunnel = t]]
       \/ w[p].pc = "find" /\ Lookup(w[p].row) = {} /\ Goto(p, "post")
       \/ w[p].pc = "refind" /\ LiveNamed(w[p].row.binding) = {} /\ End(p)
    /\ UNCHANGED <<storeVars, cloudVars, held, faults>>

EnrollPost(p) ==
    /\ w[p].pc = "post"
    /\ \/ \E t \in Tunnels :
             /\ CreateTunnel(w[p].row.binding, t)
             /\ w' = [w EXCEPT ![p] = [@ EXCEPT !.pc = "save", !.tunnel = t]]
       \/ /\ LiveNamed(w[p].row.binding) # {}
          /\ Goto(p, "refind")
          /\ UNCHANGED cloudVars
    /\ UNCHANGED <<storeVars, held, faults>>

\* A store write that matched nothing: undo the tunnel, answer 409.
Cancel(p) ==
    /\ w' = [w EXCEPT ![p] = [@ EXCEPT !.pc = "rmFind", !.row.tunnel = w[p].tunnel]]
    /\ UNCHANGED storeVars

EnrollSave(p) ==
    /\ w[p].pc = "save"
    /\ LET k == w[p].key  b == w[p].row.binding  t == w[p].tunnel IN
         IF CanSaveTunnel(k, b, t)
           THEN /\ SaveTunnel(k, b, t)
                /\ w' = [w EXCEPT ![p] = [@ EXCEPT !.pc = "put", !.row.tunnel = t]]
           ELSE Cancel(p)
    /\ UNCHANGED <<cloudVars, held, faults>>

EnrollPut(p) ==
    /\ w[p].pc = "put"
    /\ IF Live(w[p].tunnel)
         THEN PutIngress(w[p].tunnel, "serve") /\ Goto(p, "record")
         ELSE End(p) /\ UNCHANGED cloudVars
    /\ UNCHANGED <<storeVars, held, faults>>

EnrollRecord(p) ==
    /\ w[p].pc = "record"
    /\ IF dns[w[p].row.binding] \in {None, w[p].tunnel}
         THEN PutRecord(w[p].row.binding, w[p].tunnel) /\ Goto(p, "token")
         ELSE End(p) /\ UNCHANGED cloudVars
    /\ UNCHANGED <<storeVars, held, faults>>

EnrollToken(p) ==
    /\ w[p].pc = "token"
    /\ IF Live(w[p].tunnel)
         THEN w' = [w EXCEPT ![p] = [@ EXCEPT !.pc = "activate",
                                              !.rotated = tun[w[p].tunnel].rotated]]
         ELSE End(p)
    /\ UNCHANGED <<storeVars, cloudVars, held, faults>>

EnrollActivate(p) ==
    /\ w[p].pc = "activate"
    /\ IF CanActivate(w[p].key, w[p].row.binding)
         THEN Activate(w[p].key, w[p].row.binding) /\ Goto(p, "report")
         ELSE Cancel(p)
    /\ UNCHANGED <<cloudVars, held, faults>>

\* reportStartupVersion: v is the version in the request, None if it has none.
\* A report that fails is swallowed, unless the stored version is higher: then
\* access is suspended and the handler throws.
Reported(p, v) ==
    LET k == w[p].key  b == w[p].row.binding IN
    IF v # None /\ CanPause(k, b) THEN ReportVersion(k, b, v) ELSE UNCHANGED storeVars
DowngradeUnreported(p, v) ==
    /\ w[p].pc = "report"
    /\ faults < MaxFaults
    /\ w[p].row.version # None /\ v < w[p].row.version
    /\ IF CanPause(w[p].key, w[p].row.binding)
         THEN Suspend(w[p].key, w[p].row.binding)
         ELSE UNCHANGED storeVars
    /\ End(p)
    /\ faults' = faults + 1
    /\ UNCHANGED <<cloudVars, held>>

\* The answer hands the device its binding and the tunnel token.
EnrollAnswer(p) ==
    /\ w[p].pc = "report" /\ w[p].op = "enroll"
    /\ \E v \in Versions \cup {None} : Reported(p, v)
    /\ HandToken(w[p].tunnel, w[p].dev, w[p].rotated)
    /\ held' = [held EXCEPT ![w[p].dev] = @ \cup {w[p].row.binding}]
    /\ End(p)
    /\ UNCHANGED faults

-----------------------------------------------------------------------------
(* Cloudflare.remove(row), shared by revoke, reset, release, the scan and  *)
(* a cancelled enrolment.                                                  *)

RemoveFind(p) ==
    /\ w[p].pc = "rmFind"
    /\ \/ \E t \in Lookup(w[p].row) :
             w' = [w EXCEPT ![p] = [@ EXCEPT !.pc = "rm410", !.tunnel = t]]
       \/ /\ Lookup(w[p].row) = {}
          /\ w' = [w EXCEPT ![p] = [@ EXCEPT !.pc = "rmList", !.tunnel = w[p].row.tunnel]]
    /\ UNCHANGED <<storeVars, cloudVars, held, faults>>

Remove410(p) ==
    /\ w[p].pc = "rm410"
    /\ IF Live(w[p].tunnel)
         THEN PutIngress(w[p].tunnel, "gone") /\ Goto(p, "rmRotate")
         ELSE End(p) /\ UNCHANGED cloudVars
    /\ UNCHANGED <<storeVars, held, faults>>

RemoveRotate(p) ==
    /\ w[p].pc = "rmRotate"
    /\ IF Live(w[p].tunnel)
         THEN RotateSecret(w[p].tunnel) /\ Goto(p, "rmDisconnect")
         ELSE End(p) /\ UNCHANGED cloudVars
    /\ UNCHANGED <<storeVars, held, faults>>

RemoveDisconnect(p) ==
    /\ w[p].pc = "rmDisconnect"
    /\ DropConnections(w[p].tunnel)
    /\ Goto(p, "rmDelete")
    /\ UNCHANGED <<storeVars, held, faults>>

RemoveDelete(p) ==
    /\ w[p].pc = "rmDelete"
    /\ DeleteTunnel(w[p].tunnel)
    /\ Goto(p, "rmList")
    /\ UNCHANGED <<storeVars, held, faults>>

\* Only a record that points at this very tunnel is deleted.
AfterRemove(p) == IF w[p].op = "enroll" THEN End(p) ELSE Goto(p, "finish")
RemoveList(p) ==
    /\ w[p].pc = "rmList"
    /\ IF w[p].tunnel # None /\ dns[w[p].row.binding] = w[p].tunnel
         THEN Goto(p, "rmRecord")
         ELSE AfterRemove(p)
    /\ UNCHANGED <<storeVars, cloudVars, held, faults>>
RemoveRecord(p) ==
    /\ w[p].pc = "rmRecord"
    /\ DeleteRecord(w[p].row.binding, w[p].tunnel)
    /\ AfterRemove(p)
    /\ UNCHANGED <<storeVars, held, faults>>

Finish(p) ==
    /\ w[p].pc = "finish"
    /\ LET k == w[p].key  b == w[p].row.binding IN
         CASE w[p].op = "reset" /\ CanFinishReset(k, b) -> FinishReset(k, b)
           [] w[p].op = "revoke" /\ CanFinishRevoke(k, b) -> FinishRevoke(k, b)
           [] OTHER -> UNCHANGED storeVars
    /\ End(p)
    /\ UNCHANGED <<cloudVars, held, faults>>

-----------------------------------------------------------------------------
(* Administrators: issue, revoke, reset, delete.                           *)

IssueKey(k) == Issue(k) /\ UNCHANGED <<cloudVars, w, held, faults>>

\* changeLifecycle commits the denial before it starts the cleanup.
ChangeLifecycle(p, k, op) ==
    /\ Disable(k, op, None)
    /\ Start(p, op, k, None, Disabled(k, op), RemovalOf(rows[k]))
    /\ UNCHANGED <<cloudVars, held, faults>>

DeleteRevokedKey(k) == DeleteRevoked(k) /\ UNCHANGED <<cloudVars, w, held, faults>>
DeleteAllRevokedKeys ==
    /\ \E k \in Keys : CanDelete(k)
    /\ DeleteAllRevoked
    /\ UNCHANGED <<cloudVars, w, held, faults>>

-----------------------------------------------------------------------------
(* A device's own requests: release, suspend, resume, version report.      *)

Identified(k, d, allowed) ==
    /\ rows[k].state \in allowed
    /\ rows[k].binding \in held[d]
    /\ rows[k].device = d

ReleaseDevice(p, k, d) ==
    /\ Identified(k, d, {"active", "suspended", "resetting"})
    /\ Start(p, "reset", k, d, rows[k],
             IF rows[k].state = "resetting" THEN "rmFind" ELSE "disable")
    /\ UNCHANGED <<storeVars, cloudVars, held, faults>>
ReleaseDisable(p) ==
    /\ w[p].pc = "disable"
    /\ LET k == w[p].key  b == w[p].row.binding IN
         IF CanDisable(k, "reset", b)
           THEN /\ Disable(k, "reset", b)
                /\ w' = [w EXCEPT ![p] = [@ EXCEPT !.pc = "rmFind",
                                                   !.row = Seen(Disabled(k, "reset"))]]
           ELSE End(p) /\ UNCHANGED storeVars
    /\ UNCHANGED <<cloudVars, held, faults>>

SuspendDevice(p, k, d) ==
    /\ Identified(k, d, {"active", "suspended"})
    /\ Start(p, "suspend", k, d, rows[k], "suspend")
    /\ UNCHANGED <<storeVars, cloudVars, held, faults>>
ResumeDevice(p, k, d) ==
    /\ Identified(k, d, {"active", "suspended"})
    /\ Start(p, "resume", k, d, rows[k],
             IF rows[k].state = "suspended" THEN "probe" ELSE "report")
    /\ UNCHANGED <<storeVars, cloudVars, held, faults>>
\* Only a suspended device is probed, through its public hostname.
ResumeProbe(p) ==
    /\ w[p].pc = "probe"
    /\ IF w[p].row.tunnel # None /\ Reaches(w[p].row.binding, w[p].dev)
         THEN Goto(p, "report")
         ELSE End(p)
    /\ UNCHANGED <<storeVars, cloudVars, held, faults>>
ResumeReport(p) ==
    /\ w[p].pc = "report" /\ w[p].op = "resume"
    /\ \E v \in Versions \cup {None} : Reported(p, v)
    /\ Goto(p, "resume")
    /\ UNCHANGED <<cloudVars, held, faults>>
SetDeviceAccess(p) ==
    /\ w[p].pc \in {"suspend", "resume"}
    /\ LET k == w[p].key  b == w[p].row.binding IN
         IF CanPause(k, b)
           THEN IF w[p].pc = "resume" THEN Resume(k, b) ELSE Suspend(k, b)
           ELSE UNCHANGED storeVars
    /\ End(p)
    /\ UNCHANGED <<cloudVars, held, faults>>

ReportDeviceVersion(k, d, v) ==
    /\ Identified(k, d, {"active", "suspended"})
    /\ ReportVersion(k, rows[k].binding, v)
    /\ UNCHANGED <<cloudVars, w, held, faults>>

-----------------------------------------------------------------------------
(* The employee's MCP traffic.                                             *)

ProxyMcp(p, k) ==
    /\ rows[k].state = "active" /\ rows[k].tunnel # None
    /\ Start(p, "mcp", k, None, rows[k], "forward")
    /\ UNCHANGED <<storeVars, cloudVars, held, faults>>
\* Whichever Bridge the hostname leads to; its own checks are in Bridge.tla.
ProxyForward(p) ==
    /\ w[p].pc = "forward"
    /\ \/ \E d \in Devices :
             /\ Reaches(w[p].row.binding, d)
             /\ w' = [w EXCEPT ![p] = [@ EXCEPT !.pc = "delivered", !.dev = d]]
       \/ /\ \A d \in Devices : ~Reaches(w[p].row.binding, d)
          /\ End(p)
    /\ UNCHANGED <<storeVars, cloudVars, held, faults>>
ProxyRespond(p) ==
    /\ w[p].pc = "delivered"
    /\ End(p)
    /\ UNCHANGED <<storeVars, cloudVars, held, faults>>

-----------------------------------------------------------------------------
(* The scheduled scan: one candidate row per turn, from a snapshot that    *)
(* may be old by the time it is used.                                      *)

\* Mutant: only outstanding cleanups are selected, not stale enrolments.
ScanPendingOnly(p, k) ==
    /\ rows[k].cleanup
    /\ Start(p, IF rows[k].state = "revoked" THEN "revoke" ELSE "reset", k, None, rows[k],
             RemovalOf(rows[k]))
    /\ UNCHANGED <<storeVars, cloudVars, held, faults>>
Scan(p, k) ==
    /\ k \in CleanupCandidates
    /\ Start(p, IF rows[k].state = "revoked" THEN "revoke" ELSE "reset", k, None, rows[k],
             IF rows[k].state = "provisioning" THEN "claim" ELSE RemovalOf(rows[k]))
    /\ UNCHANGED <<storeVars, cloudVars, held, faults>>
\* Mutant: the row is disabled as the snapshot says, whatever it is by now.
ScanClaimUnchecked(p) ==
    /\ w[p].pc = "claim"
    /\ rows' = [rows EXCEPT ![w[p].key] = Disabled(w[p].key, "reset")]
    /\ Goto(p, "rmFind")
    /\ UNCHANGED <<events, minted, now, cloudVars, held, faults>>
ScanClaim(p) ==
    /\ w[p].pc = "claim"
    /\ LET k == w[p].key  r == w[p].row IN
         IF CanExpire(k, r.binding, r.at)
           THEN /\ ExpireProvisioning(k, r.binding, r.at)
                /\ w' = [w EXCEPT ![p] = [@ EXCEPT !.pc = "rmFind",
                                                   !.row = Seen(Disabled(k, "reset"))]]
           ELSE End(p) /\ UNCHANGED storeVars
    /\ UNCHANGED <<cloudVars, held, faults>>

-----------------------------------------------------------------------------
(* The environment.                                                        *)

\* A call of p fails or times out, or the invocation is killed.
Fail(p) ==
    /\ w[p] # Idle
    /\ faults < MaxFaults
    /\ faults' = faults + 1
    /\ End(p)
    /\ UNCHANGED <<storeVars, cloudVars, held>>

\* The answer of POST cfd_tunnel is lost after it took effect: the handler looks
\* the tunnel up by its name.
PostLost(p) ==
    /\ w[p].pc = "post"
    /\ faults < MaxFaults
    /\ faults' = faults + 1
    /\ \E t \in Tunnels : CreateTunnel(w[p].row.binding, t)
    /\ Goto(p, "refind")
    /\ UNCHANGED <<storeVars, held>>

Connector(d, t) ==
    /\ Connect(d, t) \/ Disconnect(d, t)
    /\ UNCHANGED <<storeVars, w, held, faults>>

\* The clock comes to show t.
Clock(t) == t = now + 1 /\ Tick /\ UNCHANGED <<cloudVars, w, held, faults>>

\* The awaited calls of an invocation that has begun.
HandlerStep(p) ==
    \/ EnrollBind(p) \/ EnrollReadBack(p) \/ EnrollFind(p) \/ EnrollPost(p)
    \/ EnrollSave(p) \/ EnrollPut(p) \/ EnrollRecord(p) \/ EnrollToken(p)
    \/ EnrollActivate(p) \/ EnrollAnswer(p)
    \/ RemoveFind(p) \/ Remove410(p) \/ RemoveRotate(p) \/ RemoveDisconnect(p)
    \/ RemoveDelete(p) \/ RemoveList(p) \/ RemoveRecord(p) \/ Finish(p)
    \/ ReleaseDisable(p) \/ ResumeProbe(p) \/ ResumeReport(p) \/ SetDeviceAccess(p)
    \/ ProxyForward(p) \/ ProxyRespond(p)
Continue(p) == HandlerStep(p) \/ ScanClaim(p)

GatewayNext ==
    \/ \E p \in Procs : HandlerStep(p) \/ PostLost(p) \/ Fail(p)
    \/ \E p \in Procs, v \in Versions : DowngradeUnreported(p, v)
    \/ \E k \in Keys : IssueKey(k) \/ DeleteRevokedKey(k)
    \/ \E p \in Requests, k \in Keys :
         \/ \E op \in {"revoke", "reset"} : ChangeLifecycle(p, k, op)
         \/ ProxyMcp(p, k)
         \/ \E d \in Devices : \/ Enroll(p, k, d)
                               \/ ReleaseDevice(p, k, d)
                               \/ SuspendDevice(p, k, d)
                               \/ ResumeDevice(p, k, d)
    \/ \E p \in Scans : ScanClaim(p) \/ \E k \in Keys : Scan(p, k)
    \/ \E k \in Keys, d \in Devices, v \in Versions : ReportDeviceVersion(k, d, v)
    \/ \E d \in Devices, t \in Tunnels : Connector(d, t)
    \/ DeleteAllRevokedKeys
    \/ \E t \in 1 .. MaxTime : Clock(t)

GatewaySpec == GatewayInit /\ [][GatewayNext]_gatewayVars

-----------------------------------------------------------------------------
(* Properties.                                                             *)

SeenRow == [state: States, device: Devices \cup {None}, binding: Bindings \cup {None},
          tunnel: Tunnels \cup {None}, version: Versions \cup {None}, at: 0 .. MaxTime]

GatewayTypeOK ==
    /\ StoreTypeOK
    /\ CloudTypeOK
    /\ w \in [Procs -> [pc: PCs, op: Ops, key: Keys \cup {None}, dev: Devices \cup {None},
                        row: SeenRow, tunnel: Tunnels \cup {None}, rotated: BOOLEAN]]
    /\ held \in [Devices -> SUBSET Bindings]
    /\ faults \in 0 .. MaxFaults

\* The denial is committed before the cleanup starts: no cleanup, cancelled
\* enrolment or stale scan ever deletes, or takes the ingress of, the tunnel of
\* a key that is still (or again) enabled.
EnabledTunnelLive ==
    \A k \in Keys : rows[k].state \in Enabled /\ rows[k].tunnel # None =>
        /\ Live(rows[k].tunnel)
        /\ tun[rows[k].tunnel].of = rows[k].binding
        /\ tun[rows[k].tunnel].ingress # "gone"

\* An active or suspended key is fully provisioned: its hostname leads to its
\* tunnel and the tunnel to the device's Bridge, whichever enrolment, repair or
\* cleanup ran in between.
ActiveIsProvisioned ==
    /\ GatewayTypeOK
    /\ \A k \in Keys : rows[k].state \in {"active", "suspended"} =>
          /\ rows[k].tunnel # None
          /\ dns[rows[k].binding] = rows[k].tunnel
          /\ tun[rows[k].tunnel].ingress = "serve"

\* "Rotate first: otherwise an old connector can reconnect between cleanup and
\* deletion": from the moment the connections were dropped until the tunnel is
\* deleted, no connector is attached, and none comes back.
QuietUntilDeleted ==
    \A p \in Procs : w[p].pc = "rmDelete" => tun[w[p].tunnel].conn = {}

\* The bindings whose connectivity a device may still have.
Bound(b) == \E k \in Keys : rows[k].binding = b

\* Cleanup reported complete is complete: a key returns to `issued`, and a
\* revocation is recorded as cleaned up, only when the tunnel the row names is
\* deleted, so that no old token can reconnect.
CompletedCleanup(k) ==
    \/ rows[k].state = "resetting" /\ rows'[k].state = "issued"
    \/ rows[k].state = "revoked" /\ rows[k].cleanup /\ rows'[k].state = "revoked" /\ ~rows'[k].cleanup
CleanupIsReal ==
    [][\A k \in Keys : CompletedCleanup(k) /\ rows[k].tunnel # None =>
            ~Live(rows[k].tunnel)]_gatewayVars

\* A request an employee sent arrives at the device the key was bound to when
\* the request was admitted, and it never arrives once the cleanup of that
\* binding is complete, however long the invocation was delayed in between.
DeliveredWhereAuthorised ==
    [][\A p \in Requests : w[p].pc = "forward" /\ w'[p].pc = "delivered" =>
        /\ w'[p].dev = w[p].row.device
        /\ Bound(w[p].row.binding)]_gatewayVars

\* A paused device stays paused: only a resume request of that very device
\* turns a suspended key active - never a repair, a late activation or a scan.
PauseIsKept ==
    [][\A k \in Keys : rows[k].state = "suspended" /\ rows'[k].state = "active" =>
        \E p \in Requests : w[p].op = "resume" /\ w[p].key = k /\ w[p].dev = rows[k].device]_gatewayVars

\* Without a failed call nothing is left behind: a live tunnel belongs to a row
\* that still names its binding, or an invocation that works on that binding is
\* still running.
NoOrphanTunnel ==
    faults = 0 =>
        \A t \in Tunnels : Live(t) /\ ~Bound(tun[t].of) =>
            \E p \in Procs : w[p].row.binding = tun[t].of

\* What is true of every tunnel of the account, whichever handlers overlap: the
\* four statements above.
TunnelsFollowRows ==
    EnabledTunnelLive /\ ActiveIsProvisioned /\ QuietUntilDeleted /\ NoOrphanTunnel

\* "A repair, rebind or activation that won the race must never be undone by a
\* delayed cleanup scan": a scan disables a row only if nothing was written to
\* it since the scan read it.
ScanSparesRepaired ==
    [][\A p \in Scans : w[p].pc = "claim" =>
        \A k \in Keys : rows[k].state \in Enabled /\ rows'[k].state = "resetting" /\ w'[p] # w[p] =>
            Seen(rows[k]) = w[p].row]_gatewayVars

-----------------------------------------------------------------------------
(* Progress.  Cloudflare runs an invocation until it ends or dies (a death *)
(* is Fail, at most MaxFaults of them), and calls the scheduled handler    *)
(* every five minutes.                                                     *)

GatewayFairness ==
    /\ \A p \in Procs : WF_gatewayVars(Continue(p))
    /\ \A p \in Scans, k \in Keys : WF_gatewayVars(Scan(p, k))

\* "Failures remain denied and retryable": once calls stop failing, every
\* outstanding cleanup completes, whichever handler left it behind.
CleanupCompletes == \A k \in Keys : []<>~rows[k].cleanup

\* An enrolment that was abandoned half-way does not hold its key for ever.
Stale(k) == rows[k].state = "provisioning" /\ now - rows[k].at > Grace
StaleEnrolmentEnds == \A k \in Keys : []<>~Stale(k)

\* Nothing the scheduled scan is there for is left undone for ever.
NothingLingers == CleanupCompletes /\ StaleEnrolmentEnds
=============================================================================
