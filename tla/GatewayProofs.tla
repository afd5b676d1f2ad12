--------------------------- MODULE GatewayProofs ----------------------------
(***************************************************************************)
(* The Gateway implements the key store: whatever its handlers, the scan   *)
(* and the devices do to the tables is a statement of the store with its   *)
(* guards, for any number of concurrent invocations, keys and devices and  *)
(* any faults.  So what KeyStoreProofs shows of the store holds of the     *)
(* Gateway, and with it what no handler may do from an old row: wake a     *)
(* paused device, or reset one that was repaired since.                    *)
(*                                                                         *)
(* A handler knows its row from an earlier moment.  Shape says what of     *)
(* that is still true; StoreKeepsShapes, that no statement of another      *)
(* handler takes it away.                                                  *)
(*                                                                         *)
(* The second part adds the Cloudflare account, for any number of bindings *)
(* and tunnels: an enabled key's tunnel lives and leads to its device, a   *)
(* removed one can not come back, and what is reported removed is removed. *)
(***************************************************************************)
EXTENDS Gateway, KeyStoreProofs

Handlers == [pc: PCs, op: Ops, key: Keys \cup {None}, dev: Devices \cup {None},
             row: SeenRow, tunnel: Tunnels \cup {None}, rotated: BOOLEAN]

\* The row of a claim is the one the scan read, unless it was written since.
Claim(x) ==
    /\ x.row.at < now
    /\ rows[x.key].state = "provisioning" /\ rows[x.key].binding = x.row.binding
          /\ rows[x.key].at = x.row.at => Seen(rows[x.key]) = x.row

FirstPCs == {"idle", "claim", "probe", "disable", "forward"}
EnrolPCs == {"bind", "readback", "find", "post", "refind", "save", "put", "record",
             "token", "activate"}
Shape(p, x) ==
    /\ x.pc # "idle" \/ x.op # "none" => x.key \in Keys
    /\ x.op \in {"enroll", "resume"} => x.dev \in Devices
    /\ x.pc \in EnrolPCs => x.op = "enroll"
    /\ x.pc = "report" => x.op \in {"enroll", "resume"}
    /\ x.pc \in {"probe", "resume"} => x.op = "resume"
    /\ x.pc \in {"disable", "claim"} => x.op = "reset"
    /\ x.pc = "forward" => x.op = "mcp"
    /\ x.pc \in {"save", "put", "record", "token"} => x.tunnel \in Tunnels
    /\ x.op = "enroll" /\ x.pc \notin {"bind", "readback"} => x.row.binding \in Bindings
    /\ x.op = "resume" =>
         p \in Requests /\ x.row.binding \in Bindings /\ minted[x.row.binding] = <<x.key, x.dev>>
    /\ x.pc = "claim" => Claim(x)

HandlersOK == w \in [Procs -> Handlers] /\ \A p \in Procs : Shape(p, w[p])
GatewayInv == StoreInv /\ GatewayTypeOK /\ HandlersOK

-----------------------------------------------------------------------------
(* What a statement of the store leaves of what handlers know.             *)

\* A statement keeps the ids that are minted, and stamps with the present what
\* it leaves in provisioning.
LEMMA Stamps ==
    ASSUME StoreInv, NEW k \in Keys, StoreStep(k)
    PROVE  /\ \E r \in Row : rows' = [rows EXCEPT ![k] = r]
           /\ rows'[k].state = "provisioning" => rows'[k].at = now
           /\ now' = now
<1>1. rows[k] \in Row /\ now \in 0 .. MaxTime /\ rows \in [Keys -> Row]
  BY DEF StoreInv, StoreTypeOK
<1>2. PICK r \in Row : Moves(k, r)
  BY StepMoves
<1>3. rows' = [rows EXCEPT ![k] = r] /\ now' = now
  BY <1>2 DEF Moves
<1>4. rows'[k].state = "provisioning" => rows'[k].at = now
  <2>1. CASE Issue(k) \/ \E b \in Bindings \cup {None} : FinishReset(k, b)
    BY <1>1, <2>1 DEF Issue, FinishReset, BlankRow
  <2>2. CASE \E d \in Devices, b \in Bindings : Bind(k, d, b)
    BY <1>1, <2>2 DEF Bind, Row
  <2>3. CASE \E b \in Bindings, t \in Tunnels : SaveTunnel(k, b, t)
    BY <1>1, <2>3 DEF SaveTunnel, Row
  <2>4. CASE \E b \in Bindings : Activate(k, b) \/ Suspend(k, b) \/ Resume(k, b)
    <3>1. ASSUME NEW b \in Bindings, Activate(k, b) PROVE rows'[k].at = now
      BY <1>1, <3>1 DEF Activate, Row
    <3>2. ASSUME NEW b \in Bindings, NEW s \in {"active", "suspended"}, SetAccess(k, b, s)
          PROVE  rows'[k].at = now
      BY <1>1, <3>2 DEF SetAccess, Row
    <3> QED BY <2>4, <3>1, <3>2 DEF Suspend, Resume
  <2>5. CASE \E b \in Bindings, v \in Versions : ReportVersion(k, b, v)
    BY <1>1, <2>5 DEF ReportVersion, CanPause, Row
  <2>6. CASE \/ \E op \in {"revoke", "reset"}, b \in Bindings \cup {None} : Disable(k, op, b)
             \/ \E b \in Bindings, at \in 0 .. MaxTime : ExpireProvisioning(k, b, at)
    <3>1. ASSUME NEW op, rows' = [rows EXCEPT ![k] = Disabled(k, op)] PROVE rows'[k].at = now
      BY <1>1, <3>1 DEF Disabled, Row
    <3> QED BY <2>6, <3>1 DEF Disable, ExpireProvisioning
  <2>7. CASE \E b \in Bindings \cup {None} : FinishRevoke(k, b)
    BY <1>1, <2>7 DEF FinishRevoke, CanFinishRevoke, Row
  <2> QED BY <2>1, <2>2, <2>3, <2>4, <2>5, <2>6, <2>7 DEF StoreStep
<1> QED BY <1>3, <1>4

LEMMA MintedKept ==
    ASSUME StoreInv, NEW b \in Bindings, minted[b] # None, [StoreNext]_storeVars
    PROVE  minted'[b] = minted[b]
<1>1. ASSUME NEW k \in Keys, NEW r \in Row, Moves(k, r) PROVE minted'[b] = minted[b]
  BY <1>1 DEF Moves, MovesBinding, StoreInv, StoreTypeOK
<1>2. CASE UNCHANGED storeVars
  BY <1>2 DEF storeVars
<1>3. ASSUME NEW K \in SUBSET {k \in Keys : CanDelete(k)}, Purge(K) PROVE minted'[b] = minted[b]
  BY <1>3 DEF Purge
<1>4. CASE Tick
  BY <1>4 DEF Tick
<1> QED BY <1>1, <1>2, <1>3, <1>4, StoreCases, StepMoves

LEMMA ClaimKept ==
    ASSUME StoreInv, NEW x \in Handlers, x.key \in Keys, Claim(x), [StoreNext]_storeVars
    PROVE  Claim(x)'
<1>0. /\ rows \in [Keys -> Row] /\ now \in 0 .. MaxTime /\ MaxTime \in Nat
      /\ x.row.at \in 0 .. MaxTime
  BY ClockAssumption DEF StoreInv, StoreTypeOK, Handlers, SeenRow
<1>1. ASSUME NEW k \in Keys, StoreStep(k) PROVE Claim(x)'
  <2>1. PICK r \in Row : rows' = [rows EXCEPT ![k] = r]
    BY <1>1, Stamps
  <2>2. (rows'[k].state = "provisioning" => rows'[k].at = now) /\ now' = now
    BY <1>1, Stamps
  <2>3. CASE k = x.key
    BY <1>0, <2>2, <2>3 DEF Claim
  <2>4. CASE k # x.key
    BY <1>0, <2>1, <2>2, <2>4 DEF Claim, Seen
  <2> QED BY <2>3, <2>4
<1>2. ASSUME NEW K \in SUBSET {k \in Keys : CanDelete(k)}, Purge(K) PROVE Claim(x)'
  BY <1>0, <1>2 DEF Purge, Claim, Seen, NoRow, BlankRow
<1>3. CASE Tick
  BY <1>0, <1>3 DEF Tick, Claim, Seen
<1>4. CASE UNCHANGED storeVars
  BY <1>4 DEF storeVars, Claim, Seen
<1> QED BY <1>1, <1>2, <1>3, <1>4, StoreCases

LEMMA StoreKeepsShapes ==
    ASSUME StoreInv, [StoreNext]_storeVars, NEW p \in Procs, NEW x \in Handlers, Shape(p, x)
    PROVE  Shape(p, x)'
<1>1. x.op = "resume" => minted'[x.row.binding] = <<x.key, x.dev>>
  <2> SUFFICES ASSUME x.op = "resume" PROVE minted'[x.row.binding] = <<x.key, x.dev>>
    OBVIOUS
  <2>1. x.row.binding \in Bindings /\ minted[x.row.binding] = <<x.key, x.dev>>
    BY DEF Shape
  <2>2. minted[x.row.binding] # None
    BY <2>1, NoneAssumption DEF Shape
  <2> QED BY <2>1, <2>2, MintedKept
<1>2. x.pc = "claim" => Claim(x)'
  BY ClaimKept DEF Shape
<1> QED BY <1>1, <1>2 DEF Shape

-----------------------------------------------------------------------------
(* The kinds of step.                                                      *)

\* The steps of the next-state relation: an invocation goes on, one begins, an
\* administrator or a device has a row written, or the world outside moves.
Begins(p, k) ==
    \/ p \in Requests /\ \E op \in {"revoke", "reset"} : ChangeLifecycle(p, k, op)
    \/ p \in Requests /\ ProxyMcp(p, k)
    \/ p \in Requests /\ \E d \in Devices : \/ Enroll(p, k, d) \/ ReleaseDevice(p, k, d)
                                           \/ SuspendDevice(p, k, d) \/ ResumeDevice(p, k, d)
    \/ Scan(p, k)
GoesOn(p) ==
    \/ HandlerStep(p) \/ PostLost(p) \/ Fail(p)
    \/ p \in Scans /\ ScanClaim(p)
    \/ \E v \in Versions : DowngradeUnreported(p, v)
Direct ==
    \/ \E k \in Keys : IssueKey(k) \/ DeleteRevokedKey(k)
    \/ \E k \in Keys, d \in Devices, v \in Versions : ReportDeviceVersion(k, d, v)
    \/ \E d \in Devices, t \in Tunnels : Connector(d, t)
    \/ DeleteAllRevokedKeys
    \/ \E t \in 1 .. MaxTime : Clock(t)

LEMMA GatewayCases ==
    ASSUME GatewayNext
    PROVE  \/ \E p \in Procs : GoesOn(p) \/ \E k \in Keys : Begins(p, k)
           \/ Direct
BY DEF GatewayNext, GoesOn, Begins, Direct, Procs

-----------------------------------------------------------------------------
(* What a step does to the handler that takes it.                          *)

Handled(p) == \E x \in Handlers : w' = [w EXCEPT ![p] = x] /\ Shape(p, x)

LEMMA SeenType == ASSUME NEW r \in Row PROVE Seen(r) \in SeenRow
BY DEF Seen, SeenRow, Row

LEMMA Ends == ASSUME NEW p \in Procs, End(p) PROVE Handled(p)
<1>1. Nothing \in SeenRow
  BY NoRowType, SeenType DEF Nothing
<1>2. Idle \in Handlers
  BY <1>1 DEF Idle, Handlers, PCs, Ops
<1>3. Shape(p, Idle)
  BY DEF Shape, Idle, EnrolPCs
<1> QED BY <1>2, <1>3 DEF End, Handled

\* A handler starts with the row as it is, or as it has just written it.
LEMMA Starts ==
    ASSUME NEW p \in Procs, NEW op \in Ops, NEW k \in Keys, NEW d \in Devices \cup {None}, NEW r \in Row,
           NEW pc \in PCs, Start(p, op, k, d, r, pc),
           op \in {"enroll", "resume"} => d \in Devices,
           pc \in EnrolPCs => op = "enroll",
           pc = "report" => op \in {"enroll", "resume"},
           pc \in {"probe", "resume"} => op = "resume",
           pc \in {"disable", "claim"} => op = "reset",
           pc = "forward" => op = "mcp",
           pc \notin {"save", "put", "record", "token"},
           op = "enroll" /\ pc \notin {"bind", "readback"} => r.binding \in Bindings,
           op = "resume" => p \in Requests /\ r.binding \in Bindings /\ minted[r.binding] = <<k, d>>,
           pc = "claim" => r = rows[k] /\ r.at < now
    PROVE  Handled(p)
<1> DEFINE x == [Idle EXCEPT !.op = op, !.key = k, !.dev = d, !.row = Seen(r), !.pc = pc]
<1>1. Seen(r) \in SeenRow
  BY SeenType
<1>2. x.pc = pc /\ x.op = op /\ x.key = k /\ x.dev = d /\ x.row = Seen(r)
  BY DEF Idle
<1>3. x \in Handlers
  BY <1>1 DEF Handlers, Idle
<1>4. Shape(p, x)
  BY <1>2 DEF Shape, Claim, Seen, Row
<1> QED BY <1>3, <1>4 DEF Start, Handled

\* It goes on, within its operation.
LEMMA GoesTo ==
    ASSUME HandlersOK, NEW p \in Procs, w[p].pc # "idle", NEW pc \in PCs \ FirstPCs, Goto(p, pc),
           pc \in EnrolPCs => w[p].op = "enroll",
           pc = "report" => w[p].op \in {"enroll", "resume"},
           pc = "resume" => w[p].op = "resume",
           pc \in {"save", "put", "record", "token"} => w[p].tunnel \in Tunnels,
           w[p].pc \in {"bind", "readback"} => pc \in {"bind", "readback"}
    PROVE  Handled(p)
<1> DEFINE x == [w[p] EXCEPT !.pc = pc]
<1>1. w[p] \in Handlers /\ Shape(p, w[p]) /\ w' = [w EXCEPT ![p] = x]
  BY DEF HandlersOK, Goto
<1>2. x \in Handlers /\ x.pc = pc /\ x.op = w[p].op /\ x.key = w[p].key /\ x.dev = w[p].dev
      /\ x.row = w[p].row /\ x.tunnel = w[p].tunnel
  BY <1>1 DEF Handlers
<1>3. Shape(p, x)
  BY <1>1, <1>2 DEF Shape, FirstPCs
<1> QED BY <1>1, <1>2, <1>3 DEF Handled

\* It goes on with what it has learnt: another tunnel, another copy of its row.
Carry(p, pc, r, t, b) ==
    w' = [w EXCEPT ![p] = [@ EXCEPT !.pc = pc, !.row = r, !.tunnel = t, !.rotated = b]]
LEMMA Learns ==
    ASSUME HandlersOK, NEW p \in Procs, w[p].pc # "idle", NEW pc \in PCs \ (FirstPCs \cup {"report", "resume"}),
           NEW r \in SeenRow, NEW t \in Tunnels \cup {None}, NEW b \in BOOLEAN,
           Carry(p, pc, r, t, b),
           pc \in EnrolPCs => w[p].op = "enroll",
           w[p].op = "resume" => r = w[p].row,
           w[p].op = "enroll" => r.binding \in Bindings,
           pc \in {"save", "put", "record", "token"} => t \in Tunnels
    PROVE  Handled(p)
<1> DEFINE x == [w[p] EXCEPT !.pc = pc, !.row = r, !.tunnel = t, !.rotated = b]
<1>1. w[p] \in Handlers /\ Shape(p, w[p]) /\ w' = [w EXCEPT ![p] = x]
  BY DEF HandlersOK, Carry
<1>2. x \in Handlers /\ x.pc = pc /\ x.op = w[p].op /\ x.key = w[p].key /\ x.dev = w[p].dev
      /\ x.row = r /\ x.tunnel = t
  BY <1>1 DEF Handlers
<1>3. Shape(p, x)
  BY <1>1, <1>2 DEF Shape, FirstPCs
<1> QED BY <1>1, <1>2, <1>3 DEF Handled

LEMMA EnrolHandled ==
    ASSUME GatewayInv, NEW p \in Procs,
           \/ EnrollBind(p) \/ EnrollReadBack(p) \/ EnrollFind(p) \/ EnrollPost(p) \/ EnrollSave(p)
           \/ EnrollPut(p) \/ EnrollRecord(p) \/ EnrollToken(p) \/ EnrollActivate(p) \/ EnrollAnswer(p)
           \/ PostLost(p)
    PROVE  Handled(p)
<1>1. HandlersOK /\ w[p] \in Handlers /\ Shape(p, w[p]) /\ w \in [Procs -> Handlers]
  BY DEF GatewayInv, HandlersOK
<1>0. /\ w[p].row \in SeenRow /\ w[p].tunnel \in Tunnels \cup {None} /\ w[p].rotated \in BOOLEAN
      /\ w[p].op = "enroll" /\ w[p].pc \notin {"bind", "readback"} => w[p].row.binding \in Bindings
  BY <1>1 DEF Handlers, Shape
<1>2. \A k \in Keys : rows[k] \in Row
  BY DEF GatewayInv, StoreInv, StoreTypeOK
<1>3. CASE EnrollBind(p)
  BY <1>1, <1>3, GoesTo DEF EnrollBind, Shape, EnrolPCs, FirstPCs, PCs
<1>4. CASE EnrollReadBack(p)
  <2>1. CASE End(p)
    BY <2>1, Ends
  <2>2. CASE w' = [w EXCEPT ![p] = [@ EXCEPT !.pc = "find", !.row = Seen(rows[w[p].key])]]
    <3>1. w[p].pc = "readback" /\ w[p].op = "enroll" /\ w[p].key \in Keys
      BY <1>1, <1>4 DEF EnrollReadBack, Shape, EnrolPCs
    <3>2. Seen(rows[w[p].key]) \in SeenRow /\ Seen(rows[w[p].key]).binding \in Bindings
      <4>1. BoundTo(rows[w[p].key], w[p].dev)
        BY <1>4, <2>2, <1>1, <3>1 DEF EnrollReadBack, End, Idle
      <4>2. rows[w[p].key].binding \in Bindings
        BY <1>2, <3>1, <4>1 DEF BoundTo, GatewayInv, StoreInv, RowShape, Consistent, Row
      <4> QED BY <1>2, <3>1, <4>2, SeenType DEF Seen
    <3>3. Carry(p, "find", Seen(rows[w[p].key]), w[p].tunnel, w[p].rotated)
      BY <1>1, <2>2 DEF Carry, Handlers
    <3> QED BY <1>0, <1>1, <3>1, <3>2, <3>3, Learns DEF PCs, EnrolPCs, FirstPCs
  <2> QED BY <1>4, <2>1, <2>2 DEF EnrollReadBack
<1>5. CASE EnrollFind(p)
  <2>1. CASE End(p)
    BY <2>1, Ends
  <2>2. CASE w[p].pc = "find" /\ Goto(p, "post")
    BY <1>1, <2>2, GoesTo DEF Shape, EnrolPCs, FirstPCs, PCs
  <2>3. ASSUME NEW t \in Tunnels, w' = [w EXCEPT ![p] = [@ EXCEPT !.pc = "save", !.tunnel = t]]
        PROVE  Handled(p)
    <3>1. Carry(p, "save", w[p].row, t, w[p].rotated)
      BY <1>1, <2>3 DEF Carry, Handlers
    <3>2. w[p].pc # "idle" /\ w[p].op = "enroll" /\ w[p].row.binding \in Bindings
      BY <1>1, <1>5 DEF EnrollFind, Shape, EnrolPCs
    <3> QED BY <1>0, <1>1, <3>1, <3>2, Learns DEF PCs, EnrolPCs, FirstPCs
  <2>4. ASSUME NEW t \in (IF w[p].pc = "find" THEN Lookup(w[p].row) ELSE LiveNamed(w[p].row.binding))
        PROVE  t \in Tunnels
    BY <1>1, <2>4 DEF Lookup, LiveNamed, Handlers, SeenRow
  <2> QED BY <1>5, <2>1, <2>2, <2>3, <2>4 DEF EnrollFind
<1>6. CASE EnrollPost(p) \/ PostLost(p)
  <2>0. w[p].pc = "post" /\ w[p].op = "enroll"
    BY <1>1, <1>6 DEF EnrollPost, PostLost, Shape, EnrolPCs
  <2>1. CASE Goto(p, "refind")
    BY <1>1, <2>0, <2>1, GoesTo DEF PCs, EnrolPCs, FirstPCs
  <2>2. ASSUME NEW t \in Tunnels, w' = [w EXCEPT ![p] = [@ EXCEPT !.pc = "save", !.tunnel = t]]
        PROVE  Handled(p)
    <3>1. Carry(p, "save", w[p].row, t, w[p].rotated)
      BY <1>1, <2>2 DEF Carry, Handlers
    <3> QED BY <1>0, <1>1, <2>0, <3>1, Learns DEF PCs, EnrolPCs, FirstPCs
  <2> QED BY <1>6, <2>1, <2>2 DEF EnrollPost, PostLost
<1>7. CASE EnrollSave(p) \/ EnrollActivate(p)
  <2>0. w[p].pc \in {"save", "activate"} /\ w[p].op = "enroll" /\ (w[p].pc = "save" => w[p].tunnel \in Tunnels)
    BY <1>1, <1>7 DEF EnrollSave, EnrollActivate, Shape, EnrolPCs
  <2>1. CASE Cancel(p)
    <3> DEFINE r == [w[p].row EXCEPT !.tunnel = w[p].tunnel]
    <3>1. r \in SeenRow /\ r.binding \in Bindings
      BY <1>0, <1>1, <2>0 DEF SeenRow
    <3>2. Carry(p, "rmFind", r, w[p].tunnel, w[p].rotated)
      BY <1>1, <2>1 DEF Carry, Cancel, Handlers
    <3> HIDE DEF r
    <3> QED BY <1>0, <1>1, <2>0, <3>1, <3>2, Learns DEF PCs, EnrolPCs, FirstPCs
  <2>2. CASE w' = [w EXCEPT ![p] = [@ EXCEPT !.pc = "put", !.row.tunnel = w[p].tunnel]] /\ w[p].pc = "save"
    <3> DEFINE r == [w[p].row EXCEPT !.tunnel = w[p].tunnel]
    <3>1. r \in SeenRow /\ r.binding \in Bindings
      BY <1>0, <1>1, <2>0 DEF SeenRow
    <3>2. Carry(p, "put", r, w[p].tunnel, w[p].rotated)
      BY <1>1, <2>2 DEF Carry, Handlers
    <3> HIDE DEF r
    <3> QED BY <1>0, <1>1, <2>0, <2>2, <3>1, <3>2, Learns DEF PCs, EnrolPCs, FirstPCs
  <2>3. CASE Goto(p, "report")
    BY <1>1, <2>0, <2>3, GoesTo DEF PCs, EnrolPCs, FirstPCs
  <2> QED BY <1>7, <2>1, <2>2, <2>3 DEF EnrollSave, EnrollActivate
<1>8. CASE EnrollPut(p) \/ EnrollRecord(p)
  <2>0. w[p].pc \in {"put", "record"} /\ w[p].op = "enroll" /\ w[p].tunnel \in Tunnels
    BY <1>1, <1>8 DEF EnrollPut, EnrollRecord, Shape, EnrolPCs
  <2>1. CASE End(p)
    BY <2>1, Ends
  <2>2. CASE Goto(p, "record") \/ Goto(p, "token")
    BY <1>1, <2>0, <2>2, GoesTo DEF PCs, EnrolPCs, FirstPCs
  <2> QED BY <1>8, <2>1, <2>2 DEF EnrollPut, EnrollRecord
<1>9. CASE EnrollToken(p)
  <2>0. w[p].pc = "token" /\ w[p].op = "enroll" /\ w[p].tunnel \in Tunnels
    BY <1>1, <1>9 DEF EnrollToken, Shape, EnrolPCs
  <2>1. CASE End(p)
    BY <2>1, Ends
  <2>2. CASE w' = [w EXCEPT ![p] = [@ EXCEPT !.pc = "activate", !.rotated = tun[w[p].tunnel].rotated]]
    <3>1. Carry(p, "activate", w[p].row, w[p].tunnel, tun[w[p].tunnel].rotated)
      BY <1>1, <2>2 DEF Carry, Handlers
    <3>2. tun[w[p].tunnel].rotated \in BOOLEAN
      BY <2>0 DEF GatewayInv, GatewayTypeOK, CloudTypeOK, Tunnel
    <3> QED BY <1>0, <1>1, <2>0, <3>1, <3>2, Learns DEF PCs, EnrolPCs, FirstPCs
  <2> QED BY <1>9, <2>1, <2>2 DEF EnrollToken
<1>10. CASE EnrollAnswer(p)
  BY <1>10, Ends DEF EnrollAnswer
<1> QED BY <1>3, <1>4, <1>5, <1>6, <1>7, <1>8, <1>9, <1>10

LEMMA OthersHandled ==
    ASSUME GatewayInv, NEW p \in Procs,
           \/ RemoveFind(p) \/ Remove410(p) \/ RemoveRotate(p) \/ RemoveDisconnect(p)
           \/ RemoveDelete(p) \/ RemoveList(p) \/ RemoveRecord(p) \/ Finish(p)
           \/ ReleaseDisable(p) \/ ResumeProbe(p) \/ ResumeReport(p) \/ SetDeviceAccess(p)
           \/ ProxyForward(p) \/ ProxyRespond(p) \/ ScanClaim(p) \/ Fail(p)
           \/ \E v \in Versions : DowngradeUnreported(p, v)
    PROVE  Handled(p)
<1>1. HandlersOK /\ w[p] \in Handlers /\ Shape(p, w[p]) /\ w \in [Procs -> Handlers]
  BY DEF GatewayInv, HandlersOK
<1>0. /\ w[p].row \in SeenRow /\ w[p].tunnel \in Tunnels \cup {None} /\ w[p].rotated \in BOOLEAN
      /\ w[p].op = "enroll" /\ w[p].pc \notin {"bind", "readback"} => w[p].row.binding \in Bindings
  BY <1>1 DEF Handlers, Shape
<1>2. \A k \in Keys : rows[k] \in Row
  BY DEF GatewayInv, StoreInv, StoreTypeOK
<1>3. CASE End(p)
  BY <1>3, Ends
<1>4. CASE RemoveFind(p)
  <2>1. PICK t \in Tunnels \cup {None}, pc \in {"rm410", "rmList"} :
          w' = [w EXCEPT ![p] = [@ EXCEPT !.pc = pc, !.tunnel = t]]
    <3>1. Lookup(w[p].row) \subseteq Tunnels /\ w[p].row.tunnel \in Tunnels \cup {None}
      BY <1>1 DEF Lookup, LiveNamed, Handlers, SeenRow
    <3> QED BY <1>4, <3>1 DEF RemoveFind
  <2>2. Carry(p, pc, w[p].row, t, w[p].rotated)
    BY <1>1, <2>1 DEF Carry, Handlers
  <2>3. pc \in PCs \ (FirstPCs \cup {"report", "resume"}) /\ pc \notin EnrolPCs
    BY <2>1 DEF PCs, EnrolPCs, FirstPCs
  <2>4. w[p].pc # "idle" /\ (w[p].op = "enroll" => w[p].row.binding \in Bindings)
    BY <1>0, <1>4 DEF RemoveFind
  <2> QED BY <1>0, <1>1, <2>2, <2>3, <2>4, Learns DEF EnrolPCs
<1>5. CASE /\ \E pc \in {"rmRotate", "rmDisconnect", "rmDelete", "rmList", "rmRecord", "finish"} : Goto(p, pc)
           /\ w[p].pc \notin {"idle", "bind", "readback"}
  BY <1>1, <1>5, GoesTo DEF PCs, EnrolPCs, FirstPCs
<1>6. ASSUME NEW k \in Keys, w[p].op = "reset", w[p].pc # "idle",
             w' = [w EXCEPT ![p] = [@ EXCEPT !.pc = "rmFind", !.row = Seen(Disabled(k, "reset"))]]
      PROVE  Handled(p)
  <2>1. Disabled(k, "reset") \in Row
    BY <1>2 DEF Disabled, Row, States, GatewayInv, StoreInv, StoreTypeOK
  <2>2. Carry(p, "rmFind", Seen(Disabled(k, "reset")), w[p].tunnel, w[p].rotated)
    BY <1>1, <1>6 DEF Carry, Handlers
  <2> QED BY <1>0, <1>1, <1>6, <2>1, <2>2, Learns, SeenType DEF PCs, EnrolPCs, FirstPCs
<1>7. CASE ReleaseDisable(p) \/ ScanClaim(p)
  <2>1. w[p].key \in Keys /\ w[p].op = "reset" /\ w[p].pc # "idle"
    BY <1>1, <1>7 DEF ReleaseDisable, ScanClaim, Shape
  <2> QED BY <1>3, <1>6, <1>7, <2>1 DEF ReleaseDisable, ScanClaim
<1>8. CASE ResumeProbe(p) \/ ResumeReport(p)
  <2>1. w[p].pc \in {"probe", "report"} /\ w[p].op = "resume"
    BY <1>1, <1>8 DEF ResumeProbe, ResumeReport, Shape
  <2>2. CASE Goto(p, "report") \/ Goto(p, "resume")
    BY <1>1, <2>1, <2>2, GoesTo DEF PCs, EnrolPCs, FirstPCs
  <2> QED BY <1>3, <1>8, <2>2 DEF ResumeProbe, ResumeReport
<1>9. CASE ProxyForward(p)
  <2>1. ASSUME NEW d \in Devices, w' = [w EXCEPT ![p] = [@ EXCEPT !.pc = "delivered", !.dev = d]]
        PROVE  Handled(p)
    <3> DEFINE x == [w[p] EXCEPT !.pc = "delivered", !.dev = d]
    <3>1. w[p].pc = "forward" /\ w[p].op = "mcp"
      BY <1>1, <1>9 DEF ProxyForward, Shape
    <3>2. x \in Handlers /\ x.pc = "delivered" /\ x.op = "mcp" /\ x.key = w[p].key
      BY <1>1, <3>1 DEF Handlers, PCs
    <3>3. Shape(p, x)
      BY <1>1, <3>1, <3>2 DEF Shape, EnrolPCs
    <3> QED BY <1>1, <2>1, <3>2, <3>3 DEF Handled
  <2> QED BY <1>3, <1>9, <2>1 DEF ProxyForward
<1>10. CASE /\ \/ Remove410(p) \/ RemoveRotate(p) \/ RemoveDisconnect(p) \/ RemoveDelete(p)
               \/ RemoveList(p) \/ RemoveRecord(p)
  BY <1>3, <1>5, <1>10 DEF Remove410, RemoveRotate, RemoveDisconnect, RemoveDelete, RemoveList, RemoveRecord, AfterRemove
<1>11. CASE \/ Finish(p) \/ SetDeviceAccess(p) \/ ProxyRespond(p) \/ Fail(p)
            \/ \E v \in Versions : DowngradeUnreported(p, v)
  BY <1>3, <1>11 DEF Finish, SetDeviceAccess, ProxyRespond, Fail, DowngradeUnreported
<1> QED BY <1>4, <1>7, <1>8, <1>9, <1>10, <1>11

\* A request, or a turn of the scan, that begins knows its row as it is.
LEMMA BeginsHandled ==
    ASSUME GatewayInv, NEW p \in Procs, NEW k \in Keys, Begins(p, k)
    PROVE  Handled(p)
<1>1. rows[k] \in Row /\ Consistent(rows[k]) /\ now \in 0 .. MaxTime
  BY KnownRow DEF GatewayInv
<1>2. ASSUME NEW op \in {"revoke", "reset"}, ChangeLifecycle(p, k, op) PROVE Handled(p)
  <2>1. Disabled(k, op) \in Row
    BY <1>1, <1>2 DEF Disabled, Row, States
  <2>2. RemovalOf(rows[k]) \in {"finish", "rmFind"}
    BY DEF RemovalOf
  <2> QED BY <1>2, <2>1, <2>2, Starts DEF ChangeLifecycle, Ops, PCs, EnrolPCs
<1>3. CASE ProxyMcp(p, k)
  BY <1>1, <1>3, Starts DEF ProxyMcp, Ops, PCs, EnrolPCs
<1>4. ASSUME NEW d \in Devices, Enroll(p, k, d) PROVE Handled(p)
  <2>1. CASE rows[k].state = "issued"
    BY <1>1, <1>4, <2>1, Starts DEF Enroll, Ops, PCs, EnrolPCs
  <2>2. CASE rows[k].state # "issued"
    <3>1. rows[k].binding \in Bindings
      BY <1>1, <1>4, <2>2 DEF Enroll, BoundTo, Consistent, Row
    <3> QED BY <1>1, <1>4, <2>2, <3>1, Starts DEF Enroll, Ops, PCs, EnrolPCs
  <2> QED BY <2>1, <2>2
<1>5. ASSUME NEW d \in Devices, ReleaseDevice(p, k, d) \/ SuspendDevice(p, k, d) PROVE Handled(p)
  BY <1>1, <1>5, Starts DEF ReleaseDevice, SuspendDevice, Ops, PCs, EnrolPCs
<1>6. ASSUME NEW d \in Devices, p \in Requests, ResumeDevice(p, k, d) PROVE Handled(p)
  <2>1. rows[k].binding \in Bindings /\ rows[k].device = d
    BY <1>1, <1>6 DEF ResumeDevice, Identified, Consistent, Enabled, Row
  <2>2. minted[rows[k].binding] = <<k, d>>
    BY <2>1, NoneAssumption DEF GatewayInv, StoreInv, BindingOwner
  <2> QED BY <1>1, <1>6, <2>1, <2>2, Starts DEF ResumeDevice, Ops, PCs, EnrolPCs
<1>7. CASE Scan(p, k)
  <2>1. rows[k].state = "provisioning" => rows[k].at < now
    BY <1>1, <1>7, ClockAssumption DEF Scan, CleanupCandidates, Consistent, Enabled, Row
  <2>2. RemovalOf(rows[k]) \in {"finish", "rmFind"}
    BY DEF RemovalOf
  <2>3. CASE rows[k].state = "provisioning"
    BY <1>1, <1>7, <2>1, <2>3, Starts DEF Scan, Ops, PCs, EnrolPCs
  <2>4. CASE rows[k].state # "provisioning"
    BY <1>1, <1>7, <2>2, <2>4, Starts DEF Scan, Ops, PCs, EnrolPCs
  <2> QED BY <2>3, <2>4
<1> QED BY <1>2, <1>3, <1>4, <1>5, <1>6, <1>7 DEF Begins

-----------------------------------------------------------------------------
(* What a step does to the table: a statement of the store, or nothing.    *)

\* Everything but a resume, for one key.
QuietStep(k) ==
    \/ Issue(k)
    \/ \E d \in Devices, b \in Bindings : Bind(k, d, b)
    \/ \E b \in Bindings, t \in Tunnels : SaveTunnel(k, b, t)
    \/ \E b \in Bindings : Activate(k, b)
    \/ \E b \in Bindings : Suspend(k, b)
    \/ \E b \in Bindings, v \in Versions : ReportVersion(k, b, v)
    \/ \E op \in {"revoke", "reset"}, b \in Bindings \cup {None} : Disable(k, op, b)
    \/ \E b \in Bindings, at \in 0 .. MaxTime : ExpireProvisioning(k, b, at)
    \/ \E b \in Bindings \cup {None} : FinishReset(k, b)
    \/ \E b \in Bindings \cup {None} : FinishRevoke(k, b)
Quiet ==
    \/ UNCHANGED storeVars
    \/ \E k \in Keys : QuietStep(k) \/ DeleteRevoked(k)
    \/ DeleteAllRevoked
    \/ Tick
\* The resume request of the very device the row is bound to.
Resumed(p) ==
    /\ w[p].op = "resume" /\ w[p].pc = "resume"
    /\ w[p].row.binding \in Bindings
    /\ Resume(w[p].key, w[p].row.binding)

LEMMA QuietIsStore == ASSUME Quiet PROVE [StoreNext]_storeVars
BY DEF Quiet, QuietStep, StoreNext

LEMMA ResumedIsStore ==
    ASSUME GatewayInv, NEW p \in Procs, Resumed(p) PROVE [StoreNext]_storeVars
<1>1. w[p].key \in Keys
  BY DEF GatewayInv, HandlersOK, Shape, Resumed
<1> QED BY <1>1 DEF Resumed, StoreNext

LEMMA HandlerWrites ==
    ASSUME GatewayInv, NEW p \in Procs,
           HandlerStep(p) \/ ScanClaim(p) \/ PostLost(p) \/ Fail(p)
             \/ \E v \in Versions : DowngradeUnreported(p, v)
    PROVE  Quiet \/ Resumed(p)
<1> DEFINE k == w[p].key  b == w[p].row.binding
<1>1. Shape(p, w[p]) /\ w[p] \in Handlers
  BY DEF GatewayInv, HandlersOK
<1>2. \A j \in Keys : rows[j] \in Row /\ Consistent(rows[j])
  BY DEF GatewayInv, StoreInv, StoreTypeOK, RowShape
<1>3. \A j \in Keys : rows[j].state \in {"provisioning", "active", "suspended"} => rows[j].binding \in Bindings
  BY <1>2 DEF Consistent, Enabled, Row
<1>4. w[p].pc # "idle" => k \in Keys
  BY <1>1 DEF Shape
<1>5. UNCHANGED storeVars => Quiet
  BY DEF Quiet
<1>6. CASE EnrollBind(p)
  <2>1. k \in Keys /\ w[p].dev \in Devices
    BY <1>1, <1>6 DEF EnrollBind, Shape, EnrolPCs
  <2> QED BY <1>5, <1>6, <2>1 DEF EnrollBind, Quiet, QuietStep
<1>7. CASE EnrollSave(p)
  <2>1. k \in Keys /\ w[p].tunnel \in Tunnels
    BY <1>1, <1>7 DEF EnrollSave, Shape
  <2>2. CASE SaveTunnel(k, b, w[p].tunnel)
    BY <1>3, <2>1, <2>2 DEF SaveTunnel, CanSaveTunnel, Enabled, Quiet, QuietStep
  <2> QED BY <1>5, <1>7, <2>2 DEF EnrollSave, Cancel
<1>8. CASE EnrollActivate(p)
  <2>1. k \in Keys
    BY <1>4, <1>8 DEF EnrollActivate
  <2>2. CASE Activate(k, b)
    BY <1>3, <2>1, <2>2 DEF Activate, CanActivate, Enabled, Quiet, QuietStep
  <2> QED BY <1>5, <1>8, <2>2 DEF EnrollActivate, Cancel
<1>9. ASSUME NEW v \in Versions \cup {None}, Reported(p, v), w[p].pc # "idle" PROVE Quiet
  <2>1. CASE v \in Versions /\ ReportVersion(k, b, v)
    BY <1>3, <1>4, <1>9, <2>1 DEF ReportVersion, CanPause, Quiet, QuietStep
  <2>2. (v \in Versions /\ ReportVersion(k, b, v)) \/ UNCHANGED storeVars
    BY <1>9 DEF Reported
  <2> QED BY <1>5, <2>1, <2>2
<1>10. CASE EnrollAnswer(p) \/ ResumeReport(p)
  BY <1>9, <1>10 DEF EnrollAnswer, ResumeReport
<1>11. ASSUME Suspend(k, b), w[p].pc # "idle" PROVE Quiet
  BY <1>3, <1>4, <1>11 DEF Suspend, SetAccess, CanPause, Quiet, QuietStep
<1>12. CASE \E v \in Versions : DowngradeUnreported(p, v)
  BY <1>5, <1>11, <1>12 DEF DowngradeUnreported
<1>13. CASE SetDeviceAccess(p)
  <2>1. CASE w[p].pc = "resume" /\ Resume(k, b)
    BY <1>1, <2>1 DEF Resumed, Shape
  <2> QED BY <1>5, <1>11, <1>13, <2>1 DEF SetDeviceAccess
<1>14. CASE Finish(p)
  <2>1. k \in Keys /\ b \in Bindings \cup {None}
    BY <1>1, <1>4, <1>14 DEF Finish, Handlers, SeenRow
  <2>2. CASE FinishReset(k, b) \/ FinishRevoke(k, b)
    BY <2>1, <2>2 DEF Quiet, QuietStep
  <2> QED BY <1>5, <1>14, <2>2 DEF Finish
<1>15. CASE ReleaseDisable(p)
  <2>1. k \in Keys /\ b \in Bindings \cup {None}
    BY <1>1, <1>4, <1>15 DEF ReleaseDisable, Handlers, SeenRow
  <2>2. CASE Disable(k, "reset", b)
    BY <2>1, <2>2 DEF Quiet, QuietStep
  <2> QED BY <1>5, <1>15, <2>2 DEF ReleaseDisable
<1>16. CASE ScanClaim(p)
  <2>1. k \in Keys /\ w[p].row.at \in 0 .. MaxTime
    BY <1>1, <1>4, <1>16 DEF ScanClaim, Handlers, SeenRow
  <2>2. CASE ExpireProvisioning(k, b, w[p].row.at)
    BY <1>3, <2>1, <2>2 DEF ExpireProvisioning, CanExpire, Quiet, QuietStep
  <2> QED BY <1>5, <1>16, <2>2 DEF ScanClaim
<1>17. CASE \/ EnrollReadBack(p) \/ EnrollFind(p) \/ EnrollPost(p) \/ EnrollPut(p) \/ EnrollRecord(p)
            \/ EnrollToken(p) \/ RemoveFind(p) \/ Remove410(p) \/ RemoveRotate(p)
            \/ RemoveDisconnect(p) \/ RemoveDelete(p) \/ RemoveList(p) \/ RemoveRecord(p)
            \/ ResumeProbe(p) \/ ProxyForward(p) \/ ProxyRespond(p) \/ PostLost(p) \/ Fail(p)
  BY <1>5, <1>17 DEF EnrollReadBack, EnrollFind, EnrollPost, EnrollPut, EnrollRecord, EnrollToken,
       RemoveFind, Remove410, RemoveRotate, RemoveDisconnect, RemoveDelete, RemoveList, RemoveRecord,
       ResumeProbe, ProxyForward, ProxyRespond, PostLost, Fail
<1> QED BY <1>6, <1>7, <1>8, <1>10, <1>12, <1>13, <1>14, <1>15, <1>16, <1>17 DEF HandlerStep

\* Every step is quiet, or the resume request of the row's own device.
LEMMA StepWrites ==
    ASSUME GatewayInv, [GatewayNext]_gatewayVars
    PROVE  Quiet \/ \E p \in Procs : GoesOn(p) /\ Resumed(p)
<1>1. UNCHANGED storeVars => Quiet
  BY DEF Quiet
<1>2. ASSUME NEW p \in Procs, GoesOn(p) PROVE Quiet \/ Resumed(p)
  BY <1>2, HandlerWrites DEF GoesOn
<1>3. ASSUME NEW p \in Procs, NEW k \in Keys, Begins(p, k) PROVE Quiet
  <2>1. ASSUME NEW op \in {"revoke", "reset"}, ChangeLifecycle(p, k, op) PROVE Quiet
    BY <2>1 DEF ChangeLifecycle, Quiet, QuietStep
  <2> QED BY <1>1, <1>3, <2>1 DEF Begins, ProxyMcp, Enroll, ReleaseDevice, SuspendDevice, ResumeDevice, Scan
<1>4. CASE Direct
  <2>1. ASSUME NEW k \in Keys, NEW d \in Devices, NEW v \in Versions, ReportDeviceVersion(k, d, v) PROVE Quiet
    <3>1. rows[k].binding \in Bindings
      BY <2>1, KnownRow DEF ReportDeviceVersion, Identified, Consistent, Enabled, Row, GatewayInv
    <3> QED BY <2>1, <3>1 DEF ReportDeviceVersion, Quiet, QuietStep
  <2>2. CASE \E k \in Keys : IssueKey(k) \/ DeleteRevokedKey(k)
    BY <2>2 DEF IssueKey, DeleteRevokedKey, Quiet, QuietStep
  <2>3. CASE DeleteAllRevokedKeys \/ \E t \in 1 .. MaxTime : Clock(t)
    BY <2>3 DEF DeleteAllRevokedKeys, Clock, Quiet
  <2> QED BY <1>1, <1>4, <2>1, <2>2, <2>3 DEF Direct, Connector
<1>5. CASE UNCHANGED gatewayVars
  BY <1>1, <1>5 DEF gatewayVars, storeVars
<1> QED BY <1>2, <1>3, <1>4, <1>5, GatewayCases

LEMMA StepIsStore ==
    ASSUME GatewayInv, [GatewayNext]_gatewayVars
    PROVE  [StoreNext]_storeVars
BY StepWrites, QuietIsStore, ResumedIsStore

\* Only a resume turns a suspended row active.
LEMMA QuietSleeps ==
    ASSUME StoreInv, Quiet, NEW j \in Keys, rows[j].state = "suspended"
    PROVE  rows'[j].state # "active"
<1>0. rows \in [Keys -> Row]
  BY DEF StoreInv, StoreTypeOK
<1>1. ASSUME NEW k \in Keys, QuietStep(k) PROVE rows'[j].state # "active"
  <2>1. CASE Issue(k) \/ \E b \in Bindings \cup {None} : FinishReset(k, b)
    BY <1>0, <2>1 DEF Issue, FinishReset, BlankRow
  <2>2. CASE \E d \in Devices, b \in Bindings : Bind(k, d, b)
    BY <1>0, <2>2 DEF Bind, Row
  <2>3. CASE \E b \in Bindings, t \in Tunnels : SaveTunnel(k, b, t)
    BY <1>0, <2>3 DEF SaveTunnel, Row
  <2>4. CASE \E b \in Bindings : Activate(k, b) \/ Suspend(k, b)
    <3>1. ASSUME NEW b \in Bindings, Activate(k, b) PROVE rows'[j].state # "active"
      BY <1>0, <3>1 DEF Activate, Row
    <3>2. ASSUME NEW b \in Bindings, Suspend(k, b) PROVE rows'[j].state # "active"
      BY <1>0, <3>2 DEF Suspend, SetAccess, Row
    <3> QED BY <2>4, <3>1, <3>2
  <2>5. CASE \E b \in Bindings, v \in Versions : ReportVersion(k, b, v)
    BY <1>0, <2>5 DEF ReportVersion, Row
  <2>6. CASE \/ \E op \in {"revoke", "reset"}, b \in Bindings \cup {None} : Disable(k, op, b)
             \/ \E b \in Bindings, at \in 0 .. MaxTime : ExpireProvisioning(k, b, at)
    <3>1. ASSUME NEW op, rows' = [rows EXCEPT ![k] = Disabled(k, op)] PROVE rows'[j].state # "active"
      BY <1>0, <3>1 DEF Disabled, Row
    <3> QED BY <2>6, <3>1 DEF Disable, ExpireProvisioning
  <2>7. CASE \E b \in Bindings \cup {None} : FinishRevoke(k, b)
    BY <1>0, <2>7 DEF FinishRevoke, Row
  <2> QED BY <1>1, <2>1, <2>2, <2>3, <2>4, <2>5, <2>6, <2>7 DEF QuietStep
<1>2. ASSUME NEW K, Purge(K) PROVE rows'[j].state # "active"
  BY <1>2 DEF Purge, NoRow, BlankRow
<1>3. CASE Tick \/ UNCHANGED storeVars
  BY <1>3 DEF Tick, storeVars
<1> QED BY <1>1, <1>2, <1>3 DEF Quiet, DeleteRevoked, DeleteAllRevoked

-----------------------------------------------------------------------------
(* The invariant.                                                          *)

\* What a step leaves of the Cloudflare account is an account.
LEMMA CloudKept ==
    ASSUME GatewayInv, [GatewayNext]_gatewayVars
    PROVE  CloudTypeOK'
<1>1. tun \in [Tunnels -> Tunnel] /\ dns \in [Bindings -> Tunnels \cup {None}]
  BY DEF GatewayInv, GatewayTypeOK, CloudTypeOK
<1>2. \A p \in Procs : w[p] \in Handlers /\ Shape(p, w[p])
  BY DEF GatewayInv, HandlersOK
<1>3. UNCHANGED cloudVars => CloudTypeOK'
  BY <1>1 DEF cloudVars, CloudTypeOK
<1>4. ASSUME NEW t, NEW r \in Tunnel, tun' = [tun EXCEPT ![t] = r], UNCHANGED dns
      PROVE  CloudTypeOK'
  BY <1>1, <1>4 DEF CloudTypeOK
<1>5. ASSUME NEW b, NEW t \in Tunnels \cup {None}, dns' = [dns EXCEPT ![b] = t], UNCHANGED tun
      PROVE  CloudTypeOK'
  BY <1>1, <1>5 DEF CloudTypeOK
<1>6. ASSUME NEW b \in Bindings \cup {None}, NEW t \in Tunnels, CreateTunnel(b, t) PROVE CloudTypeOK'
  <2>1. [UnusedTunnel EXCEPT !.of = b, !.live = TRUE] \in Tunnel
    BY DEF UnusedTunnel, Tunnel
  <2> QED BY <1>4, <1>6, <2>1 DEF CreateTunnel
<1>7. ASSUME NEW t \in Tunnels \cup {None}, NEW s \in {"serve", "gone"}, PutIngress(t, s)
      PROVE  CloudTypeOK'
  BY <1>1, <1>7 DEF PutIngress, CloudTypeOK, Tunnel
<1>8. ASSUME NEW t \in Tunnels \cup {None}, RotateSecret(t) \/ DropConnections(t) \/ DeleteTunnel(t)
      PROVE  CloudTypeOK'
  <2>1. CASE RotateSecret(t)
    BY <1>1, <2>1 DEF RotateSecret, CloudTypeOK, Tunnel
  <2>2. CASE DropConnections(t)
    BY <1>1, <2>2 DEF DropConnections, CloudTypeOK, Tunnel
  <2>3. CASE DeleteTunnel(t)
    BY <1>1, <2>3 DEF DeleteTunnel, CloudTypeOK, Tunnel
  <2> QED BY <1>8, <2>1, <2>2, <2>3
<1>9. ASSUME NEW b \in Bindings \cup {None}, NEW t \in Tunnels \cup {None}, PutRecord(b, t) \/ DeleteRecord(b, t)
      PROVE  CloudTypeOK'
  <2>1. CASE PutRecord(b, t)
    BY <1>5, <2>1 DEF PutRecord
  <2>2. CASE DeleteRecord(b, t)
    BY <1>1, <2>2 DEF DeleteRecord, CloudTypeOK
  <2> QED BY <1>9, <2>1, <2>2
<1>10. ASSUME NEW t, NEW d \in Devices, NEW r, HandToken(t, d, r) PROVE CloudTypeOK'
  <2> DEFINE S == IF Live(t) /\ tun[t].rotated = r THEN tun[t].tokens \cup {d} ELSE tun[t].tokens
  <2>1. tun' = [tun EXCEPT ![t] = [tun[t] EXCEPT !.tokens = S]] /\ UNCHANGED dns
    BY <1>10 DEF HandToken
  <2>2. CASE t \in Tunnels
    <3>1. tun[t] \in Tunnel /\ S \in SUBSET Devices
      BY <1>1, <2>2 DEF Tunnel
    <3> HIDE DEF S
    <3>2. [tun[t] EXCEPT !.tokens = S] \in Tunnel
      BY <3>1 DEF Tunnel
    <3> QED BY <1>4, <2>1, <3>2
  <2>3. CASE t \notin Tunnels
    BY <1>1, <2>1, <2>3 DEF CloudTypeOK
  <2> QED BY <2>2, <2>3
<1>11. ASSUME NEW d \in Devices, NEW t \in Tunnels, Connector(d, t) PROVE CloudTypeOK'
  BY <1>1, <1>11 DEF Connector, Connect, Disconnect, CloudTypeOK, Tunnel
<1>12. ASSUME NEW p \in Procs, GoesOn(p) PROVE CloudTypeOK'
  <2>1. w[p].tunnel \in Tunnels \cup {None} /\ w[p].row.binding \in Bindings \cup {None}
    BY <1>2 DEF Handlers, SeenRow
  <2>2. CASE EnrollPost(p) \/ PostLost(p)
    BY <1>3, <1>6, <2>1, <2>2 DEF EnrollPost, PostLost
  <2>3. CASE EnrollPut(p) \/ EnrollRecord(p) \/ Remove410(p) \/ RemoveRecord(p)
    BY <1>3, <1>7, <1>9, <2>1, <2>3 DEF EnrollPut, EnrollRecord, Remove410, RemoveRecord
  <2>4. CASE RemoveRotate(p) \/ RemoveDisconnect(p) \/ RemoveDelete(p)
    BY <1>3, <1>8, <2>1, <2>4 DEF RemoveRotate, RemoveDisconnect, RemoveDelete
  <2>5. CASE EnrollAnswer(p)
    <3>1. w[p].dev \in Devices
      BY <1>2, <2>5 DEF EnrollAnswer, Shape
    <3> QED BY <1>10, <2>5, <3>1 DEF EnrollAnswer
  <2>6. CASE \/ EnrollBind(p) \/ EnrollReadBack(p) \/ EnrollFind(p) \/ EnrollSave(p) \/ EnrollToken(p)
             \/ EnrollActivate(p) \/ RemoveFind(p) \/ RemoveList(p) \/ Finish(p) \/ ReleaseDisable(p)
             \/ ResumeProbe(p) \/ ResumeReport(p) \/ SetDeviceAccess(p) \/ ProxyForward(p)
             \/ ProxyRespond(p) \/ ScanClaim(p) \/ Fail(p)
             \/ \E v \in Versions : DowngradeUnreported(p, v)
    BY <1>3, <2>6 DEF EnrollBind, EnrollReadBack, EnrollFind, EnrollSave, EnrollToken, EnrollActivate,
         RemoveFind, RemoveList, Finish, ReleaseDisable, ResumeProbe, ResumeReport, SetDeviceAccess,
         ProxyForward, ProxyRespond, ScanClaim, Fail, DowngradeUnreported, cloudVars
  <2> QED BY <1>12, <2>2, <2>3, <2>4, <2>5, <2>6 DEF GoesOn, HandlerStep
<1>13. ASSUME NEW p \in Procs, NEW k \in Keys, Begins(p, k) PROVE CloudTypeOK'
  BY <1>3, <1>13 DEF Begins, ChangeLifecycle, ProxyMcp, Enroll, ReleaseDevice, SuspendDevice, ResumeDevice, Scan
<1>14. CASE Direct
  BY <1>3, <1>11, <1>14 DEF Direct, IssueKey, DeleteRevokedKey, ReportDeviceVersion, DeleteAllRevokedKeys, Clock
<1>15. CASE UNCHANGED gatewayVars
  BY <1>3, <1>15 DEF gatewayVars, cloudVars
<1> QED BY <1>12, <1>13, <1>14, <1>15, GatewayCases

\* Only the step of p itself changes what p knows.
Others(p) == \A q \in Procs : q # p => w'[q] = w[q]

LEMMA HandledKeeps ==
    ASSUME GatewayInv, [StoreNext]_storeVars, NEW p \in Procs, Handled(p)
    PROVE  HandlersOK' /\ Others(p)
<1>1. PICK x \in Handlers : w' = [w EXCEPT ![p] = x] /\ Shape(p, x)
  BY DEF Handled
<1>2. w \in [Procs -> Handlers] /\ \A q \in Procs : Shape(q, w[q])
  BY DEF GatewayInv, HandlersOK
<1>3. w' \in [Procs -> Handlers] /\ w'[p] = x /\ \A q \in Procs : q # p => w'[q] = w[q]
  BY <1>1, <1>2
<1>4. ASSUME NEW q \in Procs PROVE Shape(q, w[q])'
  <2>1. PICK y \in Handlers : y = w'[q] /\ Shape(q, y)
    <3>1. CASE q = p
      BY <1>1, <1>3, <3>1
    <3>2. CASE q # p
      BY <1>2, <1>3, <3>2
    <3> QED BY <3>1, <3>2
  <2>2. Shape(q, y)'
    BY <2>1, StoreKeepsShapes DEF GatewayInv
  <2> QED BY <2>1, <2>2 DEF Shape, Claim, Seen
<1> QED BY <1>3, <1>4 DEF HandlersOK, Handlers, SeenRow, Others

\* Who takes a step, and that only he is changed by it.
Moved == \/ \E p \in Procs : Handled(p) /\ (GoesOn(p) \/ \E k \in Keys : Begins(p, k))
         \/ UNCHANGED w

LEMMA StepMoved ==
    ASSUME GatewayInv, [GatewayNext]_gatewayVars
    PROVE  Moved
<1>1. ASSUME NEW p \in Procs, GoesOn(p) PROVE Handled(p)
  BY <1>1, EnrolHandled, OthersHandled DEF GoesOn, HandlerStep
<1>2. ASSUME NEW p \in Procs, NEW k \in Keys, Begins(p, k) PROVE Handled(p)
  BY <1>2, BeginsHandled
<1>3. CASE Direct
  BY <1>3 DEF Direct, IssueKey, DeleteRevokedKey, ReportDeviceVersion, Connector, DeleteAllRevokedKeys,
       Clock, Moved
<1>4. CASE UNCHANGED gatewayVars
  BY <1>4 DEF gatewayVars, Moved
<1> QED BY <1>1, <1>2, <1>3, <1>4, GatewayCases DEF Moved

\* What devices are told, and how often calls fail.
LEMMA RestKept ==
    ASSUME GatewayInv, [GatewayNext]_gatewayVars
    PROVE  held' \in [Devices -> SUBSET Bindings] /\ faults' \in 0 .. MaxFaults
<1>1. held \in [Devices -> SUBSET Bindings] /\ faults \in 0 .. MaxFaults /\ MaxFaults \in Nat
  BY ProcessAssumption DEF GatewayInv, GatewayTypeOK
<1>2. ASSUME UNCHANGED <<held, faults>>
      PROVE  held' \in [Devices -> SUBSET Bindings] /\ faults' \in 0 .. MaxFaults
  BY <1>1, <1>2
<1>3. ASSUME faults < MaxFaults, faults' = faults + 1, UNCHANGED held
      PROVE  held' \in [Devices -> SUBSET Bindings] /\ faults' \in 0 .. MaxFaults
  BY <1>1, <1>3
<1>4. ASSUME NEW p \in Procs, GoesOn(p)
      PROVE  held' \in [Devices -> SUBSET Bindings] /\ faults' \in 0 .. MaxFaults
  <2>1. CASE EnrollAnswer(p)
    <3>1. w[p].dev \in Devices /\ Shape(p, w[p])
      BY <2>1 DEF EnrollAnswer, GatewayInv, HandlersOK, Shape
    <3>2. w[p].row.binding \in Bindings
      BY <2>1, <3>1 DEF EnrollAnswer, Shape
    <3> QED BY <1>1, <2>1, <3>1, <3>2 DEF EnrollAnswer
  <2>2. CASE PostLost(p) \/ Fail(p) \/ \E v \in Versions : DowngradeUnreported(p, v)
    BY <1>3, <2>2 DEF PostLost, Fail, DowngradeUnreported
  <2> QED BY <1>2, <1>4, <2>1, <2>2 DEF GoesOn, HandlerStep,
         EnrollBind, EnrollReadBack, EnrollFind, EnrollPost, EnrollSave, EnrollPut, EnrollRecord, EnrollToken,
         EnrollActivate, RemoveFind, Remove410, RemoveRotate, RemoveDisconnect, RemoveDelete, RemoveList,
         RemoveRecord, Finish, ReleaseDisable, ResumeProbe, ResumeReport, SetDeviceAccess, ProxyForward,
         ProxyRespond, ScanClaim
<1>5. ASSUME NEW p \in Procs, NEW k \in Keys, Begins(p, k) PROVE UNCHANGED <<held, faults>>
  BY <1>5 DEF Begins, ChangeLifecycle, ProxyMcp, Enroll, ReleaseDevice, SuspendDevice, ResumeDevice, Scan
<1>6. CASE Direct
  BY <1>2, <1>6 DEF Direct, IssueKey, DeleteRevokedKey, ReportDeviceVersion, Connector, DeleteAllRevokedKeys, Clock
<1>7. CASE UNCHANGED gatewayVars
  BY <1>2, <1>7 DEF gatewayVars
<1> QED BY <1>2, <1>4, <1>5, <1>6, <1>7, GatewayCases

LEMMA GatewayInvInit == GatewayInit => GatewayInv
<1> SUFFICES ASSUME GatewayInit PROVE GatewayInv
  OBVIOUS
<1>1. StoreInv
  BY StoreInvInit DEF GatewayInit
<1>2. CloudTypeOK
  BY DEF GatewayInit, CloudInit, CloudTypeOK, UnusedTunnel, Tunnel
<1>3. Idle \in Handlers /\ \A p \in Procs : Shape(p, Idle)
  <2>1. Nothing \in SeenRow
    BY NoRowType, SeenType DEF Nothing
  <2> QED BY <2>1 DEF Idle, Handlers, PCs, Ops, Shape, EnrolPCs
<1>4. HandlersOK
  BY <1>3 DEF GatewayInit, HandlersOK
<1>5. held \in [Devices -> SUBSET Bindings] /\ faults \in 0 .. MaxFaults
  BY ProcessAssumption DEF GatewayInit
<1> QED BY <1>1, <1>2, <1>4, <1>5 DEF GatewayInv, GatewayTypeOK, StoreInv, HandlersOK, Handlers

LEMMA GatewayInvStep == GatewayInv /\ [GatewayNext]_gatewayVars => GatewayInv'
<1> SUFFICES ASSUME GatewayInv, [GatewayNext]_gatewayVars PROVE GatewayInv'
  OBVIOUS
<1>1. [StoreNext]_storeVars
  BY StepIsStore
<1>2. StoreInv'
  BY <1>1, StoreInvStep DEF GatewayInv
<1>3. HandlersOK'
  <2>1. ASSUME NEW p \in Procs, Handled(p) PROVE HandlersOK'
    BY <1>1, <2>1, HandledKeeps
  <2>2. CASE UNCHANGED w
    <3>1. ASSUME NEW p \in Procs PROVE Handled(p)
      <4>1. w[p] \in Handlers /\ Shape(p, w[p]) /\ w' = [w EXCEPT ![p] = w[p]]
        BY <2>2 DEF GatewayInv, HandlersOK
      <4> QED BY <4>1 DEF Handled
    <3>2. CASE Procs = {}
      BY <2>2, <3>2 DEF GatewayInv, HandlersOK, Handlers, SeenRow
    <3> QED BY <2>1, <3>1, <3>2
  <2> QED BY <2>1, <2>2, StepMoved DEF Moved
<1>4. CloudTypeOK'
  BY CloudKept
<1>5. held' \in [Devices -> SUBSET Bindings] /\ faults' \in 0 .. MaxFaults
  BY RestKept
<1> QED BY <1>2, <1>3, <1>4, <1>5 DEF GatewayInv, GatewayTypeOK, StoreInv, HandlersOK, Handlers

\* The inductive invariant: the store's own, types, and what a handler may
\* still believe of the row it read.
THEOREM GatewayInvariant == GatewaySpec => []GatewayInv
BY GatewayInvInit, GatewayInvStep, PTL DEF GatewaySpec

-----------------------------------------------------------------------------
(* The theorems.                                                           *)

\* Requests, scans, devices and faults do nothing to the table that a statement
\* of the store does not do: the guards that matter are in the statements.
THEOREM GatewayImplementsStore == GatewaySpec => StoreSpec
<1>1. GatewayInit => StoreInit
  BY DEF GatewayInit
<1>2. GatewayInv /\ [GatewayNext]_gatewayVars => [StoreNext]_storeVars
  BY StepIsStore
<1> QED BY <1>1, <1>2, GatewayInvariant, PTL DEF GatewaySpec, StoreSpec

\* So the table is sound whatever the handlers do.
THEOREM GatewayStoreIsSound == GatewaySpec => []StoreIsSound
BY GatewayImplementsStore, StoreIsSoundHolds, PTL

\* No repair, late activation or scan wakes a paused device: only a resume
\* request of that very device does.
THEOREM PauseIsKeptHolds == GatewaySpec => PauseIsKept
<1> DEFINE Kept == \A k \in Keys : rows[k].state = "suspended" /\ rows'[k].state = "active" =>
        \E p \in Requests : w[p].op = "resume" /\ w[p].key = k /\ w[p].dev = rows[k].device
<1>1. ASSUME GatewayInv, [GatewayNext]_gatewayVars PROVE Kept
  <2> SUFFICES ASSUME NEW k \in Keys, rows[k].state = "suspended", rows'[k].state = "active"
               PROVE  \E p \in Requests : w[p].op = "resume" /\ w[p].key = k /\ w[p].dev = rows[k].device
    OBVIOUS
  <2>1. ~Quiet
    BY <1>1, QuietSleeps DEF GatewayInv
  <2>2. PICK p \in Procs : Resumed(p)
    BY <1>1, <2>1, StepWrites
  <2>3. w[p].op = "resume" /\ Shape(p, w[p])
    BY <1>1, <2>2 DEF Resumed, GatewayInv, HandlersOK
  <2>4. w[p].key = k
    BY <1>1, <2>2 DEF Resumed, Resume, SetAccess, GatewayInv, StoreInv, StoreTypeOK
  <2>5. rows[k].binding = w[p].row.binding /\ rows[k].binding \in Bindings
    BY <2>2, <2>4 DEF Resumed, Resume, SetAccess, CanPause
  <2>6. minted[rows[k].binding] = <<k, rows[k].device>>
    BY <1>1, <2>5, NoneAssumption DEF GatewayInv, StoreInv, BindingOwner
  <2>7. p \in Requests /\ minted[w[p].row.binding] = <<k, w[p].dev>>
    BY <2>3, <2>4 DEF Shape
  <2> QED BY <2>3, <2>4, <2>5, <2>6, <2>7
<1>2. GatewayInv /\ [GatewayNext]_gatewayVars => [Kept]_gatewayVars
  BY <1>1
<1> QED BY <1>2, GatewayInvariant, PTL DEF GatewaySpec, PauseIsKept

\* A delayed scan never undoes a repair: what it disables was not written to
\* since it read it.
THEOREM ScanSparesRepairedHolds == GatewaySpec => ScanSparesRepaired
<1> DEFINE Spared == \A p \in Scans : w[p].pc = "claim" =>
        \A k \in Keys : rows[k].state \in Enabled /\ rows'[k].state = "resetting" /\ w'[p] # w[p] =>
            Seen(rows[k]) = w[p].row
<1>1. ASSUME GatewayInv, [GatewayNext]_gatewayVars PROVE Spared
  <2> SUFFICES ASSUME NEW p \in Scans, w[p].pc = "claim", NEW k \in Keys, rows[k].state \in Enabled,
                      rows'[k].state = "resetting", w'[p] # w[p]
               PROVE  Seen(rows[k]) = w[p].row
    OBVIOUS
  <2>1. p \in Procs /\ Claim(w[p]) /\ rows \in [Keys -> Row]
    BY <1>1 DEF Procs, GatewayInv, HandlersOK, Shape, StoreInv, StoreTypeOK
  <2>2. PICK q \in Procs : Handled(q) /\ (GoesOn(q) \/ \E j \in Keys : Begins(q, j))
    BY <1>1, StepMoved DEF Moved
  <2>3. q = p
    BY <1>1, <2>1, <2>2, StepIsStore, HandledKeeps DEF Others
  <2>4. ~(\E j \in Keys : Begins(p, j))
    <3>1. w[p] # Idle
      BY DEF Idle
    <3> QED BY <3>1 DEF Begins, ChangeLifecycle, ProxyMcp, Enroll, ReleaseDevice, SuspendDevice,
              ResumeDevice, Scan, Start
  <2>5. CASE ScanClaim(p)
    <3>1. CanExpire(w[p].key, w[p].row.binding, w[p].row.at) /\ k = w[p].key
      BY <2>1, <2>5 DEF ScanClaim, ExpireProvisioning, storeVars, Enabled
    <3> QED BY <2>1, <3>1 DEF Claim, CanExpire
  <2>6. CASE Fail(p)
    BY <2>6 DEF Fail, storeVars, Enabled
  <2>7. ~HandlerStep(p) /\ ~PostLost(p) /\ ~(\E v \in Versions : DowngradeUnreported(p, v))
    BY DEF HandlerStep, PostLost, DowngradeUnreported, EnrollBind, EnrollReadBack, EnrollFind, EnrollPost,
         EnrollSave, EnrollPut, EnrollRecord, EnrollToken, EnrollActivate, EnrollAnswer, RemoveFind, Remove410,
         RemoveRotate, RemoveDisconnect, RemoveDelete, RemoveList, RemoveRecord, Finish, ReleaseDisable,
         ResumeProbe, ResumeReport, SetDeviceAccess, ProxyForward, ProxyRespond
  <2> QED BY <2>2, <2>3, <2>4, <2>5, <2>6, <2>7 DEF GoesOn
<1>2. GatewayInv /\ [GatewayNext]_gatewayVars => [Spared]_gatewayVars
  BY <1>1
<1> QED BY <1>2, GatewayInvariant, PTL DEF GatewaySpec, ScanSparesRepaired

-----------------------------------------------------------------------------
(* A binding id, once minted, serves until its row is denied, and then     *)
(* never again.                                                            *)

Serving(b) == \E k \in Keys : rows[k].state \in Enabled /\ rows[k].binding = b
Minted(b) == b \in Bindings /\ minted[b] # None

\* The tunnels.
TunnelOK(t) ==
    /\ IF tun[t].of = None THEN tun[t] = UnusedTunnel ELSE Minted(tun[t].of)
    /\ tun[t].rotated => tun[t].tokens = {} /\ ~Serving(tun[t].of)
    /\ tun[t].ingress = "gone" => ~Serving(tun[t].of)
    /\ \A d \in tun[t].tokens \cup tun[t].conn : \E k \in Keys : minted[tun[t].of] = <<k, d>>
    /\ Live(t) /\ tun[t].ingress = "serve" => \E k \in Keys : rows[k].tunnel = t
RecordOK(b) == dns[b] # None => tun[dns[b]].of = b
OneTunnel == \A t, u \in Tunnels : Live(t) /\ Live(u) /\ tun[t].of = tun[u].of => t = u

\* The rows.
RowOK(k) ==
    /\ rows[k].tunnel # None => tun[rows[k].tunnel].of = rows[k].binding
    /\ rows[k].state \in Enabled /\ rows[k].tunnel # None => Live(rows[k].tunnel)
    /\ rows[k].state \in {"active", "suspended"} =>
         /\ rows[k].tunnel # None /\ dns[rows[k].binding] = rows[k].tunnel
         /\ tun[rows[k].tunnel].ingress = "serve"
    /\ rows[k].state = "revoked" /\ ~rows[k].cleanup /\ rows[k].tunnel # None => ~Live(rows[k].tunnel)

\* What an invocation knows of the tunnel it works on.
Provisions == {"put", "record", "token", "activate"}
Removes == {"rmFind", "rm410", "rmRotate", "rmDisconnect", "rmDelete", "rmList", "rmRecord"}
Enrolling(x) ==
    /\ x.pc \notin {"bind", "readback"} => minted[x.row.binding] = <<x.key, x.dev>>
    /\ x.pc \in Provisions \cup {"save", "report"} => x.tunnel \in Tunnels /\ tun[x.tunnel].of = x.row.binding
    /\ x.pc = "save" /\ Serving(x.row.binding) => Live(x.tunnel)
    /\ x.pc \in Provisions =>
         /\ rows[x.key].binding = x.row.binding => rows[x.key].tunnel = x.tunnel
         /\ Live(x.tunnel) => rows[x.key].binding = x.row.binding
    /\ x.pc \in Provisions \ {"put"} /\ Serving(x.row.binding) => tun[x.tunnel].ingress = "serve"
    /\ x.pc \in {"token", "activate"} /\ Serving(x.row.binding) => dns[x.row.binding] = x.tunnel
    /\ x.pc = "activate" /\ x.rotated => tun[x.tunnel].rotated
    /\ x.pc = "report" => ~x.rotated
Removing(x) ==
    /\ x.pc \in Removes \/ (x.pc = "finish" /\ x.row.binding # None) =>
         Minted(x.row.binding) /\ ~Serving(x.row.binding)
    /\ x.pc \in {"rm410", "rmRotate", "rmDisconnect", "rmDelete"} =>
         x.tunnel \in Tunnels /\ tun[x.tunnel].of = x.row.binding /\ x.row.tunnel \in {None, x.tunnel}
    /\ x.pc \in {"rmDisconnect", "rmDelete"} => tun[x.tunnel].rotated
    /\ x.pc = "rmDelete" => tun[x.tunnel].conn = {}
    /\ x.pc \in {"rmList", "rmRecord", "finish"} /\ x.row.tunnel # None => ~Live(x.row.tunnel)
    /\ x.op \in {"reset", "revoke"} /\ x.pc \in Removes \cup {"finish"} /\ rows[x.key].binding = x.row.binding =>
         rows[x.key].tunnel = x.row.tunnel
Knows(x) ==
    /\ x.row.tunnel # None => x.row.binding \in Bindings /\ tun[x.row.tunnel].of = x.row.binding
    /\ x.pc \in {"disable", "claim", "forward"} => x.row.binding \in Bindings
    /\ x.op = "enroll" => Enrolling(x)
    /\ Removing(x)
    /\ x.pc = "forward" => x.row.device \in Devices /\ minted[x.row.binding] = <<x.key, x.row.device>>

\* Without a fault somebody has charge of every live tunnel.
Charge(x, t) ==
    /\ x.row.binding = tun[t].of
    /\ \/ x.pc \in {"save", "rm410", "rmRotate", "rmDisconnect", "rmDelete"} /\ x.tunnel = t
       \/ x.pc = "rmFind" /\ x.row.tunnel = t
Accounted ==
    faults = 0 => \A t \in Tunnels : Live(t) =>
        (\E k \in Keys : rows[k].tunnel = t) \/ \E p \in Procs : Charge(w[p], t)

TunnelInv ==
    /\ GatewayInv
    /\ \A t \in Tunnels : TunnelOK(t)
    /\ OneTunnel
    /\ \A b \in Bindings : RecordOK(b)
    /\ \A k \in Keys : RowOK(k)
    /\ \A p \in Procs : Knows(w[p])
    /\ Accounted

LEMMA Nulls == None \notin Devices /\ None \notin Bindings /\ None \notin Tunnels /\ None \notin Keys \X Devices
BY NoneAssumption

\* A binding in a row was minted for this very row.
LEMMA RowMinted ==
    ASSUME StoreInv, NEW k \in Keys, rows[k].binding # None
    PROVE  /\ Minted(rows[k].binding) /\ minted[rows[k].binding] = <<k, rows[k].device>> /\ rows[k].device \in Devices
           /\ \A j \in Keys : rows[j].binding = rows[k].binding => j = k
<1>1. rows[k] \in Row /\ Consistent(rows[k]) /\ minted[rows[k].binding] = <<k, rows[k].device>>
  BY DEF StoreInv, StoreTypeOK, RowShape, BindingOwner
<1>2. rows[k].binding \in Bindings /\ rows[k].device \in Devices
  BY <1>1 DEF Row, Consistent
<1>3. minted[rows[k].binding] # None
  BY <1>1, <1>2, Nulls
<1>4. ASSUME NEW j \in Keys, rows[j].binding = rows[k].binding PROVE j = k
  BY <1>1, <1>4 DEF StoreInv, BindingOwner
<1> QED BY <1>1, <1>2, <1>3, <1>4 DEF Minted

LEMMA ServingIsMinted ==
    ASSUME StoreInv, NEW b, Serving(b)
    PROVE  Minted(b)
<1>1. PICK k \in Keys : rows[k].state \in Enabled /\ rows[k].binding = b
  BY DEF Serving
<1>2. rows[k].binding # None
  BY <1>1 DEF StoreInv, RowShape, Consistent
<1> QED BY <1>1, <1>2, RowMinted

-----------------------------------------------------------------------------
(* What a step may do to the tables ...                                    *)

Provisioned(k) ==
    /\ rows[k].tunnel # None /\ dns[rows[k].binding] = rows[k].tunnel
    /\ tun[rows[k].tunnel].ingress = "serve"
\* A tunnel is saved in a row that serves and had none.
Saved(k) ==
    /\ rows[k].state \in Enabled /\ rows[k].tunnel = None
    /\ rows'[k].tunnel \in Tunnels
    /\ Live(rows'[k].tunnel) /\ tun[rows'[k].tunnel].of = rows[k].binding
RowStep(k) ==
    /\ rows'[k].binding # None =>
         \/ rows'[k].binding = rows[k].binding /\ (rows'[k].tunnel = rows[k].tunnel \/ Saved(k))
         \/ minted[rows'[k].binding] = None /\ rows'[k].tunnel = None
    /\ rows'[k].state \in Enabled =>
         rows[k].state \in Enabled \/ minted[rows'[k].binding] = None
    /\ rows'[k].state \in {"active", "suspended"} =>
         Provisioned(k) /\ rows'[k].binding = rows[k].binding /\ rows'[k].tunnel = rows[k].tunnel
    /\ rows[k].tunnel # None /\ Live(rows[k].tunnel) =>
         rows'[k].binding = rows[k].binding /\ rows'[k].tunnel = rows[k].tunnel
    /\ rows'[k].state = "revoked" /\ ~rows'[k].cleanup /\ rows'[k].tunnel # None => ~Live(rows'[k].tunnel)
TablesStep ==
    /\ StoreInv' /\ \A b \in Bindings : minted[b] # None => minted'[b] = minted[b]
    /\ \A k \in Keys : RowStep(k)

(* ... and to the account: it takes nothing away from a binding that       *)
(* serves, and gives nothing back to one that has ended.                   *)
CloudStep ==
    /\ \A t \in Tunnels :
         /\ tun[t].of # None =>
              /\ tun'[t].of = tun[t].of /\ (Live(t)' => Live(t))
              /\ tun[t].rotated => tun'[t].rotated /\ tun'[t].conn \subseteq tun[t].conn
         /\ Live(t) /\ ~Live(t)' => ~Serving(tun[t].of)
         /\ tun[t].ingress = "serve" => tun'[t].ingress = "serve" \/ ~Serving(tun[t].of)
    /\ \A b \in Bindings : dns[b] # None => dns'[b] = dns[b] \/ ~Serving(b)

-----------------------------------------------------------------------------
(* What such a step leaves.                                                *)

LEMMA MintedStays ==
    ASSUME TablesStep, NEW b, Minted(b)
    PROVE  Minted(b)' /\ minted'[b] = minted[b]
BY DEF TablesStep, Minted

\* A binding that was minted does not begin to serve.
LEMMA ServingEnds ==
    ASSUME StoreInv, TablesStep, NEW b, Minted(b) \/ b = None, Serving(b)'
    PROVE  Serving(b)
<1>1. PICK k \in Keys : rows'[k].state \in Enabled /\ rows'[k].binding = b
  BY DEF Serving
<1>2. rows'[k].binding # None
  BY <1>1 DEF TablesStep, StoreInv, RowShape, Consistent
<1>3. minted[rows'[k].binding] # None
  BY <1>1, <1>2 DEF Minted
<1> QED BY <1>1, <1>2, <1>3 DEF TablesStep, RowStep, Serving

\* Nor does the row of a binding get another tunnel, once it has one or has ended.
LEMMA RowStays ==
    ASSUME StoreInv, TablesStep, NEW k \in Keys, NEW b, Minted(b), rows'[k].binding = b
    PROVE  /\ rows[k].binding = b
           /\ rows[k].tunnel # None \/ ~Serving(b) => rows'[k].tunnel = rows[k].tunnel
<1>1. b # None /\ minted[b] # None
  BY Nulls DEF Minted
<1> QED BY <1>1 DEF TablesStep, RowStep, Saved, Serving

LEMMA KnowsKept ==
    ASSUME TunnelInv, TablesStep, CloudStep, NEW p \in Procs, NEW x \in Handlers, Shape(p, x), Knows(x)
    PROVE  Knows(x)'
<1> DEFINE b == x.row.binding
<1>0. StoreInv /\ StoreInv' /\ x.row.tunnel \in Tunnels \cup {None} /\ b \in Bindings \cup {None} /\ None \notin Bindings
  BY Nulls DEF TunnelInv, GatewayInv, TablesStep, Handlers, SeenRow
<1>1. \A t \in Tunnels : tun[t].of = b /\ b # None =>
         /\ tun'[t].of = b /\ (Live(t)' => Live(t)) /\ (tun[t].rotated => tun'[t].rotated /\ tun'[t].conn \subseteq tun[t].conn)
         /\ Live(t) /\ ~Live(t)' => ~Serving(b)
         /\ tun[t].ingress = "serve" => tun'[t].ingress = "serve" \/ ~Serving(b)
  BY DEF CloudStep
<1>2. x.row.tunnel # None => b \in Bindings /\ tun[x.row.tunnel].of = b
  BY DEF Knows
<1>3. x.row.tunnel # None => b \in Bindings /\ tun'[x.row.tunnel].of = b
  BY <1>0, <1>1, <1>2
<1>4. x.op = "enroll" => Enrolling(x)'
  <2> SUFFICES ASSUME x.op = "enroll" PROVE Enrolling(x)'
    OBVIOUS
  <2>1. CASE x.pc \in {"bind", "readback"}
    BY <2>1 DEF Enrolling, Provisions
  <2>2. CASE x.pc \notin {"bind", "readback"}
    <3>0. Enrolling(x) /\ b \in Bindings /\ minted[b] = <<x.key, x.dev>> /\ x.dev \in Devices
      BY <2>2 DEF Knows, Shape, Enrolling
    <3>k. x.pc \in Provisions => x.key \in Keys
      BY DEF Shape, Provisions
    <3>1. Minted(b) /\ minted'[b] = minted[b] /\ (Serving(b)' => Serving(b)) /\ b # None
      <4>1. x.pc # "idle" \/ x.op # "none"
        OBVIOUS
      <4>2. x.key \in Keys
        BY <4>1 DEF Shape
      <4>3. minted[b] # None
        BY <3>0, <4>2, Nulls
      <4> QED BY <1>0, <3>0, <4>3, MintedStays, ServingEnds DEF Minted
    <3>2. ASSUME x.pc \in Provisions \cup {"save", "report"} PROVE x.tunnel \in Tunnels /\ tun[x.tunnel].of = b
      BY <3>0, <3>2 DEF Enrolling
    <3>3. ASSUME x.pc = "save", Serving(b)' PROVE Live(x.tunnel)'
      BY <1>1, <3>0, <3>1, <3>2, <3>3 DEF Enrolling
    <3>4. ASSUME x.pc \in Provisions, rows'[x.key].binding = b PROVE rows'[x.key].tunnel = x.tunnel
      <4>1. rows[x.key].binding = b
        BY <1>0, <3>1, <3>4, <3>k, RowStays
      <4>2. rows[x.key].tunnel = x.tunnel /\ x.tunnel # None
        BY <3>0, <3>2, <3>4, <4>1, Nulls DEF Enrolling
      <4> QED BY <1>0, <3>1, <3>4, <3>k, <4>2, RowStays
    <3>5. ASSUME x.pc \in Provisions, Live(x.tunnel)' PROVE rows'[x.key].binding = b
      <4>1. Live(x.tunnel)
        BY <1>1, <3>1, <3>2, <3>5
      <4>2. rows[x.key].binding = b /\ rows[x.key].tunnel = x.tunnel /\ x.tunnel # None
        BY <3>0, <3>2, <3>5, <4>1, Nulls DEF Enrolling
      <4> QED BY <3>5, <3>k, <4>1, <4>2 DEF TablesStep, RowStep
    <3>6. ASSUME x.pc \in Provisions \ {"put"}, Serving(b)' PROVE tun'[x.tunnel].ingress = "serve"
      BY <1>1, <3>0, <3>1, <3>2, <3>6 DEF Enrolling
    <3>7. ASSUME x.pc \in {"token", "activate"}, Serving(b)' PROVE dns'[b] = x.tunnel
      <4>1. dns[b] = x.tunnel /\ x.tunnel # None
        BY <3>0, <3>1, <3>2, <3>7, Nulls DEF Enrolling, Provisions
      <4> QED BY <3>0, <3>1, <3>7, <4>1 DEF CloudStep
    <3>8. ASSUME x.pc = "activate", x.rotated PROVE tun'[x.tunnel].rotated
      BY <1>1, <3>0, <3>1, <3>2, <3>8 DEF Enrolling, Provisions
    <3>9. x.pc = "report" => ~x.rotated
      BY <3>0 DEF Enrolling
    <3>10. ASSUME x.pc \in Provisions \cup {"save", "report"} PROVE tun'[x.tunnel].of = b
      BY <1>1, <3>1, <3>2, <3>10
    <3>11. minted'[b] = <<x.key, x.dev>>
      BY <3>0, <3>1
    <3> QED BY <3>2, <3>3, <3>4, <3>5, <3>6, <3>7, <3>8, <3>9, <3>10, <3>11 DEF Enrolling
  <2> QED BY <2>1, <2>2
<1>5. Removing(x)'
  <2>0. Removing(x)
    BY DEF Knows
  <2>1. ASSUME x.pc \in Removes \/ (x.pc = "finish" /\ b # None) PROVE Minted(b) /\ ~Serving(b) /\ Minted(b)' /\ ~Serving(b)'
    BY <1>0, <2>0, <2>1, MintedStays, ServingEnds DEF Removing
  <2>2. ASSUME x.pc \in {"rm410", "rmRotate", "rmDisconnect", "rmDelete"}
        PROVE  /\ x.tunnel \in Tunnels /\ tun[x.tunnel].of = b /\ x.row.tunnel \in {None, x.tunnel} /\ b # None
               /\ tun'[x.tunnel].of = b
    <3>1. x.tunnel \in Tunnels /\ tun[x.tunnel].of = b /\ x.row.tunnel \in {None, x.tunnel}
      BY <2>0, <2>2 DEF Removing
    <3>2. b # None
      BY <2>1, <2>2, Nulls DEF Removes, Minted
    <3> QED BY <1>1, <3>1, <3>2
  <2>3. ASSUME x.pc \in {"rmDisconnect", "rmDelete"} PROVE tun'[x.tunnel].rotated /\ tun[x.tunnel].rotated
    BY <1>1, <2>0, <2>2, <2>3 DEF Removing
  <2>4. ASSUME x.pc = "rmDelete" PROVE tun'[x.tunnel].conn = {}
    <3>1. tun'[x.tunnel].conn \subseteq tun[x.tunnel].conn /\ tun[x.tunnel].conn = {}
      BY <1>1, <2>0, <2>2, <2>3, <2>4 DEF Removing
    <3> QED BY <3>1
  <2>5. ASSUME x.pc \in {"rmList", "rmRecord", "finish"}, x.row.tunnel # None PROVE ~Live(x.row.tunnel)'
    BY <1>0, <1>1, <1>2, <2>0, <2>5 DEF Removing
  <2>6. ASSUME x.op \in {"reset", "revoke"}, x.pc \in Removes \cup {"finish"}, rows'[x.key].binding = b
        PROVE  rows'[x.key].tunnel = x.row.tunnel
    <3>0. x.key \in Keys
      BY <2>6 DEF Shape
    <3>1. CASE b = None
      <4>1. rows'[x.key].tunnel = None
        BY <2>6, <3>0, <3>1 DEF TablesStep, StoreInv, RowShape, Consistent
      <4> QED BY <1>0, <1>2, <3>1, <4>1
    <3>2. CASE b # None
      <4>1. Minted(b) /\ ~Serving(b)
        BY <2>1, <2>6, <3>2
      <4>2. rows[x.key].binding = b /\ rows'[x.key].tunnel = rows[x.key].tunnel
        BY <1>0, <2>6, <3>0, <4>1, RowStays
      <4> QED BY <2>0, <2>6, <4>2 DEF Removing
    <3> QED BY <3>1, <3>2
  <2> QED BY <2>1, <2>2, <2>3, <2>4, <2>5, <2>6 DEF Removing
<1>6. ASSUME x.pc = "forward" PROVE minted'[b] = <<x.key, x.row.device>>
  <2>1. b \in Bindings /\ minted[b] = <<x.key, x.row.device>> /\ x.key \in Keys
    BY <1>6 DEF Knows, Shape
  <2>2. x.row.device \in Devices
    BY <1>6 DEF Knows
  <2>3. minted[b] # None
    BY <2>1, <2>2, Nulls
  <2> QED BY <2>1, <2>3 DEF TablesStep
<1> QED BY <1>3, <1>4, <1>5, <1>6 DEF Knows

\* A tunnel that a step leaves alone.
LEMMA TunnelStays ==
    ASSUME TunnelInv, TablesStep, NEW t \in Tunnels, UNCHANGED tun[t]
    PROVE  TunnelOK(t)'
<1>0. TunnelOK(t) /\ StoreInv /\ StoreInv' /\ t # None
  BY Nulls DEF TunnelInv, GatewayInv, TablesStep
<1>1. CASE tun[t].of = None
  BY <1>0, <1>1 DEF TunnelOK, UnusedTunnel, Live
<1>2. CASE tun[t].of # None
  <2>1. PICK b \in Bindings : b = tun[t].of /\ Minted(b) /\ b # None
    BY <1>0, <1>2 DEF TunnelOK, Minted
  <2>2. Minted(b)' /\ minted'[b] = minted[b] /\ (Serving(b)' => Serving(b)) /\ tun'[t] = tun[t]
    BY <1>0, <2>1, MintedStays, ServingEnds
  <2>3. ASSUME Live(t), tun[t].ingress = "serve" PROVE \E k \in Keys : rows'[k].tunnel = t
    BY <1>0, <2>3 DEF TunnelOK, TablesStep, RowStep
  <2>4. \A d \in tun[t].tokens \cup tun[t].conn : \E k \in Keys : minted'[b] = <<k, d>>
    BY <1>0, <2>1, <2>2 DEF TunnelOK
  <2>5. Live(t)' => Live(t)
    BY <2>2 DEF Live
  <2>6. tun'[t].rotated => tun'[t].tokens = {} /\ ~Serving(b)'
    BY <1>0, <2>1, <2>2 DEF TunnelOK
  <2>7. tun'[t].ingress = "gone" => ~Serving(b)'
    BY <1>0, <2>1, <2>2 DEF TunnelOK
  <2> QED BY <2>1, <2>2, <2>3, <2>4, <2>5, <2>6, <2>7 DEF TunnelOK, Serving, Minted
<1> QED BY <1>1, <1>2

\* What a row says of its tunnel.
LEMMA RowKept ==
    ASSUME TunnelInv, TablesStep, CloudStep, NEW k \in Keys
    PROVE  RowOK(k)'
<1> DEFINE b == rows[k].binding  t == rows[k].tunnel  c == rows'[k].binding  u == rows'[k].tunnel
<1>0. /\ RowOK(k) /\ StoreInv /\ StoreInv' /\ b \in Bindings \cup {None} /\ None \notin Bindings
      /\ t \in Tunnels \cup {None} /\ u \in Tunnels \cup {None} /\ (c = None => u = None) /\ (b = None => t = None)
      /\ (rows[k].state \in Enabled => Serving(b))
      /\ rows'[k].state \in Enabled => c # None
  <2>1. rows[k] \in Row /\ Consistent(rows[k]) /\ rows'[k] \in Row /\ Consistent(rows[k])'
    BY DEF TunnelInv, GatewayInv, TablesStep, StoreInv, StoreTypeOK, RowShape
  <2> QED BY <2>1, Nulls DEF TunnelInv, GatewayInv, TablesStep, Consistent, Row, Serving
<1>1. RowStep(k) /\ (b # None => Minted(b))
  BY <1>0, RowMinted DEF TablesStep
<1>2. ASSUME u # None
      PROVE  /\ c = b /\ b # None /\ tun[u].of = b /\ tun'[u].of = b /\ u \in Tunnels
             /\ u = t \/ Saved(k)
    <2>1. c = b /\ b # None /\ (u = t \/ Saved(k))
      BY <1>0, <1>1, <1>2 DEF RowStep
    <2>2. tun[u].of = b
      BY <1>0, <1>2, <2>1 DEF RowOK, Saved
    <2> QED BY <1>0, <1>2, <2>1, <2>2 DEF CloudStep
<1>3. ASSUME rows'[k].state \in Enabled, u # None PROVE tun'[u].live
  <2>1. rows[k].state \in Enabled
    BY <1>1, <1>2, <1>3 DEF RowStep, Minted
  <2>2. tun[u].live /\ Serving(b) /\ u \in Tunnels /\ tun[u].of = b
    <3>1. Serving(b)
      BY <1>0, <2>1
    <3>2. tun[u].live
      BY <1>0, <1>2, <1>3, <2>1 DEF RowOK, Saved, Live
    <3> QED BY <1>2, <1>3, <3>1, <3>2
  <2>3. PICK v \in Tunnels : v = u
    BY <2>2
  <2>4. Live(v) /\ Serving(tun[v].of)
    BY <2>2, <2>3 DEF Live
  <2> QED BY <2>3, <2>4 DEF CloudStep, Live
<1>4. ASSUME rows'[k].state \in {"active", "suspended"}
      PROVE  u # None /\ dns'[c] = u /\ tun'[u].ingress = "serve"
  <2>1. Provisioned(k) /\ c = b /\ u = t /\ c # None
    BY <1>0, <1>1, <1>4 DEF RowStep, Enabled
  <2>2. Serving(b) /\ b \in Bindings
    BY <1>0, <1>1, <1>4, <2>1 DEF RowStep, Enabled, Minted
  <2> QED BY <1>0, <1>2, <2>1, <2>2 DEF Provisioned, CloudStep
<1>5. ASSUME rows'[k].state = "revoked", ~rows'[k].cleanup, u # None PROVE ~tun'[u].live
  BY <1>1, <1>2, <1>5 DEF RowStep, CloudStep, Live
<1> QED BY <1>2, <1>3, <1>4, <1>5 DEF RowOK, Live

\* Of the live tunnels, those that are new or were in p's charge are named by a
\* row afterwards or in its charge.
Charges(p) ==
    faults' = 0 =>
        /\ faults = 0
        /\ \A t \in Tunnels : Live(t)' =>
             \/ \E k \in Keys : rows'[k].tunnel = t
             \/ Charge(w[p], t)'
             \/ Live(t) /\ ~Charge(w[p], t)

\* The step of one invocation.
LEMMA TurnKeeps ==
    ASSUME TunnelInv, GatewayInv', TablesStep, CloudStep, \A t \in Tunnels : TunnelOK(t)', OneTunnel',
           \A b \in Bindings : RecordOK(b)',
           NEW p \in Procs, Others(p), Knows(w[p])', Charges(p)
    PROVE  TunnelInv'
<1>1. \A k \in Keys : RowOK(k)'
  BY RowKept
<1>2. ASSUME NEW q \in Procs PROVE Knows(w[q])'
  <2>1. CASE q = p
    BY <2>1
  <2>2. CASE q # p
    <3>1. PICK x \in Handlers : x = w[q] /\ Shape(q, x) /\ Knows(x)
      BY DEF TunnelInv, GatewayInv, HandlersOK
    <3>2. Knows(x)' /\ w'[q] = x
      BY <2>2, <3>1, KnowsKept DEF Others
    <3> QED BY <3>2 DEF Knows, Enrolling, Removing, Serving, Minted, Live
  <2> QED BY <2>1, <2>2
<1>3. Accounted'
  <2> SUFFICES ASSUME faults' = 0, NEW t \in Tunnels, Live(t)'
               PROVE  (\E k \in Keys : rows'[k].tunnel = t) \/ \E q \in Procs : Charge(w[q], t)'
    BY DEF Accounted
  <2>1. CASE Charge(w[p], t)'
    BY <2>1
  <2>2. CASE Live(t) /\ ~Charge(w[p], t)
    <3>1. (\E k \in Keys : rows[k].tunnel = t) \/ \E q \in Procs : Charge(w[q], t)
      BY <2>2 DEF TunnelInv, Accounted, Charges
    <3>2. ASSUME NEW k \in Keys, rows[k].tunnel = t PROVE rows'[k].tunnel = t
      BY <2>2, <3>2, Nulls DEF TablesStep, RowStep
    <3>3. ASSUME NEW q \in Procs, Charge(w[q], t) PROVE Charge(w[q], t)'
      <4>1. q # p /\ w'[q] = w[q]
        BY <2>2, <3>3 DEF Others
      <4>2. tun[t].of # None
        BY <2>2 DEF TunnelInv, TunnelOK, UnusedTunnel, Live
      <4>3. tun'[t].of = tun[t].of
        BY <4>2 DEF CloudStep
      <4> QED BY <3>3, <4>1, <4>3 DEF Charge
    <3> QED BY <3>1, <3>2, <3>3
  <2> QED BY <2>1, <2>2 DEF Charges
<1> QED BY <1>1, <1>2, <1>3 DEF TunnelInv

-----------------------------------------------------------------------------
(* The statements of the store.                                            *)

LEMMA RowRests == ASSUME TunnelInv, NEW k \in Keys, UNCHANGED rows[k] PROVE RowStep(k)
<1>1. RowOK(k)
  BY DEF TunnelInv
<1> QED BY <1>1 DEF RowStep, RowOK, Provisioned, Enabled

LEMMA TablesRest == ASSUME TunnelInv, StoreInv', UNCHANGED <<rows, minted>> PROVE TablesStep
BY RowRests DEF TablesStep

\* A statement writes one row, and nothing over an id that was minted.
LEMMA OneRow ==
    ASSUME TunnelInv, StoreInv', NEW k \in Keys, NEW r, rows' = [rows EXCEPT ![k] = r], RowStep(k),
           \A b \in Bindings : minted[b] # None => minted'[b] = minted[b]
    PROVE  TablesStep
<1>1. ASSUME NEW j \in Keys, j # k PROVE RowStep(j)
  <2>1. UNCHANGED rows[j]
    BY <1>1 DEF TunnelInv, GatewayInv, StoreInv, StoreTypeOK
  <2> QED BY <2>1, RowRests
<1> QED BY <1>1 DEF TablesStep

LEMMA TheRow ==
    ASSUME TunnelInv, NEW k \in Keys
    PROVE  rows \in [Keys -> Row] /\ rows[k] \in Row /\ Consistent(rows[k]) /\ RowOK(k)
BY DEF TunnelInv, GatewayInv, StoreInv, StoreTypeOK, RowShape

\* Those that may come at any time.
Free(k) ==
    \/ Issue(k) \/ DeleteRevoked(k)
    \/ \E d \in Devices, b \in Bindings : Bind(k, d, b)
    \/ \E b, s : SetAccess(k, b, s) /\ s \in {"active", "suspended"}
    \/ \E b, v : ReportVersion(k, b, v)
    \/ \E op, b : Disable(k, op, b)
    \/ \E b, at : ExpireProvisioning(k, b, at)

LEMMA FreeStep == ASSUME TunnelInv, StoreInv', NEW k \in Keys, Free(k) PROVE TablesStep
<1>0. rows \in [Keys -> Row] /\ rows[k] \in Row /\ Consistent(rows[k]) /\ RowOK(k)
  BY TheRow
<1>1. CASE Issue(k)
  <2> DEFINE r == BlankRow("issued", now)
  <2>1. rows' = [rows EXCEPT ![k] = r] /\ rows'[k] = r /\ UNCHANGED minted
    BY <1>0, <1>1 DEF Issue
  <2>2. rows[k].tunnel = None
    BY <1>0, <1>1 DEF Issue, CanIssue, Exists, Consistent, BlankRow
  <2>3. RowStep(k)
    BY <2>1, <2>2 DEF RowStep, BlankRow, Enabled
  <2> QED BY <2>1, <2>3, OneRow
<1>2. CASE DeleteRevoked(k)
  <2> DEFINE r == NoRow
  <2>1. \A j \in Keys \ {k} : UNCHANGED rows[j]
    BY <1>0, <1>2 DEF DeleteRevoked, Purge
  <2>2. rows'[k] = NoRow /\ UNCHANGED minted
    BY <1>0, <1>2 DEF DeleteRevoked, Purge
  <2>3. rows[k].tunnel # None => ~Live(rows[k].tunnel)
    BY <1>0, <1>2 DEF DeleteRevoked, CanDelete, RowOK
  <2>4. RowStep(k)
    BY <2>2, <2>3 DEF RowStep, NoRow, BlankRow, Enabled
  <2> QED BY <2>1, <2>2, <2>4, RowRests DEF TablesStep
<1>3. ASSUME NEW d \in Devices, NEW b \in Bindings, Bind(k, d, b) PROVE TablesStep
  <2> DEFINE r == [rows[k] EXCEPT !.state = "provisioning", !.device = d, !.binding = b, !.at = now]
  <2>1. rows' = [rows EXCEPT ![k] = r] /\ rows'[k] = r /\ minted[b] = None /\ minted' = [minted EXCEPT ![b] = <<k, d>>]
    BY <1>0, <1>3 DEF Bind
  <2>2. rows[k].tunnel = None
    BY <1>0, <1>3 DEF Bind, CanBind, Consistent, BlankRow
  <2>3. rows'[k].binding = b /\ rows'[k].tunnel = None /\ rows'[k].state = "provisioning"
    BY <1>0, <2>1, <2>2 DEF Row
  <2>4. RowStep(k)
    BY <2>1, <2>2, <2>3 DEF RowStep, Enabled
  <2>5. \A c \in Bindings : minted[c] # None => minted'[c] = minted[c]
    BY <2>1 DEF TunnelInv, GatewayInv, StoreInv, StoreTypeOK
  <2> QED BY <2>1, <2>4, <2>5, OneRow
<1>4. ASSUME NEW b, NEW s \in {"active", "suspended"}, SetAccess(k, b, s) PROVE TablesStep
  <2> DEFINE r == [rows[k] EXCEPT !.state = s, !.at = now]
  <2>1. rows' = [rows EXCEPT ![k] = r] /\ rows'[k] = r /\ UNCHANGED minted /\ rows[k].state \in {"active", "suspended"}
    BY <1>0, <1>4 DEF SetAccess, CanPause
  <2>2. rows'[k].binding = rows[k].binding /\ rows'[k].tunnel = rows[k].tunnel /\ rows'[k].state = s
    BY <1>0, <2>1 DEF Row
  <2>3. RowStep(k)
    BY <1>0, <2>1, <2>2 DEF RowStep, RowOK, Provisioned, Enabled
  <2> QED BY <2>1, <2>3, OneRow
<1>5. ASSUME NEW b, NEW v, ReportVersion(k, b, v) PROVE TablesStep
  <2> DEFINE r == [rows[k] EXCEPT !.version = v]
  <2>1. rows' = [rows EXCEPT ![k] = r] /\ rows'[k] = r /\ UNCHANGED minted
    BY <1>0, <1>5 DEF ReportVersion
  <2>2. /\ rows'[k].binding = rows[k].binding /\ rows'[k].tunnel = rows[k].tunnel /\ rows'[k].state = rows[k].state
        /\ rows'[k].cleanup = rows[k].cleanup
    BY <1>0, <2>1 DEF Row
  <2>3. RowStep(k)
    BY <1>0, <2>2 DEF RowStep, RowOK, Provisioned, Enabled
  <2> QED BY <2>1, <2>3, OneRow
<1>6. ASSUME NEW op, rows' = [rows EXCEPT ![k] = Disabled(k, op)], UNCHANGED minted PROVE TablesStep
  <2> DEFINE r == Disabled(k, op)
  <2>1. rows' = [rows EXCEPT ![k] = r] /\ rows'[k] = r
    BY <1>0, <1>6
  <2>2. /\ rows'[k].binding = rows[k].binding /\ rows'[k].tunnel = rows[k].tunnel
        /\ rows'[k].state \in {"revoked", "resetting"} /\ rows'[k].cleanup
    BY <1>0, <2>1 DEF Row, Disabled
  <2>3. RowStep(k)
    BY <1>0, <2>2 DEF RowStep, Enabled
  <2> HIDE DEF r
  <2> QED BY <1>6, <2>1, <2>3, OneRow
<1> QED BY <1>1, <1>2, <1>3, <1>4, <1>5, <1>6 DEF Free, Disable, ExpireProvisioning

LEMMA DeleteAllStep == ASSUME TunnelInv, StoreInv', DeleteAllRevoked PROVE TablesStep
<1>1. UNCHANGED minted
  BY DEF DeleteAllRevoked, Purge
<1>2. ASSUME NEW k \in Keys PROVE RowStep(k)
  <2>1. rows \in [Keys -> Row] /\ RowOK(k)
    BY TheRow
  <2>2. CASE CanDelete(k)
    <3>1. rows'[k] = NoRow
      BY <2>1, <2>2 DEF DeleteAllRevoked, Purge
    <3>2. rows[k].tunnel # None => ~Live(rows[k].tunnel)
      BY <2>1, <2>2 DEF CanDelete, RowOK
    <3> QED BY <3>1, <3>2 DEF RowStep, NoRow, BlankRow, Enabled
  <2>3. CASE ~CanDelete(k)
    <3>1. UNCHANGED rows[k]
      BY <2>1, <2>3 DEF DeleteAllRevoked, Purge
    <3> QED BY <3>1, RowRests
  <2> QED BY <2>2, <2>3
<1> QED BY <1>1, <1>2 DEF TablesStep

\* Those that rely on what the invocation has done to the tunnel.
LEMMA SaveTunnelStep ==
    ASSUME TunnelInv, StoreInv', NEW k \in Keys, NEW b, NEW t \in Tunnels, SaveTunnel(k, b, t),
           Live(t), tun[t].of = b
    PROVE  TablesStep
<1> DEFINE r == [rows[k] EXCEPT !.tunnel = t, !.at = now]
<1>0. rows \in [Keys -> Row] /\ rows[k] \in Row /\ Consistent(rows[k]) /\ RowOK(k)
  BY TheRow
<1>1. rows' = [rows EXCEPT ![k] = r] /\ rows'[k] = r /\ UNCHANGED minted /\ CanSaveTunnel(k, b, t)
  BY <1>0 DEF SaveTunnel
<1>2. rows'[k].binding = rows[k].binding /\ rows'[k].tunnel = t /\ rows'[k].state = rows[k].state /\ t # None
  BY <1>0, <1>1, Nulls DEF Row
<1>3. rows[k].tunnel = t \/ Saved(k)
  BY <1>1, <1>2 DEF CanSaveTunnel, Saved
<1>4. RowStep(k)
  BY <1>0, <1>1, <1>2, <1>3 DEF RowStep, RowOK, Provisioned, CanSaveTunnel, Enabled
<1> QED BY <1>1, <1>4, OneRow

LEMMA ActivateStep ==
    ASSUME TunnelInv, StoreInv', NEW k \in Keys, NEW b, Activate(k, b), Provisioned(k)
    PROVE  TablesStep
<1> DEFINE s == IF rows[k].state = "suspended" THEN "suspended" ELSE "active"
           r == [rows[k] EXCEPT !.state = s, !.cleanup = FALSE, !.at = now]
<1>0. rows \in [Keys -> Row] /\ rows[k] \in Row
  BY TheRow
<1>1. rows' = [rows EXCEPT ![k] = r] /\ rows'[k] = r /\ UNCHANGED minted /\ CanActivate(k, b)
  BY <1>0 DEF Activate
<1>2. rows'[k].binding = rows[k].binding /\ rows'[k].tunnel = rows[k].tunnel /\ rows'[k].state \in {"active", "suspended"}
  BY <1>0, <1>1 DEF Row
<1>3. RowStep(k)
  BY <1>1, <1>2 DEF RowStep, CanActivate, Enabled
<1> QED BY <1>1, <1>3, OneRow

LEMMA FinishStep ==
    ASSUME TunnelInv, StoreInv', NEW k \in Keys, NEW b, FinishReset(k, b) \/ FinishRevoke(k, b),
           rows[k].tunnel # None => ~Live(rows[k].tunnel)
    PROVE  TablesStep
<1>0. rows \in [Keys -> Row] /\ rows[k] \in Row
  BY TheRow
<1>1. CASE FinishReset(k, b)
  <2> DEFINE r == BlankRow("issued", now)
  <2>1. rows' = [rows EXCEPT ![k] = r] /\ rows'[k] = r /\ UNCHANGED minted
    BY <1>0, <1>1 DEF FinishReset
  <2>2. RowStep(k)
    BY <2>1 DEF RowStep, BlankRow, Enabled
  <2> QED BY <2>1, <2>2, OneRow
<1>2. CASE FinishRevoke(k, b)
  <2> DEFINE r == [rows[k] EXCEPT !.cleanup = FALSE, !.at = now]
  <2>1. rows' = [rows EXCEPT ![k] = r] /\ rows'[k] = r /\ UNCHANGED minted /\ rows[k].state = "revoked"
    BY <1>0, <1>2 DEF FinishRevoke, CanFinishRevoke
  <2>2. rows'[k].binding = rows[k].binding /\ rows'[k].tunnel = rows[k].tunnel /\ rows'[k].state = "revoked"
    BY <1>0, <2>1 DEF Row
  <2>3. RowStep(k)
    BY <2>2 DEF RowStep, Enabled
  <2> QED BY <2>1, <2>3, OneRow
<1> QED BY <1>1, <1>2

-----------------------------------------------------------------------------
(* What invocations know, place by place.                                  *)

LEMMA Handling ==
    ASSUME TunnelInv, NEW p \in Procs
    PROVE  /\ w[p] \in Handlers /\ Shape(p, w[p]) /\ Knows(w[p])
           /\ w[p].pc # "idle" => w[p].key \in Keys
           /\ w[p].row.binding \in Bindings \cup {None} /\ w[p].row.tunnel \in Tunnels \cup {None}
BY DEF TunnelInv, GatewayInv, HandlersOK, Handlers, SeenRow, Shape

LEMMA EnrolKnown ==
    ASSUME TunnelInv, NEW p \in Procs, w[p].pc \in Provisions \cup {"find", "post", "refind", "save"}
    PROVE  /\ w[p].op = "enroll" /\ w[p].key \in Keys /\ w[p].dev \in Devices /\ Enrolling(w[p])
           /\ w[p].row.binding \in Bindings /\ Minted(w[p].row.binding) /\ w[p].row.binding # None
           /\ w[p].pc \in Provisions \cup {"save"} =>
                /\ w[p].tunnel \in Tunnels /\ tun[w[p].tunnel].of = w[p].row.binding /\ w[p].tunnel # None
           /\ Serving(w[p].row.binding) =>
                rows[w[p].key].state \in Enabled /\ rows[w[p].key].binding = w[p].row.binding
<1>1. w[p].op = "enroll" /\ w[p].key \in Keys /\ w[p].dev \in Devices /\ Enrolling(w[p]) /\ w[p].row.binding \in Bindings
  BY Handling DEF Knows, Shape, EnrolPCs, Provisions
<1>2. minted[w[p].row.binding] = <<w[p].key, w[p].dev>> /\ minted[w[p].row.binding] # None
  <2>1. minted[w[p].row.binding] = <<w[p].key, w[p].dev>>
    BY <1>1 DEF Enrolling, Provisions
  <2>2. <<w[p].key, w[p].dev>> # None
    BY <1>1, Nulls
  <2> QED BY <2>1, <2>2
<1>3. ASSUME Serving(w[p].row.binding)
      PROVE  rows[w[p].key].state \in Enabled /\ rows[w[p].key].binding = w[p].row.binding
  <2>1. PICK k \in Keys : rows[k].state \in Enabled /\ rows[k].binding = w[p].row.binding
    BY <1>3 DEF Serving
  <2>2. minted[rows[k].binding] = <<k, rows[k].device>>
    BY <1>1, <2>1, Nulls, RowMinted DEF TunnelInv, GatewayInv
  <2> QED BY <1>2, <2>1, <2>2
<1> QED BY <1>1, <1>2, <1>3, Nulls DEF Minted, Enrolling

LEMMA RemoveKnown ==
    ASSUME TunnelInv, NEW p \in Procs, w[p].pc \in Removes
    PROVE  /\ w[p].key \in Keys /\ w[p].row.binding \in Bindings /\ w[p].row.binding # None /\ Removing(w[p])
           /\ Minted(w[p].row.binding) /\ ~Serving(w[p].row.binding)
           /\ w[p].pc \in {"rm410", "rmRotate", "rmDisconnect", "rmDelete"} =>
                /\ w[p].tunnel \in Tunnels /\ tun[w[p].tunnel].of = w[p].row.binding
                /\ w[p].row.tunnel \in {None, w[p].tunnel} /\ w[p].tunnel # None
<1>1. Removing(w[p]) /\ w[p].key \in Keys
  BY Handling DEF Knows, Removes
<1> QED BY <1>1, Nulls DEF Removing, Minted

\* A row in which an enrolment can activate the key has the tunnel it has set up.
LEMMA ActivatesProvisioned ==
    ASSUME TunnelInv, NEW p \in Procs, w[p].pc = "activate", CanActivate(w[p].key, w[p].row.binding)
    PROVE  Provisioned(w[p].key) /\ ~w[p].rotated
<1>1. Serving(w[p].row.binding)
  BY EnrolKnown DEF Provisions, CanActivate, Serving
<1>2. /\ w[p].tunnel \in Tunnels /\ w[p].tunnel # None /\ tun[w[p].tunnel].of = w[p].row.binding
      /\ Enrolling(w[p]) /\ rows[w[p].key].binding = w[p].row.binding
  BY <1>1, EnrolKnown DEF Provisions
<1>3. ~tun[w[p].tunnel].rotated
  BY <1>1, <1>2 DEF TunnelInv, TunnelOK
<1> QED BY <1>1, <1>2, <1>3 DEF Enrolling, Provisioned, Provisions

\* Every step of the Gateway is a step of the tables.
LEMMA StepTables ==
    ASSUME TunnelInv, [GatewayNext]_gatewayVars
    PROVE  TablesStep
<1>0. StoreInv'
  BY GatewayInvStep DEF TunnelInv, GatewayInv
<1>1. UNCHANGED storeVars => TablesStep
  BY <1>0, TablesRest DEF storeVars
<1>2. ASSUME NEW p \in Procs, GoesOn(p) PROVE TablesStep
  <2> DEFINE k == w[p].key  b == w[p].row.binding
  <2>0. w[p].pc # "idle" => k \in Keys
    BY Handling
  <2>1. CASE EnrollBind(p)
    <3>1. k \in Keys /\ w[p].dev \in Devices
      BY <2>1, Handling DEF EnrollBind, Shape, EnrolPCs
    <3> QED BY <1>0, <1>1, <2>1, <3>1, FreeStep DEF EnrollBind, Free
  <2>2. CASE EnrollSave(p)
    <3>1. /\ k \in Keys /\ w[p].tunnel \in Tunnels /\ tun[w[p].tunnel].of = b
          /\ Serving(b) => Live(w[p].tunnel)
      BY <2>2, EnrolKnown DEF EnrollSave, Enrolling
    <3>2. CASE SaveTunnel(k, b, w[p].tunnel)
      <4>1. Serving(b)
        BY <3>1, <3>2 DEF SaveTunnel, CanSaveTunnel, Serving
      <4> QED BY <1>0, <3>1, <3>2, <4>1, SaveTunnelStep
    <3> QED BY <1>1, <2>2, <3>2 DEF EnrollSave, Cancel
  <2>3. CASE EnrollActivate(p)
    <3>1. k \in Keys
      BY <2>0, <2>3 DEF EnrollActivate
    <3>2. CASE Activate(k, b)
      <4>1. Provisioned(k)
        BY <2>3, <3>2, ActivatesProvisioned DEF EnrollActivate, Activate
      <4> QED BY <1>0, <3>1, <3>2, <4>1, ActivateStep
    <3> QED BY <1>1, <2>3, <3>2 DEF EnrollActivate, Cancel
  <2>4. ASSUME NEW v, Reported(p, v), w[p].pc # "idle" PROVE TablesStep
    BY <1>0, <1>1, <2>0, <2>4, FreeStep DEF Reported, Free
  <2>5. CASE EnrollAnswer(p) \/ ResumeReport(p)
    BY <2>4, <2>5 DEF EnrollAnswer, ResumeReport
  <2>6. ASSUME NEW s \in {"active", "suspended"}, SetAccess(k, b, s), w[p].pc # "idle" PROVE TablesStep
    BY <1>0, <2>0, <2>6, FreeStep DEF Free
  <2>7. CASE SetDeviceAccess(p) \/ \E v \in Versions : DowngradeUnreported(p, v)
    BY <1>1, <2>6, <2>7 DEF SetDeviceAccess, DowngradeUnreported, Suspend, Resume
  <2>8. CASE ReleaseDisable(p) \/ ScanClaim(p)
    <3>1. k \in Keys
      BY <2>0, <2>8 DEF ReleaseDisable, ScanClaim
    <3> QED BY <1>0, <1>1, <2>8, <3>1, FreeStep DEF ReleaseDisable, ScanClaim, Free
  <2>9. CASE Finish(p)
    <3>1. k \in Keys /\ Removing(w[p])
      BY <2>0, <2>9, Handling DEF Finish, Knows
    <3>2. UNCHANGED storeVars \/ (w[p].op \in {"reset", "revoke"} /\ (FinishReset(k, b) \/ FinishRevoke(k, b)))
      BY <2>9 DEF Finish
    <3>3. ASSUME w[p].op \in {"reset", "revoke"}, FinishReset(k, b) \/ FinishRevoke(k, b), rows[k].tunnel # None
          PROVE  ~Live(rows[k].tunnel)
      <4>1. rows[k].binding = b
        BY <3>3 DEF FinishReset, FinishRevoke, CanFinishReset, CanFinishRevoke
      <4>2. rows[k].tunnel = w[p].row.tunnel
        BY <2>9, <3>1, <3>3, <4>1 DEF Removing, Finish
      <4> QED BY <2>9, <3>1, <3>3, <4>2 DEF Removing, Finish
    <3> QED BY <1>0, <1>1, <3>1, <3>2, <3>3, FinishStep
  <2>10. CASE \/ EnrollReadBack(p) \/ EnrollFind(p) \/ EnrollPost(p) \/ EnrollPut(p) \/ EnrollRecord(p)
              \/ EnrollToken(p) \/ RemoveFind(p) \/ Remove410(p) \/ RemoveRotate(p)
              \/ RemoveDisconnect(p) \/ RemoveDelete(p) \/ RemoveList(p) \/ RemoveRecord(p)
              \/ ResumeProbe(p) \/ ProxyForward(p) \/ ProxyRespond(p) \/ PostLost(p) \/ Fail(p)
    BY <1>1, <2>10 DEF EnrollReadBack, EnrollFind, EnrollPost, EnrollPut, EnrollRecord, EnrollToken,
         RemoveFind, Remove410, RemoveRotate, RemoveDisconnect, RemoveDelete, RemoveList, RemoveRecord,
         ResumeProbe, ProxyForward, ProxyRespond, PostLost, Fail
  <2> QED BY <1>2, <2>1, <2>2, <2>3, <2>5, <2>7, <2>8, <2>9, <2>10 DEF GoesOn, HandlerStep
<1>3. ASSUME NEW p \in Procs, NEW k \in Keys, Begins(p, k) PROVE TablesStep
  <2>1. ASSUME NEW op, ChangeLifecycle(p, k, op) PROVE TablesStep
    BY <1>0, <2>1, FreeStep DEF ChangeLifecycle, Free
  <2> QED BY <1>1, <1>3, <2>1 DEF Begins, ProxyMcp, Enroll, ReleaseDevice, SuspendDevice, ResumeDevice, Scan
<1>4. CASE Direct
  <2>1. ASSUME NEW k \in Keys, Free(k) PROVE TablesStep
    BY <1>0, <2>1, FreeStep
  <2>2. CASE DeleteAllRevokedKeys
    BY <1>0, <2>2, DeleteAllStep DEF DeleteAllRevokedKeys
  <2>3. CASE \E t \in 1 .. MaxTime : Clock(t)
    BY <1>0, <2>3, TablesRest DEF Clock, Tick
  <2> QED BY <1>1, <1>4, <2>1, <2>2, <2>3 DEF Direct, Connector, IssueKey, DeleteRevokedKey, ReportDeviceVersion, Free
<1>5. CASE UNCHANGED gatewayVars
  BY <1>1, <1>5 DEF gatewayVars, storeVars
<1> QED BY <1>2, <1>3, <1>4, <1>5, GatewayCases

-----------------------------------------------------------------------------
(* The calls of the Cloudflare API.                                        *)

AccountStep ==
    /\ CloudStep
    /\ \A t \in Tunnels : TunnelOK(t)'
    /\ OneTunnel'
    /\ \A b \in Bindings : RecordOK(b)'

LEMMA Account ==
    ASSUME TunnelInv
    PROVE  /\ tun \in [Tunnels -> Tunnel] /\ dns \in [Bindings -> Tunnels \cup {None}] /\ OneTunnel
           /\ \A t \in Tunnels : TunnelOK(t) /\ (Live(t) \/ tun[t].tokens \cup tun[t].conn # {} => tun[t].of # None)
           /\ \A b \in Bindings : RecordOK(b)
BY DEF TunnelInv, GatewayInv, GatewayTypeOK, CloudTypeOK, TunnelOK, UnusedTunnel, Live

LEMMA CloudRests == ASSUME TunnelInv, TablesStep, UNCHANGED cloudVars PROVE AccountStep
<1>1. UNCHANGED <<tun, dns>>
  BY DEF cloudVars
<1>2. CloudStep
  BY <1>1 DEF CloudStep, Live
<1>3. \A t \in Tunnels : TunnelOK(t)'
  BY <1>1, TunnelStays
<1>4. OneTunnel' /\ \A b \in Bindings : RecordOK(b)'
  BY <1>1, Account DEF OneTunnel, RecordOK, Live
<1> QED BY <1>2, <1>3, <1>4 DEF AccountStep

\* What one call may make of a tunnel that has been created.
Sound(t, r) ==
    /\ tun[t].of # None /\ r.of = tun[t].of
    /\ r.live => Live(t)
    /\ Live(t) /\ ~r.live => ~Serving(r.of)
    /\ tun[t].rotated => r.rotated /\ r.conn \subseteq tun[t].conn
    /\ r.rotated => r.tokens = {} /\ ~Serving(r.of)
    /\ r.ingress = "gone" => ~Serving(r.of)
    /\ tun[t].ingress = "serve" => r.ingress = "serve" \/ ~Serving(r.of)
    /\ r.live /\ r.ingress = "serve" => \E k \in Keys : rows'[k].tunnel = t
    /\ \A d \in r.tokens \cup r.conn : \E k \in Keys : minted[r.of] = <<k, d>>

LEMMA CallIsSound ==
    ASSUME TunnelInv, TablesStep, NEW t \in Tunnels, NEW r, tun' = [tun EXCEPT ![t] = r], UNCHANGED dns, Sound(t, r)
    PROVE  AccountStep
<1>0. StoreInv /\ StoreInv' /\ tun'[t] = r /\ \A u \in Tunnels : u # t => tun'[u] = tun[u]
  BY Account DEF TunnelInv, GatewayInv, TablesStep
<1>1. PICK b \in Bindings : b = tun[t].of /\ Minted(b) /\ b # None
  BY Account DEF Sound, TunnelOK, Minted
<1>2. Minted(b)' /\ minted'[b] = minted[b] /\ (Serving(b)' => Serving(b))
  BY <1>0, <1>1, MintedStays, ServingEnds
<1>3. TunnelOK(t)'
  <2>1. r.of = b /\ (r.rotated => r.tokens = {} /\ ~Serving(b)') /\ (r.ingress = "gone" => ~Serving(b)')
    BY <1>1, <1>2 DEF Sound
  <2>2. \A d \in r.tokens \cup r.conn : \E k \in Keys : minted'[b] = <<k, d>>
    BY <1>1, <1>2 DEF Sound
  <2>3. r.live /\ r.ingress = "serve" => \E k \in Keys : rows'[k].tunnel = t
    BY DEF Sound
  <2> QED BY <1>0, <1>1, <1>2, <2>1, <2>2, <2>3 DEF TunnelOK, Serving, Minted, Live
<1>4. \A u \in Tunnels : TunnelOK(u)'
  BY <1>0, <1>3, TunnelStays
<1>5. CloudStep
  BY <1>0 DEF CloudStep, Sound, Live
<1>6. OneTunnel'
  BY <1>0, Account DEF OneTunnel, Sound, Live
<1>7. ASSUME NEW c \in Bindings PROVE RecordOK(c)'
  BY <1>0, Account DEF RecordOK, Sound
<1> QED BY <1>4, <1>5, <1>6, <1>7 DEF AccountStep

LEMMA CreateIsSound ==
    ASSUME TunnelInv, TablesStep, NEW b, Minted(b), NEW t \in Tunnels, CreateTunnel(b, t)
    PROVE  AccountStep
<1> DEFINE r == [UnusedTunnel EXCEPT !.of = b, !.live = TRUE]
<1>0. /\ tun' = [tun EXCEPT ![t] = r] /\ tun'[t] = r /\ UNCHANGED dns
      /\ \A u \in Tunnels : u # t => tun'[u] = tun[u]
  BY Account DEF CreateTunnel
<1>1. /\ r.of = b /\ r.live /\ ~r.rotated /\ r.ingress = "none" /\ r.tokens = {} /\ r.conn = {}
      /\ tun[t] = UnusedTunnel /\ tun[t].of = None /\ ~Live(t) /\ tun[t].ingress = "none" /\ b # None
  BY Account, Nulls DEF CreateTunnel, UnusedTunnel, TunnelOK, Live, Minted
<1>2. TunnelOK(t)'
  <2>1. Minted(b)'
    BY MintedStays
  <2> QED BY <1>0, <1>1, <2>1 DEF TunnelOK, Live, Minted
<1>3. \A u \in Tunnels : TunnelOK(u)'
  BY <1>0, <1>2, TunnelStays
<1>4. CloudStep
  BY <1>0, <1>1 DEF CloudStep, Live
<1>5. OneTunnel'
  <2>1. \A u \in Tunnels : ~(Live(u) /\ tun[u].of = b)
    BY DEF CreateTunnel, LiveNamed, Live
  <2> QED BY <1>0, <1>1, <2>1, Account DEF OneTunnel, Live
<1>6. ASSUME NEW c \in Bindings PROVE RecordOK(c)'
  BY <1>0, <1>1, <1>6, Account, Nulls DEF RecordOK
<1> QED BY <1>3, <1>4, <1>5, <1>6 DEF AccountStep

LEMMA RecordIsSound ==
    ASSUME TunnelInv, TablesStep, NEW b \in Bindings, NEW t \in Tunnels \cup {None},
           \/ PutRecord(b, t) /\ tun[t].of = b
           \/ DeleteRecord(b, t) /\ ~Serving(b)
    PROVE  AccountStep
<1>0. UNCHANGED tun /\ dns \in [Bindings -> Tunnels \cup {None}]
  BY Account DEF PutRecord, DeleteRecord
<1>1. /\ \A c \in Bindings : c # b => dns'[c] = dns[c]
      /\ dns[b] # None => dns'[b] = dns[b] \/ ~Serving(b)
      /\ dns'[b] # None => tun[dns'[b]].of = b
  <2>1. CASE PutRecord(b, t) /\ tun[t].of = b
    BY <1>0, <2>1 DEF PutRecord
  <2>2. CASE DeleteRecord(b, t) /\ ~Serving(b)
    BY <1>0, <2>2, Account DEF DeleteRecord, RecordOK
  <2> QED BY <2>1, <2>2
<1>2. CloudStep
  BY <1>0, <1>1 DEF CloudStep, Live
<1>3. \A u \in Tunnels : TunnelOK(u)'
  BY <1>0, TunnelStays
<1>4. OneTunnel'
  BY <1>0, Account DEF OneTunnel, Live
<1>5. ASSUME NEW c \in Bindings PROVE RecordOK(c)'
  BY <1>0, <1>1, Account DEF RecordOK
<1> QED BY <1>2, <1>3, <1>4, <1>5 DEF AccountStep

\* Taking something from the tunnel of a binding that has ended.
LEMMA RemovalIsSound ==
    ASSUME TunnelInv, TablesStep, NEW p \in Procs, Remove410(p) \/ RemoveRotate(p) \/ RemoveDisconnect(p) \/ RemoveDelete(p)
    PROVE  AccountStep
<1> DEFINE t == w[p].tunnel
<1>0. w[p].pc \in {"rm410", "rmRotate", "rmDisconnect", "rmDelete"}
  BY DEF Remove410, RemoveRotate, RemoveDisconnect, RemoveDelete
<1>1. /\ t \in Tunnels /\ tun[t].of = w[p].row.binding /\ tun[t].of # None /\ ~Serving(tun[t].of)
      /\ tun \in [Tunnels -> Tunnel] /\ TunnelOK(t)
  BY <1>0, RemoveKnown, Account DEF Removes
<1>2. \A k \in Keys : rows[k].tunnel = t /\ Live(t) => rows'[k].tunnel = t
  BY <1>1, Nulls DEF TablesStep, RowStep
<1>3. PICK v \in Tunnels : v = t
  BY <1>1
<1>4. CASE Remove410(p)
  <2> DEFINE r == [tun[v] EXCEPT !.ingress = "gone"]
  <2>1. UNCHANGED cloudVars \/ (tun' = [tun EXCEPT ![v] = r] /\ UNCHANGED dns)
    BY <1>1, <1>3, <1>4 DEF Remove410, PutIngress
  <2>2. /\ r.of = tun[v].of /\ r.live = tun[v].live /\ r.rotated = tun[v].rotated /\ r.tokens = tun[v].tokens
        /\ r.conn = tun[v].conn /\ r.ingress = "gone"
    BY <1>1 DEF Tunnel
  <2> HIDE DEF r
  <2>3. Sound(v, r)
    BY <1>1, <1>3, <2>2 DEF Sound, TunnelOK, Live
  <2> QED BY <2>1, <2>3, CallIsSound, CloudRests
<1>5. CASE RemoveRotate(p)
  <2> DEFINE r == [tun[v] EXCEPT !.rotated = TRUE, !.tokens = {}]
  <2>1. UNCHANGED cloudVars \/ (tun' = [tun EXCEPT ![v] = r] /\ UNCHANGED dns)
    BY <1>1, <1>3, <1>5 DEF RemoveRotate, RotateSecret
  <2>2. /\ r.of = tun[v].of /\ r.live = tun[v].live /\ r.rotated /\ r.tokens = {}
        /\ r.conn = tun[v].conn /\ r.ingress = tun[v].ingress
    BY <1>1 DEF Tunnel
  <2> HIDE DEF r
  <2>3. Sound(v, r)
    BY <1>1, <1>2, <1>3, <2>2 DEF Sound, TunnelOK, Live
  <2> QED BY <2>1, <2>3, CallIsSound, CloudRests
<1>6. CASE RemoveDisconnect(p)
  <2> DEFINE r == [tun[v] EXCEPT !.conn = {}]
  <2>1. tun' = [tun EXCEPT ![v] = r] /\ UNCHANGED dns
    BY <1>1, <1>3, <1>6 DEF RemoveDisconnect, DropConnections
  <2>2. /\ r.of = tun[v].of /\ r.live = tun[v].live /\ r.rotated = tun[v].rotated /\ r.tokens = tun[v].tokens
        /\ r.conn = {} /\ r.ingress = tun[v].ingress
    BY <1>1 DEF Tunnel
  <2> HIDE DEF r
  <2>3. Sound(v, r)
    BY <1>1, <1>2, <1>3, <2>2 DEF Sound, TunnelOK, Live
  <2> QED BY <2>1, <2>3, CallIsSound
<1>7. CASE RemoveDelete(p)
  <2> DEFINE r == [tun[v] EXCEPT !.live = FALSE, !.tokens = {}, !.conn = {}]
  <2>1. tun' = [tun EXCEPT ![v] = r] /\ UNCHANGED dns
    BY <1>1, <1>3, <1>7 DEF RemoveDelete, DeleteTunnel
  <2>2. /\ r.of = tun[v].of /\ ~r.live /\ r.rotated = tun[v].rotated /\ r.tokens = {}
        /\ r.conn = {} /\ r.ingress = tun[v].ingress
    BY <1>1 DEF Tunnel
  <2> HIDE DEF r
  <2>3. Sound(v, r)
    BY <1>1, <1>3, <2>2 DEF Sound, TunnelOK, Live
  <2> QED BY <2>1, <2>3, CallIsSound
<1> QED BY <1>4, <1>5, <1>6, <1>7

LEMMA PutIsSound == ASSUME TunnelInv, TablesStep, NEW p \in Procs, EnrollPut(p) PROVE AccountStep
<1>1. /\ w[p].tunnel \in Tunnels /\ w[p].tunnel # None /\ w[p].key \in Keys /\ w[p].row.binding # None
      /\ tun[w[p].tunnel].of = w[p].row.binding /\ Enrolling(w[p])
  BY EnrolKnown DEF EnrollPut, Provisions
<1>2. PICK v \in Tunnels : v = w[p].tunnel
  BY <1>1
<1>3. tun \in [Tunnels -> Tunnel] /\ TunnelOK(v)
  BY Account
<1>4. ASSUME Live(v) PROVE rows'[w[p].key].tunnel = v
  <2>1. rows[w[p].key].tunnel = v
    BY <1>1, <1>2, <1>4 DEF Enrolling, EnrollPut, Provisions
  <2> QED BY <1>1, <1>2, <1>4, <2>1 DEF TablesStep, RowStep
<1> DEFINE r == [tun[v] EXCEPT !.ingress = "serve"]
<1>5. UNCHANGED cloudVars \/ (Live(v) /\ tun' = [tun EXCEPT ![v] = r] /\ UNCHANGED dns)
  BY <1>2, <1>3 DEF EnrollPut, PutIngress
<1>6. /\ r.of = tun[v].of /\ r.live = tun[v].live /\ r.rotated = tun[v].rotated /\ r.tokens = tun[v].tokens
      /\ r.conn = tun[v].conn /\ r.ingress = "serve"
  BY <1>3 DEF Tunnel
<1> HIDE DEF r
<1>7. Sound(v, r)
  BY <1>1, <1>2, <1>3, <1>4, <1>6 DEF Sound, TunnelOK, Live
<1> QED BY <1>5, <1>7, CallIsSound, CloudRests

LEMMA TokenIsSound == ASSUME TunnelInv, TablesStep, NEW p \in Procs, EnrollAnswer(p) PROVE AccountStep
<1>1. /\ w[p].key \in Keys /\ w[p].dev \in Devices /\ ~w[p].rotated
      /\ w[p].tunnel \in Tunnels /\ tun[w[p].tunnel].of = w[p].row.binding /\ w[p].row.binding \in Bindings
      /\ minted[w[p].row.binding] = <<w[p].key, w[p].dev>>
  BY Handling DEF EnrollAnswer, Knows, Enrolling, Shape
<1>2. PICK v \in Tunnels : v = w[p].tunnel
  BY <1>1
<1>3. tun \in [Tunnels -> Tunnel] /\ TunnelOK(v) /\ tun[v].of # None
  BY <1>1, <1>2, Account, Nulls
<1> DEFINE S == IF Live(v) /\ tun[v].rotated = w[p].rotated THEN tun[v].tokens \cup {w[p].dev} ELSE tun[v].tokens
           r == [tun[v] EXCEPT !.tokens = S]
<1>4. tun' = [tun EXCEPT ![v] = r] /\ UNCHANGED dns
  BY <1>2, <1>3 DEF EnrollAnswer, HandToken
<1>5. /\ r.of = tun[v].of /\ r.live = tun[v].live /\ r.rotated = tun[v].rotated /\ r.tokens = S
      /\ r.conn = tun[v].conn /\ r.ingress = tun[v].ingress
  BY <1>3 DEF Tunnel
<1>6. tun[v].rotated => S = {}
  BY <1>1, <1>3 DEF TunnelOK
<1>7. \A d \in S \cup tun[v].conn : \E k \in Keys : minted[tun[v].of] = <<k, d>>
  BY <1>1, <1>2, <1>3 DEF TunnelOK
<1>8. Live(v) /\ tun[v].ingress = "serve" => \E k \in Keys : rows'[k].tunnel = v
  BY <1>3, Nulls DEF TunnelOK, TablesStep, RowStep
<1> HIDE DEF r, S
<1>9. Sound(v, r)
  BY <1>3, <1>5, <1>6, <1>7, <1>8 DEF Sound, TunnelOK, Live
<1> QED BY <1>4, <1>9, CallIsSound

LEMMA ConnectorIsSound ==
    ASSUME TunnelInv, TablesStep, NEW d \in Devices, NEW t \in Tunnels, Connector(d, t)
    PROVE  AccountStep
<1>1. tun \in [Tunnels -> Tunnel] /\ TunnelOK(t) /\ tun[t].of # None
  BY Account DEF Connector, Connect, Disconnect
<1>2. Live(t) /\ tun[t].ingress = "serve" => \E k \in Keys : rows'[k].tunnel = t
  BY <1>1, Nulls DEF TunnelOK, TablesStep, RowStep
<1>3. PICK S \in {tun[t].conn \cup {d}, tun[t].conn \ {d}} :
        /\ tun' = [tun EXCEPT ![t] = [tun[t] EXCEPT !.conn = S]] /\ UNCHANGED dns
        /\ S \subseteq tun[t].tokens \cup tun[t].conn
  BY <1>1 DEF Connector, Connect, Disconnect
<1> DEFINE r == [tun[t] EXCEPT !.conn = S]
<1>4. /\ r.of = tun[t].of /\ r.live = tun[t].live /\ r.rotated = tun[t].rotated /\ r.tokens = tun[t].tokens
      /\ r.conn = S /\ r.ingress = tun[t].ingress
  BY <1>1 DEF Tunnel
<1> HIDE DEF r
<1>5. Sound(t, r)
  BY <1>1, <1>2, <1>3, <1>4 DEF Sound, TunnelOK, Live
<1> QED BY <1>3, <1>5, CallIsSound DEF r

\* Every step of the Gateway is a step of the account.
LEMMA StepAccount ==
    ASSUME TunnelInv, [GatewayNext]_gatewayVars
    PROVE  AccountStep
<1>0. TablesStep
  BY StepTables
<1>1. UNCHANGED cloudVars => AccountStep
  BY <1>0, CloudRests
<1>2. ASSUME NEW p \in Procs, GoesOn(p) PROVE AccountStep
  <2>1. CASE EnrollPost(p) \/ PostLost(p)
    <3>1. PICK b \in Bindings : b = w[p].row.binding /\ Minted(b)
      BY <2>1, EnrolKnown DEF EnrollPost, PostLost
    <3>2. UNCHANGED cloudVars \/ \E t \in Tunnels : CreateTunnel(b, t)
      BY <2>1, <3>1 DEF EnrollPost, PostLost
    <3> QED BY <1>0, <1>1, <3>1, <3>2, CreateIsSound
  <2>2. CASE EnrollPut(p)
    BY <1>0, <2>2, PutIsSound
  <2>3. CASE EnrollRecord(p)
    <3>1. w[p].row.binding \in Bindings /\ w[p].tunnel \in Tunnels /\ tun[w[p].tunnel].of = w[p].row.binding
      BY <2>3, EnrolKnown DEF EnrollRecord, Provisions
    <3>2. PICK b \in Bindings, t \in Tunnels : b = w[p].row.binding /\ t = w[p].tunnel
      BY <3>1
    <3> QED BY <1>0, <1>1, <2>3, <3>1, <3>2, RecordIsSound DEF EnrollRecord
  <2>4. CASE EnrollAnswer(p)
    BY <1>0, <2>4, TokenIsSound
  <2>5. CASE Remove410(p) \/ RemoveRotate(p) \/ RemoveDisconnect(p) \/ RemoveDelete(p)
    BY <1>0, <2>5, RemovalIsSound
  <2>6. CASE RemoveRecord(p)
    <3>1. w[p].row.binding \in Bindings /\ w[p].tunnel \in Tunnels \cup {None} /\ ~Serving(w[p].row.binding)
      BY <2>6, RemoveKnown, Handling DEF RemoveRecord, Removes, Handlers
    <3>2. PICK b \in Bindings, t \in Tunnels \cup {None} : b = w[p].row.binding /\ t = w[p].tunnel
      BY <3>1
    <3> QED BY <1>0, <2>6, <3>1, <3>2, RecordIsSound DEF RemoveRecord
  <2>7. CASE \/ EnrollBind(p) \/ EnrollReadBack(p) \/ EnrollFind(p) \/ EnrollSave(p) \/ EnrollToken(p)
             \/ EnrollActivate(p) \/ RemoveFind(p) \/ RemoveList(p) \/ Finish(p) \/ ReleaseDisable(p)
             \/ ResumeProbe(p) \/ ResumeReport(p) \/ SetDeviceAccess(p) \/ ProxyForward(p)
             \/ ProxyRespond(p) \/ ScanClaim(p) \/ Fail(p)
             \/ \E v \in Versions : DowngradeUnreported(p, v)
    BY <1>1, <2>7 DEF EnrollBind, EnrollReadBack, EnrollFind, EnrollSave, EnrollToken, EnrollActivate,
         RemoveFind, RemoveList, Finish, ReleaseDisable, ResumeProbe, ResumeReport, SetDeviceAccess,
         ProxyForward, ProxyRespond, ScanClaim, Fail, DowngradeUnreported, cloudVars
  <2> QED BY <1>2, <2>1, <2>2, <2>3, <2>4, <2>5, <2>6, <2>7 DEF GoesOn, HandlerStep
<1>3. ASSUME NEW p \in Procs, NEW k \in Keys, Begins(p, k) PROVE AccountStep
  BY <1>1, <1>3 DEF Begins, ChangeLifecycle, ProxyMcp, Enroll, ReleaseDevice, SuspendDevice, ResumeDevice, Scan
<1>4. CASE Direct
  BY <1>0, <1>1, <1>4, ConnectorIsSound DEF Direct, IssueKey, DeleteRevokedKey, ReportDeviceVersion, DeleteAllRevokedKeys, Clock
<1>5. CASE UNCHANGED gatewayVars
  BY <1>1, <1>5 DEF gatewayVars, cloudVars
<1> QED BY <1>2, <1>3, <1>4, <1>5, GatewayCases

-----------------------------------------------------------------------------
(* What an invocation knows after its step.                                *)

LEMMA KnowsNow == ASSUME NEW p, NEW y, w'[p] = y, Knows(y)' PROVE Knows(w[p])'
BY DEF Knows, Enrolling, Removing, Serving, Minted, Live

\* Knowledge of the tables as they were lasts.
LEMMA KnewLasts ==
    ASSUME TunnelInv, TablesStep, CloudStep, NEW p \in Procs, Handled(p), NEW y, w'[p] = y, Knows(y)
    PROVE  Knows(w[p])'
<1>1. y \in Handlers /\ Shape(p, y)
  BY DEF Handled, TunnelInv, GatewayInv, HandlersOK
<1> QED BY <1>1, KnowsKept, KnowsNow

\* What p knew it still knows.
LEMMA StillKnows ==
    ASSUME TunnelInv, TablesStep, CloudStep, NEW p \in Procs, NEW x, x = w[p]
    PROVE  x \in Handlers /\ Shape(p, x) /\ Knows(x) /\ Knows(x)'
BY Handling, KnowsKept

LEMMA EndKnows == ASSUME TunnelInv, NEW p \in Procs, End(p) PROVE Knows(w[p])'
<1>1. w'[p] = Idle
  BY DEF End, TunnelInv, GatewayInv, HandlersOK
<1>2. PICK y : y = Idle
  OBVIOUS
<1>3. Knows(y)'
  BY <1>2 DEF Idle, Nothing, Seen, NoRow, BlankRow, Knows, Removing, Removes
<1> QED BY <1>1, <1>2, <1>3, KnowsNow

\* The steps of an enrolment.
LEMMA EnrolKnows ==
    ASSUME TunnelInv, TablesStep, CloudStep, NEW p \in Procs, Handled(p),
           \/ EnrollBind(p) \/ EnrollReadBack(p) \/ EnrollFind(p) \/ EnrollPost(p) \/ EnrollToken(p) \/ EnrollAnswer(p)
           \/ PostLost(p)
    PROVE  Knows(w[p])'
<1>0. w \in [Procs -> Handlers]
  BY DEF TunnelInv, GatewayInv, HandlersOK
<1>1. PICK x \in Handlers : x = w[p] /\ Shape(p, x) /\ Knows(x) /\ Knows(x)'
  BY Handling, StillKnows
<1>2. CASE End(p)
  BY <1>2, EndKnows
<1>3. ASSUME NEW pc \in {"readback", "post", "refind"}, Goto(p, pc), x.pc \in {"bind", "find", "post"},
             x.pc = "bind" => pc = "readback"
      PROVE  Knows(w[p])'
  <2> DEFINE y == [x EXCEPT !.pc = pc]
  <2>1. w'[p] = y /\ y.pc = pc /\ y.op = x.op /\ y.row = x.row /\ y.key = x.key /\ y.dev = x.dev
    BY <1>0, <1>1, <1>3 DEF Goto, Handlers
  <2> HIDE DEF y
  <2>2. Knows(y)
    BY <1>1, <1>3, <2>1 DEF Knows, Enrolling, Removing, Removes, Provisions
  <2> QED BY <2>1, <2>2, KnewLasts
<1>4. CASE EnrollReadBack(p) /\ w' = [w EXCEPT ![p] = [@ EXCEPT !.pc = "find", !.row = Seen(rows[w[p].key])]]
  <2>1. x.op = "enroll" /\ x.key \in Keys /\ x.dev \in Devices
    BY <1>1, <1>4 DEF EnrollReadBack, Shape, EnrolPCs
  <2> DEFINE y == [x EXCEPT !.pc = "find", !.row = Seen(rows[x.key])]
  <2>2. w'[p] = y /\ y.pc = "find" /\ y.op = "enroll" /\ y.row = Seen(rows[x.key]) /\ y.key = x.key /\ y.dev = x.dev
    BY <1>0, <1>1, <1>4, <2>1 DEF Handlers
  <2>3. rows[x.key].device = x.dev /\ rows[x.key].binding # None
    <3>0. Idle.pc = "idle"
      BY DEF Idle
    <3>1. w'[p] # Idle
      BY <2>2, <3>0
    <3>2. BoundTo(rows[x.key], x.dev)
      BY <1>0, <1>1, <1>4, <3>1 DEF EnrollReadBack, End
    <3> QED BY <2>1, <3>2, TheRow DEF BoundTo, Consistent
  <2>4. minted[rows[x.key].binding] = <<x.key, x.dev>> /\ rows[x.key].binding \in Bindings /\ RowOK(x.key)
    BY <2>1, <2>3, RowMinted, TheRow DEF TunnelInv, GatewayInv, Minted
  <2> HIDE DEF y
  <2>5. Knows(y)
    BY <2>2, <2>4 DEF Knows, Enrolling, Removing, Removes, Provisions, Seen, RowOK
  <2> QED BY <2>2, <2>5, KnewLasts
<1>5. ASSUME NEW t \in Tunnels, w' = [w EXCEPT ![p] = [@ EXCEPT !.pc = "save", !.tunnel = t]],
             x.pc \in {"find", "post", "refind"}, tun'[t].of = x.row.binding, tun'[t].live
      PROVE  Knows(w[p])'
  <2> DEFINE y == [x EXCEPT !.pc = "save", !.tunnel = t]
  <2>1. w'[p] = y /\ y.pc = "save" /\ y.op = x.op /\ y.row = x.row /\ y.key = x.key /\ y.dev = x.dev /\ y.tunnel = t
    BY <1>0, <1>1, <1>5 DEF Handlers
  <2> HIDE DEF y
  <2>2. Knows(y)'
    BY <1>1, <1>5, <2>1 DEF Knows, Enrolling, Removing, Removes, Provisions, Live
  <2> QED BY <2>1, <2>2, KnowsNow
<1>6. CASE EnrollBind(p)
  BY <1>1, <1>3, <1>6 DEF EnrollBind
<1>7. CASE EnrollReadBack(p)
  BY <1>2, <1>4, <1>7 DEF EnrollReadBack
<1>8. CASE EnrollFind(p)
  <2>1. UNCHANGED tun /\ tun \in [Tunnels -> Tunnel]
    BY <1>8, Account DEF EnrollFind, cloudVars
  <2>2. ASSUME NEW t \in (IF x.pc = "find" THEN Lookup(x.row) ELSE LiveNamed(x.row.binding))
        PROVE  t \in Tunnels /\ tun[t].of = x.row.binding /\ tun[t].live
    <3>1. x.row.tunnel \in Tunnels \cup {None} /\ (x.row.tunnel # None => tun[x.row.tunnel].of = x.row.binding)
      BY <1>1 DEF Knows, Handlers, SeenRow
    <3> QED BY <2>2, <3>1 DEF Lookup, LiveNamed, Live
  <2> QED BY <1>1, <1>2, <1>3, <1>5, <1>8, <2>1, <2>2 DEF EnrollFind
<1>9. CASE EnrollPost(p) \/ PostLost(p)
  <2>1. ASSUME NEW t \in Tunnels, CreateTunnel(x.row.binding, t) PROVE tun'[t].of = x.row.binding /\ tun'[t].live
    BY <2>1, Account DEF CreateTunnel, UnusedTunnel
  <2> QED BY <1>1, <1>3, <1>5, <1>9, <2>1 DEF EnrollPost, PostLost
<1>10. CASE EnrollToken(p) /\ w' = [w EXCEPT ![p] = [@ EXCEPT !.pc = "activate", !.rotated = tun[w[p].tunnel].rotated]]
  <2> DEFINE y == [x EXCEPT !.pc = "activate", !.rotated = tun[x.tunnel].rotated]
  <2>1. /\ w'[p] = y /\ y.pc = "activate" /\ y.op = x.op /\ y.row = x.row /\ y.key = x.key /\ y.dev = x.dev
        /\ y.tunnel = x.tunnel /\ y.rotated = tun[x.tunnel].rotated /\ x.pc = "token"
    BY <1>0, <1>1, <1>10 DEF Handlers, EnrollToken
  <2> HIDE DEF y
  <2>2. Knows(y)
    BY <1>1, <2>1 DEF Knows, Enrolling, Removing, Removes, Provisions
  <2> QED BY <2>1, <2>2, KnewLasts
<1> QED BY <1>2, <1>6, <1>7, <1>8, <1>9, <1>10 DEF EnrollToken, EnrollAnswer

\* A cancelled enrolment has lost its binding: nothing else refuses its writes.
LEMMA CancelEnded ==
    ASSUME TunnelInv, NEW p \in Procs,
           \/ w[p].pc = "save" /\ ~CanSaveTunnel(w[p].key, w[p].row.binding, w[p].tunnel)
           \/ w[p].pc = "activate" /\ ~CanActivate(w[p].key, w[p].row.binding)
    PROVE  ~Serving(w[p].row.binding)
<1> SUFFICES ASSUME Serving(w[p].row.binding) PROVE FALSE
  OBVIOUS
<1> DEFINE k == w[p].key  b == w[p].row.binding  t == w[p].tunnel
<1>1. /\ k \in Keys /\ rows[k].state \in Enabled /\ rows[k].binding = b /\ Enrolling(w[p])
      /\ t \in Tunnels /\ tun[t].of = b
  BY EnrolKnown DEF Provisions
<1>2. w[p].pc = "save" /\ rows[k].tunnel \notin {None, t} /\ Live(t)
  BY <1>1 DEF CanSaveTunnel, CanActivate, Enrolling
<1>3. rows[k].tunnel \in Tunnels /\ Live(rows[k].tunnel) /\ tun[rows[k].tunnel].of = b
  BY <1>1, <1>2, TheRow DEF RowOK, Row
<1> QED BY <1>1, <1>2, <1>3, Account DEF OneTunnel

LEMMA ProvisionKnows ==
    ASSUME TunnelInv, TablesStep, CloudStep, NEW p \in Procs, Handled(p),
           EnrollSave(p) \/ EnrollPut(p) \/ EnrollRecord(p) \/ EnrollActivate(p)
    PROVE  Knows(w[p])'
<1>0. w \in [Procs -> Handlers]
  BY DEF TunnelInv, GatewayInv, HandlersOK
<1>1. PICK x \in Handlers : x = w[p] /\ Shape(p, x) /\ Knows(x) /\ Knows(x)'
  BY Handling, StillKnows
<1>2. /\ x.pc \in Provisions \cup {"save"} /\ x.op = "enroll" /\ x.key \in Keys /\ Enrolling(x) /\ Enrolling(x)'
      /\ x.row.binding \in Bindings /\ Minted(x.row.binding) /\ x.row.binding # None
      /\ x.tunnel \in Tunnels /\ tun[x.tunnel].of = x.row.binding /\ x.tunnel # None /\ x.row \in SeenRow
  BY <1>1, EnrolKnown DEF Knows, EnrollSave, EnrollPut, EnrollRecord, EnrollActivate, Provisions, Handlers
<1>3. CASE End(p)
  BY <1>3, EndKnows
<1>4. CASE Cancel(p) /\ (EnrollSave(p) \/ EnrollActivate(p))
  <2> DEFINE r == [x.row EXCEPT !.tunnel = x.tunnel]
             y == [x EXCEPT !.pc = "rmFind", !.row = r]
  <2>0. r.binding = x.row.binding /\ r.tunnel = x.tunnel
    BY <1>2 DEF SeenRow
  <2> HIDE DEF r
  <2>1. w'[p] = y /\ y.pc = "rmFind" /\ y.op = "enroll" /\ y.row = r /\ y.key = x.key /\ y.dev = x.dev
    BY <1>0, <1>1, <1>2, <1>4 DEF Handlers, Cancel, r
  <2>2. ~Serving(x.row.binding)
    <3>1. CASE EnrollSave(p)
      <4>1. ~CanSaveTunnel(x.key, x.row.binding, x.tunnel)
        <5>1. w'[p] # [x EXCEPT !.pc = "put", !.row.tunnel = x.tunnel]
          BY <1>1, <2>1 DEF Handlers
        <5> QED BY <1>0, <1>1, <3>1, <5>1 DEF EnrollSave
      <4> QED BY <1>1, <3>1, <4>1, CancelEnded DEF EnrollSave
    <3>2. CASE EnrollActivate(p)
      <4>1. ~CanActivate(x.key, x.row.binding)
        <5>1. w'[p] # [x EXCEPT !.pc = "report"]
          BY <1>1, <2>1 DEF Handlers
        <5> QED BY <1>0, <1>1, <3>2, <5>1 DEF EnrollActivate, Goto
      <4> QED BY <1>1, <3>2, <4>1, CancelEnded DEF EnrollActivate
    <3> QED BY <1>4, <3>1, <3>2
  <2> HIDE DEF y
  <2>3. x.pc \notin {"bind", "readback"}
    BY <1>2 DEF Provisions
  <2>4. Knows(y)
    BY <1>2, <2>0, <2>1, <2>2, <2>3 DEF Knows, Enrolling, Removing, Removes, Provisions
  <2> QED BY <2>1, <2>4, KnewLasts
<1>5. CASE EnrollSave(p) /\ SaveTunnel(x.key, x.row.binding, x.tunnel)
           /\ w' = [w EXCEPT ![p] = [@ EXCEPT !.pc = "put", !.row.tunnel = x.tunnel]]
  <2> DEFINE r == [x.row EXCEPT !.tunnel = x.tunnel]
             y == [x EXCEPT !.pc = "put", !.row = r]
  <2>0. r.binding = x.row.binding /\ r.tunnel = x.tunnel
    BY <1>2 DEF SeenRow
  <2> HIDE DEF r
  <2>1. w'[p] = y /\ y.pc = "put" /\ y.op = "enroll" /\ y.row = r /\ y.key = x.key /\ y.dev = x.dev /\ y.tunnel = x.tunnel
    BY <1>0, <1>1, <1>2, <1>5 DEF Handlers, r
  <2> HIDE DEF y
  <2>2. rows'[x.key].tunnel = x.tunnel /\ rows'[x.key].binding = x.row.binding
    BY <1>2, <1>5, TheRow DEF SaveTunnel, CanSaveTunnel, Row
  <2>3. x.pc = "save"
    BY <1>1, <1>5 DEF EnrollSave
  <2>4. Knows(y)'
    BY <1>1, <1>2, <2>0, <2>1, <2>2, <2>3 DEF Knows, Enrolling, Removing, Removes, Provisions
  <2> QED BY <2>1, <2>4, KnowsNow
<1>6. CASE EnrollPut(p) /\ PutIngress(x.tunnel, "serve") /\ Goto(p, "record")
  <2> DEFINE y == [x EXCEPT !.pc = "record"]
  <2>1. w'[p] = y /\ y.pc = "record" /\ y.op = "enroll" /\ y.row = x.row /\ y.key = x.key /\ y.dev = x.dev /\ y.tunnel = x.tunnel
    BY <1>0, <1>1, <1>2, <1>6 DEF Handlers, Goto
  <2> HIDE DEF y
  <2>2. tun'[x.tunnel].ingress = "serve"
    BY <1>2, <1>6, Account DEF PutIngress, Tunnel
  <2>3. x.pc = "put"
    BY <1>1, <1>6 DEF EnrollPut
  <2>4. Knows(y)'
    BY <1>1, <1>2, <2>1, <2>2, <2>3 DEF Knows, Enrolling, Removing, Removes, Provisions
  <2> QED BY <2>1, <2>4, KnowsNow
<1>7. CASE EnrollRecord(p) /\ PutRecord(x.row.binding, x.tunnel) /\ Goto(p, "token")
  <2> DEFINE y == [x EXCEPT !.pc = "token"]
  <2>1. w'[p] = y /\ y.pc = "token" /\ y.op = "enroll" /\ y.row = x.row /\ y.key = x.key /\ y.dev = x.dev /\ y.tunnel = x.tunnel
    BY <1>0, <1>1, <1>2, <1>7 DEF Handlers, Goto
  <2> HIDE DEF y
  <2>2. dns'[x.row.binding] = x.tunnel
    BY <1>2, <1>7, Account DEF PutRecord
  <2>3. x.pc = "record"
    BY <1>1, <1>7 DEF EnrollRecord
  <2>4. Knows(y)'
    BY <1>1, <1>2, <2>1, <2>2, <2>3 DEF Knows, Enrolling, Removing, Removes, Provisions
  <2> QED BY <2>1, <2>4, KnowsNow
<1>8. CASE EnrollActivate(p) /\ Activate(x.key, x.row.binding) /\ Goto(p, "report")
  <2> DEFINE y == [x EXCEPT !.pc = "report"]
  <2>1. /\ w'[p] = y /\ y.pc = "report" /\ y.op = "enroll" /\ y.row = x.row /\ y.key = x.key /\ y.dev = x.dev
        /\ y.tunnel = x.tunnel /\ y.rotated = x.rotated
    BY <1>0, <1>1, <1>2, <1>8 DEF Handlers, Goto
  <2> HIDE DEF y
  <2>2. ~x.rotated /\ x.pc = "activate"
    BY <1>1, <1>8, ActivatesProvisioned DEF EnrollActivate, Activate
  <2>3. Knows(y)
    BY <1>1, <1>2, <2>1, <2>2 DEF Knows, Enrolling, Removing, Removes, Provisions
  <2> QED BY <2>1, <2>3, KnewLasts
<1> QED BY <1>1, <1>3, <1>4, <1>5, <1>6, <1>7, <1>8 DEF EnrollSave, EnrollPut, EnrollRecord, EnrollActivate

\* The steps of a removal.
LEMMA RemovalKnows ==
    ASSUME TunnelInv, TablesStep, CloudStep, NEW p \in Procs, Handled(p),
           \/ RemoveFind(p) \/ Remove410(p) \/ RemoveRotate(p) \/ RemoveDisconnect(p)
           \/ RemoveDelete(p) \/ RemoveList(p) \/ RemoveRecord(p)
    PROVE  Knows(w[p])'
<1>0. w \in [Procs -> Handlers]
  BY DEF TunnelInv, GatewayInv, HandlersOK
<1>1. PICK x \in Handlers : x = w[p] /\ Shape(p, x) /\ Knows(x) /\ Knows(x)'
  BY Handling, StillKnows
<1>2. /\ x.pc \in Removes /\ x.key \in Keys /\ Removing(x) /\ Removing(x)' /\ x.row \in SeenRow
      /\ x.row.binding \in Bindings /\ Minted(x.row.binding) /\ ~Serving(x.row.binding) /\ x.row.binding # None
      /\ x.row.tunnel \in Tunnels \cup {None} /\ x.tunnel \in Tunnels \cup {None}
      /\ x.pc \in {"rm410", "rmRotate", "rmDisconnect", "rmDelete"} =>
            x.tunnel \in Tunnels /\ tun[x.tunnel].of = x.row.binding /\ x.row.tunnel \in {None, x.tunnel}
  BY <1>1, RemoveKnown DEF Knows, RemoveFind, Remove410, RemoveRotate, RemoveDisconnect, RemoveDelete,
       RemoveList, RemoveRecord, Removes, Handlers, SeenRow
<1>3. CASE End(p)
  BY <1>3, EndKnows
<1>4. ASSUME NEW pc \in {"rmRotate", "rmDisconnect", "rmDelete", "rmList", "rmRecord", "finish"}, Goto(p, pc),
             pc = "rmRotate" => x.pc = "rm410",
             pc = "rmDisconnect" => x.pc = "rmRotate" /\ tun'[x.tunnel].rotated,
             pc = "rmDelete" => x.pc = "rmDisconnect" /\ tun'[x.tunnel].conn = {},
             pc = "rmList" => x.pc = "rmDelete" /\ ~tun'[x.tunnel].live,
             pc \in {"rmRecord", "finish"} => x.pc \in {"rmList", "rmRecord"}
      PROVE  Knows(w[p])'
  <2> DEFINE y == [x EXCEPT !.pc = pc]
  <2>1. w'[p] = y /\ y.pc = pc /\ y.op = x.op /\ y.row = x.row /\ y.key = x.key /\ y.dev = x.dev /\ y.tunnel = x.tunnel
    BY <1>0, <1>1, <1>4 DEF Handlers, Goto
  <2> HIDE DEF y
  <2>2. x.op = "enroll" => Enrolling(y)'
    BY <1>1, <1>2, <1>4, <2>1 DEF Knows, Enrolling, Removes, Provisions
  <2>3. Removing(y)'
    <3>1. pc = "rmList" /\ x.row.tunnel # None => ~Live(x.row.tunnel)'
      BY <1>2, <1>4 DEF Live
    <3> QED BY <1>2, <1>4, <2>1, <3>1 DEF Removing, Removes
  <2>4. Knows(y)'
    BY <1>1, <1>4, <2>1, <2>2, <2>3 DEF Knows
  <2> QED BY <2>1, <2>4, KnowsNow
<1>5. CASE RemoveFind(p)
  <2>1. PICK t \in Tunnels \cup {None}, pc \in {"rm410", "rmList"} :
          /\ w' = [w EXCEPT ![p] = [@ EXCEPT !.pc = pc, !.tunnel = t]]
          /\ pc = "rm410" => t \in Tunnels /\ t \in Lookup(x.row)
          /\ pc = "rmList" => Lookup(x.row) = {}
    <3>1. Lookup(x.row) \subseteq Tunnels
      BY <1>2 DEF Lookup, LiveNamed
    <3> QED BY <1>1, <1>2, <1>5, <3>1 DEF RemoveFind
  <2> DEFINE y == [x EXCEPT !.pc = pc, !.tunnel = t]
  <2>2. w'[p] = y /\ y.pc = pc /\ y.op = x.op /\ y.row = x.row /\ y.key = x.key /\ y.dev = x.dev /\ y.tunnel = t
    BY <1>0, <1>1, <2>1 DEF Handlers
  <2> HIDE DEF y
  <2>3. x.row.tunnel # None => tun[x.row.tunnel].of = x.row.binding
    BY <1>1 DEF Knows
  <2>4. pc = "rm410" => tun[t].of = x.row.binding /\ x.row.tunnel \in {None, t}
    BY <2>1, <2>3 DEF Lookup, LiveNamed
  <2>5. pc = "rmList" /\ x.row.tunnel # None => ~Live(x.row.tunnel)
    BY <2>1 DEF Lookup
  <2>6. x.pc = "rmFind"
    BY <1>1, <1>5 DEF RemoveFind
  <2>7. x.op = "enroll" => Enrolling(y)
    BY <1>1, <2>2, <2>6 DEF Knows, Enrolling, Provisions
  <2>8. Removing(y)
    BY <1>2, <2>1, <2>2, <2>4, <2>5, <2>6 DEF Removing, Removes
  <2>9. Knows(y)
    BY <1>1, <2>2, <2>7, <2>8 DEF Knows
  <2> QED BY <2>2, <2>9, KnewLasts
<1>6. CASE Remove410(p)
  BY <1>1, <1>3, <1>4, <1>6 DEF Remove410
<1>7. CASE RemoveRotate(p)
  <2>1. RotateSecret(x.tunnel) => tun'[x.tunnel].rotated
    BY <1>1, <1>2, <1>7, Account DEF RotateSecret, RemoveRotate, Tunnel
  <2> QED BY <1>1, <1>3, <1>4, <1>7, <2>1 DEF RemoveRotate
<1>8. CASE RemoveDisconnect(p)
  <2>1. tun'[x.tunnel].conn = {}
    BY <1>1, <1>2, <1>8, Account DEF DropConnections, RemoveDisconnect, Tunnel
  <2> QED BY <1>1, <1>4, <1>8, <2>1 DEF RemoveDisconnect
<1>9. CASE RemoveDelete(p)
  <2>1. ~tun'[x.tunnel].live
    BY <1>1, <1>2, <1>9, Account DEF DeleteTunnel, RemoveDelete, Tunnel
  <2> QED BY <1>1, <1>4, <1>9, <2>1 DEF RemoveDelete
<1>10. CASE RemoveList(p) \/ RemoveRecord(p)
  BY <1>1, <1>3, <1>4, <1>10 DEF RemoveList, RemoveRecord, AfterRemove
<1> QED BY <1>5, <1>6, <1>7, <1>8, <1>9, <1>10

\* A row that is denied has a binding that has ended.
LEMMA DeniedEnded ==
    ASSUME StoreInv', NEW k \in Keys, rows'[k].state \notin Enabled
    PROVE  ~Serving(rows[k].binding)'
<1> SUFFICES ASSUME NEW j \in Keys, rows'[j].state \in Enabled, rows'[j].binding = rows'[k].binding PROVE FALSE
  BY DEF Serving
<1>1. rows'[j].binding # None /\ rows'[k].binding # None
  BY DEF StoreInv, RowShape, Consistent
<1>2. minted'[rows'[j].binding] = <<j, rows'[j].device>> /\ minted'[rows'[k].binding] = <<k, rows'[k].device>>
  BY <1>1 DEF StoreInv, BindingOwner
<1> QED BY <1>2

\* An invocation that has denied the key knows that.
LEMMA DenierKnows ==
    ASSUME TunnelInv, TablesStep, CloudStep, NEW p \in Procs, NEW k \in Keys, NEW op \in {"revoke", "reset"}, NEW y,
           rows' = [rows EXCEPT ![k] = Disabled(k, op)], w'[p] = y, y.key = k, y.op \in {"reset", "revoke"},
           y.row = Seen(Disabled(k, op)), (y.pc = "rmFind" /\ rows[k].binding # None) \/ y.pc = RemovalOf(rows[k])
    PROVE  Knows(w[p])'
<1>1. rows[k] \in Row /\ Consistent(rows[k]) /\ RowOK(k) /\ rows \in [Keys -> Row]
  BY TheRow
<1>2. /\ y.row.binding = rows[k].binding /\ y.row.tunnel = rows[k].tunnel /\ rows'[k].binding = rows[k].binding
      /\ rows'[k].tunnel = rows[k].tunnel /\ rows'[k].state \in {"revoked", "resetting"}
  BY <1>1 DEF Seen, Disabled, Row
<1>3. /\ y.pc \in {"rmFind", "finish"} /\ (y.pc = "rmFind" => rows[k].binding # None)
      /\ (y.pc = "finish" => rows[k].binding = None)
  BY DEF RemovalOf
<1>4. RowOK(k)' /\ StoreInv' /\ (rows[k].tunnel # None => rows[k].binding \in Bindings)
  BY <1>1, RowKept DEF TablesStep, Consistent, Row
<1>5. ASSUME rows[k].binding # None PROVE Minted(rows[k].binding)' /\ ~Serving(rows[k].binding)'
  <2>1. ~Serving(rows[k].binding)'
    BY <1>2, <1>4, DeniedEnded DEF Enabled
  <2>2. PICK b \in Bindings : b = rows[k].binding /\ Minted(b)
    BY <1>5, RowMinted DEF TunnelInv, GatewayInv, Minted
  <2>3. Minted(b)'
    BY <2>2, MintedStays
  <2> QED BY <1>2, <2>1, <2>2, <2>3 DEF Minted
<1>6. Removing(y)'
  BY <1>2, <1>3, <1>4, <1>5, Nulls DEF Removing, Removes, RowOK, Serving, Minted
<1>7. Knows(y)'
  BY <1>2, <1>3, <1>4, <1>6 DEF Knows, RowOK
<1> QED BY <1>7, KnowsNow

\* The other steps of requests and scans.
LEMMA OthersKnow ==
    ASSUME TunnelInv, TablesStep, CloudStep, NEW p \in Procs, Handled(p),
           \/ Finish(p) \/ ReleaseDisable(p) \/ ResumeProbe(p) \/ ResumeReport(p) \/ SetDeviceAccess(p)
           \/ ProxyForward(p) \/ ProxyRespond(p) \/ ScanClaim(p) \/ Fail(p)
           \/ \E v \in Versions : DowngradeUnreported(p, v)
    PROVE  Knows(w[p])'
<1>0. w \in [Procs -> Handlers]
  BY DEF TunnelInv, GatewayInv, HandlersOK
<1>1. PICK x \in Handlers : x = w[p] /\ Shape(p, x) /\ Knows(x)
  BY Handling
<1>2. CASE End(p)
  BY <1>2, EndKnows
<1>3. ASSUME NEW k \in Keys, k = x.key, x.op = "reset", x.row.binding \in Bindings, rows[k].binding = x.row.binding,
             rows' = [rows EXCEPT ![k] = Disabled(k, "reset")],
             w' = [w EXCEPT ![p] = [@ EXCEPT !.pc = "rmFind", !.row = Seen(Disabled(k, "reset"))]]
      PROVE  Knows(w[p])'
  <2> DEFINE y == [x EXCEPT !.pc = "rmFind", !.row = Seen(Disabled(k, "reset"))]
  <2>1. w'[p] = y /\ y.pc = "rmFind" /\ y.op = "reset" /\ y.key = k /\ y.row = Seen(Disabled(k, "reset"))
    BY <1>0, <1>1, <1>3 DEF Handlers
  <2> HIDE DEF y
  <2> QED BY <1>3, <2>1, Nulls, DenierKnows
<1>4. CASE ReleaseDisable(p)
  <2>1. x.key \in Keys /\ x.op = "reset" /\ x.row.binding \in Bindings
    BY <1>1, <1>4 DEF ReleaseDisable, Shape, Knows
  <2> QED BY <1>1, <1>2, <1>3, <1>4, <2>1, Nulls DEF ReleaseDisable, Disable, CanDisable
<1>5. CASE ScanClaim(p)
  <2>1. x.key \in Keys /\ x.op = "reset" /\ x.row.binding \in Bindings
    BY <1>1, <1>5 DEF ScanClaim, Shape, Knows
  <2> QED BY <1>1, <1>2, <1>3, <1>5, <2>1 DEF ScanClaim, ExpireProvisioning, CanExpire
<1>6. ASSUME NEW pc \in {"report", "resume"}, Goto(p, pc), x.op = "resume" PROVE Knows(w[p])'
  <2> DEFINE y == [x EXCEPT !.pc = pc]
  <2>1. w'[p] = y /\ y.pc = pc /\ y.op = "resume" /\ y.row = x.row
    BY <1>0, <1>1, <1>6 DEF Handlers, Goto
  <2> HIDE DEF y
  <2>2. Knows(y)
    BY <1>1, <2>1 DEF Knows, Removing, Removes
  <2> QED BY <2>1, <2>2, KnewLasts
<1>7. CASE ResumeProbe(p) \/ ResumeReport(p)
  BY <1>1, <1>2, <1>6, <1>7 DEF ResumeProbe, ResumeReport, Shape
<1>8. CASE ProxyForward(p)
  <2>1. ASSUME NEW d \in Devices, w' = [w EXCEPT ![p] = [@ EXCEPT !.pc = "delivered", !.dev = d]] PROVE Knows(w[p])'
    <3> DEFINE y == [x EXCEPT !.pc = "delivered", !.dev = d]
    <3>1. w'[p] = y /\ y.pc = "delivered" /\ y.op = x.op /\ y.row = x.row /\ x.op = "mcp"
      BY <1>0, <1>1, <1>8, <2>1 DEF Handlers, ProxyForward, Shape
    <3> HIDE DEF y
    <3>2. Knows(y)
      BY <1>1, <3>1 DEF Knows, Removing, Removes
    <3> QED BY <3>1, <3>2, KnewLasts
  <2> QED BY <1>2, <1>8, <2>1 DEF ProxyForward
<1>9. CASE \/ Finish(p) \/ SetDeviceAccess(p) \/ ProxyRespond(p) \/ Fail(p)
           \/ \E v \in Versions : DowngradeUnreported(p, v)
  BY <1>2, <1>9 DEF Finish, SetDeviceAccess, ProxyRespond, Fail, DowngradeUnreported
<1> QED BY <1>4, <1>5, <1>7, <1>8, <1>9

\* What an invocation knows of the row it begins with.
LEMMA BeginKnows ==
    ASSUME TunnelInv, TablesStep, CloudStep, NEW p \in Procs, NEW k \in Keys, Handled(p), Begins(p, k)
    PROVE  Knows(w[p])'
<1>0. w \in [Procs -> Handlers] /\ rows[k] \in Row /\ Consistent(rows[k]) /\ RowOK(k) /\ StoreInv
  BY TheRow DEF TunnelInv, GatewayInv, HandlersOK
<1>1. /\ rows[k].binding \in Bindings \cup {None} /\ rows[k].tunnel \in Tunnels \cup {None}
      /\ rows[k].tunnel # None => rows[k].binding \in Bindings /\ tun[rows[k].tunnel].of = rows[k].binding
      /\ rows[k].binding # None => /\ minted[rows[k].binding] = <<k, rows[k].device>> /\ Minted(rows[k].binding)
                                   /\ rows[k].device \in Devices
      /\ rows[k].state \notin Enabled /\ rows[k].binding # None => ~Serving(rows[k].binding)
  <2>1. ASSUME rows[k].state \notin Enabled, rows[k].binding # None, Serving(rows[k].binding) PROVE FALSE
    <3>1. PICK j \in Keys : rows[j].state \in Enabled /\ rows[j].binding = rows[k].binding
      BY <2>1 DEF Serving
    <3> QED BY <1>0, <2>1, <3>1, RowMinted
  <2> QED BY <1>0, <2>1, RowMinted DEF Row, Consistent, RowOK
<1>2. ASSUME NEW op, NEW d, NEW pc, Start(p, op, k, d, rows[k], pc),
             op = "enroll" => /\ pc \in {"bind", "find"}
                              /\ pc = "find" => rows[k].binding # None /\ rows[k].device = d,
             pc \in {"bind", "find"} => op = "enroll",
             pc \in {"disable", "claim", "forward", "rmFind"} => rows[k].binding # None,
             pc \in {"rmFind", "finish"} => rows[k].state \notin Enabled,
             pc = "finish" => rows[k].binding = None,
             pc \in {"bind", "find", "disable", "claim", "forward", "rmFind", "finish", "suspend", "probe", "report"}
      PROVE  Knows(w[p])'
  <2> DEFINE y == [Idle EXCEPT !.op = op, !.key = k, !.dev = d, !.row = Seen(rows[k]), !.pc = pc]
  <2>1. /\ w'[p] = y /\ y.op = op /\ y.key = k /\ y.dev = d /\ y.pc = pc
        /\ y.row.binding = rows[k].binding /\ y.row.tunnel = rows[k].tunnel /\ y.row.device = rows[k].device
    BY <1>0, <1>2 DEF Start, Idle, Seen
  <2> HIDE DEF y
  <2>2. op = "enroll" => Enrolling(y)
    BY <1>1, <1>2, <2>1 DEF Enrolling, Provisions
  <2>3. Removing(y)
    BY <1>1, <1>2, <2>1, Nulls DEF Removing, Removes
  <2>4. Knows(y)
    BY <1>1, <1>2, <2>1, <2>2, <2>3 DEF Knows
  <2> QED BY <2>1, <2>4, KnewLasts
<1>3. ASSUME NEW op \in {"revoke", "reset"}, ChangeLifecycle(p, k, op) PROVE Knows(w[p])'
  <2> DEFINE y == [Idle EXCEPT !.op = op, !.key = k, !.dev = None, !.row = Seen(Disabled(k, op)), !.pc = RemovalOf(rows[k])]
  <2>1. w'[p] = y /\ y.op = op /\ y.key = k /\ y.pc = RemovalOf(rows[k]) /\ y.row = Seen(Disabled(k, op))
    BY <1>0, <1>3 DEF ChangeLifecycle, Start, Idle
  <2> HIDE DEF y
  <2>2. rows' = [rows EXCEPT ![k] = Disabled(k, op)]
    BY <1>3 DEF ChangeLifecycle, Disable
  <2> QED BY <2>1, <2>2, DenierKnows
<1>4. CASE ProxyMcp(p, k)
  BY <1>0, <1>2, <1>4 DEF ProxyMcp, Consistent, Enabled
<1>5. ASSUME NEW d \in Devices, Enroll(p, k, d) PROVE Knows(w[p])'
  BY <1>0, <1>2, <1>5 DEF Enroll, BoundTo, Consistent
<1>6. ASSUME NEW d \in Devices, ReleaseDevice(p, k, d) PROVE Knows(w[p])'
  <2>1. rows[k].binding # None
    <3>1. rows[k].binding \in Bindings
      BY <1>6 DEF ReleaseDevice, Identified, TunnelInv, GatewayInv, GatewayTypeOK
    <3> QED BY <3>1, Nulls
  <2> QED BY <1>2, <1>6, <2>1 DEF ReleaseDevice, Identified, Enabled
<1>7. ASSUME NEW d \in Devices, SuspendDevice(p, k, d) \/ ResumeDevice(p, k, d) PROVE Knows(w[p])'
  BY <1>2, <1>7 DEF SuspendDevice, ResumeDevice
<1>8. CASE Scan(p, k)
  <2>1. CASE rows[k].state = "provisioning"
    BY <1>0, <1>2, <1>8, <2>1 DEF Scan, Consistent, Enabled
  <2>2. CASE rows[k].state # "provisioning"
    <3>1. rows[k].cleanup /\ rows[k].state \notin Enabled
      BY <1>0, <1>8, <2>2 DEF Scan, CleanupCandidates, Consistent
    <3> QED BY <1>2, <1>8, <2>2, <3>1 DEF Scan, RemovalOf
  <2> QED BY <2>1, <2>2
<1> QED BY <1>3, <1>4, <1>5, <1>6, <1>7, <1>8 DEF Begins

LEMMA StepKnows ==
    ASSUME TunnelInv, TablesStep, CloudStep, NEW p \in Procs, Handled(p),
           GoesOn(p) \/ \E k \in Keys : Begins(p, k)
    PROVE  Knows(w[p])'
BY EnrolKnows, ProvisionKnows, RemovalKnows, OthersKnow, BeginKnows DEF GoesOn, HandlerStep

-----------------------------------------------------------------------------
(* Who has charge of a tunnel.                                             *)

\* Only POST cfd_tunnel brings a tunnel to life.
LEMMA NoneRises ==
    ASSUME TunnelInv, NEW p \in Procs, GoesOn(p), ~EnrollPost(p), ~PostLost(p), NEW t \in Tunnels, Live(t)'
    PROVE  Live(t)
<1>1. tun \in [Tunnels -> Tunnel]
  BY Account
<1>2. CASE UNCHANGED tun
  BY <1>2 DEF Live
<1>3. CASE \/ EnrollPut(p) \/ EnrollRecord(p) \/ EnrollAnswer(p) \/ Remove410(p) \/ RemoveRotate(p)
           \/ RemoveDisconnect(p) \/ RemoveDelete(p) \/ RemoveRecord(p)
  <2>1. CASE EnrollPut(p) \/ Remove410(p)
    BY <1>1, <2>1 DEF EnrollPut, Remove410, PutIngress, Live, Tunnel, cloudVars
  <2>2. CASE EnrollRecord(p) \/ RemoveRecord(p)
    BY <1>2, <2>2 DEF EnrollRecord, RemoveRecord, PutRecord, DeleteRecord, cloudVars
  <2>3. CASE EnrollAnswer(p)
    BY <1>1, <2>3 DEF EnrollAnswer, HandToken, Live, Tunnel
  <2>4. CASE RemoveRotate(p)
    BY <1>1, <2>4 DEF RemoveRotate, RotateSecret, Live, Tunnel, cloudVars
  <2>5. CASE RemoveDisconnect(p)
    BY <1>1, <2>5 DEF RemoveDisconnect, DropConnections, Live, Tunnel
  <2>6. CASE RemoveDelete(p)
    BY <1>1, <2>6 DEF RemoveDelete, DeleteTunnel, Live, Tunnel
  <2> QED BY <1>3, <2>1, <2>2, <2>3, <2>4, <2>5, <2>6
<1>4. CASE \/ EnrollBind(p) \/ EnrollReadBack(p) \/ EnrollFind(p) \/ EnrollSave(p) \/ EnrollToken(p)
           \/ EnrollActivate(p) \/ RemoveFind(p) \/ RemoveList(p) \/ Finish(p) \/ ReleaseDisable(p)
           \/ ResumeProbe(p) \/ ResumeReport(p) \/ SetDeviceAccess(p) \/ ProxyForward(p)
           \/ ProxyRespond(p) \/ ScanClaim(p) \/ Fail(p)
           \/ \E v \in Versions : DowngradeUnreported(p, v)
  BY <1>2, <1>4 DEF EnrollBind, EnrollReadBack, EnrollFind, EnrollSave, EnrollToken, EnrollActivate,
       RemoveFind, RemoveList, Finish, ReleaseDisable, ResumeProbe, ResumeReport, SetDeviceAccess,
       ProxyForward, ProxyRespond, ScanClaim, Fail, DowngradeUnreported, cloudVars
<1> QED BY <1>3, <1>4 DEF GoesOn, HandlerStep

Charging == {"save", "rmFind", "rm410", "rmRotate", "rmDisconnect", "rmDelete"}

\* A charge is not laid down before the row names the tunnel or it is deleted.
LEMMA ChargeKept ==
    ASSUME TunnelInv, CloudStep, NEW p \in Procs,
           \/ EnrollSave(p) \/ RemoveFind(p) \/ Remove410(p) \/ RemoveRotate(p) \/ RemoveDisconnect(p)
           \/ RemoveDelete(p),
           NEW t \in Tunnels, Charge(w[p], t), Live(t), Live(t)'
    PROVE  (\E k \in Keys : rows'[k].tunnel = t) \/ Charge(w[p], t)'
<1>0. w \in [Procs -> Handlers] /\ tun \in [Tunnels -> Tunnel] /\ t # None
  BY Account, Nulls DEF TunnelInv, GatewayInv, HandlersOK
<1>1. PICK x \in Handlers : x = w[p]
  BY <1>0
<1>2. /\ x.row.binding = tun[t].of /\ x.row \in SeenRow
      /\ \/ x.pc \in {"save", "rm410", "rmRotate", "rmDisconnect", "rmDelete"} /\ x.tunnel = t
         \/ x.pc = "rmFind" /\ x.row.tunnel = t
  BY <1>1 DEF Charge, Handlers
<1>3. tun'[t].of = x.row.binding
  <2>1. tun[t].of # None
    BY Account
  <2> QED BY <1>2, <2>1 DEF CloudStep
<1>4. ASSUME NEW pc \in {"rm410", "rmRotate", "rmDisconnect", "rmDelete"}, w'[p].pc = pc, w'[p].tunnel = t,
             w'[p].row = x.row
      PROVE  Charge(w[p], t)'
  BY <1>3, <1>4 DEF Charge
<1>5. CASE EnrollSave(p)
  <2>1. x.pc = "save" /\ x.tunnel = t /\ x.key \in Keys
    BY <1>1, <1>2, <1>5, Handling DEF EnrollSave
  <2>2. CASE SaveTunnel(x.key, x.row.binding, t)
    <3>1. rows'[x.key].tunnel = t
      BY <2>1, <2>2, TheRow DEF SaveTunnel, Row
    <3> QED BY <2>1, <3>1
  <2>3. CASE Cancel(p)
    <3> DEFINE r == [x.row EXCEPT !.tunnel = t]
    <3>1. r.binding = x.row.binding /\ r.tunnel = t
      BY <1>2 DEF SeenRow
    <3> HIDE DEF r
    <3>2. w'[p].pc = "rmFind" /\ w'[p].row = r
      BY <1>0, <1>1, <2>1, <2>3 DEF Cancel, Handlers, r
    <3> QED BY <1>3, <3>1, <3>2 DEF Charge
  <2> QED BY <1>1, <1>5, <2>1, <2>2, <2>3 DEF EnrollSave
<1>6. CASE RemoveFind(p)
  <2>1. x.row.tunnel = t /\ Lookup(x.row) = {t}
    BY <1>0, <1>1, <1>2, <1>6 DEF RemoveFind, Lookup
  <2>2. w' = [w EXCEPT ![p] = [@ EXCEPT !.pc = "rm410", !.tunnel = t]]
    BY <1>1, <1>6, <2>1 DEF RemoveFind
  <2> QED BY <1>0, <1>1, <1>4, <2>2 DEF Handlers
<1>7. CASE Remove410(p) \/ RemoveRotate(p) \/ RemoveDisconnect(p)
  <2>1. x.tunnel = t
    BY <1>1, <1>2, <1>7 DEF Remove410, RemoveRotate, RemoveDisconnect
  <2>2. Goto(p, "rmRotate") \/ Goto(p, "rmDisconnect") \/ Goto(p, "rmDelete")
    BY <1>1, <1>7, <2>1 DEF Remove410, RemoveRotate, RemoveDisconnect
  <2> QED BY <1>0, <1>1, <1>4, <2>1, <2>2 DEF Goto, Handlers
<1>8. CASE RemoveDelete(p)
  <2>1. x.tunnel = t
    BY <1>1, <1>2, <1>8 DEF RemoveDelete
  <2> QED BY <1>0, <1>1, <1>8, <2>1 DEF RemoveDelete, DeleteTunnel, Live, Tunnel
<1> QED BY <1>5, <1>6, <1>7, <1>8

LEMMA StepCharges ==
    ASSUME TunnelInv, CloudStep, NEW p \in Procs, GoesOn(p) \/ \E k \in Keys : Begins(p, k)
    PROVE  Charges(p)
<1>0. faults \in Nat /\ w \in [Procs -> Handlers] /\ tun \in [Tunnels -> Tunnel]
  BY ProcessAssumption, Account DEF TunnelInv, GatewayInv, GatewayTypeOK, HandlersOK
<1>1. ASSUME faults < MaxFaults, faults' = faults + 1 PROVE Charges(p)
  BY <1>0, <1>1 DEF Charges
<1>2. ASSUME UNCHANGED faults, w[p].pc \notin Charging, \A t \in Tunnels : Live(t)' => Live(t) \/ Charge(w[p], t)'
      PROVE  Charges(p)
  BY <1>2 DEF Charges, Charge, Charging
<1>3. ASSUME NEW k \in Keys, Begins(p, k) PROVE Charges(p)
  <2>1. w[p] = Idle /\ UNCHANGED <<tun, faults>>
    BY <1>3 DEF Begins, ChangeLifecycle, ProxyMcp, Enroll, ReleaseDevice, SuspendDevice, ResumeDevice, Scan,
         Start, cloudVars
  <2> QED BY <1>2, <2>1 DEF Idle, Charging, Live
<1>4. CASE PostLost(p) \/ Fail(p) \/ \E v \in Versions : DowngradeUnreported(p, v)
  BY <1>1, <1>4 DEF PostLost, Fail, DowngradeUnreported
<1>5. CASE EnrollPost(p)
  <2>1. CASE UNCHANGED cloudVars
    BY <1>2, <1>5, <2>1 DEF EnrollPost, Charging, cloudVars, Live
  <2>2. ASSUME NEW u \in Tunnels, CreateTunnel(w[p].row.binding, u),
               w' = [w EXCEPT ![p] = [@ EXCEPT !.pc = "save", !.tunnel = u]]
        PROVE  Charges(p)
    <3>1. \A t \in Tunnels : t # u => tun'[t] = tun[t]
      BY <1>0, <2>2 DEF CreateTunnel
    <3>2. tun'[u].of = w[p].row.binding
      BY <1>0, <2>2 DEF CreateTunnel, UnusedTunnel
    <3>3. w'[p].pc = "save" /\ w'[p].tunnel = u /\ w'[p].row = w[p].row
      BY <1>0, <2>2 DEF Handlers
    <3>4. Charge(w[p], u)'
      BY <3>2, <3>3 DEF Charge
    <3>5. ASSUME NEW t \in Tunnels, Live(t)' PROVE Live(t) \/ Charge(w[p], t)'
      <4>1. CASE t = u
        BY <3>4, <4>1
      <4> QED BY <3>1, <3>5, <4>1 DEF Live
    <3> QED BY <1>2, <1>5, <3>5 DEF EnrollPost, Charging
  <2> QED BY <1>5, <2>1, <2>2 DEF EnrollPost
<1>6. CASE GoesOn(p) /\ ~EnrollPost(p) /\ ~PostLost(p)
  <2>1. \A t \in Tunnels : Live(t)' => Live(t)
    BY <1>6, NoneRises
  <2>2. CASE \/ EnrollSave(p) \/ RemoveFind(p) \/ Remove410(p) \/ RemoveRotate(p) \/ RemoveDisconnect(p)
             \/ RemoveDelete(p)
    <3>1. UNCHANGED faults
      BY <2>2 DEF EnrollSave, RemoveFind, Remove410, RemoveRotate, RemoveDisconnect, RemoveDelete
    <3>2. ASSUME NEW t \in Tunnels, Live(t)'
          PROVE  \/ \E k \in Keys : rows'[k].tunnel = t
                 \/ Charge(w[p], t)'
                 \/ Live(t) /\ ~Charge(w[p], t)
      BY <2>1, <2>2, <3>2, ChargeKept
    <3> QED BY <3>1, <3>2 DEF Charges
  <2>3. CASE \/ EnrollBind(p) \/ EnrollReadBack(p) \/ EnrollFind(p) \/ EnrollPut(p) \/ EnrollRecord(p)
             \/ EnrollToken(p) \/ EnrollActivate(p) \/ EnrollAnswer(p) \/ RemoveList(p) \/ RemoveRecord(p)
             \/ Finish(p) \/ ReleaseDisable(p) \/ ResumeProbe(p) \/ ResumeReport(p) \/ SetDeviceAccess(p)
             \/ ProxyForward(p) \/ ProxyRespond(p) \/ ScanClaim(p)
    <3>1. UNCHANGED faults /\ w[p].pc \notin Charging
      BY <2>3 DEF EnrollBind, EnrollReadBack, EnrollFind, EnrollPut, EnrollRecord, EnrollToken, EnrollActivate,
           EnrollAnswer, RemoveList, RemoveRecord, Finish, ReleaseDisable, ResumeProbe, ResumeReport,
           SetDeviceAccess, ProxyForward, ProxyRespond, ScanClaim, Charging
    <3> QED BY <1>2, <2>1, <3>1
  <2> QED BY <1>4, <1>6, <2>2, <2>3 DEF GoesOn, HandlerStep
<1> QED BY <1>3, <1>4, <1>5, <1>6

-----------------------------------------------------------------------------
(* The invariant.                                                          *)

\* A step that no invocation takes.
LEMMA WorldKeeps ==
    ASSUME TunnelInv, GatewayInv', TablesStep, AccountStep, UNCHANGED <<w, faults>>,
           \A t \in Tunnels : Live(t)' => Live(t)
    PROVE  TunnelInv'
<1>0. CloudStep
  BY DEF AccountStep
<1>1. \A k \in Keys : RowOK(k)'
  BY <1>0, RowKept
<1>2. ASSUME NEW q \in Procs PROVE Knows(w[q])'
  <2>1. PICK x : x = w[q]
    OBVIOUS
  <2>2. w'[q] = x /\ Knows(x)'
    BY <1>0, <2>1, StillKnows
  <2> QED BY <2>2, KnowsNow
<1>3. Accounted'
  <2> SUFFICES ASSUME faults = 0, NEW t \in Tunnels, Live(t)'
               PROVE  (\E k \in Keys : rows'[k].tunnel = t) \/ \E q \in Procs : Charge(w[q], t)'
    BY DEF Accounted
  <2>1. Live(t) /\ tun[t].of # None
    BY Account
  <2>2. (\E k \in Keys : rows[k].tunnel = t) \/ \E q \in Procs : Charge(w[q], t)
    BY <2>1 DEF TunnelInv, Accounted
  <2>3. ASSUME NEW k \in Keys, rows[k].tunnel = t PROVE rows'[k].tunnel = t
    BY <2>1, <2>3, Nulls DEF TablesStep, RowStep
  <2>4. ASSUME NEW q \in Procs, Charge(w[q], t) PROVE Charge(w[q], t)'
    BY <1>0, <2>1, <2>4 DEF CloudStep, Charge
  <2> QED BY <2>2, <2>3, <2>4
<1> QED BY <1>1, <1>2, <1>3 DEF TunnelInv, AccountStep

LEMMA TunnelStart == GatewayInit => TunnelInv
<1> SUFFICES ASSUME GatewayInit PROVE TunnelInv
  OBVIOUS
<1>1. GatewayInv
  BY GatewayInvInit
<1>2. /\ \A t \in Tunnels : tun[t] = UnusedTunnel
      /\ \A b \in Bindings : dns[b] = None
      /\ \A k \in Keys : rows[k] = NoRow
      /\ \A p \in Procs : w[p] = Idle
  BY DEF GatewayInit, StoreInit, CloudInit
<1>3. ASSUME NEW t \in Tunnels PROVE TunnelOK(t) /\ ~Live(t)
  <2>1. /\ tun[t].of = None /\ ~tun[t].live /\ tun[t].ingress = "none" /\ ~tun[t].rotated
        /\ tun[t].tokens = {} /\ tun[t].conn = {}
    BY <1>2 DEF UnusedTunnel
  <2> QED BY <1>2, <2>1 DEF TunnelOK, Live
<1>4. ASSUME NEW k \in Keys PROVE RowOK(k)
  <2>1. rows[k].tunnel = None /\ rows[k].state = "absent"
    BY <1>2 DEF NoRow, BlankRow
  <2> QED BY <2>1 DEF RowOK, Enabled
<1>5. ASSUME NEW p \in Procs PROVE Knows(w[p])
  BY <1>2 DEF Knows, Removing, Removes, Idle, Nothing, Seen, NoRow, BlankRow
<1> QED BY <1>1, <1>2, <1>3, <1>4, <1>5 DEF TunnelInv, OneTunnel, RecordOK, Accounted

LEMMA TunnelStep == TunnelInv /\ [GatewayNext]_gatewayVars => TunnelInv'
<1> SUFFICES ASSUME TunnelInv, [GatewayNext]_gatewayVars PROVE TunnelInv'
  OBVIOUS
<1>0. GatewayInv /\ GatewayInv' /\ [StoreNext]_storeVars
  BY GatewayInvStep, StepIsStore DEF TunnelInv
<1>1. TablesStep /\ AccountStep
  BY StepTables, StepAccount
<1>2. ASSUME NEW p \in Procs, GoesOn(p) \/ \E k \in Keys : Begins(p, k) PROVE TunnelInv'
  <2>1. Handled(p)
    BY <1>0, <1>2, EnrolHandled, OthersHandled, BeginsHandled DEF GoesOn, HandlerStep
  <2>2. Others(p)
    BY <1>0, <2>1, HandledKeeps
  <2>3. Knows(w[p])' /\ Charges(p)
    BY <1>1, <1>2, <2>1, StepKnows, StepCharges DEF AccountStep
  <2> QED BY <1>0, <1>1, <2>2, <2>3, TurnKeeps DEF AccountStep
<1>3. CASE Direct
  <2>1. UNCHANGED <<w, faults>>
    BY <1>3 DEF Direct, IssueKey, DeleteRevokedKey, ReportDeviceVersion, Connector, DeleteAllRevokedKeys, Clock
  <2>2. UNCHANGED tun \/ \E d \in Devices, t \in Tunnels : Connect(d, t) \/ Disconnect(d, t)
    BY <1>3 DEF Direct, IssueKey, DeleteRevokedKey, ReportDeviceVersion, Connector, DeleteAllRevokedKeys, Clock, cloudVars
  <2>3. \A t \in Tunnels : Live(t)' => Live(t)
    BY <2>2, Account DEF Connect, Disconnect, Live, Tunnel
  <2> QED BY <1>0, <1>1, <2>1, <2>3, WorldKeeps
<1>4. CASE UNCHANGED gatewayVars
  BY <1>0, <1>1, <1>4, WorldKeeps DEF gatewayVars, Live
<1> QED BY <1>2, <1>3, <1>4, GatewayCases

\* The inductive invariant: what is true of the tunnels, the records and the
\* rows together, and what each invocation knows of them at the place it is at.
THEOREM TunnelInvariant == GatewaySpec => []TunnelInv
BY TunnelStart, TunnelStep, PTL DEF GatewaySpec

-----------------------------------------------------------------------------
(* The theorems.                                                           *)

\* Whichever handlers overlap and whatever fails between their calls: an enabled
\* key keeps its tunnel, an active one is provisioned, a tunnel stays quiet until
\* it is deleted, and without a fault none is left behind.
THEOREM TunnelsFollowRowsHolds == GatewaySpec => []TunnelsFollowRows
<1>1. ASSUME TunnelInv PROVE TunnelsFollowRows
  <2>0. GatewayTypeOK /\ StoreInv
    BY <1>1 DEF TunnelInv, GatewayInv
  <2>1. EnabledTunnelLive
    <3> SUFFICES ASSUME NEW k \in Keys, rows[k].state \in Enabled, rows[k].tunnel # None
                 PROVE  /\ Live(rows[k].tunnel) /\ tun[rows[k].tunnel].of = rows[k].binding
                        /\ tun[rows[k].tunnel].ingress # "gone"
      BY DEF EnabledTunnelLive
    <3>1. RowOK(k) /\ rows[k].tunnel \in Tunnels
      BY <1>1, TheRow DEF Row
    <3>2. Live(rows[k].tunnel) /\ tun[rows[k].tunnel].of = rows[k].binding /\ Serving(rows[k].binding)
      BY <3>1 DEF RowOK, Serving
    <3>3. TunnelOK(rows[k].tunnel)
      BY <1>1, <3>1 DEF TunnelInv
    <3> QED BY <3>2, <3>3 DEF TunnelOK
  <2>2. ActiveIsProvisioned
    BY <1>1, <2>0 DEF ActiveIsProvisioned, TunnelInv, RowOK
  <2>3. QuietUntilDeleted
    BY <1>1 DEF QuietUntilDeleted, TunnelInv, Knows, Removing
  <2>4. NoOrphanTunnel
    <3> SUFFICES ASSUME faults = 0, NEW t \in Tunnels, Live(t), ~Bound(tun[t].of)
                 PROVE  \E p \in Procs : w[p].row.binding = tun[t].of
      BY DEF NoOrphanTunnel
    <3>1. ASSUME NEW k \in Keys, rows[k].tunnel = t PROVE FALSE
      BY <1>1, <3>1, Nulls DEF TunnelInv, RowOK, Bound
    <3> QED BY <1>1, <3>1 DEF TunnelInv, Accounted, Charge
  <2> QED BY <2>1, <2>2, <2>3, <2>4 DEF TunnelsFollowRows
<1> QED BY <1>1, TunnelInvariant, PTL

\* A key is issued again, or its revocation recorded as cleaned up, only when the
\* tunnel it had is deleted.
THEOREM CleanupIsRealHolds == GatewaySpec => CleanupIsReal
<1> DEFINE Real == \A k \in Keys : CompletedCleanup(k) /\ rows[k].tunnel # None => ~Live(rows[k].tunnel)
<1>1. ASSUME TunnelInv, [GatewayNext]_gatewayVars PROVE Real
  <2> SUFFICES ASSUME NEW k \in Keys, CompletedCleanup(k), rows[k].tunnel # None, Live(rows[k].tunnel)
               PROVE  FALSE
    OBVIOUS
  <2>1. TablesStep /\ RowStep(k)
    BY <1>1, StepTables DEF TablesStep
  <2>2. rows'[k].tunnel = rows[k].tunnel
    BY <2>1 DEF RowStep
  <2>3. CASE rows'[k].state = "issued"
    <3>1. rows'[k] = BlankRow("issued", rows'[k].at)
      BY <2>1, <2>3 DEF TablesStep, StoreInv, RowShape, Consistent
    <3>2. rows'[k].tunnel = None
      BY <3>1 DEF BlankRow
    <3> QED BY <2>2, <3>2
  <2>4. CASE rows'[k].state = "revoked" /\ ~rows'[k].cleanup
    BY <2>1, <2>2, <2>4 DEF RowStep
  <2> QED BY <2>3, <2>4 DEF CompletedCleanup
<1>2. TunnelInv /\ [GatewayNext]_gatewayVars => [Real]_gatewayVars
  BY <1>1
<1> QED BY <1>2, TunnelInvariant, PTL DEF GatewaySpec, CleanupIsReal

\* A request goes to the device its key was bound to when it was admitted, and to
\* none once the cleanup of that binding is complete.
THEOREM DeliveredWhereAuthorisedHolds == GatewaySpec => DeliveredWhereAuthorised
<1> DEFINE Right == \A p \in Requests : w[p].pc = "forward" /\ w'[p].pc = "delivered" =>
        /\ w'[p].dev = w[p].row.device
        /\ Bound(w[p].row.binding)
<1>1. ASSUME TunnelInv, [GatewayNext]_gatewayVars PROVE Right
  <2> SUFFICES ASSUME NEW p \in Requests, w[p].pc = "forward", w'[p].pc = "delivered"
               PROVE  w'[p].dev = w[p].row.device /\ Bound(w[p].row.binding)
    OBVIOUS
  <2>0. p \in Procs /\ w \in [Procs -> Handlers] /\ GatewayInv
    BY <1>1 DEF Procs, TunnelInv, GatewayInv, HandlersOK
  <2>1. PICK q \in Procs : Handled(q) /\ (GoesOn(q) \/ \E j \in Keys : Begins(q, j))
    BY <1>1, <2>0, StepMoved DEF Moved
  <2>2. q = p
    BY <1>1, <2>0, <2>1, StepIsStore, HandledKeeps DEF Others
  <2>3. ~(\E j \in Keys : Begins(p, j))
    <3>1. w[p] # Idle
      BY DEF Idle
    <3> QED BY <3>1 DEF Begins, ChangeLifecycle, ProxyMcp, Enroll, ReleaseDevice, SuspendDevice,
              ResumeDevice, Scan, Start
  <2>4. ~Fail(p) /\ ~ScanClaim(p) /\ ~PostLost(p) /\ ~(\E v \in Versions : DowngradeUnreported(p, v))
    <3>1. Idle.pc # "delivered"
      BY DEF Idle
    <3> QED BY <2>0, <3>1 DEF Fail, End, ScanClaim, PostLost, DowngradeUnreported
  <2>5. HandlerStep(p)
    BY <2>1, <2>2, <2>3, <2>4 DEF GoesOn
  <2>6. ProxyForward(p)
    BY <2>5 DEF HandlerStep, EnrollBind, EnrollReadBack, EnrollFind, EnrollPost,
         EnrollSave, EnrollPut, EnrollRecord, EnrollToken, EnrollActivate, EnrollAnswer, RemoveFind, Remove410,
         RemoveRotate, RemoveDisconnect, RemoveDelete, RemoveList, RemoveRecord, Finish, ReleaseDisable,
         ResumeProbe, ResumeReport, SetDeviceAccess, ProxyRespond
  <2>7. PICK d \in Devices : Reaches(w[p].row.binding, d) /\ w'[p].dev = d
    <3>1. ~End(p)
      BY <2>0 DEF End, Idle
    <3> QED BY <2>0, <2>6, <3>1 DEF ProxyForward, Handlers
  <2>8. /\ w[p].row.binding \in Bindings /\ w[p].row.device \in Devices
        /\ minted[w[p].row.binding] = <<w[p].key, w[p].row.device>>
    BY <1>1, <2>0, Handling DEF Knows
  <2>9. PICK t \in Tunnels : /\ dns[w[p].row.binding] = t /\ Live(t) /\ tun[t].ingress = "serve"
                             /\ d \in tun[t].conn
    BY <2>7 DEF Reaches
  <2>10. TunnelOK(t) /\ tun[t].of = w[p].row.binding
    BY <1>1, <2>8, <2>9, Nulls DEF TunnelInv, RecordOK
  <2>11. d = w[p].row.device
    BY <2>8, <2>9, <2>10 DEF TunnelOK
  <2>12. Bound(w[p].row.binding)
    <3>1. PICK k \in Keys : rows[k].tunnel = t
      BY <2>9, <2>10 DEF TunnelOK
    <3>2. rows[k].binding = w[p].row.binding
      BY <1>1, <2>10, <3>1, Nulls DEF TunnelInv, RowOK
    <3> QED BY <3>2 DEF Bound
  <2> QED BY <2>7, <2>11, <2>12
<1>2. TunnelInv /\ [GatewayNext]_gatewayVars => [Right]_gatewayVars
  BY <1>1
<1> QED BY <1>2, TunnelInvariant, PTL DEF GatewaySpec, DeliveredWhereAuthorised
=============================================================================
