---------------------------- MODULE DeviceProofs ----------------------------
(***************************************************************************)
(* A device with its Gateway and its project root, for any number of keys, *)
(* bindings, roots and faults: a pause holds until it is taken back, no    *)
(* request is admitted before the Gateway has probed the device, and what  *)
(* state.json says is true.                                                *)
(*                                                                         *)
(* The installers of that device, for any number of them, of kills and of  *)
(* failed commands: their lock excludes, and what they do under it is      *)
(* safe.  LockInv is inductive for the lock alone.  An installer's steps   *)
(* under the lock leave the lock as it is, so that at most one installer   *)
(* works; DistributionInv says for that one what its files and services    *)
(* are at each of its steps.                                               *)
(***************************************************************************)
EXTENDS ProjectRoot, Installer, TLAPS

-----------------------------------------------------------------------------
(* What holds whatever the operation.                                      *)

Still == runtime.phase \notin {"loading", "serving"}
PauseOK ==
    /\ intent => Suspended
    /\ closed => intent /\ Still

LateEnrolment(k) == \E r \in late : r.kind = "enroll" /\ r.key = k
Held(k) == k \in unsure \/ LateEnrolment(k)
\* A key the Gateway holds for this device has an enrolment that was not recorded,
\* or is the one on disk with the binding that was, completely provisioned.
Accounted(k) ==
    gw[k].mine =>
        \/ Held(k)
        \/ k = disk.key /\ gw[k].binding = disk.binding /\ gw[k].state # "provisioning"
MineIsBound == \A k \in Keys : gw[k].mine => gw[k].binding # None
LateAsked == \A r \in late : r.kind # "none" /\ r.key \in Keys

DeviceOK == PauseOK /\ MineIsBound /\ LateAsked /\ \A k \in Keys : Accounted(k)

-----------------------------------------------------------------------------
(* What the operation relies on, by its place in its script.               *)

Script ==
    \/ op.name = "none" /\ op.pc = "end"
    \/ op.name = "setup" /\ op.pc \in {"stop", "enroll", "save", "install", "start"}
    \/ op.name = "repair" /\ op.pc \in {"enroll", "save", "remove", "install", "start"}
    \/ op.name = "replace" /\ op.pc \in {"preflight", "release", "forget"}
    \/ op.name = "pause" /\ op.pc = "close"
    \/ op.name = "resume" /\ op.pc \in {"deny", "start", "wait", "confirm", "undo"}
    \/ op.name = "restart" /\ op.pc = "start"
    \/ op.name = "root" /\ op.pc \in {"halt", "write", "rerun", "verify", "unhalt", "unwrite", "unstart", "unverify"}

\* The request that is waited for is the one this place has sent.
Asked ==
    /\ op.req.kind # "none" => op.req.key \in Keys
    /\ Waiting(op.req) =>
         \/ op.pc = "enroll" /\ op.req.kind = "enroll"
         \/ op.pc = "preflight" /\ op.req.kind = "preflight"
         \/ op.pc = "release" /\ op.req.kind = "release"
         \/ op.pc \in {"close", "deny", "undo"} /\ op.req.kind = "suspend"
         \/ op.pc = "confirm" /\ op.req.kind = "resume"
    /\ (op.pc = "release" /\ op.req.kind # "none") \/ op.pc \in {"deny", "confirm"} =>
         op.req.key = disk.key /\ op.req.binding = disk.binding

\* The key that is enrolled is on disk, and its answer becomes the record.
Enrols ==
    /\ op.pc \in {"enroll", "save"} => disk.key \in Keys /\ disk.key \in unsure /\ op.req.key = disk.key
    /\ op.pc = "enroll" => op.req.kind = "enroll"
    /\ (op.pc = "enroll" /\ Answered("ok")) \/ op.pc = "save" =>
         /\ op.req.binding # None /\ op.req.state \in {"active", "suspended"}
         /\ gw[disk.key].mine => \/ LateEnrolment(disk.key)
                                 \/ gw[disk.key].binding = op.req.binding /\ gw[disk.key].state # "provisioning"

\* A key is forgotten when the Gateway no longer holds it, or its enrolment is still held.
Replaces ==
    op.name = "replace" =>
        /\ disk.key \in Keys /\ op.key \in Keys
        /\ intent => op.keep
        /\ (op.pc = "release" /\ Released) \/ op.pc = "forget" => (gw[disk.key].mine => Held(disk.key))

Pauses == op.name = "pause" => intent /\ (op.local = "ok" => Still)

\* From its confirmed denial to the Gateway's probe a resume finds no request admitted.
Unprobed ==
    \/ op.pc = "deny" /\ Answered("ok")
    \/ op.pc \in {"start", "wait"}
    \/ op.pc = "confirm" /\ op.req.stage \in {"sent", "probed", "again"}
Denied ==
    op.name = "resume" =>
        /\ disk.key \in Keys
        /\ Unprobed /\ Known([key |-> disk.key, binding |-> disk.binding]) /\ (\A r \in late : r.kind # "resume") =>
             gw[disk.key].state \in {"suspended", "resetting"}

OperationOK == Script /\ Asked /\ Enrols /\ Replaces /\ Pauses /\ Denied

DeviceInv == DeviceTypeOK /\ DeviceOK /\ OperationOK

-----------------------------------------------------------------------------
(* The root.                                                               *)

RootTypeOK ==
    /\ root \in Roots /\ served \in Roots \cup {None} /\ astray \in BOOLEAN
    /\ Changing => from \in Roots /\ next \in Roots
\* What runs opened the root on disk, unless it did so inside a change; a change
\* that has stopped the runtime finds it stopped, or astray.
RootOK ==
    /\ runtime.phase \in {"off", "starting"} => served = None
    /\ ~astray /\ served # None => served = root
    /\ Changing /\ op.pc \in {"write", "unwrite"} /\ op.keep /\ served # None => astray

RootInv == DeviceInv /\ RootTypeOK /\ RootOK

-----------------------------------------------------------------------------
(* Types.                                                                  *)

OpType == [name : {"none", "setup", "replace", "repair", "pause", "resume", "restart", "root"},
           pc : {"end", "stop", "enroll", "save", "install", "start", "preflight", "release",
                 "forget", "remove", "close", "deny", "wait", "confirm", "undo", "halt", "write",
                 "rerun", "verify", "unhalt", "unwrite", "unstart", "unverify"},
           key : Keys \cup {None}, keep : BOOLEAN, local : {"due", "ok", "failed"},
           req : RequestType]
DiskType == [key : Keys \cup {None}, pending : Keys \cup {None},
             binding : Bindings \cup {None}, access : {"active", "suspended"}]
RowType == [state : {"issued", "provisioning", "active", "suspended", "resetting"},
            binding : Bindings \cup {None}, mine : BOOLEAN]
LocalTypeOK ==
    /\ {token, connector} \subseteq Bindings \cup {None}
    /\ entry \in {"none", "disabled", "enabled"}
    /\ runtime \in [phase : {"off", "starting", "loading", "serving"}, binding : Bindings \cup {None}]
    /\ faults \in 0 .. MaxFaults

LEMMA DeviceNumbers == MaxFaults \in Nat /\ None \notin Keys /\ None \notin Bindings
BY DeviceAssumption

LEMMA DeviceTypes ==
    DeviceTypeOK <=>
      /\ system \in Systems /\ disk \in DiskType /\ LocalTypeOK /\ op \in OpType /\ late \subseteq RequestType
      /\ gw \in [Keys -> RowType] /\ intent \in BOOLEAN /\ closed \in BOOLEAN /\ unsure \subseteq Keys
BY DEF DeviceTypeOK, LocalTypeOK, OpType, DiskType, RowType

LEMMA IdleTypes ==
    /\ NoRequest \in RequestType /\ Idle \in OpType /\ Stopped.phase = "off" /\ Unbound \in RowType
    /\ Stopped \in [phase : {"off", "starting", "loading", "serving"}, binding : Bindings \cup {None}]
    /\ Idle.name = "none" /\ Idle.pc = "end" /\ Idle.req = NoRequest /\ NoRequest.kind = "none" /\ NoRequest.stage = "ok"
    /\ Unbound.mine = FALSE
BY DEF Idle, NoRequest, OpType, RequestType, Stopped, Unbound, RowType

LEMMA RequestTypes ==
    ASSUME NEW kind \in {"enroll", "suspend", "resume", "release", "preflight"}, NEW k \in Keys \cup {None},
           NEW b \in Bindings \cup {None}
    PROVE  /\ Request(kind, k, b) \in RequestType /\ Request(kind, k, b).kind = kind
           /\ Request(kind, k, b).key = k /\ Request(kind, k, b).binding = b /\ Request(kind, k, b).stage = "sent"
BY IdleTypes DEF Request, NoRequest, RequestType

-----------------------------------------------------------------------------
(* What the processes of the device do.                                    *)

\* While a pause holds, nothing makes the runtime serve.
Calms == intent /\ Still => Still'

LEMMA JobsStop == ASSUME LocalTypeOK, StopJobs PROVE Still' /\ runtime' = Stopped /\ connector' = None
BY IdleTypes DEF StopJobs, Still

LEMMA StopsLocally ==
    ASSUME LocalTypeOK, NEW left \in {"none", "disabled", "enabled"}, UNCHANGED token,
           (Stops(left) /\ UNCHANGED faults) \/ StopFails(left)
    PROVE  LocalTypeOK' /\ Calms /\ (Stops(left) => Still')
<1>1. faults' \in 0 .. MaxFaults
  BY DeviceNumbers DEF LocalTypeOK, StopFails, Fault
<1>2. entry' \in {entry, left} /\ runtime' \in {runtime, Stopped} /\ connector' \in {connector, None}
  BY DEF Stops, StopJobs, StopFails
<1>3. Stops(left) => Still'
  BY JobsStop DEF Stops
<1> QED BY <1>1, <1>2, <1>3, IdleTypes DEF LocalTypeOK, Calms, Still

LEMMA StartsLocally ==
    ASSUME LocalTypeOK, UNCHANGED token, entry' \in {"none", "disabled", "enabled"}, faults' \in 0 .. MaxFaults, StartJobs
    PROVE  LocalTypeOK' /\ Calms
<1>1. [Stopped EXCEPT !.phase = "starting"] \in
         [phase : {"off", "starting", "loading", "serving"}, binding : Bindings \cup {None}]
      /\ [Stopped EXCEPT !.phase = "starting"].phase = "starting"
  BY DEF Stopped
<1> QED BY <1>1 DEF StartJobs, LocalTypeOK, Calms, Still

LEMMA FaultsAreBounded == ASSUME LocalTypeOK, Fault \/ UNCHANGED faults PROVE faults' \in 0 .. MaxFaults
BY DeviceNumbers DEF LocalTypeOK, Fault

-----------------------------------------------------------------------------
(* Frames.                                                                 *)

\* A step of the operation that changes neither the record nor the Gateway.
LEMMA OpMoves ==
    ASSUME DeviceInv, UNCHANGED <<system, disk, late, gw, historyVars>>, LocalTypeOK', Calms,
           op' \in OpType, OperationOK'
    PROVE  DeviceInv'
<1>1. UNCHANGED <<intent, closed, unsure>>
  BY DEF historyVars
<1>2. DeviceTypeOK'
  BY <1>1 DEF DeviceInv, DeviceTypeOK, LocalTypeOK, OpType
<1>3. PauseOK' /\ MineIsBound' /\ LateAsked'
  BY <1>1 DEF DeviceInv, DeviceOK, PauseOK, Suspended, MineIsBound, LateAsked, Calms
<1>4. \A k \in Keys : Accounted(k)'
  BY <1>1 DEF DeviceInv, DeviceOK, Accounted, Held, LateEnrolment
<1> QED BY <1>2, <1>3, <1>4 DEF DeviceInv, DeviceOK

\* The end of an operation relies on nothing.
LEMMA IdleIsOK == ASSUME op' = Idle PROVE op' \in OpType /\ OperationOK'
<1>1. op'.name = "none" /\ op'.pc = "end" /\ op'.req.kind = "none" /\ op'.req.stage = "ok"
  BY IdleTypes
<1>2. Script' /\ Asked'
  BY <1>1 DEF Script, Asked, Waiting
<1>3. Enrols' /\ Replaces' /\ Pauses' /\ Denied'
  BY <1>1 DEF Enrols, Replaces, Pauses, Denied, Answered
<1> QED BY <1>2, <1>3, IdleTypes DEF OperationOK

\* An operation that goes on to pc, and has nothing to rely on there.
LEMMA PlainIsOK ==
    ASSUME NEW name \in {"setup", "repair", "restart"}, NEW pc \in {"stop", "remove", "install", "start"},
           name = "setup" => pc # "remove", name = "repair" => pc # "stop", name = "restart" => pc = "start",
           op'.name = name, op'.pc = pc, ~Waiting(op.req)', op'.req.kind # "none" => op'.req.key \in Keys
    PROVE  OperationOK'
<1>1. Script' /\ Asked'
  BY DEF Script, Asked
<1>2. Enrols' /\ Replaces' /\ Pauses' /\ Denied'
  BY DEF Enrols, Replaces, Pauses, Denied
<1> QED BY <1>1, <1>2 DEF OperationOK

\* An operation that only waits while the processes move.
LEMMA WaitingIsOK ==
    ASSUME OperationOK, UNCHANGED <<disk, op, late, gw, historyVars>>, Calms
    PROVE  OperationOK'
<1>1. UNCHANGED <<intent, closed, unsure>>
  BY DEF historyVars
<1>2. Script' /\ Asked'
  BY DEF OperationOK, Script, Asked, Waiting
<1>3. Enrols' /\ Replaces'
  BY <1>1 DEF OperationOK, Enrols, Replaces, Answered, Released, LateEnrolment, Held
<1>4. Pauses' /\ Denied'
  BY <1>1 DEF OperationOK, Pauses, Denied, Unprobed, Answered, Known, Calms
<1> QED BY <1>2, <1>3, <1>4 DEF OperationOK

-----------------------------------------------------------------------------
(* The processes.                                                          *)

LEMMA JobsKeep ==
    ASSUME DeviceInv, JobsStart \/ RuntimeReads \/ RuntimeListens \/ RuntimeFails \/ LoseToken \/ Exit
    PROVE  DeviceInv'
<1>0. LocalTypeOK /\ disk \in DiskType /\ op \in OpType /\ (intent => Suspended)
  BY DeviceTypes DEF DeviceInv, DeviceOK, PauseOK
<1>1. UNCHANGED <<system, disk, op, late, gw, historyVars>>
  BY DEF JobsStart, RuntimeReads, RuntimeListens, RuntimeFails, LoseToken, Exit
<1>2. LocalTypeOK' /\ Calms
  <2>1. CASE JobsStart
    BY <1>0, <2>1, StartsLocally DEF JobsStart, LocalTypeOK
  <2>2. CASE RuntimeReads
    <3>1. runtime' \in [phase : {"off", "starting", "loading", "serving"}, binding : Bindings \cup {None}]
      BY <1>0, <2>2, IdleTypes DEF RuntimeReads, DiskType
    <3>2. intent => runtime' = Stopped
      BY <1>0, <2>2 DEF RuntimeReads, GateOpen
    <3> QED BY <1>0, <2>2, <3>1, <3>2, IdleTypes DEF RuntimeReads, LocalTypeOK, Calms, Still
  <2>3. CASE RuntimeListens
    BY <1>0, <2>3 DEF RuntimeListens, LocalTypeOK, Calms, Still
  <2>4. CASE RuntimeFails
    BY <1>0, <2>4, IdleTypes, FaultsAreBounded DEF RuntimeFails, LocalTypeOK, Calms, Still
  <2>5. CASE LoseToken
    BY <1>0, <2>5, FaultsAreBounded DEF LoseToken, LocalTypeOK, Calms, Still
  <2>6. CASE Exit
    <3>1. entry \in {"none", "disabled", "enabled"}
      BY <1>0 DEF LocalTypeOK
    <3> QED BY <1>0, <2>6, <3>1, StopsLocally DEF Exit
  <2> QED BY <2>1, <2>2, <2>3, <2>4, <2>5, <2>6
<1>3. OperationOK'
  BY <1>1, <1>2, WaitingIsOK DEF DeviceInv
<1> QED BY <1>0, <1>1, <1>2, <1>3, OpMoves

-----------------------------------------------------------------------------
(* Steps of operations that change neither the record nor the Gateway.     *)

LEMMA OpFacts ==
    ASSUME DeviceInv
    PROVE  /\ LocalTypeOK /\ disk \in DiskType /\ op \in OpType /\ op.req \in RequestType /\ OperationOK
           /\ entry \in {"none", "disabled", "enabled"} /\ PausedEntry \in {"none", "disabled", "enabled"}
           /\ op.req.kind # "none" => op.req.key \in Keys
           /\ op.pc \notin {"enroll", "preflight", "release", "close", "deny", "undo", "confirm"} => ~Waiting(op.req)
           /\ intent \in BOOLEAN /\ (intent => Suspended) /\ (disk.key # None => disk.key \in Keys)
BY DeviceTypes DEF DeviceInv, LocalTypeOK, PausedEntry, OpType, OperationOK, Asked, DeviceOK, PauseOK, DiskType

LEMMA EndsKeep ==
    ASSUME DeviceInv, End, UNCHANGED <<system, disk, late, gw, historyVars>>, LocalTypeOK', Calms
    PROVE  DeviceInv'
BY IdleIsOK, OpMoves DEF End

LEMMA LocalStays ==
    ASSUME LocalTypeOK, UNCHANGED <<token, entry, runtime, connector>>, Fault \/ UNCHANGED faults
    PROVE  LocalTypeOK' /\ Calms
BY FaultsAreBounded DEF LocalTypeOK, Calms, Still

\* The same operation at another place, with the same request.
LEMMA GoesTo ==
    ASSUME DeviceInv, NEW pc, Goto(pc),
           pc \in {"stop", "save", "install", "start", "forget", "remove", "wait",
                  "halt", "write", "rerun", "verify", "unhalt", "unwrite", "unstart", "unverify"}
    PROVE  /\ op' \in OpType /\ op'.pc = pc /\ op'.name = op.name /\ op'.req = op.req /\ op'.key = op.key
           /\ op'.keep = op.keep /\ op'.local = op.local
BY OpFacts DEF Goto, OpType

LEMMA PlainGoes ==
    ASSUME DeviceInv, NEW pc \in {"remove", "install", "start"}, Goto(pc), op.pc \in {"stop", "remove", "install"},
           pc # "remove", UNCHANGED <<system, disk, late, gw, historyVars>>, LocalTypeOK', Calms
    PROVE  DeviceInv'
<1>1. op' \in OpType /\ op'.pc = pc /\ op'.name = op.name /\ op'.req = op.req
  BY GoesTo
<1>2. op.name \in {"setup", "repair"} /\ ~Waiting(op.req)
  BY OpFacts DEF OperationOK, Script
<1>3. OperationOK'
  BY <1>1, <1>2, OpFacts, PlainIsOK DEF Waiting
<1> QED BY <1>1, <1>3, OpMoves

LEMMA StopPreviousKeeps == ASSUME DeviceInv, StopPrevious PROVE DeviceInv'
<1>1. LocalTypeOK' /\ Calms
  BY OpFacts, StopsLocally DEF StopPrevious
<1> QED BY <1>1, PlainGoes, EndsKeep DEF StopPrevious

LEMMA RepairRemovesKeeps == ASSUME DeviceInv, RepairRemoves PROVE DeviceInv'
<1>1. LocalTypeOK' /\ Calms
  BY OpFacts, StopsLocally DEF RepairRemoves
<1> QED BY <1>1, PlainGoes, EndsKeep DEF RepairRemoves, At

LEMMA FailuresEndKeep ==
    ASSUME DeviceInv, EnrolmentFails \/ PreflightFails \/ ReleaseFails \/ Resumed
    PROVE  DeviceInv'
<1>1. End /\ UNCHANGED <<localVars, late, gw, historyVars, faults>>
  BY DEF EnrolmentFails, PreflightFails, ReleaseFails, Resumed
<1> QED BY <1>1, EndsKeep, LocalStays, OpFacts DEF localVars

\* The binding of the answer is the one the record will name.
LEMMA SaveTokenKeeps == ASSUME DeviceInv, SaveToken PROVE DeviceInv'
<1>1. /\ op.pc = "enroll" /\ Answered("ok") /\ token' = op.req.binding /\ Goto("save")
      /\ UNCHANGED <<system, disk, entry, runtime, connector, late, gw, historyVars, faults>>
  BY DEF SaveToken
<1>2. /\ op' \in OpType /\ op'.pc = "save" /\ op'.name = op.name /\ op'.req = op.req
  BY <1>1, GoesTo
<1>3. LocalTypeOK' /\ Calms
  BY <1>1, OpFacts DEF LocalTypeOK, RequestType, Calms, Still
<1>4. op.name \in {"setup", "repair"} /\ ~Waiting(op.req)
  BY <1>1, OpFacts DEF OperationOK, Script, Waiting, Answered
<1>5. Script' /\ Asked'
  BY <1>2, <1>4, OpFacts DEF Script, Asked, Waiting
<1>6. Enrols'
  BY <1>1, <1>2, OpFacts DEF OperationOK, Enrols, Answered, LateEnrolment, historyVars
<1>7. Replaces' /\ Pauses' /\ Denied'
  BY <1>2, <1>4 DEF Replaces, Pauses, Denied
<1> QED BY <1>1, <1>2, <1>3, <1>5, <1>6, <1>7, OpMoves DEF OperationOK

LEMMA InstallKeeps == ASSUME DeviceInv, Install PROVE DeviceInv'
<1>1. op.pc = "install" /\ UNCHANGED <<system, disk, token, late, gw, historyVars>> /\ (End \/ Goto("start"))
  BY DEF Install
<1>2. LocalTypeOK' /\ Calms
  <2>1. CASE StopFails("none")
    BY <1>1, <2>1, OpFacts, StopsLocally
  <2>2. CASE Stops(IF system = "linux" THEN "disabled" ELSE "none") /\ UNCHANGED faults
    BY <1>1, <2>2, OpFacts, StopsLocally
  <2>3. CASE entry' = "enabled" /\ (StopJobs \/ UNCHANGED <<runtime, connector>>) /\ UNCHANGED faults
    <3>1. CASE StopJobs
      BY <1>1, <2>3, <3>1, OpFacts, JobsStop, IdleTypes DEF LocalTypeOK, Calms
    <3>2. CASE UNCHANGED <<runtime, connector>>
      BY <1>1, <2>3, <3>2, OpFacts DEF LocalTypeOK, Calms, Still
    <3> QED BY <2>3, <3>1, <3>2
  <2> QED BY <2>1, <2>2, <2>3 DEF Install
<1> QED BY <1>1, <1>2, PlainGoes, EndsKeep

LEMMA StartKeeps == ASSUME DeviceInv, Start PROVE DeviceInv'
<1>1. LocalTypeOK' /\ Calms
  <2>1. CASE StartJobs /\ UNCHANGED faults
    BY <2>1, OpFacts, StartsLocally DEF Start, LocalTypeOK
  <2>2. CASE Fault /\ UNCHANGED <<runtime, connector>>
    BY <2>2, OpFacts, LocalStays DEF Start
  <2> QED BY <2>1, <2>2 DEF Start
<1> QED BY <1>1, EndsKeep DEF Start

LEMMA RestartKeeps == ASSUME DeviceInv, Restart PROVE DeviceInv'
<1>1. LocalTypeOK' /\ Calms /\ UNCHANGED <<system, disk, late, gw, historyVars>>
  BY OpFacts, StopsLocally DEF Restart
<1>2. CASE op' = op
  <2>1. OperationOK'
    BY <1>1, <1>2, OpFacts, WaitingIsOK
  <2> QED BY <1>1, <1>2, <2>1, OpFacts, OpMoves
<1>3. CASE op' = [Idle EXCEPT !.name = "restart", !.pc = "start"]
  <2>1. op' \in OpType /\ op'.name = "restart" /\ op'.pc = "start" /\ op'.req = NoRequest
    BY <1>3, IdleTypes DEF OpType
  <2>2. OperationOK'
    BY <2>1, IdleTypes, PlainIsOK DEF Waiting
  <2> QED BY <1>1, <2>1, <2>2, OpMoves
<1> QED BY <1>2, <1>3 DEF Restart

-----------------------------------------------------------------------------
(* Key replacement, pause and resume, until something is recorded.         *)

LEMMA LocalHalfKeeps ==
    ASSUME DeviceInv, NEW left \in {"none", "disabled", "enabled"}, LocalHalf(left)
    PROVE  DeviceInv'
<1>1. LocalTypeOK' /\ Calms /\ UNCHANGED <<system, disk, token, late, gw, historyVars>>
  BY OpFacts, StopsLocally DEF LocalHalf
<1>2. PICK done \in {"ok", "failed"} :
         op' = [op EXCEPT !.local = done] /\ (done = "ok" => Stops(left) /\ UNCHANGED faults)
  BY DEF LocalHalf
<1>3. done = "ok" => Still'
  BY <1>1, <1>2, OpFacts, StopsLocally
<1>4. /\ op' \in OpType /\ op'.pc = op.pc /\ op'.name = op.name /\ op'.req = op.req /\ op'.key = op.key
      /\ op'.keep = op.keep /\ op'.local = done
  BY <1>2, OpFacts DEF OpType
<1>5. UNCHANGED <<intent, closed, unsure>>
  BY <1>1 DEF historyVars
<1>6. Script' /\ Asked' /\ Enrols'
  BY <1>1, <1>4, <1>5, OpFacts DEF OperationOK, Script, Asked, Enrols, Waiting, Answered, LateEnrolment
<1>7. Replaces' /\ Denied'
  BY <1>1, <1>4, <1>5, OpFacts DEF OperationOK, Replaces, Denied, Released, Held, LateEnrolment, Unprobed, Answered, Known
<1>8. Pauses'
  BY <1>3, <1>4, <1>5, OpFacts DEF OperationOK, Pauses
<1> QED BY <1>1, <1>4, <1>6, <1>7, <1>8, OpMoves DEF OperationOK

LEMMA LocalHalvesKeep == ASSUME DeviceInv, ReplaceStops \/ PauseStops PROVE DeviceInv'
BY LocalHalfKeeps, OpFacts DEF ReplaceStops, PauseStops

LEMMA PreflightKeeps ==
    ASSUME DeviceInv, NEW k \in Keys, SendPreflight(k), disk.key # None,
           UNCHANGED <<system, token, entry, runtime, connector, late, gw, intent, closed, faults>>
    PROVE  DeviceInv'
<1>1. UNCHANGED <<disk, unsure>> /\ disk.key \in Keys /\ (intent => Suspended) /\ Suspended \in BOOLEAN
  BY OpFacts DEF SendPreflight, Suspended
<1> DEFINE r == Request("preflight", k, None)
<1>2. r \in RequestType /\ r.kind = "preflight" /\ r.key = k
  BY RequestTypes
<1> HIDE DEF r
<1>3. op' = [Idle EXCEPT !.name = "replace", !.pc = "preflight", !.key = k, !.keep = Suspended, !.req = r]
  BY DEF SendPreflight, r
<1>4. op' \in OpType /\ op'.name = "replace" /\ op'.pc = "preflight" /\ op'.key = k /\ op'.keep = Suspended /\ op'.req = r
  BY <1>1, <1>2, <1>3, IdleTypes DEF OpType
<1>5. Script' /\ Asked' /\ Enrols' /\ Pauses' /\ Denied'
  BY <1>2, <1>4 DEF Script, Asked, Enrols, Pauses, Denied
<1>6. Replaces'
  BY <1>1, <1>4 DEF Replaces
<1>7. LocalTypeOK' /\ Calms
  BY OpFacts, LocalStays
<1> QED BY <1>1, <1>4, <1>5, <1>6, <1>7, OpMoves DEF OperationOK, historyVars

\* Without its token or its binding a device has nothing to use the old key with.
LEMMA DropTokenKeeps == ASSUME DeviceInv, DropToken PROVE DeviceInv'
<1>1. /\ op.pc = "release" /\ Released /\ ~Waiting(op.req) /\ token' = None /\ Goto("forget")
      /\ UNCHANGED <<system, disk, entry, runtime, connector, late, gw, historyVars, faults>>
  BY DEF DropToken
<1>2. /\ op' \in OpType /\ op'.pc = "forget" /\ op'.name = op.name /\ op'.req = op.req /\ op'.key = op.key
      /\ op'.keep = op.keep /\ op.name = "replace"
  BY <1>1, GoesTo, OpFacts DEF OperationOK, Script
<1>3. Script' /\ Asked' /\ Enrols' /\ Pauses' /\ Denied'
  BY <1>1, <1>2, OpFacts DEF Script, Asked, Enrols, Pauses, Denied, Waiting
<1>4. Replaces'
  BY <1>1, <1>2, OpFacts DEF OperationOK, Replaces, Held, LateEnrolment, historyVars
<1>5. LocalTypeOK' /\ Calms
  BY <1>1, OpFacts DEF LocalTypeOK, Calms, Still
<1> QED BY <1>1, <1>2, <1>3, <1>4, <1>5, OpMoves DEF OperationOK

\* A resume asks for the denial first, and for the admission of what is still denied.
LEMMA ResumeAsks == ASSUME DeviceInv, Resume \/ AskToResume PROVE DeviceInv'
<1>1. UNCHANGED <<system, disk, token, entry, runtime, connector, late, gw, historyVars, faults>>
  BY DEF Resume, AskToResume, localVars
<1>2. disk.key \in Keys /\ disk.binding \in Bindings \cup {None}
  BY OpFacts DEF Resume, AskToResume, At, OperationOK, Denied, DiskType
<1>3. LocalTypeOK' /\ Calms
  BY <1>1, OpFacts, LocalStays
<1>4. CASE Resume
  <2> DEFINE r == Request("suspend", disk.key, disk.binding)
  <2>1. r \in RequestType /\ r.kind = "suspend" /\ r.key = disk.key /\ r.binding = disk.binding /\ r.stage = "sent"
    BY <1>2, RequestTypes
  <2> HIDE DEF r
  <2>2. op' = [Idle EXCEPT !.name = "resume", !.pc = "deny", !.req = r]
    BY <1>4 DEF Resume, r
  <2>3. op' \in OpType /\ op'.name = "resume" /\ op'.pc = "deny" /\ op'.req = r
    BY <2>1, <2>2, IdleTypes DEF OpType
  <2>4. OperationOK'
    BY <1>1, <1>2, <2>1, <2>3 DEF OperationOK, Script, Asked, Enrols, Replaces, Pauses, Denied, Unprobed, Answered
  <2> QED BY <1>1, <1>3, <2>3, <2>4, OpMoves
<1>5. CASE AskToResume
  <2> DEFINE r == Request("resume", disk.key, disk.binding)
  <2>1. r \in RequestType /\ r.kind = "resume" /\ r.key = disk.key /\ r.binding = disk.binding /\ r.stage = "sent"
    BY <1>2, RequestTypes
  <2> HIDE DEF r
  <2>2. op' = [op EXCEPT !.pc = "confirm", !.req = r] /\ op.name = "resume" /\ op.pc = "wait"
    BY <1>5 DEF AskToResume, Send, At, r
  <2>3. op' \in OpType /\ op'.name = "resume" /\ op'.pc = "confirm" /\ op'.req = r
    BY <2>1, <2>2, OpFacts DEF OpType
  <2>4. Script' /\ Asked' /\ Enrols' /\ Replaces' /\ Pauses'
    BY <1>1, <1>2, <2>1, <2>3 DEF Script, Asked, Enrols, Replaces, Pauses
  <2>5. Denied'
    BY <1>1, <2>2, <2>3, OpFacts DEF OperationOK, Denied, Unprobed, Known
  <2> QED BY <1>1, <1>3, <2>3, <2>4, <2>5, OpMoves DEF OperationOK
<1> QED BY <1>4, <1>5

LEMMA AskAgainKeeps == ASSUME DeviceInv, AskAgain PROVE DeviceInv'
<1>1. /\ op.name = "resume" /\ op.pc = "confirm" /\ op.req.stage = "again" /\ Goto("wait")
      /\ UNCHANGED <<system, disk, token, entry, runtime, connector, late, gw, historyVars, faults>>
  BY DEF AskAgain, At, Answered, localVars
<1>2. op' \in OpType /\ op'.pc = "wait" /\ op'.name = "resume" /\ op'.req = op.req
  BY <1>1, GoesTo
<1>3. Script' /\ Asked' /\ Enrols' /\ Replaces' /\ Pauses'
  BY <1>1, <1>2, OpFacts DEF Script, Asked, Enrols, Replaces, Pauses, Waiting
<1>4. Denied'
  BY <1>1, <1>2, OpFacts DEF OperationOK, Denied, Unprobed, Known
<1>5. LocalTypeOK' /\ Calms
  BY <1>1, OpFacts, LocalStays
<1> QED BY <1>1, <1>2, <1>3, <1>4, <1>5, OpMoves DEF OperationOK

-----------------------------------------------------------------------------
(* Steps that change the record.                                           *)

\* What the Gateway holds is still accounted for when no enrolment is dropped.
LEMMA AccountStays ==
    ASSUME DeviceInv, UNCHANGED gw, unsure \subseteq unsure', late \subseteq late',
           \A k \in Keys : k = disk.key /\ gw[k].binding = disk.binding /\ gw[k].binding # None =>
              (k = disk'.key /\ gw[k].binding = disk'.binding) \/ k \in unsure'
    PROVE  MineIsBound' /\ \A k \in Keys : Accounted(k)'
BY DEF DeviceInv, DeviceOK, MineIsBound, Accounted, Held, LateEnrolment

LEMMA RecordMoves ==
    ASSUME DeviceInv, UNCHANGED <<system, gw>>, disk' \in DiskType, LocalTypeOK', op' \in OpType,
           late' \subseteq RequestType, intent' \in BOOLEAN, closed' \in BOOLEAN, unsure' \subseteq Keys,
           PauseOK', MineIsBound', LateAsked', \A k \in Keys : Accounted(k)', OperationOK'
    PROVE  DeviceInv'
<1>1. DeviceTypeOK'
  BY DEF DeviceInv, DeviceTypeOK, LocalTypeOK, DiskType, OpType
<1> QED BY <1>1 DEF DeviceInv, DeviceOK

LEMMA RecordFacts ==
    ASSUME DeviceInv
    PROVE  /\ late \subseteq RequestType /\ closed \in BOOLEAN /\ unsure \subseteq Keys /\ LateAsked /\ PauseOK
           /\ MineIsBound /\ \A k \in Keys : Accounted(k) /\ gw[k].binding \in Bindings \cup {None}
BY DeviceTypes DEF DeviceInv, DeviceOK, RowType

LEMMA SendEnrolmentKeeps ==
    ASSUME DeviceInv, NEW name \in {"setup", "repair"}, NEW k \in Keys, SendEnrolment(name, k),
           disk.binding # None => k = disk.key,
           UNCHANGED <<system, token, entry, runtime, connector, late, gw, intent, closed, faults>>
    PROVE  DeviceInv'
<1> DEFINE r == Request("enroll", k, None)
<1>1. r \in RequestType /\ r.kind = "enroll" /\ r.key = k /\ r.stage = "sent"
  BY RequestTypes
<1> HIDE DEF r
<1>2. /\ disk' = [disk EXCEPT !.key = k] /\ unsure' = unsure \cup {k}
      /\ op' = [Idle EXCEPT !.name = name, !.pc = "enroll", !.req = r]
  BY DEF SendEnrolment, r
<1>3. disk' \in DiskType /\ disk'.key = k /\ disk'.binding = disk.binding /\ disk'.access = disk.access
  BY <1>2, OpFacts DEF DiskType
<1>4. op' \in OpType /\ op'.name = name /\ op'.pc = "enroll" /\ op'.req = r
  BY <1>1, <1>2, IdleTypes DEF OpType
<1>5. MineIsBound' /\ \A q \in Keys : Accounted(q)'
  <2>1. unsure \subseteq unsure' /\ late \subseteq late'
    BY <1>2
  <2> QED BY <1>3, <2>1, AccountStays
<1>6. PauseOK' /\ LateAsked'
  BY <1>3, RecordFacts DEF PauseOK, LateAsked, Suspended, Still
<1>7. Script' /\ Asked' /\ Replaces' /\ Pauses' /\ Denied'
  BY <1>1, <1>4 DEF Script, Asked, Replaces, Pauses, Denied
<1>8. Enrols'
  BY <1>1, <1>2, <1>3, <1>4 DEF Enrols, Answered
<1>9. LocalTypeOK' /\ unsure' \subseteq Keys
  BY <1>2, OpFacts, RecordFacts DEF LocalTypeOK
<1> QED BY <1>3, <1>4, <1>5, <1>6, <1>7, <1>8, <1>9, OpFacts, RecordFacts, RecordMoves DEF OperationOK

LEMMA SetupKeeps == ASSUME DeviceInv, NEW k \in Keys, Setup(k) PROVE DeviceInv'
<1>1. CASE SendEnrolment("setup", k)
  BY <1>1, SendEnrolmentKeeps DEF Setup
<1>2. CASE UNCHANGED <<disk, unsure>> /\ \E pc \in {"stop", "install"} : op' = [Idle EXCEPT !.name = "setup", !.pc = pc]
  <2>1. PICK pc \in {"stop", "install"} : op' = [Idle EXCEPT !.name = "setup", !.pc = pc]
    BY <1>2
  <2>2. op' \in OpType /\ op'.name = "setup" /\ op'.pc = pc /\ op'.req = NoRequest
    BY <2>1, IdleTypes DEF OpType
  <2>3. OperationOK'
    BY <2>2, IdleTypes, PlainIsOK DEF Waiting
  <2>4. LocalTypeOK' /\ Calms /\ UNCHANGED <<system, disk, late, gw, historyVars>>
    BY <1>2, OpFacts, LocalStays DEF Setup, historyVars
  <2> QED BY <2>2, <2>3, <2>4, OpMoves
<1> QED BY <1>1, <1>2 DEF Setup

LEMMA ReplaceKeeps == ASSUME DeviceInv, NEW k \in Keys, Replace(k) PROVE DeviceInv'
BY SendEnrolmentKeeps, PreflightKeeps DEF Replace

LEMMA RepairKeeps == ASSUME DeviceInv, Repair PROVE DeviceInv'
<1>1. disk.key \in Keys /\ disk.key # None /\ disk.pending \in Keys \cup {None}
  BY OpFacts DEF Repair, DiskType
<1>2. CASE disk.pending # None
  BY <1>1, <1>2, PreflightKeeps DEF Repair
<1>3. CASE disk.pending = None /\ (disk.binding = None \/ token = None)
  BY <1>1, <1>3, SendEnrolmentKeeps DEF Repair
<1>4. CASE disk.pending = None /\ ~(disk.binding = None \/ token = None)
  <2>1. op' = [Idle EXCEPT !.name = "repair", !.pc = "remove"] /\ UNCHANGED <<disk, unsure>>
    BY <1>4 DEF Repair
  <2>2. op' \in OpType /\ op'.name = "repair" /\ op'.pc = "remove" /\ op'.req = NoRequest
    BY <2>1, IdleTypes DEF OpType
  <2>3. OperationOK'
    BY <2>2, IdleTypes, PlainIsOK DEF Waiting
  <2>4. LocalTypeOK' /\ Calms /\ UNCHANGED <<system, disk, late, gw, historyVars>>
    BY <2>1, OpFacts, LocalStays DEF Repair, historyVars
  <2> QED BY <2>2, <2>3, <2>4, OpMoves
<1> QED BY <1>2, <1>3, <1>4

\* The record names the binding the Gateway answered, and the enrolment of its key is
\* no longer open.
LEMMA SaveEnrolmentKeeps == ASSUME DeviceInv, SaveEnrolment PROVE DeviceInv'
<1>1. /\ op.pc = "save" /\ unsure' = unsure \ {disk.key}
      /\ disk' = [disk EXCEPT !.binding = op.req.binding, !.access = AccessAfterEnrolment]
      /\ UNCHANGED <<system, token, entry, runtime, connector, late, gw, intent, closed, faults>>
  BY DEF SaveEnrolment
<1>2. PICK pc \in {"remove", "install"} : Goto(pc) /\ (pc = "remove" => op.name = "repair")
  BY DEF SaveEnrolment
<1>3. /\ op.name \in {"setup", "repair"} /\ ~Waiting(op.req) /\ disk.key \in Keys
      /\ op.req.binding # None /\ op.req.binding \in Bindings
      /\ (gw[disk.key].mine => \/ LateEnrolment(disk.key)
                               \/ gw[disk.key].binding = op.req.binding /\ gw[disk.key].state # "provisioning")
  BY <1>1, OpFacts DEF OperationOK, Script, Enrols, RequestType
<1>4. op' \in OpType /\ op'.pc = pc /\ op'.name = op.name /\ op'.req = op.req
  BY <1>2, GoesTo
<1>5. AccessAfterEnrolment \in {"active", "suspended"} /\ (Suspended => AccessAfterEnrolment = "suspended")
  BY <1>1, OpFacts DEF OperationOK, Enrols, AccessAfterEnrolment
<1>6. disk' \in DiskType /\ disk'.key = disk.key /\ disk'.binding = op.req.binding /\ (Suspended => Suspended')
  BY <1>1, <1>3, <1>5, OpFacts DEF DiskType, Suspended
<1>7. MineIsBound' /\ \A q \in Keys : Accounted(q)'
  BY <1>1, <1>3, <1>6, RecordFacts DEF MineIsBound, Accounted, Held, LateEnrolment
<1>8. PauseOK' /\ LateAsked'
  BY <1>1, <1>6, RecordFacts DEF PauseOK, LateAsked, Still
<1>9. OperationOK'
  BY <1>2, <1>3, <1>4, OpFacts, PlainIsOK DEF Waiting
<1>10. LocalTypeOK' /\ unsure' \subseteq Keys
  BY <1>1, OpFacts, RecordFacts DEF LocalTypeOK
<1> QED BY <1>1, <1>4, <1>6, <1>7, <1>8, <1>9, <1>10, OpFacts, RecordFacts, RecordMoves

\* With no binding on disk nothing the Gateway holds is of this key alone.
LEMMA UnboundIsHeld ==
    ASSUME DeviceInv, NEW k \in Keys, gw[k].mine, k = disk.key => disk.binding = None
    PROVE  Held(k)
BY RecordFacts DEF Accounted, MineIsBound

LEMMA StartReleaseKeeps == ASSUME DeviceInv, StartRelease PROVE DeviceInv'
<1>1. /\ op.pc = "preflight" /\ disk' = [disk EXCEPT !.pending = op.key, !.access = "suspended"]
      /\ UNCHANGED <<system, token, entry, runtime, connector, late, gw, historyVars, faults>>
      /\ UNCHANGED <<intent, closed, unsure>>
  BY DEF StartRelease, historyVars
<1>2. /\ op.name = "replace" /\ disk.key \in Keys /\ op.key \in Keys /\ (intent => op.keep)
      /\ disk.binding \in Bindings \cup {None}
  BY <1>1, OpFacts DEF OperationOK, Script, Replaces, DiskType
<1> DEFINE r == IF disk.binding = None THEN NoRequest ELSE Request("release", disk.key, disk.binding)
<1>3. /\ r \in RequestType
      /\ disk.binding = None => r.kind = "none" /\ r.stage = "ok"
      /\ disk.binding # None => /\ r.kind = "release" /\ r.key = disk.key /\ r.binding = disk.binding
                               /\ r.stage = "sent"
  BY <1>2, IdleTypes, RequestTypes
<1> HIDE DEF r
<1>4. op' = [op EXCEPT !.pc = "release", !.local = "due", !.req = r]
  BY DEF StartRelease, r
<1>5. /\ op' \in OpType /\ op'.pc = "release" /\ op'.name = "replace" /\ op'.req = r /\ op'.key = op.key
      /\ op'.keep = op.keep
  BY <1>2, <1>3, <1>4, OpFacts DEF OpType
<1>6. disk' \in DiskType /\ disk'.key = disk.key /\ disk'.binding = disk.binding /\ Suspended'
  BY <1>1, <1>2, OpFacts DEF DiskType, Suspended
<1>7. MineIsBound' /\ \A q \in Keys : Accounted(q)'
  BY <1>1, <1>6, AccountStays
<1>8. PauseOK' /\ LateAsked'
  BY <1>1, <1>6, RecordFacts DEF PauseOK, LateAsked, Still
<1>9. Script' /\ Enrols' /\ Pauses' /\ Denied'
  BY <1>5 DEF Script, Enrols, Pauses, Denied
<1>10. Asked'
  BY <1>2, <1>3, <1>5, <1>6 DEF Asked, Waiting
<1>11. Replaces'
  <2>1. disk.binding = None => (gw[disk.key].mine => Held(disk.key))
    BY <1>2, UnboundIsHeld
  <2>2. disk.binding # None => ~Released'
    BY <1>3, <1>5 DEF Released
  <2> QED BY <1>1, <1>2, <1>5, <1>6, <2>1, <2>2 DEF Replaces, Held, LateEnrolment
<1>12. LocalTypeOK'
  BY <1>1, OpFacts DEF LocalTypeOK
<1> QED BY <1>1, <1>5, <1>6, <1>7, <1>8, <1>9, <1>10, <1>11, <1>12, OpFacts, RecordFacts, RecordMoves DEF OperationOK

LEMMA ForgetBindingKeeps == ASSUME DeviceInv, ForgetBinding PROVE DeviceInv'
<1>1. /\ op.pc = "forget" /\ unsure' = unsure \cup {op.key}
      /\ disk' = [key |-> op.key, pending |-> None, binding |-> None,
                 access |-> IF op.keep THEN "suspended" ELSE "active"]
      /\ UNCHANGED <<system, token, entry, runtime, connector, late, gw, intent, closed, faults>>
  BY DEF ForgetBinding
<1>2. /\ op.name = "replace" /\ disk.key \in Keys /\ op.key \in Keys /\ (intent => op.keep)
      /\ (gw[disk.key].mine => Held(disk.key))
  BY <1>1, OpFacts DEF OperationOK, Script, Replaces
<1> DEFINE r == Request("enroll", op.key, None)
<1>3. r \in RequestType /\ r.kind = "enroll" /\ r.key = op.key /\ r.stage = "sent"
  BY <1>2, RequestTypes
<1> HIDE DEF r
<1>4. op' = [Idle EXCEPT !.name = "setup", !.pc = "enroll", !.req = r]
  BY DEF ForgetBinding, r
<1>5. op' \in OpType /\ op'.name = "setup" /\ op'.pc = "enroll" /\ op'.req = r
  BY <1>3, <1>4, IdleTypes DEF OpType
<1>6. disk' \in DiskType /\ disk'.key = op.key /\ disk'.binding = None /\ (intent => Suspended')
  BY <1>1, <1>2 DEF DiskType, Suspended
<1>7. MineIsBound' /\ \A q \in Keys : Accounted(q)'
  <2>1. \A q \in Keys : gw[q].mine => Held(q)
    BY <1>2, RecordFacts DEF Accounted
  <2> QED BY <1>1, <2>1, RecordFacts DEF MineIsBound, Accounted, Held, LateEnrolment
<1>8. PauseOK' /\ LateAsked'
  BY <1>1, <1>6, RecordFacts DEF PauseOK, LateAsked, Still
<1>9. Script' /\ Asked' /\ Replaces' /\ Pauses' /\ Denied'
  BY <1>2, <1>3, <1>5 DEF Script, Asked, Replaces, Pauses, Denied
<1>10. Enrols'
  BY <1>1, <1>2, <1>3, <1>5, <1>6 DEF Enrols, Answered
<1>11. LocalTypeOK' /\ unsure' \subseteq Keys
  BY <1>1, <1>2, OpFacts, RecordFacts DEF LocalTypeOK
<1> QED BY <1>1, <1>5, <1>6, <1>7, <1>8, <1>9, <1>10, <1>11, OpFacts, RecordFacts, RecordMoves DEF OperationOK

\* The intent is recorded, and on disk, before anything is asked or stopped.
LEMMA PauseKeeps == ASSUME DeviceInv, Pause PROVE DeviceInv'
<1>1. /\ disk' = [disk EXCEPT !.access = "suspended"] /\ intent' = TRUE
      /\ UNCHANGED <<system, token, entry, runtime, connector, late, gw, closed, unsure, faults>>
  BY DEF Pause
<1>2. disk.key \in Keys /\ disk.binding \in Bindings \cup {None}
  BY OpFacts DEF Pause, DiskType
<1> DEFINE r == Request("suspend", disk.key, disk.binding)
<1>3. r \in RequestType /\ r.kind = "suspend" /\ r.key = disk.key /\ r.stage = "sent"
  BY <1>2, RequestTypes
<1> HIDE DEF r
<1>4. op' = [Idle EXCEPT !.name = "pause", !.pc = "close", !.local = "due", !.req = r]
  BY DEF Pause, r
<1>5. op' \in OpType /\ op'.name = "pause" /\ op'.pc = "close" /\ op'.local = "due" /\ op'.req = r
  BY <1>3, <1>4, IdleTypes DEF OpType
<1>6. disk' \in DiskType /\ disk'.key = disk.key /\ disk'.binding = disk.binding /\ Suspended'
  BY <1>1, OpFacts DEF DiskType, Suspended
<1>7. MineIsBound' /\ \A q \in Keys : Accounted(q)'
  BY <1>1, <1>6, AccountStays
<1>8. PauseOK' /\ LateAsked'
  BY <1>1, <1>6, RecordFacts DEF PauseOK, LateAsked, Still
<1>9. OperationOK'
  BY <1>1, <1>2, <1>3, <1>5 DEF OperationOK, Script, Asked, Enrols, Replaces, Pauses, Denied
<1>10. LocalTypeOK'
  BY <1>1, OpFacts DEF LocalTypeOK
<1> QED BY <1>1, <1>5, <1>6, <1>7, <1>8, <1>9, <1>10, RecordFacts, RecordMoves

\* A pause has closed the device when the services were seen to stop under it.
LEMMA PauseSettles == ASSUME DeviceInv, PauseEnds \/ RollBackStops PROVE DeviceInv'
<1>1. End /\ UNCHANGED <<system, disk, token, late, gw, intent, unsure>>
  BY DEF PauseEnds, RollBackStops, localVars
<1>2. LocalTypeOK' /\ Calms
  <2>1. CASE PauseEnds
    BY <2>1, OpFacts, LocalStays DEF PauseEnds, localVars
  <2>2. CASE RollBackStops
    BY <2>2, OpFacts, StopsLocally DEF RollBackStops
  <2> QED BY <2>1, <2>2
<1>3. closed' \in BOOLEAN /\ (closed' => intent /\ Still')
  <2>1. CASE PauseEnds
    <3>1. op.name = "pause" /\ closed' = (closed \/ op.local = "ok") /\ UNCHANGED runtime
      BY <2>1 DEF PauseEnds, At, localVars
    <3> QED BY <3>1, OpFacts, RecordFacts DEF OperationOK, Pauses, PauseOK, Still
  <2>2. CASE RollBackStops /\ UNCHANGED closed
    BY <1>2, <2>2, RecordFacts DEF PauseOK, Calms
  <2>3. CASE RollBackStops /\ Stops(PausedEntry) /\ UNCHANGED faults /\ closed' = intent
    BY <1>1, <2>3, OpFacts, StopsLocally
  <2> QED BY <2>1, <2>2, <2>3 DEF PauseEnds, RollBackStops
<1>4. PauseOK' /\ LateAsked'
  BY <1>1, <1>3, RecordFacts DEF PauseOK, LateAsked, Suspended
<1>5. MineIsBound' /\ \A q \in Keys : Accounted(q)'
  BY <1>1, AccountStays
<1> QED BY <1>1, <1>2, <1>3, <1>4, <1>5, IdleIsOK, OpFacts, RecordFacts, RecordMoves DEF End

\* The pause is lifted on disk under a denial that was confirmed.
LEMMA LiftPauseKeeps == ASSUME DeviceInv, LiftPause PROVE DeviceInv'
<1>1. /\ op.name = "resume" /\ op.pc = "deny" /\ Answered("ok") /\ Goto("start")
      /\ disk' = [disk EXCEPT !.access = "active"] /\ intent' = FALSE /\ closed' = FALSE
      /\ UNCHANGED <<system, token, entry, runtime, connector, late, gw, unsure, faults>>
  BY DEF LiftPause, At, CanLift
<1>2. op' \in OpType /\ op'.pc = "start" /\ op'.name = "resume" /\ op'.req = op.req
  BY <1>1, GoesTo
<1>3. disk' \in DiskType /\ disk'.key = disk.key /\ disk'.binding = disk.binding
  BY <1>1, OpFacts DEF DiskType
<1>4. MineIsBound' /\ \A q \in Keys : Accounted(q)'
  BY <1>1, <1>3, AccountStays
<1>5. PauseOK' /\ LateAsked'
  BY <1>1, RecordFacts DEF PauseOK, LateAsked
<1>6. Script' /\ Enrols' /\ Replaces' /\ Pauses'
  BY <1>2 DEF Script, Enrols, Replaces, Pauses
<1>7. Asked'
  BY <1>1, <1>2, OpFacts DEF Asked, Waiting, Answered
<1>8. Denied'
  BY <1>1, <1>2, <1>3, OpFacts DEF OperationOK, Denied, Unprobed, Known
<1>9. LocalTypeOK'
  BY <1>1, OpFacts DEF LocalTypeOK
<1> QED BY <1>1, <1>2, <1>3, <1>4, <1>5, <1>6, <1>7, <1>8, <1>9, OpFacts, RecordFacts, RecordMoves DEF OperationOK

\* A resume that goes back asks for the denial again and, if it can, pauses the record.
LEMMA RollsBack ==
    ASSUME DeviceInv, op.name = "resume", RollBack, UNCHANGED <<system, token, runtime, connector, late, gw, closed, unsure>>,
           \/ disk' = [disk EXCEPT !.access = "suspended"] /\ intent' = TRUE
           \/ UNCHANGED <<disk, intent>>,
           LocalTypeOK'
    PROVE  DeviceInv'
<1>1. disk.key \in Keys /\ disk.binding \in Bindings \cup {None}
  BY OpFacts DEF OperationOK, Denied, DiskType
<1> DEFINE r == Request("suspend", disk.key, disk.binding)
<1>2. r \in RequestType /\ r.kind = "suspend" /\ r.key = disk.key /\ r.binding = disk.binding /\ r.stage = "sent"
  BY <1>1, RequestTypes
<1> HIDE DEF r
<1>3. op' = [op EXCEPT !.pc = "undo", !.req = r]
  BY DEF RollBack, Send, r
<1>4. op' \in OpType /\ op'.name = "resume" /\ op'.pc = "undo" /\ op'.req = r
  BY <1>2, <1>3, OpFacts DEF OpType
<1>5. /\ disk' \in DiskType /\ disk'.key = disk.key /\ disk'.binding = disk.binding
      /\ intent' \in BOOLEAN /\ (intent' => Suspended') /\ (intent => intent')
  <2>1. CASE disk' = [disk EXCEPT !.access = "suspended"] /\ intent' = TRUE
    BY <2>1, OpFacts DEF DiskType, Suspended
  <2>2. CASE UNCHANGED <<disk, intent>>
    BY <2>2, OpFacts DEF Suspended
  <2> QED BY <2>1, <2>2
<1>6. MineIsBound' /\ \A q \in Keys : Accounted(q)'
  BY <1>5, AccountStays
<1>7. PauseOK' /\ LateAsked'
  BY <1>5, RecordFacts DEF PauseOK, LateAsked, Still
<1>8. Script' /\ Asked' /\ Enrols' /\ Replaces' /\ Pauses'
  BY <1>1, <1>2, <1>4 DEF Script, Asked, Enrols, Replaces, Pauses
<1>9. Denied'
  BY <1>1, <1>4, <1>5 DEF Denied, Unprobed
<1> QED BY <1>4, <1>5, <1>6, <1>7, <1>8, <1>9, RecordFacts, RecordMoves DEF OperationOK

LEMMA ResumeFailsKeeps == ASSUME DeviceInv, ResumeFails PROVE DeviceInv'
<1>1. op.name = "resume" /\ RollBack /\ UNCHANGED <<system, token, entry, runtime, connector, late, gw, closed, unsure>>
  BY DEF ResumeFails, At
<1>2. /\ \/ disk' = [disk EXCEPT !.access = "suspended"] /\ intent' = TRUE
         \/ UNCHANGED <<disk, intent>>
      /\ Fault \/ UNCHANGED faults
  BY DEF ResumeFails
<1>3. LocalTypeOK'
  BY <1>1, <1>2, OpFacts, LocalStays
<1> QED BY <1>1, <1>2, <1>3, RollsBack

LEMMA ResumeStartsKeeps == ASSUME DeviceInv, ResumeStarts PROVE DeviceInv'
<1>1. /\ op.name = "resume" /\ op.pc = "start" /\ UNCHANGED <<system, token, late, gw, closed, unsure>>
  BY DEF ResumeStarts, At
<1>2. CASE entry' = "enabled" /\ StartJobs /\ Goto("wait") /\ UNCHANGED <<disk, intent, faults>>
  <2>1. LocalTypeOK' /\ Calms
    BY <1>1, <1>2, OpFacts, StartsLocally DEF LocalTypeOK
  <2>2. op' \in OpType /\ op'.pc = "wait" /\ op'.name = "resume" /\ op'.req = op.req
    BY <1>1, <1>2, GoesTo
  <2>3. Script' /\ Asked' /\ Enrols' /\ Replaces' /\ Pauses'
    BY <1>1, <2>2, OpFacts DEF Script, Asked, Enrols, Replaces, Pauses, Waiting
  <2>4. Denied'
    BY <1>1, <1>2, <2>2, OpFacts DEF OperationOK, Denied, Unprobed, Known
  <2> QED BY <1>1, <1>2, <2>1, <2>2, <2>3, <2>4, OpMoves DEF OperationOK, historyVars
<1>3. CASE /\ Fault /\ entry' \in {entry, "enabled"} /\ RollBack /\ UNCHANGED <<runtime, connector>>
           /\ disk' = [disk EXCEPT !.access = "suspended"] /\ intent' = TRUE
  <2>1. LocalTypeOK'
    BY <1>1, <1>3, OpFacts, FaultsAreBounded DEF LocalTypeOK
  <2> QED BY <1>1, <1>3, <2>1, RollsBack
<1> QED BY <1>2, <1>3 DEF ResumeStarts

\* What a crash leaves of the operation is the request the Gateway may still handle.
LEMMA CrashKeeps == ASSUME DeviceInv, Crash PROVE DeviceInv'
<1>1. /\ op' = Idle /\ UNCHANGED <<system, disk, token, entry, gw, intent, closed, unsure>>
      /\ late' = IF op.req.kind = "none" THEN late ELSE late \cup {op.req}
      /\ (StopJobs \/ UNCHANGED <<runtime, connector>>) /\ Fault
  BY DEF Crash, End, historyVars
<1>2. LocalTypeOK' /\ Calms
  <2>1. CASE StopJobs
    BY <1>1, <2>1, OpFacts, JobsStop, IdleTypes, FaultsAreBounded DEF LocalTypeOK, Calms
  <2>2. CASE UNCHANGED <<runtime, connector>>
    BY <1>1, <2>2, OpFacts, LocalStays
  <2> QED BY <1>1, <2>1, <2>2
<1>3. late' \subseteq RequestType /\ late \subseteq late' /\ LateAsked'
  BY <1>1, OpFacts, RecordFacts DEF LateAsked
<1>4. MineIsBound' /\ \A q \in Keys : Accounted(q)'
  BY <1>1, <1>3, AccountStays
<1>5. PauseOK'
  BY <1>1, <1>2, RecordFacts DEF PauseOK, Suspended, Calms
<1> QED BY <1>1, <1>2, <1>3, <1>4, <1>5, IdleIsOK, OpFacts, RecordFacts, RecordMoves

-----------------------------------------------------------------------------
(* The Gateway.                                                            *)

\* A row that is bound, as the device sees it, to b and not admitted.
BoundTo(row, b) == row.mine /\ row.binding = b
NotAdmitted(row) == row.state \in {"suspended", "resetting"}

\* What the handler of a request may do to the row it names, and answer.
Turn(row, r, new, answer) ==
    /\ new \in RowType /\ answer \in RequestType /\ answer.kind = r.kind /\ answer.key = r.key
    /\ answer.stage \in {"ok", "again", "denied", "probed"} /\ (answer.stage = "probed" => r.kind = "resume")
    /\ (row.mine => row.binding # None) => (new.mine => new.binding # None)
    /\ r.kind # "enroll" =>
         /\ answer.binding = r.binding
         /\ new.mine => /\ row.mine /\ new.binding = row.binding
                        /\ row.state # "provisioning" => new.state # "provisioning"
    /\ r.kind = "enroll" /\ answer.stage = "ok" =>
         /\ answer.binding # None /\ answer.state \in {"active", "suspended"}
         /\ new.binding = answer.binding /\ new.state # "provisioning"
    /\ BoundTo(new, disk.binding) => BoundTo(row, disk.binding)
    /\ /\ BoundTo(row, disk.binding) /\ NotAdmitted(row) /\ BoundTo(new, disk.binding)
       /\ r.kind = "resume" => answer.stage # "ok"
       => NotAdmitted(new)
    /\ r.kind = "suspend" /\ answer.stage = "ok" => new.state = "suspended"
    /\ r.kind = "release" /\ answer.stage \in {"ok", "denied"} /\ new.mine =>
         new = row /\ (row.binding = r.binding => row.state = "provisioning")

LEMMA RowsAreTyped ==
    ASSUME DeviceInv, NEW k \in Keys
    PROVE  /\ gw \in [Keys -> RowType] /\ gw[k] \in RowType
           /\ gw[k].state \in {"issued", "provisioning", "active", "suspended", "resetting"}
           /\ gw[k].binding \in Bindings \cup {None} /\ gw[k].mine \in BOOLEAN
BY DeviceTypes DEF DeviceInv, RowType

LEMMA EnrolAtTurns ==
    ASSUME DeviceInv, NEW r \in RequestType, Waiting(r), r.kind = "enroll", r.key \in Keys,
           NEW b \in Bindings, NEW state \in {"provisioning", "active", "suspended"},
           \/ gw[r.key].state = "issued" /\ state = "provisioning" /\ b # disk.binding
           \/ gw[r.key].mine /\ b = gw[r.key].binding /\ state = gw[r.key].state,
           NEW o \in EnrolAt(r, b, state)
    PROVE  Turn(gw[r.key], r, o.row, o.req)
<1> DEFINE row == gw[r.key]
<1>1. \/ /\ o.row = [state |-> IF state = "suspended" THEN state ELSE "active", binding |-> b, mine |-> TRUE]
         /\ o.req = [[r EXCEPT !.binding = b, !.state = StateAnswered(state)] EXCEPT !.stage = "ok"]
      \/ /\ o.row = [state |-> "provisioning", binding |-> b, mine |-> TRUE] /\ state = "provisioning"
         /\ o.req = [r EXCEPT !.stage = "again"]
  <2> DEFINE Row(new) == [state |-> new, binding |-> b, mine |-> TRUE]
  <2>1. \/ o = Outcome(Row(IF state = "suspended" THEN state ELSE "active"),
                       [r EXCEPT !.binding = b, !.state = StateAnswered(state)], "ok")
        \/ state = "provisioning" /\ o = Outcome(Row(state), r, "again")
    BY DEF EnrolAt
  <2>2. CASE state = "provisioning" /\ o = Outcome(Row(state), r, "again")
    <3> DEFINE new == Row("provisioning")
               q == [r EXCEPT !.stage = "again"]
    <3>1. o = [row |-> new, req |-> q]
      BY <2>2 DEF Outcome
    <3> HIDE DEF new, q
    <3>2. o.row = new /\ o.req = q
      BY <3>1
    <3> QED BY <2>2, <3>2 DEF new, q
  <2>3. CASE o = Outcome(Row(IF state = "suspended" THEN state ELSE "active"),
                         [r EXCEPT !.binding = b, !.state = StateAnswered(state)], "ok")
    <3> DEFINE new == Row(IF state = "suspended" THEN state ELSE "active")
               q == [r EXCEPT !.binding = b, !.state = StateAnswered(state)]
    <3>1. o = [row |-> new, req |-> [q EXCEPT !.stage = "ok"]]
      BY <2>3 DEF Outcome
    <3> HIDE DEF new, q
    <3>2. o.row = new /\ o.req = [q EXCEPT !.stage = "ok"]
      BY <3>1
    <3> QED BY <3>2 DEF new, q
  <2> QED BY <2>1, <2>2, <2>3
<1>2. b # None /\ StateAnswered(state) \in {"active", "suspended"}
  BY DeviceNumbers DEF StateAnswered
<1>3. CASE /\ o.row = [state |-> IF state = "suspended" THEN state ELSE "active", binding |-> b, mine |-> TRUE]
           /\ o.req = [[r EXCEPT !.binding = b, !.state = StateAnswered(state)] EXCEPT !.stage = "ok"]
  <2>1. o.row \in RowType /\ o.row.mine /\ o.row.binding = b
        /\ o.row.state = (IF state = "suspended" THEN state ELSE "active")
    BY <1>3 DEF RowType
  <2>2. /\ o.req \in RequestType /\ o.req.kind = r.kind /\ o.req.key = r.key /\ o.req.stage = "ok"
        /\ o.req.binding = b /\ o.req.state \in {"active", "suspended"}
    BY <1>2, <1>3 DEF RequestType
  <2> QED BY <1>2, <2>1, <2>2 DEF Turn, BoundTo, NotAdmitted
<1>4. CASE /\ o.row = [state |-> "provisioning", binding |-> b, mine |-> TRUE] /\ state = "provisioning"
           /\ o.req = [r EXCEPT !.stage = "again"]
  <2>1. o.row \in RowType /\ o.row.mine /\ o.row.binding = b /\ o.row.state = "provisioning"
    BY <1>4 DEF RowType
  <2>2. o.req \in RequestType /\ o.req.kind = r.kind /\ o.req.key = r.key /\ o.req.stage = "again"
    BY <1>4 DEF RequestType
  <2> QED BY <1>2, <1>4, <2>1, <2>2 DEF Turn, BoundTo, NotAdmitted
<1> QED BY <1>1, <1>3, <1>4

\* A request that changes nothing, or is refused.
LEMMA SameTurns ==
    ASSUME DeviceInv, NEW r \in RequestType, r.key \in Keys, NEW stage \in {"ok", "again", "denied", "probed"},
           stage = "probed" => r.kind = "resume", r.kind # "enroll" \/ stage # "ok",
           r.kind = "suspend" => stage # "ok",
           r.kind = "release" /\ stage \in {"ok", "denied"} /\ gw[r.key].mine /\ gw[r.key].binding = r.binding =>
              gw[r.key].state = "provisioning",
           NEW o, o = Outcome(gw[r.key], r, stage)
    PROVE  Turn(gw[r.key], r, o.row, o.req)
<1>1. o.row = gw[r.key] /\ o.row \in RowType
  BY RowsAreTyped DEF Outcome
<1>2. o.req \in RequestType /\ o.req.kind = r.kind /\ o.req.key = r.key /\ o.req.stage = stage /\ o.req.binding = r.binding
  BY DEF Outcome, RequestType
<1> QED BY <1>1, <1>2 DEF Turn, BoundTo, NotAdmitted

LEMMA OutcomesTurn ==
    ASSUME DeviceInv, NEW r \in RequestType, Waiting(r), r.key \in Keys, r.kind # "none",
           r.kind \in {"enroll", "release", "preflight", "suspend"} \/ r.kind = "resume",
           NEW o \in Outcomes(r)
    PROVE  Turn(gw[r.key], r, o.row, o.req)
<1> DEFINE row == gw[r.key]
<1>0. /\ row \in RowType /\ row.state \in {"issued", "provisioning", "active", "suspended", "resetting"}
      /\ row.binding \in Bindings \cup {None} /\ (row.mine => row.binding # None)
  BY RowsAreTyped, RecordFacts DEF MineIsBound
<1>1. CASE r.kind = "enroll"
  <2>1. o \in Enrol(r)
    BY <1>1 DEF Outcomes
  <2>2. CASE row.state = "issued"
    <3>1. PICK b \in Bindings \ Named : o \in EnrolAt(r, b, "provisioning")
      BY <2>1, <2>2 DEF Enrol
    <3>2. b # disk.binding
      BY <3>1 DEF Named
    <3> QED BY <1>1, <2>2, <3>1, <3>2, EnrolAtTurns
  <2>3. CASE row.state # "issued" /\ row.mine /\ row.state # "resetting"
    <3>1. o \in EnrolAt(r, row.binding, row.state)
      BY <2>1, <2>3 DEF Enrol
    <3> QED BY <1>0, <1>1, <2>3, <3>1, EnrolAtTurns
  <2>4. CASE o \in Refused(r)
    BY <1>1, <2>4, SameTurns DEF Refused
  <2> QED BY <2>1, <2>2, <2>3, <2>4 DEF Enrol
<1>2. CASE r.kind = "release"
  <2>1. o \in Release(r)
    BY <1>2 DEF Outcomes
  <2>2. CASE Known(r) /\ row.state # "provisioning"
    <3>1. o = Outcome(Unbound, r, "ok") \/ o = Outcome([row EXCEPT !.state = "resetting"], r, "again")
      BY <2>1, <2>2 DEF Release
    <3>2. CASE o = Outcome(Unbound, r, "ok")
      <4>1. o.row = Unbound /\ o.row \in RowType /\ ~o.row.mine
        BY <3>2, IdleTypes DEF Outcome
      <4>2. o.req \in RequestType /\ o.req.kind = r.kind /\ o.req.key = r.key /\ o.req.stage = "ok" /\ o.req.binding = r.binding
        BY <3>2 DEF Outcome, RequestType
      <4> QED BY <1>2, <4>1, <4>2 DEF Turn, BoundTo
    <3>3. CASE o = Outcome([row EXCEPT !.state = "resetting"], r, "again")
      <4>1. o.row \in RowType /\ o.row.state = "resetting" /\ o.row.binding = row.binding /\ o.row.mine = row.mine
        BY <1>0, <3>3 DEF Outcome, RowType
      <4>2. o.req \in RequestType /\ o.req.kind = r.kind /\ o.req.key = r.key /\ o.req.stage = "again" /\ o.req.binding = r.binding
        BY <3>3 DEF Outcome, RequestType
      <4> QED BY <1>2, <4>1, <4>2 DEF Turn, BoundTo, NotAdmitted
    <3> QED BY <3>1, <3>2, <3>3
  <2>3. CASE ~(Known(r) /\ row.state # "provisioning")
    <3>1. o = Outcome(row, r, "denied")
      BY <2>1, <2>3 DEF Release, Refused
    <3> QED BY <1>2, <2>3, <3>1, SameTurns DEF Known
  <2> QED BY <2>2, <2>3
<1>3. CASE r.kind = "preflight"
  <2>1. o = Outcome(row, r, "ok") \/ o = Outcome(row, r, "denied")
    BY <1>3 DEF Outcomes
  <2> QED BY <1>3, <2>1, SameTurns
<1>4. CASE r.kind \in {"suspend", "resume"}
  <2>1. CASE o = Outcome(row, r, "denied")
    BY <1>4, <2>1, SameTurns
  <2>2. CASE r.kind = "resume" /\ (o = Outcome(row, r, "probed") \/ o = Outcome(row, r, "again"))
    BY <2>2, SameTurns
  <2>3. ASSUME Enrolled(r), NEW state \in {"active", "suspended"}, r.kind = "suspend" => state = "suspended",
               r.kind = "resume" => state = "active", o = Set(r, state)
        PROVE  Turn(row, r, o.row, o.req)
    <3>1. o.row \in RowType /\ o.row.state = state /\ o.row.binding = row.binding /\ o.row.mine = row.mine
      BY <1>0, <2>3 DEF Set, Outcome, RowType
    <3>2. o.req \in RequestType /\ o.req.kind = r.kind /\ o.req.key = r.key /\ o.req.stage = "ok" /\ o.req.binding = r.binding
      BY <2>3 DEF Set, Outcome, RequestType
    <3>3. state # "provisioning"
      BY <2>3
    <3> QED BY <1>4, <2>3, <3>1, <3>2, <3>3 DEF Turn, BoundTo, NotAdmitted
  <2>4. CASE r.kind = "suspend"
    <3>1. o = Outcome(row, r, "denied") \/ (Enrolled(r) /\ o = Set(r, "suspended"))
      BY <2>4 DEF Outcomes, Refused
    <3> QED BY <2>1, <2>3, <2>4, <3>1
  <2>5. CASE r.kind = "resume"
    <3>1. r.stage = "sent" \/ r.stage = "probed"
      BY DEF Waiting
    <3>2. CASE r.stage = "sent"
      <4>1. o = Outcome(row, r, "denied") \/ o = Probe(r)
        BY <2>5, <3>2 DEF Outcomes, Refused
      <4> QED BY <2>1, <2>2, <2>5, <4>1 DEF Probe
    <3>3. CASE r.stage = "probed"
      <4>1. o = Outcome(row, r, "denied") \/ (Enrolled(r) /\ o = Set(r, "active"))
        BY <2>5, <3>3 DEF Outcomes, Refused
      <4> QED BY <2>1, <2>3, <2>5, <4>1
    <3> QED BY <3>1, <3>2, <3>3
  <2> QED BY <1>4, <2>4, <2>5
<1> QED BY <1>1, <1>2, <1>3, <1>4

\* Requests whose caller has given up stay what they are, whatever is answered.
LateGrows ==
    /\ late' \subseteq RequestType /\ LateAsked'
    /\ \A r \in late : \E q \in late' : q.kind = r.kind /\ q.key = r.key

LEMMA LateKept ==
    ASSUME LateGrows, UNCHANGED unsure
    PROVE  /\ \A k : LateEnrolment(k) => LateEnrolment(k)'
           /\ \A k : Held(k) => Held(k)'
           /\ (\A r \in late' : r.kind # "resume") => (\A r \in late : r.kind # "resume")
BY DEF LateGrows, LateEnrolment, Held

LEMMA GatewayMoves ==
    ASSUME DeviceInv, UNCHANGED <<localVars, historyVars>>, Fault \/ UNCHANGED faults, NEW k \in Keys, NEW new \in RowType,
           gw' = [gw EXCEPT ![k] = new], new.mine => new.binding # None, LateGrows,
           op' \in OpType, OperationOK',
           new.mine => \/ Held(k)'
                       \/ k = disk.key /\ new.binding = disk.binding /\ new.state # "provisioning"
    PROVE  DeviceInv'
<1>1. UNCHANGED <<system, disk, token, entry, runtime, connector, intent, closed, unsure>>
  BY DEF localVars, historyVars
<1>2. gw' \in [Keys -> RowType] /\ gw'[k] = new /\ \A q \in Keys : q # k => gw'[q] = gw[q]
  BY RowsAreTyped
<1>3. LocalTypeOK'
  BY <1>1, OpFacts, LocalStays
<1>4. DeviceTypeOK'
  BY <1>1, <1>2, <1>3 DEF DeviceInv, DeviceTypeOK, LocalTypeOK, OpType, RowType, LateGrows
<1>5. PauseOK' /\ MineIsBound' /\ LateAsked'
  BY <1>1, <1>2, RecordFacts DEF PauseOK, MineIsBound, LateGrows, Suspended, Still
<1>6. ASSUME NEW q \in Keys PROVE Accounted(q)'
  <2>1. CASE q = k
    BY <1>1, <1>2, <2>1 DEF Accounted
  <2>2. CASE q # k
    <3>1. Accounted(q) /\ (Held(q) => Held(q)')
      BY <1>1, RecordFacts, LateKept
    <3> QED BY <1>1, <1>2, <2>2, <3>1 DEF Accounted
  <2> QED BY <2>1, <2>2
<1> QED BY <1>4, <1>5, <1>6 DEF DeviceInv, DeviceOK

\* While somebody else changes a row, the operation keeps what it relies on.
LEMMA OthersTurn ==
    ASSUME DeviceInv, UNCHANGED <<localVars, historyVars, op, faults>>, NEW k \in Keys, NEW new \in RowType,
           gw' = [gw EXCEPT ![k] = new], new.mine => new.binding # None, LateGrows,
           new.mine => \/ LateEnrolment(k)'
                       \/ /\ gw[k].mine /\ new.binding = gw[k].binding
                          /\ gw[k].state # "provisioning" => new.state # "provisioning",
           BoundTo(new, disk.binding) => BoundTo(gw[k], disk.binding),
           BoundTo(gw[k], disk.binding) /\ NotAdmitted(gw[k]) /\ BoundTo(new, disk.binding) =>
              NotAdmitted(new) \/ \E r \in late' : r.kind = "resume"
    PROVE  DeviceInv'
<1>1. UNCHANGED <<disk, runtime, intent, closed, unsure>>
  BY DEF localVars, historyVars
<1>2. gw'[k] = new /\ \A q \in Keys : q # k => gw'[q] = gw[q]
  BY RowsAreTyped
<1>3. op' \in OpType /\ Script' /\ Asked' /\ Pauses'
  BY <1>1, OpFacts DEF OperationOK, Script, Asked, Pauses, Waiting, Still
<1>4. Enrols'
  <2>1. CASE disk.key = k
    BY <1>1, <1>2, <2>1, OpFacts, LateKept DEF OperationOK, Enrols, Answered
  <2>2. CASE disk.key # k
    BY <1>1, <1>2, <2>2, OpFacts, LateKept DEF OperationOK, Enrols, Answered
  <2> QED BY <2>1, <2>2
<1>5. Replaces'
  <2>1. ASSUME op.name = "replace", (op.pc = "release" /\ Released) \/ op.pc = "forget", gw'[disk.key].mine
        PROVE  Held(disk.key)'
    <3>1. disk.key \in Keys /\ (gw[disk.key].mine => Held(disk.key))
      BY <2>1, OpFacts DEF OperationOK, Replaces
    <3>2. gw[disk.key].mine \/ (disk.key = k /\ LateEnrolment(k)')
      BY <1>2, <2>1, <3>1
    <3> QED BY <1>1, <3>1, <3>2, LateKept DEF Held
  <2> QED BY <1>1, <2>1, OpFacts DEF OperationOK, Replaces, Released
<1>6. Denied'
  <2> SUFFICES ASSUME op.name = "resume", Unprobed, Known([key |-> disk.key, binding |-> disk.binding])',
                      \A r \in late' : r.kind # "resume"
               PROVE  gw'[disk.key].state \in {"suspended", "resetting"}
    BY <1>1, OpFacts DEF OperationOK, Denied, Unprobed, Answered
  <2>1. disk.key \in Keys /\ (\A r \in late : r.kind # "resume") /\ BoundTo(gw'[disk.key], disk.binding)
    BY <1>1, OpFacts, LateKept DEF OperationOK, Denied, Known, BoundTo
  <2>2. BoundTo(gw[disk.key], disk.binding)
    BY <1>2, <2>1
  <2>3. NotAdmitted(gw[disk.key])
    BY <2>1, <2>2, OpFacts DEF OperationOK, Denied, Known, BoundTo, NotAdmitted
  <2> QED BY <1>2, <2>1, <2>2, <2>3 DEF NotAdmitted
<1>7. new.mine => \/ Held(k)'
                  \/ k = disk.key /\ new.binding = disk.binding /\ new.state # "provisioning"
  BY <1>1, RecordFacts, LateKept DEF Accounted, Held
<1> QED BY <1>3, <1>4, <1>5, <1>6, <1>7, GatewayMoves DEF OperationOK

LEMMA LateStays == ASSUME DeviceInv, UNCHANGED late PROVE LateGrows
BY RecordFacts DEF LateGrows, LateAsked

LEMMA AdminResetKeeps == ASSUME DeviceInv, NEW k \in Keys, AdminReset(k) PROVE DeviceInv'
<1>1. gw' = [gw EXCEPT ![k] = Unbound] /\ UNCHANGED <<localVars, op, late, historyVars, faults>>
  BY DEF AdminReset
<1> QED BY <1>1, IdleTypes, LateStays, OthersTurn DEF BoundTo

LEMMA OtherDeviceKeeps == ASSUME DeviceInv, NEW k \in Keys, OtherDevice(k) PROVE DeviceInv'
<1> DEFINE new == [gw[k] EXCEPT !.state = "active"]
<1>1. gw' = [gw EXCEPT ![k] = new] /\ gw[k].state = "issued" /\ UNCHANGED <<localVars, op, late, historyVars, faults>>
  BY RowsAreTyped DEF OtherDevice
<1>2. new \in RowType /\ new.mine = gw[k].mine /\ new.binding = gw[k].binding /\ new.state = "active"
  BY RowsAreTyped DEF RowType
<1>3. new.mine => new.binding # None
  BY <1>2, RecordFacts DEF MineIsBound
<1> HIDE DEF new
<1> QED BY <1>1, <1>2, <1>3, LateStays, OthersTurn DEF BoundTo, NotAdmitted

\* A request is handled although its caller has given up.
LEMMA HandlesLateKeeps == ASSUME DeviceInv, NEW r \in late, HandlesLate(r) PROVE DeviceInv'
<1>1. Waiting(r) /\ UNCHANGED <<localVars, op, historyVars, faults>> /\ r \in RequestType /\ r.kind # "none" /\ r.key \in Keys
  BY RecordFacts DEF HandlesLate, LateAsked
<1>2. PICK o \in Outcomes(r) : gw' = [gw EXCEPT ![r.key] = o.row] /\ late' = (late \ {r}) \cup {o.req}
  BY DEF HandlesLate
<1>3. Turn(gw[r.key], r, o.row, o.req)
  BY <1>1, <1>2, OutcomesTurn DEF RequestType
<1>4. o.req \in RequestType /\ o.req.kind = r.kind /\ o.req.key = r.key /\ o.row \in RowType
  BY <1>3 DEF Turn
<1>5. LateGrows
  BY <1>1, <1>2, <1>4, RecordFacts DEF LateGrows, LateAsked
<1>6. o.row.mine => o.row.binding # None
  BY <1>1, <1>3, RecordFacts DEF Turn, MineIsBound
<1>7. o.row.mine => \/ LateEnrolment(r.key)'
                    \/ /\ gw[r.key].mine /\ o.row.binding = gw[r.key].binding
                       /\ gw[r.key].state # "provisioning" => o.row.state # "provisioning"
  <2>1. CASE r.kind = "enroll"
    BY <1>2, <1>4, <2>1 DEF LateEnrolment
  <2>2. CASE r.kind # "enroll"
    BY <1>3, <2>2 DEF Turn
  <2> QED BY <2>1, <2>2
<1>8. /\ BoundTo(o.row, disk.binding) => BoundTo(gw[r.key], disk.binding)
      /\ BoundTo(gw[r.key], disk.binding) /\ NotAdmitted(gw[r.key]) /\ BoundTo(o.row, disk.binding) =>
            NotAdmitted(o.row) \/ \E q \in late' : q.kind = "resume"
  <2>1. CASE r.kind = "resume"
    BY <1>2, <1>3, <1>4, <2>1 DEF Turn
  <2>2. CASE r.kind # "resume"
    BY <1>3, <2>2 DEF Turn
  <2> QED BY <2>1, <2>2
<1> QED BY <1>1, <1>2, <1>4, <1>5, <1>6, <1>7, <1>8, OthersTurn

\* The Gateway handles the request of the operation that waits for it.
LEMMA GatewayHandlesKeeps == ASSUME DeviceInv, GatewayHandles PROVE DeviceInv'
<1> DEFINE r == op.req
<1>1. Waiting(r) /\ UNCHANGED <<localVars, late, historyVars, faults>>
  BY DEF GatewayHandles
<1>0. PICK k \in Keys : k = op.req.key
  BY <1>1, OpFacts DEF OperationOK, Asked
<1>2. PICK o \in Outcomes(r) : gw' = [gw EXCEPT ![o.req.key] = o.row] /\ op' = [op EXCEPT !.req = o.req]
  BY DEF GatewayHandles
<1>3. /\ r \in RequestType /\ r.kind # "none" /\ k = op.req.key
      /\ \/ op.pc = "enroll" /\ r.kind = "enroll"
         \/ op.pc = "preflight" /\ r.kind = "preflight"
         \/ op.pc = "release" /\ r.kind = "release"
         \/ op.pc \in {"close", "deny", "undo"} /\ r.kind = "suspend"
         \/ op.pc = "confirm" /\ r.kind = "resume"
      /\ op.pc \in {"release", "deny", "confirm"} => r.key = disk.key /\ r.binding = disk.binding
  BY <1>0, <1>1, OpFacts DEF OperationOK, Asked
<1>4. Turn(gw[k], r, o.row, o.req)
  BY <1>1, <1>2, <1>3, OutcomesTurn
<1>5. /\ o.req \in RequestType /\ o.req.kind = r.kind /\ o.req.key = k /\ o.row \in RowType
      /\ o.req.stage \in {"ok", "again", "denied", "probed"} /\ (o.req.stage = "probed" => r.kind = "resume")
      /\ r.kind # "enroll" => o.req.binding = r.binding
  BY <1>0, <1>4 DEF Turn
<1>6. gw' = [gw EXCEPT ![k] = o.row] /\ gw'[k] = o.row /\ UNCHANGED <<disk, runtime, intent, closed, unsure>>
  BY <1>1, <1>2, <1>3, <1>5, RowsAreTyped DEF localVars, historyVars
<1>7. /\ op' \in OpType /\ op'.pc = op.pc /\ op'.name = op.name /\ op'.req = o.req /\ op'.key = op.key
      /\ op'.keep = op.keep /\ op'.local = op.local
  BY <1>2, <1>5, OpFacts DEF OpType
<1>8. o.row.mine => o.row.binding # None
  BY <1>3, <1>4, RecordFacts DEF Turn, MineIsBound
<1>9. Script' /\ Pauses'
  BY <1>6, <1>7, OpFacts DEF OperationOK, Script, Pauses, Still
<1>10. Asked'
  BY <1>3, <1>5, <1>6, <1>7 DEF Asked, Waiting
<1>11. Enrols'
  <2>1. CASE op.pc = "enroll"
    <3>1. k = disk.key /\ disk.key \in unsure /\ r.kind = "enroll"
      BY <1>3, <2>1, OpFacts DEF OperationOK, Enrols
    <3> QED BY <1>3, <1>4, <1>5, <1>6, <1>7, <2>1, <3>1 DEF Enrols, Answered, Turn
  <2>2. CASE op.pc # "enroll"
    BY <1>3, <1>7, <2>2 DEF Enrols
  <2> QED BY <2>1, <2>2
<1>12. Replaces'
  <2>1. ASSUME op.name = "replace", op.pc = "release", Released', gw'[disk.key].mine PROVE Held(disk.key)'
    <3>1. r.kind = "release" /\ k = disk.key /\ r.binding = disk.binding /\ o.req.stage \in {"ok", "denied"}
      BY <1>3, <1>7, <2>1 DEF Released
    <3>2. o.row = gw[k] /\ (gw[k].binding = disk.binding => gw[k].state = "provisioning")
      BY <1>4, <1>6, <2>1, <3>1 DEF Turn
    <3>3. Held(disk.key)
      BY <1>3, <1>6, <2>1, <3>1, <3>2, RecordFacts DEF Accounted
    <3> QED BY <1>1, <1>6, <3>3 DEF Held, LateEnrolment
  <2> QED BY <1>3, <1>6, <1>7, <2>1, OpFacts DEF OperationOK, Replaces
<1>13. Denied'
  <2> SUFFICES ASSUME op.name = "resume", Unprobed', Known([key |-> disk.key, binding |-> disk.binding])',
                      \A q \in late : q.kind # "resume"
               PROVE  gw'[disk.key].state \in {"suspended", "resetting"}
    BY <1>1, <1>6, <1>7, OpFacts DEF OperationOK, Denied
  <2>1. CASE op.pc = "deny"
    BY <1>3, <1>4, <1>5, <1>6, <1>7, <2>1 DEF Unprobed, Answered, Turn
  <2>2. CASE op.pc = "confirm"
    <3>1. Unprobed /\ o.req.stage # "ok" /\ k = disk.key
      BY <1>1, <1>3, <1>5, <1>7, <2>2 DEF Unprobed, Waiting
    <3>2. BoundTo(o.row, disk.binding)
      BY <1>6, <3>1 DEF Known, BoundTo
    <3>3. BoundTo(gw[k], disk.binding)
      BY <1>4, <3>2 DEF Turn
    <3>4. NotAdmitted(gw[k])
      BY <3>1, <3>3, OpFacts DEF OperationOK, Denied, Known, BoundTo, NotAdmitted
    <3> QED BY <1>4, <1>6, <3>1, <3>2, <3>3, <3>4 DEF Turn, NotAdmitted
  <2> QED BY <1>3, <1>7, <2>1, <2>2 DEF Unprobed
<1>14. o.row.mine => \/ Held(k)'
                     \/ k = disk.key /\ o.row.binding = disk.binding /\ o.row.state # "provisioning"
  <2>1. CASE r.kind = "enroll"
    BY <1>3, <1>6, <2>1, OpFacts DEF OperationOK, Enrols, Held
  <2>2. CASE r.kind # "enroll"
    <3>1. o.row.mine => /\ gw[k].mine /\ o.row.binding = gw[k].binding
                        /\ gw[k].state # "provisioning" => o.row.state # "provisioning"
      BY <1>4, <2>2 DEF Turn
    <3>2. Accounted(k) /\ (Held(k) => Held(k)')
      BY <1>1, <1>6, RecordFacts DEF Held, LateEnrolment
    <3> QED BY <3>1, <3>2 DEF Accounted
  <2> QED BY <2>1, <2>2
<1>15. LateGrows
  BY <1>1, LateStays
<1> QED BY <1>1, <1>3, <1>5, <1>6, <1>7, <1>8, <1>9, <1>10, <1>11, <1>12, <1>13, <1>14, <1>15, GatewayMoves DEF OperationOK

\* An answer that does not arrive counts for nothing; its request may still be handled.
LEMMA TimesOutKeeps == ASSUME DeviceInv, TimesOut PROVE DeviceInv'
<1>1. /\ op.req.kind # "none" /\ Fault /\ late' = late \cup {op.req} /\ op' = [op EXCEPT !.req.stage = "lost"]
      /\ UNCHANGED <<localVars, gw, historyVars>>
  BY DEF TimesOut
<1>2. UNCHANGED <<system, disk, token, entry, runtime, connector, intent, closed, unsure>>
  BY <1>1 DEF localVars, historyVars
<1>3. /\ op' \in OpType /\ op'.pc = op.pc /\ op'.name = op.name /\ op'.key = op.key /\ op'.keep = op.keep
      /\ op'.local = op.local /\ op'.req.kind = op.req.kind /\ op'.req.key = op.req.key
      /\ op'.req.binding = op.req.binding /\ op'.req.state = op.req.state /\ op'.req.stage = "lost"
  BY <1>1, OpFacts DEF OpType, RequestType
<1>4. late' \subseteq RequestType /\ late \subseteq late' /\ LateAsked'
  BY <1>1, OpFacts, RecordFacts DEF LateAsked
<1>5. MineIsBound' /\ \A q \in Keys : Accounted(q)'
  BY <1>1, <1>2, <1>4, AccountStays
<1>6. PauseOK' /\ LocalTypeOK'
  BY <1>1, <1>2, OpFacts, RecordFacts, LocalStays DEF PauseOK, Suspended, Still
<1>7. Script' /\ Asked' /\ Pauses'
  BY <1>2, <1>3, OpFacts DEF OperationOK, Script, Asked, Pauses, Waiting, Still
<1>8. Enrols'
  BY <1>1, <1>2, <1>3, <1>4, OpFacts DEF OperationOK, Enrols, Answered, LateEnrolment
<1>9. Replaces'
  BY <1>1, <1>2, <1>3, <1>4, OpFacts DEF OperationOK, Replaces, Released, Held, LateEnrolment
<1>10. Denied'
  BY <1>1, <1>2, <1>3, <1>4, OpFacts DEF OperationOK, Denied, Unprobed, Answered, Known
<1> QED BY <1>1, <1>2, <1>3, <1>4, <1>5, <1>6, <1>7, <1>8, <1>9, <1>10, OpFacts, RecordFacts, RecordMoves DEF OperationOK

-----------------------------------------------------------------------------
(* Every step of the device.                                               *)

LEMMA LifeKeeps == ASSUME DeviceInv, LifeNext PROVE DeviceInv'
<1>1. CASE JobsStart \/ RuntimeReads \/ RuntimeListens \/ RuntimeFails \/ Exit
  BY <1>1, JobsKeep
<1>2. CASE GatewayHandles \/ TimesOut \/ \E r \in late : HandlesLate(r)
  BY <1>2, GatewayHandlesKeeps, TimesOutKeeps, HandlesLateKeeps
<1>3. CASE (\E k \in Keys : Setup(k)) \/ StopPrevious \/ Repair \/ RepairRemoves
  BY <1>3, SetupKeeps, StopPreviousKeeps, RepairKeeps, RepairRemovesKeeps
<1>4. CASE EnrolmentFails \/ PreflightFails \/ ReleaseFails \/ Resumed
  BY <1>4, FailuresEndKeep
<1>5. CASE SaveToken \/ SaveEnrolment \/ Install \/ Start
  BY <1>5, SaveTokenKeeps, SaveEnrolmentKeeps, InstallKeeps, StartKeeps
<1>6. CASE StartRelease \/ ReplaceStops \/ DropToken \/ ForgetBinding
  BY <1>6, StartReleaseKeeps, LocalHalvesKeep, DropTokenKeeps, ForgetBindingKeeps
<1>7. CASE Pause \/ PauseStops \/ PauseEnds \/ RollBackStops
  BY <1>7, PauseKeeps, LocalHalvesKeep, PauseSettles
<1>8. CASE Resume \/ LiftPause \/ ResumeStarts \/ AskToResume \/ AskAgain \/ ResumeFails
  BY <1>8, ResumeAsks, LiftPauseKeeps, ResumeStartsKeeps, AskAgainKeeps, ResumeFailsKeeps
<1>9. CASE Restart \/ Crash
  BY <1>9, RestartKeeps, CrashKeeps
<1> QED BY <1>1, <1>2, <1>3, <1>4, <1>5, <1>6, <1>7, <1>8, <1>9 DEF LifeNext

LEMMA KeysKeep == ASSUME DeviceInv, KeyNext PROVE DeviceInv'
BY JobsKeep, AdminResetKeeps, OtherDeviceKeeps, ReplaceKeeps DEF KeyNext

\* Only a step of a change of the root is a step of that change.
LEMMA OthersNeverChange ==
    ASSUME DeviceInv, LifeNext \/ KeyNext
    PROVE  op'.name = "root" => Changing /\ op'.pc = op.pc /\ op'.keep = op.keep
<1>0. op \in OpType /\ Script /\ Asked /\ Idle \in OpType /\ Idle.name = "none"
  BY OpFacts, IdleTypes DEF OperationOK
<1>1. CASE JobsStart \/ RuntimeReads \/ RuntimeListens \/ RuntimeFails \/ Exit \/ LoseToken
           \/ (\E r \in late : HandlesLate(r)) \/ (\E k \in Keys : AdminReset(k) \/ OtherDevice(k))
  BY <1>1 DEF JobsStart, RuntimeReads, RuntimeListens, RuntimeFails, Exit, LoseToken, HandlesLate,
              AdminReset, OtherDevice, Changing
<1>2. CASE TimesOut \/ GatewayHandles
  BY <1>0, <1>2 DEF TimesOut, GatewayHandles, OpType, Changing
<1>3. CASE EnrolmentFails \/ PreflightFails \/ ReleaseFails \/ Resumed \/ PauseEnds \/ RollBackStops \/ Start \/ Crash
  BY <1>0, <1>3 DEF EnrolmentFails, PreflightFails, ReleaseFails, Resumed, PauseEnds, RollBackStops, Start, Crash, End
<1>4. CASE (\E k \in Keys : Setup(k) \/ Replace(k)) \/ Repair \/ Pause \/ Resume \/ Restart
  BY <1>0, <1>4 DEF Setup, Replace, Repair, Pause, Resume, Restart, SendEnrolment, SendPreflight, OpType, Free, Changing
<1>5. CASE StopPrevious \/ SaveToken \/ SaveEnrolment \/ Install \/ RepairRemoves
  BY <1>0, <1>5 DEF StopPrevious, SaveToken, SaveEnrolment, Install, RepairRemoves, At, End, Goto, OpType, Script
<1>6. CASE StartRelease \/ ReplaceStops \/ PauseStops \/ DropToken \/ ForgetBinding
  BY <1>0, <1>6 DEF StartRelease, ReplaceStops, PauseStops, LocalHalf, DropToken, ForgetBinding, At, Goto, OpType, Script
<1>7. CASE LiftPause \/ ResumeStarts \/ AskToResume \/ AskAgain \/ ResumeFails
  BY <1>0, <1>7 DEF LiftPause, ResumeStarts, AskToResume, AskAgain, ResumeFails, RollBack, Send, At, Goto, OpType
<1> QED BY <1>1, <1>2, <1>3, <1>4, <1>5, <1>6, <1>7 DEF LifeNext, KeyNext

\* A runtime that serves or is about to has read state.json, in this step or before.
LEMMA RuntimeTurns ==
    ASSUME DeviceInv, LifeNext \/ KeyNext, runtime'.phase \in {"loading", "serving"}
    PROVE  Opens \/ runtime.phase \in {"loading", "serving"}
<1>0. /\ runtime \in [phase : {"off", "starting", "loading", "serving"}, binding : Bindings \cup {None}]
      /\ Stopped.phase = "off" /\ [Stopped EXCEPT !.phase = "starting"].phase = "starting"
  BY OpFacts DEF LocalTypeOK, Stopped
<1>1. CASE StartJobs
  BY <1>0, <1>1 DEF StartJobs
<1>2. CASE StopJobs
  BY <1>0, <1>2 DEF StopJobs
<1>3. CASE UNCHANGED runtime \/ \E left \in {"none", "disabled", "enabled"} : StopFails(left)
  BY <1>0, <1>3 DEF StopFails
<1>4. CASE RuntimeReads \/ RuntimeListens \/ RuntimeFails
  BY <1>0, <1>4 DEF RuntimeReads, RuntimeListens, RuntimeFails, Opens
<1>5. \/ StartJobs \/ StopJobs \/ UNCHANGED runtime \/ (\E left \in {"none", "disabled", "enabled"} : StopFails(left))
      \/ RuntimeReads \/ RuntimeListens \/ RuntimeFails
  <2>0. entry \in {"none", "disabled", "enabled"} /\ PausedEntry \in {"none", "disabled", "enabled"}
    BY OpFacts
  <2>1. CASE JobsStart \/ RuntimeReads \/ RuntimeListens \/ RuntimeFails \/ LoseToken
             \/ GatewayHandles \/ TimesOut \/ (\E r \in late : HandlesLate(r))
             \/ (\E k \in Keys : AdminReset(k) \/ OtherDevice(k))
    BY <2>1 DEF JobsStart, LoseToken, GatewayHandles, TimesOut, HandlesLate, AdminReset, OtherDevice, localVars
  <2>2. CASE (\E k \in Keys : Setup(k) \/ Replace(k)) \/ Repair \/ Pause \/ Resume \/ EnrolmentFails \/ PreflightFails
             \/ ReleaseFails \/ Resumed \/ PauseEnds \/ SaveToken \/ SaveEnrolment \/ StartRelease \/ DropToken
             \/ ForgetBinding \/ LiftPause \/ AskToResume \/ AskAgain \/ ResumeFails
    BY <2>2 DEF Setup, Replace, Repair, Pause, Resume, EnrolmentFails, PreflightFails, ReleaseFails, Resumed,
                PauseEnds, SaveToken, SaveEnrolment, StartRelease, DropToken, ForgetBinding, LiftPause, AskToResume,
                AskAgain, ResumeFails, localVars
  <2>3. CASE StopPrevious \/ RepairRemoves \/ ReplaceStops \/ PauseStops \/ RollBackStops \/ Exit \/ Restart
    BY <2>0, <2>3 DEF StopPrevious, RepairRemoves, ReplaceStops, PauseStops, LocalHalf, RollBackStops, Exit, Restart, Stops
  <2>4. CASE Install \/ Start \/ ResumeStarts \/ Crash
    BY <2>4 DEF Install, Start, ResumeStarts, Crash, Stops
  <2> QED BY <2>1, <2>2, <2>3, <2>4 DEF LifeNext, KeyNext
<1> QED BY <1>1, <1>2, <1>3, <1>4, <1>5

-----------------------------------------------------------------------------
(* The steps of a change of the root.                                      *)

ChangePcs == {"halt", "write", "rerun", "verify", "unhalt", "unwrite", "unstart", "unverify"}

\* A change goes on, or ends, and leaves record and Gateway alone.
LEMMA ChangeGoes ==
    ASSUME DeviceInv, Changing, NEW pc \in ChangePcs, Goto(pc) \/ End,
           UNCHANGED stateVars, LocalTypeOK', Calms
    PROVE  DeviceInv' /\ (op' = Idle \/ (op'.name = "root" /\ op'.pc = pc /\ op'.keep = op.keep))
<1>1. UNCHANGED <<system, disk, late, gw, historyVars>>
  BY DEF stateVars
<1>2. CASE End
  BY <1>1, <1>2, EndsKeep DEF End
<1>3. CASE Goto(pc)
  <2>1. /\ op' \in OpType /\ op'.name = "root" /\ op'.pc = pc /\ op'.req = op.req /\ op'.keep = op.keep
    BY <1>3, OpFacts DEF Goto, OpType, ChangePcs, Changing
  <2>2. ~Waiting(op.req) /\ (op.req.kind # "none" => op.req.key \in Keys)
    BY OpFacts DEF OperationOK, Script, Changing
  <2>3. OperationOK'
    BY <2>1, <2>2 DEF OperationOK, Script, Asked, Enrols, Replaces, Pauses, Denied, ChangePcs, Waiting
  <2> QED BY <1>1, <2>1, <2>3, OpMoves
<1> QED BY <1>2, <1>3

LEMMA ChangeRootKeeps == ASSUME RootInv, NEW r \in Roots, ChangeRoot(r) PROVE RootInv'
<1>1. DeviceInv /\ Free /\ UNCHANGED <<stateVars, runtime, faults, root, served, astray>> /\ from' = root /\ next' = r
      /\ op' = [Idle EXCEPT !.name = "root", !.pc = IF ShouldRun THEN "halt" ELSE "write", !.keep = ShouldRun]
  BY DEF RootInv, ChangeRoot
<1>2. op' \in OpType /\ op'.name = "root" /\ op'.pc \in {"halt", "write"} /\ op'.req = NoRequest
      /\ (op'.pc = "write" => ~op'.keep)
  BY <1>1, IdleTypes DEF OpType, ShouldRun
<1>3. OperationOK'
  BY <1>2, IdleTypes DEF OperationOK, Script, Asked, Enrols, Replaces, Pauses, Denied, Waiting
<1>4. LocalTypeOK' /\ Calms
  BY <1>1, OpFacts DEF LocalTypeOK, Calms, Still, stateVars
<1>5. DeviceInv'
  BY <1>1, <1>2, <1>3, <1>4, OpMoves DEF stateVars
<1>6. RootTypeOK' /\ RootOK'
  BY <1>1, <1>2 DEF RootInv, RootTypeOK, RootOK
<1> QED BY <1>5, <1>6 DEF RootInv

LEMMA HaltKeeps ==
    ASSUME RootInv, NEW pc \in ChangePcs, NEW then \in {"write", "unwrite"}, NEW back \in ChangePcs,
           Halt(pc, then, Goto("unhalt") \/ End)
    PROVE  RootInv'
<1>1. DeviceInv /\ Changing /\ UNCHANGED <<stateVars, root, from, next>>
  BY DEF RootInv, Halt
<1>2. runtime' \in {runtime, Stopped} /\ (Fault \/ UNCHANGED faults)
      /\ (\/ runtime' = Stopped /\ served' = None /\ astray' = FALSE
          \/ UNCHANGED <<runtime, served, astray>> /\ (Goto("unhalt") \/ End))
      /\ (Goto(then) \/ Goto("unhalt") \/ End)
  BY DEF Halt
<1>3. LocalTypeOK' /\ Calms
  BY <1>1, <1>2, OpFacts, FaultsAreBounded, IdleTypes DEF LocalTypeOK, Calms, Still, stateVars
<1>4. \/ DeviceInv' /\ (op' = Idle \/ (op'.name = "root" /\ op'.pc = "unhalt" /\ op'.keep = op.keep))
      \/ DeviceInv' /\ op'.name = "root" /\ op'.pc = then /\ op'.keep = op.keep /\ served' = None
  BY <1>1, <1>2, <1>3, ChangeGoes, IdleTypes DEF ChangePcs
<1>5. RootTypeOK'
  BY <1>1, <1>2 DEF RootInv, RootTypeOK
<1>6. RootOK'
  BY <1>1, <1>2, <1>4, IdleTypes DEF RootInv, RootOK, Changing
<1> QED BY <1>4, <1>5, <1>6 DEF RootInv

LEMMA WriteKeeps ==
    ASSUME RootInv, NEW pc \in {"write", "unwrite"}, NEW r \in Roots, NEW then \in {"rerun", "unstart"},
           NEW failed \in {"unhalt", "unwrite"}, failed = "unwrite" => ~op.keep,
           Write(pc, r, Then(then), Goto(failed) \/ End)
    PROVE  RootInv'
<1>1. DeviceInv /\ Changing /\ op.pc = pc /\ UNCHANGED <<stateVars, runtime, served, from, next>>
      /\ root' \in {r, root} /\ astray' = (astray \/ (root' # root /\ served # None /\ ~op.keep))
  BY DEF RootInv, Write
<1>2. (Fault \/ UNCHANGED faults) /\ (Goto(then) \/ Goto(failed) \/ End)
  BY DEF Write, Then
<1>3. LocalTypeOK' /\ Calms
  BY <1>1, <1>2, OpFacts, FaultsAreBounded DEF LocalTypeOK, Calms, Still, stateVars
<1>4. DeviceInv' /\ (op' = Idle \/ (op'.name = "root" /\ op'.pc \in {then, failed} /\ op'.keep = op.keep))
  BY <1>1, <1>2, <1>3, ChangeGoes DEF ChangePcs
<1>5. RootTypeOK'
  BY <1>1, <1>4, IdleTypes DEF RootInv, RootTypeOK, Changing
<1>6. RootOK'
  BY <1>1, <1>4, IdleTypes DEF RootInv, RootOK, RootTypeOK, Changing
<1> QED BY <1>4, <1>5, <1>6 DEF RootInv

LEMMA RunKeeps ==
    ASSUME RootInv, NEW pc \in {"rerun", "unstart", "verify", "unverify"}, NEW then \in {"verify", "unverify"},
           \/ Rerun(pc, then, Goto("unhalt") \/ End)
           \/ Verify(pc, Goto("unhalt") \/ End)
    PROVE  RootInv'
<1>1. DeviceInv /\ Changing /\ UNCHANGED <<stateVars, rootVars>>
      /\ (\/ UNCHANGED runtime
          \/ runtime = Stopped /\ runtime' = [Stopped EXCEPT !.phase = "starting"])
      /\ (Fault \/ UNCHANGED faults) /\ (Goto(then) \/ Goto("unhalt") \/ End)
  <2>1. CASE Rerun(pc, then, Goto("unhalt") \/ End)
    BY <2>1 DEF RootInv, Rerun
  <2>2. CASE Verify(pc, Goto("unhalt") \/ End)
    BY <2>2 DEF RootInv, Verify
  <2> QED BY <2>1, <2>2
<1>2. LocalTypeOK' /\ Calms
  BY <1>1, OpFacts, FaultsAreBounded DEF LocalTypeOK, Calms, Still, stateVars, Stopped
<1>3. DeviceInv' /\ (op' = Idle \/ (op'.name = "root" /\ op'.pc \in {then, "unhalt"} /\ op'.keep = op.keep))
  BY <1>1, <1>2, ChangeGoes DEF ChangePcs
<1>4. RootTypeOK'
  BY <1>1, <1>3, IdleTypes DEF RootInv, RootTypeOK, Changing, rootVars
<1>5. RootOK'
  BY <1>1, <1>3, IdleTypes DEF RootInv, RootOK, Changing, rootVars, Stopped
<1> QED BY <1>3, <1>4, <1>5 DEF RootInv

LEMMA AroundKeeps == ASSUME RootInv, Around PROVE RootInv'
<1>1. DeviceInv /\ (LifeNext \/ KeyNext) /\ DeviceInv' /\ UNCHANGED <<root, from, next>>
  BY LifeKeeps, KeysKeep DEF RootInv, Around
<1>2. /\ op'.name = "root" => Changing /\ op'.pc = op.pc /\ op'.keep = op.keep
      /\ runtime'.phase \in {"loading", "serving"} => Opens \/ runtime.phase \in {"loading", "serving"}
      /\ runtime.phase \in {"off", "starting", "loading", "serving"}
      /\ runtime'.phase \in {"off", "starting", "loading", "serving"}
  BY <1>1, OthersNeverChange, RuntimeTurns DEF DeviceInv, DeviceTypeOK
<1>3. /\ served' = IF Opens THEN root ELSE IF runtime'.phase \in {"off", "starting"} THEN None ELSE served
      /\ astray' = IF Opens THEN Changing /\ op.pc \in {"write", "unwrite"} ELSE astray /\ served' # None
  BY DEF Around
<1>4. RootTypeOK'
  BY <1>1, <1>2, <1>3 DEF RootInv, RootTypeOK, Changing
<1>5. (runtime.phase \in {"off", "starting"} => served = None)'
  BY <1>2, <1>3 DEF Opens
<1>6. (~astray /\ served # None => served = root)'
  BY <1>1, <1>2, <1>3 DEF RootInv, RootOK
<1>7. (Changing /\ op.pc \in {"write", "unwrite"} /\ op.keep /\ served # None => astray)'
  BY <1>1, <1>2, <1>3 DEF RootInv, RootOK, Changing
<1> QED BY <1>1, <1>4, <1>5, <1>6, <1>7 DEF RootInv, RootOK

LEMMA RootStepKeeps == ASSUME RootInv, RootStep PROVE RootInv'
<1>0. Changing => from \in Roots /\ next \in Roots
  BY DEF RootInv, RootTypeOK
<1>1. CASE \E r \in Roots : ChangeRoot(r)
  BY <1>1, ChangeRootKeeps
<1>2. CASE Halt("halt", "write", Goto("unhalt")) \/ Halt("unhalt", "unwrite", UnhaltedEnds)
  BY <1>2, HaltKeeps DEF ChangePcs, Halt, UnhaltedEnds
<1>3. CASE Write("write", next, Then("rerun"), Goto(IF op.keep THEN "unhalt" ELSE "unwrite"))
  BY <1>0, <1>3, WriteKeeps DEF Write
<1>4. CASE Write("unwrite", from, Then("unstart"), End)
  BY <1>0, <1>4, WriteKeeps DEF Write
<1>5. CASE \/ Rerun("rerun", "verify", Goto("unhalt")) \/ Verify("verify", Goto("unhalt"))
           \/ Rerun("unstart", "unverify", End) \/ Verify("unverify", End)
  <2>1. \/ Rerun("rerun", "verify", Goto("unhalt") \/ End) \/ Rerun("unstart", "unverify", Goto("unhalt") \/ End)
        \/ Verify("verify", Goto("unhalt") \/ End) \/ Verify("unverify", Goto("unhalt") \/ End)
    BY <1>5 DEF Rerun, Verify
  <2> QED BY <2>1, RunKeeps
<1> QED BY <1>1, <1>2, <1>3, <1>4, <1>5 DEF RootStep

LEMMA RootStarts == RootInit => RootInv
<1> SUFFICES ASSUME RootInit PROVE RootInv
  OBVIOUS
<1>1. /\ op = Idle /\ late = {} /\ intent = FALSE /\ closed = FALSE /\ unsure = {} /\ faults = 0
      /\ system \in Systems /\ root \in Roots /\ astray = FALSE
  BY DEF RootInit, DeviceInit
<1>2. DeviceTypeOK
  <2>1. LocalTypeOK /\ disk \in DiskType /\ gw \in [Keys -> RowType]
    <3>1. CASE scene = "keys" /\ DeviceInit
      BY <3>1, IdleTypes, DeviceNumbers DEF DeviceInit, LocalTypeOK, DiskType
    <3>2. CASE scene = "root"
      <4>1. PICK k \in Keys, b \in Bindings :
               /\ disk = [key |-> k, pending |-> None, binding |-> b, access |-> "active"]
               /\ token = b /\ connector = b /\ entry = "enabled"
               /\ runtime = [phase |-> "serving", binding |-> b]
               /\ gw = [q \in Keys |-> IF q = k
                          THEN [state |-> "active", binding |-> b, mine |-> TRUE] ELSE Unbound]
        BY <3>2 DEF RootInit
      <4>2. [state |-> "active", binding |-> b, mine |-> TRUE] \in RowType
        BY DEF RowType
      <4> QED BY <1>1, <4>1, <4>2, IdleTypes, DeviceNumbers DEF LocalTypeOK, DiskType
    <3> QED BY <3>1, <3>2 DEF RootInit
  <2> QED BY <1>1, <2>1, IdleTypes, DeviceTypes
<1>3. DeviceOK
  <2>1. \A k \in Keys : gw[k].mine =>
           k = disk.key /\ gw[k].binding = disk.binding /\ gw[k].state = "active" /\ disk.binding # None
    BY DeviceNumbers DEF RootInit, DeviceInit, Unbound
  <2> QED BY <1>1, <2>1 DEF DeviceOK, PauseOK, MineIsBound, LateAsked, Accounted
<1>4. OperationOK
  BY <1>1, IdleTypes DEF OperationOK, Script, Asked, Enrols, Replaces, Pauses, Denied, Waiting, Answered
<1>5. RootTypeOK /\ RootOK
  <2>1. served \in {root, None} /\ (runtime.phase \in {"off", "starting"} => served = None)
    BY DEF RootInit
  <2> QED BY <1>1, <2>1, IdleTypes DEF RootTypeOK, RootOK, Changing
<1> QED BY <1>2, <1>3, <1>4, <1>5 DEF RootInv, DeviceInv

LEMMA RootTurns == ASSUME RootInv, [RootNext]_allVars PROVE RootInv'
<1>1. CASE RootNext
  BY <1>1, AroundKeeps, RootStepKeeps DEF RootNext
<1>2. CASE UNCHANGED allVars
  <2>1. DeviceInv /\ UNCHANGED <<system, disk, late, gw, historyVars, op, faults, runtime, token, entry, connector,
                                root, served, from, next, astray>>
    BY <1>2 DEF allVars, deviceVars, localVars, rootVars, RootInv
  <2>2. LocalTypeOK' /\ Calms /\ op' \in OpType
    BY <2>1, OpFacts, LocalStays
  <2>3. DeviceInv'
    BY <2>1, <2>2, OpFacts, WaitingIsOK, OpMoves
  <2> QED BY <2>1, <2>3 DEF RootInv, RootTypeOK, RootOK, Changing
<1> QED BY <1>1, <1>2

-----------------------------------------------------------------------------
(* The theorems.                                                           *)

\* Whatever logins, operations, late answers, changes of keys and of the root,
\* failures and crashes come together (client/setup.mjs, control.mjs), every key the
\* Gateway holds for the device is accounted for, every place of an operation finds
\* what it relies on, and a runtime serves the root on disk or is known not to.
THEOREM RootInvariant == RootSpec => []RootInv
BY RootStarts, RootTurns, PTL DEF RootSpec

\* A pause stays on disk until it is taken back, and once its services were seen to
\* stop nothing serves (suspendRemoteAccess in client/control.mjs, runComponent in
\* client/runtime.mjs).
THEOREM PauseHoldsAlways == RootSpec => []PauseHolds
<1>1. RootInv => PauseHolds
  BY DEF RootInv, DeviceInv, DeviceOK, PauseOK, Still, PauseHolds, PauseIsSticky, PausedServesNothing
<1> QED BY <1>1, RootInvariant, PTL

\* While a resume brings the device up the Gateway admits no request before it has
\* probed the device (resumeRemoteAccess in client/control.mjs).
THEOREM DeniedUntilProbedHolds == RootSpec => []DeniedUntilProbed
<1>1. RootInv => DeniedUntilProbed
  <2>1. ASSUME RootInv, op.name = "resume", op.pc \in {"start", "wait"},
               Known([key |-> disk.key, binding |-> disk.binding]), \A r \in late : r.kind # "resume"
        PROVE  gw[disk.key].state # "active"
    BY <2>1 DEF RootInv, DeviceInv, OperationOK, Denied, Unprobed
  <2> QED BY <2>1 DEF DeniedUntilProbed
<1> QED BY <1>1, RootInvariant, PTL

\* What state.json names is what the Gateway holds for the device and what its
\* processes serve (configureDevice and changeProjectRoot in client/setup.mjs).
THEOREM StateIsTrueHolds == RootSpec => []StateIsTrue
<1>1. RootInv => StateIsTrue
  <2>1. ASSUME RootInv PROVE NoForgottenBinding
    BY <2>1 DEF RootInv, DeviceInv, DeviceOK, Accounted, Held, LateEnrolment, NoForgottenBinding
  <2>2. ASSUME RootInv PROVE ServesItsRoot
    BY <2>2 DEF RootInv, RootOK, ServesItsRoot
  <2> QED BY <2>1, <2>2 DEF StateIsTrue
<1> QED BY <1>1, RootInvariant, PTL

-----------------------------------------------------------------------------
(* The lock.                                                               *)

Claims(p) == step[p] \in {"recheck", "drop", "move"}

\* What the owner of the lock finds in it; that a lock is reclaimed by one
\* installer at a time, whose claim keeps it in place; that the owner it read has
\* ended and is still the one in the lock when the lock is moved away.
OwnerHolds == \A p \in Installers : Owns(p) =>
    installLock.made /\ installLock.pid = IF step[p] = "work" THEN p ELSE Nil
ClaimPins == \A p \in Installers : Claims(p) => installLock.made /\ installLock.reclaim
OneClaim == \A p, q \in Installers : Claims(p) /\ Claims(q) => p = q
OwnerEnded ==
    /\ \A p \in Installers : step[p] = "probe" => owner[p] \in Installers
    /\ \A p \in Installers : step[p] = "claim" \/ Claims(p) => owner[p] \in Installers /\ Ended(owner[p])
    /\ \A p \in Installers : step[p] = "move" => installLock.pid = owner[p]
LockInv == LockTypeOK /\ OneAtATime /\ OwnerHolds /\ ClaimPins /\ OneClaim /\ OwnerEnded

\* A lock nobody has made satisfies the invariant.
LEMMA LockInvInit == LockInit => LockInv
  BY LockAssumption DEF LockInit, LockInv, LockTypeOK, Steps, NoLock, OneAtATime, Owns, Claims,
     OwnerHolds, ClaimPins, OneClaim, OwnerEnded

\* Each step of one installer keeps the lock's invariant.
LEMMA LockInvStep ==
  ASSUME LockInv, NEW p \in Installers, Acquire(p) \/ Cleanup(p) \/ Kill(p)
  PROVE  LockInv'
  <1> USE LockAssumption DEF LockInv, LockTypeOK, Ended, To, NoLock, NewLock, Acquire, Cleanup,
        Make, WritePid, ReadOwner, ProbeOwner, MakeReclaim, Recheck, SameOwner, DropReclaim,
        MoveAway, RemovePid, RemoveLock, Kill
  <1>1. LockTypeOK'
    <2>1. installLock' \in [made : BOOLEAN, pid : Installers \cup {Nil}, reclaim : BOOLEAN]
      <3>1. \/ installLock' \in {installLock, NoLock, NewLock}
            \/ \E q \in {p, Nil} : installLock' = [installLock EXCEPT !.pid = q]
            \/ \E b \in BOOLEAN : installLock' = [installLock EXCEPT !.reclaim = b]
        OBVIOUS
      <3>2. installLock \in [made : BOOLEAN, pid : Installers \cup {Nil}, reclaim : BOOLEAN]
        OBVIOUS
      <3> HIDE DEF LockInv, LockTypeOK, Acquire, Cleanup, Kill
      <3>3. CASE installLock' = installLock
        BY <3>2, <3>3
      <3>4. CASE installLock' = NoLock
        BY <3>4
      <3>5. CASE installLock' = NewLock
        BY <3>5
      <3>6. CASE \E q \in {p, Nil} : installLock' = [installLock EXCEPT !.pid = q]
        BY <3>2, <3>6
      <3>7. CASE \E b \in BOOLEAN : installLock' = [installLock EXCEPT !.reclaim = b]
        BY <3>2, <3>7
      <3> QED BY <3>1, <3>3, <3>4, <3>5, <3>6, <3>7
    <2>2. step' \in [Installers -> Steps]
      BY DEF Steps
    <2>3. owner' \in [Installers -> Installers \cup {Nil}]
      OBVIOUS
    <2> QED BY <2>1, <2>2, <2>3 DEF Steps
  <1>2. OneAtATime'
    BY DEF OneAtATime, OwnerHolds, Owns
  <1>3. OwnerHolds'
    BY DEF OneAtATime, OwnerHolds, OwnerEnded, Owns, Claims
  <1>4. ClaimPins'
    BY DEF ClaimPins, OneClaim, Claims
  <1>5. OneClaim'
    BY DEF ClaimPins, OneClaim, Claims
  <1>6. OwnerEnded'
    BY DEF OwnerEnded, OwnerHolds, OneClaim, ClaimPins, Claims, Owns
  <1> QED BY <1>1, <1>2, <1>3, <1>4, <1>5, <1>6

\* What is done under the lock leaves it as it is.
LEMMA LockInvStutter == LockInv /\ UNCHANGED lockVars => LockInv'
  BY DEF LockInv, LockTypeOK, OneAtATime, Owns, Claims, Ended, lockVars,
     OwnerHolds, ClaimPins, OneClaim, OwnerEnded

\* At most one installer has the lock, whatever happens to the others.
THEOREM LockExcludes == LockSpec => []OneAtATime
  <1>1. LockInit => LockInv
    BY LockInvInit
  <1>2. LockInv /\ [LockNext]_lockVars => LockInv'
    BY LockInvStep, LockInvStutter DEF LockNext
  <1>3. LockInv => OneAtATime
    BY DEF LockInv
  <1> QED BY <1>1, <1>2, <1>3, PTL DEF LockSpec

-----------------------------------------------------------------------------
(* What is done under it.                                                  *)

\* No version of an installer that has not staged it yet is anywhere.
Fresh(p) == p \notin whole \cup removed \cup {activePath, startup, serving}
Runs(S) == serving \in S \cup {Nil} \/ stray
Late == {"begin", "restart", "over", "undone", "erase", "forget"}

\* The candidate is complete until it is taken back; active-path names it from
\* the activation on, and the current version before that and after it is restored.
PathOK(pc, p, current) ==
    /\ pc \notin Late => p \in whole
    /\ pc \in {"stop", "setup", "activate", "undo", "reinstall", "discard", "undone"} => activePath = current
    /\ pc \in {"command", "refresh", "restore", "prune"} => activePath = p
    /\ pc \notin Late \cup {"prune"} => current \in whole \cup removed \cup {Nil} /\ current # p
    /\ pc \in {"command", "refresh", "restore"} => target = "linux"
\* Nothing runs, or will start, from a version that is about to be removed.
ServicesOK(pc, p, unclean) ==
    /\ pc = "begin" => Fresh(p)
    /\ pc = "stop" => startup # p /\ serving # p
    /\ target = "linux" /\ pc \in {"setup", "activate", "command", "refresh"} => Runs({})
    /\ target = "linux" /\ pc = "prune" => Runs({p})
    /\ target = "darwin" /\ pc \in {"activate", "prune"} => startup = p /\ Runs({p})
    /\ pc \in {"reinstall", "discard"} /\ ~unclean =>
         (target = "darwin" => startup # p) /\ (serving # p \/ stray)
    /\ pc \in {"erase", "forget"} => startup = Nil /\ serving = Nil
RecordOK(pc, j) ==
    /\ pc \in {"stop", "setup"} /\ target = "darwin" => j.setup
    /\ (pc \in {"activate", "command"} /\ j.setup) \/ pc = "refresh" => enrolled = "bound"
    /\ pc \in {"discard", "undone"} /\ j.current # Nil /\ enrolled # "none" /\ ~j.unclean /\ ~j.unrestored
         => startup # Nil /\ Resolved = j.current /\ j.current \in whole
JobOK(p) ==
    /\ PathOK(job[p].pc, p, job[p].current)
    /\ ServicesOK(job[p].pc, p, job[p].unclean)
    /\ RecordOK(job[p].pc, job[p])

NoneActive == target = "linux" /\ activePath = Nil => Runs({})
NotEnrolled == enrolled = "none" => startup = Nil /\ serving = Nil
JobsAtWork == \A p \in Installers : step[p] # "work" => job[p] = NoJob
Newcomers == \A p \in Installers : step[p] \notin {"work", "leave", "end", "dead"} => Fresh(p)
JobsOK == \A p \in Installers : step[p] = "work" => JobOK(p)

DistributionInv ==
    /\ DistributionTypeOK /\ VersionsKept /\ NoneActive /\ NotEnrolled
    /\ JobsAtWork /\ Newcomers /\ JobsOK

\* What a step of the one installer that works has to show.
Steady(p, j) ==
    /\ PathOK(j.pc, p, j.current) /\ ServicesOK(j.pc, p, j.unclean) /\ RecordOK(j.pc, j)
    /\ VersionsKept /\ NoneActive /\ NotEnrolled
Takes(p, j) == step[p] = "work" /\ job' = [job EXCEPT ![p] = j]
NothingNew(p) ==
    /\ whole' \subseteq whole \cup {p} /\ removed' \subseteq removed \cup whole
    /\ {activePath', startup', serving'}
         \subseteq whole \cup removed \cup {activePath, startup, serving, p, Nil}

\* At most one installer is at work.
LEMMA Alone ==
  ASSUME LockInv, NEW p \in Installers, step[p] = "work", NEW q \in Installers, step[q] = "work"
  PROVE  q = p
  BY DEF LockInv, OneAtATime, Owns

\* What is left to show of a step of the installer at work: what it is afterwards,
\* and that it brought no version to light but its own.
LEMMA WorkKeeps ==
  ASSUME LockInv, DistributionInv, UNCHANGED lockVars,
         NEW p \in Installers, NEW j \in Jobs, Takes(p, j), Steady(p, j)',
         PlacesTypeOK', NothingNew(p)
  PROVE  DistributionInv'
  <1> USE DEF DistributionInv, Takes, lockVars
  <1>1. JobsAtWork'
    BY DEF JobsAtWork
  <1>2. Newcomers'
    <2> SUFFICES ASSUME NEW q \in Installers, step[q] \notin {"work", "leave", "end", "dead"}
                 PROVE  Fresh(q)'
      BY DEF Newcomers
    <2>1. q # p /\ q # Nil
      BY LockAssumption
    <2> QED BY <2>1 DEF Newcomers, Fresh, NothingNew
  <1>3. JobsOK'
    <2> SUFFICES ASSUME NEW q \in Installers, step[q] = "work"
                 PROVE  JobOK(q)'
      BY DEF JobsOK
    <2>1. q = p
      BY Alone
    <2>2. job'[p] = j
      BY DEF DistributionTypeOK
    <2> QED BY <2>1, <2>2 DEF JobOK, Steady
  <1>4. DistributionTypeOK'
    BY DEF DistributionTypeOK
  <1> QED BY <1>1, <1>2, <1>3, <1>4 DEF Steady

\* What is known of an installer at a step, and what it is when it has gone on.
AtWorkFacts(p, c) ==
    /\ step[p] = "work" /\ job[p] \in Jobs /\ job[p].pc = c
    /\ PathOK(c, p, job[p].current) /\ ServicesOK(c, p, job[p].unclean) /\ RecordOK(c, job[p])
Follows(p, j, c) ==
    /\ j.pc = c /\ j.setup = job[p].setup /\ j.current = job[p].current
    /\ j.unclean = job[p].unclean /\ j.unrestored = job[p].unrestored
\* The invariant, read at one step of the installer at work.
LEMMA AtWork ==
  ASSUME DistributionInv, NEW p \in Installers, NEW c, Working(p, c)
  PROVE  AtWorkFacts(p, c)
  BY DEF AtWorkFacts, DistributionInv, DistributionTypeOK, JobsOK, JobOK, Working

\* WorkKeeps for the steps that only move on: their job is the old one elsewhere.
LEMMA GoesOn ==
  ASSUME LockInv, DistributionInv, UNCHANGED lockVars, NEW p \in Installers, step[p] = "work",
         NEW c \in Pcs, Continue(p, c), PlacesTypeOK', NothingNew(p),
         \A j \in Jobs : Follows(p, j, c) => Steady(p, j)'
  PROVE  DistributionInv'
  <1> DEFINE j == [job[p] EXCEPT !.pc = c]
  <1>1. job[p] \in Jobs /\ job' = [job EXCEPT ![p] = j]
    BY DEF DistributionInv, DistributionTypeOK, Continue
  <1>2. j \in Jobs /\ Follows(p, j, c)
    BY <1>1 DEF Jobs, Follows
  <1> QED BY <1>1, <1>2, WorkKeeps DEF Takes

\* One lemma per step of an installation, a restoration and a removal.
LEMMA StopCurrentKeeps ==
  ASSUME LockInv, DistributionInv, UNCHANGED lockVars, NEW p \in Installers, StopCurrent(p)
  PROVE  DistributionInv'
  <1> USE DEF StopCurrent, Services, InPart, Serves, Setback
  <1>1. AtWorkFacts(p, "stop")
    BY AtWork
  <1>2. PlacesTypeOK' /\ NothingNew(p)
    BY <1>1 DEF AtWorkFacts, Jobs, DistributionInv, DistributionTypeOK, PlacesTypeOK, NothingNew,
       Versions, PathOK, Late
  <1>3. CASE Continue(p, "setup") /\ Services(Nil, startup) /\ UNCHANGED <<whole, activePath>>
    <2>1. ASSUME NEW j \in Jobs, Follows(p, j, "setup") PROVE Steady(p, j)'
      BY <1>1, <1>3, <2>1, LockAssumption, InstallerAssumption DEF DistributionInv,
         DistributionTypeOK, PlacesTypeOK, Steady, Follows, AtWorkFacts, PathOK,
         ServicesOK, RecordOK, VersionsKept, InUse, Resolved, NoneActive, NotEnrolled, Runs, Late, Fresh
    <2> QED BY <1>1, <1>2, <1>3, <2>1, GoesOn DEF AtWorkFacts, Pcs
  <1>4. CASE Continue(p, "restart") /\ (\E w \in {serving, Nil} : Serves(w))
              /\ whole' = whole \ {p} /\ UNCHANGED <<startup, activePath>>
    <2>1. ASSUME NEW j \in Jobs, Follows(p, j, "restart") PROVE Steady(p, j)'
      BY <1>1, <1>4, <2>1, LockAssumption, InstallerAssumption DEF DistributionInv,
         DistributionTypeOK, PlacesTypeOK, Steady, Follows, AtWorkFacts, PathOK,
         ServicesOK, RecordOK, VersionsKept, InUse, Resolved, NoneActive, NotEnrolled, Runs, Late, Fresh
    <2> QED BY <1>1, <1>2, <1>4, <2>1, GoesOn DEF AtWorkFacts, Pcs
  <1> QED BY <1>3, <1>4

LEMMA RestartCurrentKeeps ==
  ASSUME LockInv, DistributionInv, UNCHANGED lockVars, NEW p \in Installers, RestartCurrent(p)
  PROVE  DistributionInv'
  <1> USE DEF RestartCurrent, Serves
  <1>1. AtWorkFacts(p, "restart")
    BY AtWork
  <1>2. PlacesTypeOK' /\ NothingNew(p)
    BY <1>1 DEF AtWorkFacts, Jobs, DistributionInv, DistributionTypeOK, PlacesTypeOK, NothingNew,
       Versions, PathOK, Late
  <1>3. CASE Continue(p, "over")
    <2>1. ASSUME NEW j \in Jobs, Follows(p, j, "over") PROVE Steady(p, j)'
      BY <1>1, <1>3, <2>1, LockAssumption, InstallerAssumption DEF DistributionInv,
         DistributionTypeOK, PlacesTypeOK, Steady, Follows, AtWorkFacts, PathOK,
         ServicesOK, RecordOK, VersionsKept, InUse, Resolved, NoneActive, NotEnrolled, Runs, Late, Fresh
    <2> QED BY <1>1, <1>2, <1>3, <2>1, GoesOn DEF AtWorkFacts, Pcs
  <1> QED BY <1>3

LEMMA SetUpKeeps ==
  ASSUME LockInv, DistributionInv, UNCHANGED lockVars, NEW p \in Installers, SetUp(p)
  PROVE  DistributionInv'
  <1> USE DEF SetUp, Services, InPart, Serves, Setback
  <1>1. AtWorkFacts(p, "setup")
    BY AtWork
  <1>2. PlacesTypeOK' /\ NothingNew(p)
    BY <1>1 DEF AtWorkFacts, Jobs, DistributionInv, DistributionTypeOK, PlacesTypeOK, NothingNew,
       Versions, PathOK, Late
  <1>3. CASE Continue(p, "activate") /\ job[p].setup /\ target = "darwin" /\ Services(p, p)
              /\ enrolled' = "bound" /\ UNCHANGED activePath
    <2>1. ASSUME NEW j \in Jobs, Follows(p, j, "activate") PROVE Steady(p, j)'
      BY <1>1, <1>3, <2>1, LockAssumption, InstallerAssumption DEF DistributionInv,
         DistributionTypeOK, PlacesTypeOK, Steady, Follows, AtWorkFacts, PathOK,
         ServicesOK, RecordOK, VersionsKept, InUse, Resolved, NoneActive, NotEnrolled, Runs, Late, Fresh
    <2> QED BY <1>1, <1>2, <1>3, <2>1, GoesOn DEF AtWorkFacts, Pcs
  <1>4. CASE Continue(p, "activate") /\ target # "darwin" /\ UNCHANGED <<activePath, startup, serving, stray>>
              /\ (IF job[p].setup THEN enrolled' = "bound" ELSE UNCHANGED enrolled)
    <2>1. ASSUME NEW j \in Jobs, Follows(p, j, "activate") PROVE Steady(p, j)'
      BY <1>1, <1>4, <2>1, LockAssumption, InstallerAssumption DEF DistributionInv,
         DistributionTypeOK, PlacesTypeOK, Steady, Follows, AtWorkFacts, PathOK,
         ServicesOK, RecordOK, VersionsKept, InUse, Resolved, NoneActive, NotEnrolled, Runs, Late, Fresh
    <2> QED BY <1>1, <1>2, <1>4, <2>1, GoesOn DEF AtWorkFacts, Pcs
  <1>5. CASE Continue(p, "undo")
    <2>1. ASSUME NEW j \in Jobs, Follows(p, j, "undo") PROVE Steady(p, j)'
      BY <1>1, <1>5, <2>1, LockAssumption, InstallerAssumption DEF DistributionInv,
         DistributionTypeOK, PlacesTypeOK, Steady, Follows, AtWorkFacts, PathOK,
         ServicesOK, RecordOK, VersionsKept, InUse, Resolved, NoneActive, NotEnrolled, Runs, Late, Fresh
    <2> QED BY <1>1, <1>2, <1>5, <2>1, GoesOn DEF AtWorkFacts, Pcs
  <1> QED BY <1>1, <1>3, <1>4, <1>5 DEF AtWorkFacts, RecordOK

LEMMA ActivateKeeps ==
  ASSUME LockInv, DistributionInv, UNCHANGED lockVars, NEW p \in Installers, Activate(p)
  PROVE  DistributionInv'
  <1> USE DEF Activate
  <1>1. AtWorkFacts(p, "activate")
    BY AtWork
  <1>2. PlacesTypeOK' /\ NothingNew(p)
    BY <1>1 DEF AtWorkFacts, Jobs, DistributionInv, DistributionTypeOK, PlacesTypeOK, NothingNew,
       Versions, PathOK, Late
  <1>3. CASE target = "linux" /\ activePath' = p /\ Continue(p, "command")
    <2>1. ASSUME NEW j \in Jobs, Follows(p, j, "command") PROVE Steady(p, j)'
      BY <1>1, <1>3, <2>1, LockAssumption, InstallerAssumption DEF DistributionInv,
         DistributionTypeOK, PlacesTypeOK, Steady, Follows, AtWorkFacts, PathOK,
         ServicesOK, RecordOK, VersionsKept, InUse, Resolved, NoneActive, NotEnrolled, Runs, Late, Fresh
    <2> QED BY <1>1, <1>2, <1>3, <2>1, GoesOn DEF AtWorkFacts, Pcs
  <1>4. CASE target # "linux" /\ activePath' = p /\ Continue(p, "prune")
    <2>1. ASSUME NEW j \in Jobs, Follows(p, j, "prune") PROVE Steady(p, j)'
      BY <1>1, <1>4, <2>1, LockAssumption, InstallerAssumption DEF DistributionInv,
         DistributionTypeOK, PlacesTypeOK, Steady, Follows, AtWorkFacts, PathOK,
         ServicesOK, RecordOK, VersionsKept, InUse, Resolved, NoneActive, NotEnrolled, Runs, Late, Fresh
    <2> QED BY <1>1, <1>2, <1>4, <2>1, GoesOn DEF AtWorkFacts, Pcs
  <1>5. CASE UNCHANGED activePath /\ Continue(p, "undo")
    <2>1. ASSUME NEW j \in Jobs, Follows(p, j, "undo") PROVE Steady(p, j)'
      BY <1>1, <1>5, <2>1, LockAssumption, InstallerAssumption DEF DistributionInv,
         DistributionTypeOK, PlacesTypeOK, Steady, Follows, AtWorkFacts, PathOK,
         ServicesOK, RecordOK, VersionsKept, InUse, Resolved, NoneActive, NotEnrolled, Runs, Late, Fresh
    <2> QED BY <1>1, <1>2, <1>5, <2>1, GoesOn DEF AtWorkFacts, Pcs
  <1> QED BY <1>3, <1>4, <1>5

LEMMA LinkCommandKeeps ==
  ASSUME LockInv, DistributionInv, UNCHANGED lockVars, NEW p \in Installers, LinkCommand(p)
  PROVE  DistributionInv'
  <1> USE DEF LinkCommand
  <1>1. AtWorkFacts(p, "command")
    BY AtWork
  <1>2. PlacesTypeOK' /\ NothingNew(p)
    BY <1>1 DEF AtWorkFacts, Jobs, DistributionInv, DistributionTypeOK, PlacesTypeOK, NothingNew,
       Versions, PathOK, Late
  <1>3. CASE Continue(p, "refresh") /\ (job[p].setup \/ enrolled = "bound")
    <2>1. ASSUME NEW j \in Jobs, Follows(p, j, "refresh") PROVE Steady(p, j)'
      BY <1>1, <1>3, <2>1, LockAssumption, InstallerAssumption DEF DistributionInv,
         DistributionTypeOK, PlacesTypeOK, Steady, Follows, AtWorkFacts, PathOK,
         ServicesOK, RecordOK, VersionsKept, InUse, Resolved, NoneActive, NotEnrolled, Runs, Late, Fresh
    <2> QED BY <1>1, <1>2, <1>3, <2>1, GoesOn DEF AtWorkFacts, Pcs
  <1>4. CASE Continue(p, "prune")
    <2>1. ASSUME NEW j \in Jobs, Follows(p, j, "prune") PROVE Steady(p, j)'
      BY <1>1, <1>4, <2>1, LockAssumption, InstallerAssumption DEF DistributionInv,
         DistributionTypeOK, PlacesTypeOK, Steady, Follows, AtWorkFacts, PathOK,
         ServicesOK, RecordOK, VersionsKept, InUse, Resolved, NoneActive, NotEnrolled, Runs, Late, Fresh
    <2> QED BY <1>1, <1>2, <1>4, <2>1, GoesOn DEF AtWorkFacts, Pcs
  <1>5. CASE Continue(p, "restore")
    <2>1. ASSUME NEW j \in Jobs, Follows(p, j, "restore") PROVE Steady(p, j)'
      BY <1>1, <1>5, <2>1, LockAssumption, InstallerAssumption DEF DistributionInv,
         DistributionTypeOK, PlacesTypeOK, Steady, Follows, AtWorkFacts, PathOK,
         ServicesOK, RecordOK, VersionsKept, InUse, Resolved, NoneActive, NotEnrolled, Runs, Late, Fresh
    <2> QED BY <1>1, <1>2, <1>5, <2>1, GoesOn DEF AtWorkFacts, Pcs
  <1> QED BY <1>3, <1>4, <1>5

LEMMA RefreshStartupKeeps ==
  ASSUME LockInv, DistributionInv, UNCHANGED lockVars, NEW p \in Installers, RefreshStartup(p)
  PROVE  DistributionInv'
  <1> USE DEF RefreshStartup, Services, InPart, Serves, Setback, Started
  <1>1. AtWorkFacts(p, "refresh")
    BY AtWork
  <1>2. PlacesTypeOK' /\ NothingNew(p)
    BY <1>1 DEF AtWorkFacts, Jobs, DistributionInv, DistributionTypeOK, PlacesTypeOK, NothingNew,
       Versions, PathOK, Late
  <1>3. CASE Continue(p, "prune") /\ Services(Started, p) /\ UNCHANGED activePath
    <2>1. ASSUME NEW j \in Jobs, Follows(p, j, "prune") PROVE Steady(p, j)'
      <3> USE <1>1, <1>3, <2>1, LockAssumption, InstallerAssumption
            DEF DistributionInv, DistributionTypeOK, PlacesTypeOK, Follows, AtWorkFacts, Runs, Late
      <3>1. PathOK(j.pc, p, j.current)'
        BY DEF PathOK
      <3>2. ServicesOK(j.pc, p, j.unclean)'
        BY DEF ServicesOK, PathOK, Fresh
      <3>3. RecordOK(j.pc, j)'
        BY DEF RecordOK, PathOK, Resolved, Versions
      <3>4. VersionsKept'
        BY DEF VersionsKept, InUse, Resolved, PathOK, ServicesOK
      <3>5. NoneActive'
        BY DEF NoneActive, PathOK
      <3>6. NotEnrolled'
        BY DEF NotEnrolled, RecordOK
      <3> QED BY <3>1, <3>2, <3>3, <3>4, <3>5, <3>6 DEF Steady
    <2> QED BY <1>1, <1>2, <1>3, <2>1, GoesOn DEF AtWorkFacts, Pcs
  <1>4. CASE Continue(p, "restore") /\ InPart(Started, p) /\ UNCHANGED activePath
    <2>1. ASSUME NEW j \in Jobs, Follows(p, j, "restore") PROVE Steady(p, j)'
      <3> USE <1>1, <1>4, <2>1, LockAssumption, InstallerAssumption
            DEF DistributionInv, DistributionTypeOK, PlacesTypeOK, Follows, AtWorkFacts, Runs, Late
      <3>1. PathOK(j.pc, p, j.current)'
        BY DEF PathOK
      <3>2. ServicesOK(j.pc, p, j.unclean)'
        BY DEF ServicesOK, PathOK, Fresh
      <3>3. RecordOK(j.pc, j)'
        BY DEF RecordOK, PathOK, Resolved, Versions
      <3>4. VersionsKept'
        BY DEF VersionsKept, InUse, Resolved, PathOK, ServicesOK
      <3>5. NoneActive'
        BY DEF NoneActive, PathOK
      <3>6. NotEnrolled'
        BY DEF NotEnrolled, RecordOK
      <3> QED BY <3>1, <3>2, <3>3, <3>4, <3>5, <3>6 DEF Steady
    <2> QED BY <1>1, <1>2, <1>4, <2>1, GoesOn DEF AtWorkFacts, Pcs
  <1> QED BY <1>3, <1>4

LEMMA PruneKeeps ==
  ASSUME LockInv, DistributionInv, UNCHANGED lockVars, NEW p \in Installers, Prune(p)
  PROVE  DistributionInv'
  <1> USE DEF Prune
  <1>1. AtWorkFacts(p, "prune")
    BY AtWork
  <1>2. PlacesTypeOK' /\ NothingNew(p)
    BY <1>1 DEF AtWorkFacts, Jobs, DistributionInv, DistributionTypeOK, PlacesTypeOK, NothingNew,
       Versions, PathOK, Late
  <1>3. CASE Continue(p, "over")
    <2>1. ASSUME NEW j \in Jobs, Follows(p, j, "over") PROVE Steady(p, j)'
      BY <1>1, <1>3, <2>1, LockAssumption, InstallerAssumption DEF DistributionInv,
         DistributionTypeOK, PlacesTypeOK, Steady, Follows, AtWorkFacts, PathOK,
         ServicesOK, RecordOK, VersionsKept, InUse, Resolved, NoneActive, NotEnrolled, Runs, Late, Fresh
    <2> QED BY <1>1, <1>2, <1>3, <2>1, GoesOn DEF AtWorkFacts, Pcs
  <1> QED BY <1>3

LEMMA RestoreActiveKeeps ==
  ASSUME LockInv, DistributionInv, UNCHANGED lockVars, NEW p \in Installers, RestoreActive(p)
  PROVE  DistributionInv'
  <1> USE DEF RestoreActive, Serves, RestoreTo
  <1>1. AtWorkFacts(p, "restore")
    BY AtWork
  <1>2. PlacesTypeOK' /\ NothingNew(p)
    BY <1>1 DEF AtWorkFacts, Jobs, DistributionInv, DistributionTypeOK, PlacesTypeOK, NothingNew,
       Versions, PathOK, Late
  <1>3. CASE Continue(p, "undo")
    <2>1. ASSUME NEW j \in Jobs, Follows(p, j, "undo") PROVE Steady(p, j)'
      BY <1>1, <1>3, <2>1, LockAssumption, InstallerAssumption DEF DistributionInv,
         DistributionTypeOK, PlacesTypeOK, Steady, Follows, AtWorkFacts, PathOK,
         ServicesOK, RecordOK, VersionsKept, InUse, Resolved, NoneActive, NotEnrolled, Runs, Late, Fresh
    <2> QED BY <1>1, <1>2, <1>3, <2>1, GoesOn DEF AtWorkFacts, Pcs
  <1> QED BY <1>3

LEMMA DiscardKeeps ==
  ASSUME LockInv, DistributionInv, UNCHANGED lockVars, NEW p \in Installers, Discard(p)
  PROVE  DistributionInv'
  <1> USE DEF Discard
  <1>1. AtWorkFacts(p, "discard")
    BY AtWork
  <1>2. PlacesTypeOK' /\ NothingNew(p)
    BY <1>1 DEF AtWorkFacts, Jobs, DistributionInv, DistributionTypeOK, PlacesTypeOK, NothingNew,
       Versions, PathOK, Late
  <1>3. CASE Continue(p, "undone")
    <2>1. ASSUME NEW j \in Jobs, Follows(p, j, "undone") PROVE Steady(p, j)'
      BY <1>1, <1>3, <2>1, LockAssumption, InstallerAssumption DEF DistributionInv,
         DistributionTypeOK, PlacesTypeOK, Steady, Follows, AtWorkFacts, PathOK,
         ServicesOK, RecordOK, VersionsKept, InUse, Resolved, NoneActive, NotEnrolled, Runs, Late, Fresh
    <2> QED BY <1>1, <1>2, <1>3, <2>1, GoesOn DEF AtWorkFacts, Pcs
  <1> QED BY <1>3

LEMMA UninstallKeeps ==
  ASSUME LockInv, DistributionInv, UNCHANGED lockVars, NEW p \in Installers, Uninstall(p)
  PROVE  DistributionInv'
  <1> USE DEF Uninstall, Services, InPart, Serves, Setback
  <1>1. AtWorkFacts(p, "begin")
    BY AtWork
  <1>2. PlacesTypeOK' /\ NothingNew(p)
    BY <1>1 DEF AtWorkFacts, Jobs, DistributionInv, DistributionTypeOK, PlacesTypeOK, NothingNew,
       Versions, PathOK, Late
  <1>3. CASE Continue(p, "erase") /\ Services(Nil, Nil) /\ UNCHANGED activePath
    <2>1. ASSUME NEW j \in Jobs, Follows(p, j, "erase") PROVE Steady(p, j)'
      BY <1>1, <1>3, <2>1, LockAssumption, InstallerAssumption DEF DistributionInv,
         DistributionTypeOK, PlacesTypeOK, Steady, Follows, AtWorkFacts, PathOK,
         ServicesOK, RecordOK, VersionsKept, InUse, Resolved, NoneActive, NotEnrolled, Runs, Late, Fresh
    <2> QED BY <1>1, <1>2, <1>3, <2>1, GoesOn DEF AtWorkFacts, Pcs
  <1>4. CASE Continue(p, "over")
    <2>1. ASSUME NEW j \in Jobs, Follows(p, j, "over") PROVE Steady(p, j)'
      BY <1>1, <1>4, <2>1, LockAssumption, InstallerAssumption DEF DistributionInv,
         DistributionTypeOK, PlacesTypeOK, Steady, Follows, AtWorkFacts, PathOK,
         ServicesOK, RecordOK, VersionsKept, InUse, Resolved, NoneActive, NotEnrolled, Runs, Late, Fresh
    <2> QED BY <1>1, <1>2, <1>4, <2>1, GoesOn DEF AtWorkFacts, Pcs
  <1> QED BY <1>3, <1>4

LEMMA EraseVersionsKeeps ==
  ASSUME LockInv, DistributionInv, UNCHANGED lockVars, NEW p \in Installers, EraseVersions(p)
  PROVE  DistributionInv'
  <1> USE DEF EraseVersions
  <1>1. AtWorkFacts(p, "erase")
    BY AtWork
  <1>2. PlacesTypeOK' /\ NothingNew(p)
    BY <1>1 DEF AtWorkFacts, Jobs, DistributionInv, DistributionTypeOK, PlacesTypeOK, NothingNew,
       Versions, PathOK, Late
  <1>3. CASE Continue(p, "forget")
    <2>1. ASSUME NEW j \in Jobs, Follows(p, j, "forget") PROVE Steady(p, j)'
      BY <1>1, <1>3, <2>1, LockAssumption, InstallerAssumption DEF DistributionInv,
         DistributionTypeOK, PlacesTypeOK, Steady, Follows, AtWorkFacts, PathOK,
         ServicesOK, RecordOK, VersionsKept, InUse, Resolved, NoneActive, NotEnrolled, Runs, Late, Fresh
    <2> QED BY <1>1, <1>2, <1>3, <2>1, GoesOn DEF AtWorkFacts, Pcs
  <1> QED BY <1>3

LEMMA EraseActiveKeeps ==
  ASSUME LockInv, DistributionInv, UNCHANGED lockVars, NEW p \in Installers, EraseActive(p)
  PROVE  DistributionInv'
  <1> USE DEF EraseActive, Serves
  <1>1. AtWorkFacts(p, "forget")
    BY AtWork
  <1>2. PlacesTypeOK' /\ NothingNew(p)
    BY <1>1 DEF AtWorkFacts, Jobs, DistributionInv, DistributionTypeOK, PlacesTypeOK, NothingNew,
       Versions, PathOK, Late
  <1>3. CASE Continue(p, "over")
    <2>1. ASSUME NEW j \in Jobs, Follows(p, j, "over") PROVE Steady(p, j)'
      BY <1>1, <1>3, <2>1, LockAssumption, InstallerAssumption DEF DistributionInv,
         DistributionTypeOK, PlacesTypeOK, Steady, Follows, AtWorkFacts, PathOK,
         ServicesOK, RecordOK, VersionsKept, InUse, Resolved, NoneActive, NotEnrolled, Runs, Late, Fresh
    <2> QED BY <1>1, <1>2, <1>3, <2>1, GoesOn DEF AtWorkFacts, Pcs
  <1> QED BY <1>3

LEMMA StageKeeps ==
  ASSUME LockInv, DistributionInv, UNCHANGED lockVars, NEW p \in Installers, Stage(p)
  PROVE  DistributionInv'
  <1> USE DEF Stage
  <1>1. AtWorkFacts(p, "begin")
    BY AtWork
  <1>2. PlacesTypeOK' /\ NothingNew(p)
    BY <1>1 DEF DistributionInv, DistributionTypeOK, PlacesTypeOK, NothingNew, Versions, PathOK,
       Late
  <1>3. PICK setup \in BOOLEAN :
          /\ target = "darwin" => setup
          /\ job' = [job EXCEPT ![p] =
               [NoJob EXCEPT !.setup = setup, !.current = activePath,
                             !.pc = IF activePath # Nil /\ enrolled # "none" THEN "stop" ELSE "setup"]]
    OBVIOUS
  <1>4. PICK j \in Jobs :
          /\ Takes(p, j) /\ j.pc \in {"stop", "setup"} /\ (target = "darwin" => j.setup)
          /\ j.current = activePath /\ (j.pc = "setup" => activePath = Nil \/ enrolled = "none")
    <2> DEFINE j == [NoJob EXCEPT !.setup = setup, !.current = activePath,
                                  !.pc = IF activePath # Nil /\ enrolled # "none" THEN "stop" ELSE "setup"]
    <2>1. j \in Jobs /\ j.pc \in {"stop", "setup"} /\ (target = "darwin" => j.setup)
          /\ j.current = activePath /\ (j.pc = "setup" => activePath = Nil \/ enrolled = "none")
      BY <1>3 DEF Jobs, Pcs, NoJob, DistributionInv, DistributionTypeOK, PlacesTypeOK,
         NothingNew, Versions, PathOK, Late
    <2>2. Takes(p, j)
      BY <1>1, <1>3 DEF Takes, AtWorkFacts
    <2> QED BY <2>1, <2>2
  <1>5. whole' = whole \cup {p} /\ UNCHANGED <<target, enrolled, activePath, startup, serving, removed, stray>>
    OBVIOUS
  <1>6. Steady(p, j)'
    <2> USE <1>1, <1>4, <1>5, LockAssumption, InstallerAssumption
          DEF DistributionInv, DistributionTypeOK, PlacesTypeOK, Follows, AtWorkFacts, Runs, Late
    <2> HIDE DEF Stage
    <2>1. PathOK(j.pc, p, j.current)'
      BY DEF PathOK, VersionsKept, InUse, Fresh, ServicesOK
    <2>2. ServicesOK(j.pc, p, j.unclean)'
      BY DEF ServicesOK, PathOK, Fresh, NoneActive, NotEnrolled
    <2>3. RecordOK(j.pc, j)'
      BY DEF RecordOK, PathOK, Resolved, Versions
    <2>4. VersionsKept'
      BY DEF VersionsKept, InUse, Resolved, PathOK, ServicesOK
    <2>5. NoneActive'
      BY DEF NoneActive, PathOK
    <2>6. NotEnrolled'
      BY DEF NotEnrolled, RecordOK
    <2> QED BY <2>1, <2>2, <2>3, <2>4, <2>5, <2>6 DEF Steady
  <1> QED BY <1>2, <1>4, <1>6, WorkKeeps

LEMMA UndoStartupKeeps ==
  ASSUME LockInv, DistributionInv, UNCHANGED lockVars, NEW p \in Installers, UndoStartup(p)
  PROVE  DistributionInv'
  <1> USE DEF UndoStartup, Services, InPart, Serves, Setback
  <1>1. AtWorkFacts(p, "undo")
    BY AtWork
  <1>2. PlacesTypeOK' /\ NothingNew(p)
    BY <1>1 DEF DistributionInv, DistributionTypeOK, PlacesTypeOK, NothingNew, Versions, PathOK,
       Late
  <1>3. CASE Continue(p, "reinstall") /\ Services(Nil, Nil) /\ UNCHANGED activePath
    <2>1. ASSUME NEW j \in Jobs, Follows(p, j, "reinstall") PROVE Steady(p, j)'
      BY <1>1, <1>3, <2>1, LockAssumption, InstallerAssumption DEF DistributionInv,
         DistributionTypeOK, PlacesTypeOK, Steady, Follows, AtWorkFacts, PathOK,
         ServicesOK, RecordOK, VersionsKept, InUse, Resolved, NoneActive, NotEnrolled, Runs, Late, Fresh
    <2> QED BY <1>1, <1>2, <1>3, <2>1, GoesOn DEF AtWorkFacts, Pcs
  <1>4. CASE /\ job' = [job EXCEPT ![p] = [@ EXCEPT !.pc = "reinstall", !.unclean = TRUE]]
              /\ InPart(Nil, Nil) /\ UNCHANGED <<activePath, target, enrolled, whole, removed>>
    <2>1. PICK j \in Jobs : /\ Takes(p, j) /\ j.pc = "reinstall" /\ j.current = job[p].current
                            /\ j.unclean
      <3> DEFINE j == [job[p] EXCEPT !.pc = "reinstall", !.unclean = TRUE]
      <3>1. j \in Jobs /\ j.pc = "reinstall" /\ j.current = job[p].current /\ j.unclean
        BY <1>1 DEF AtWorkFacts, Jobs, Pcs
      <3>2. Takes(p, j)
        BY <1>1, <1>4 DEF Takes, AtWorkFacts, DistributionInv, DistributionTypeOK
      <3> QED BY <3>1, <3>2
    <2>2. Steady(p, j)'
      <3> USE <1>1, <1>4, <2>1, LockAssumption, InstallerAssumption
            DEF DistributionInv, DistributionTypeOK, PlacesTypeOK, Follows, AtWorkFacts, Runs, Late
      <3> HIDE DEF UndoStartup
      <3>1. PathOK(j.pc, p, j.current)'
        BY DEF PathOK, VersionsKept, InUse, Fresh, ServicesOK
      <3>2. ServicesOK(j.pc, p, j.unclean)'
        BY DEF ServicesOK, PathOK, Fresh, NoneActive, NotEnrolled
      <3>3. RecordOK(j.pc, j)'
        BY DEF RecordOK, PathOK, Resolved, Versions
      <3>4. VersionsKept'
        BY DEF VersionsKept, InUse, Resolved, PathOK, ServicesOK
      <3>5. NoneActive'
        BY DEF NoneActive, PathOK
      <3>6. NotEnrolled'
        BY DEF NotEnrolled, RecordOK
      <3> QED BY <3>1, <3>2, <3>3, <3>4, <3>5, <3>6 DEF Steady
    <2> QED BY <1>2, <2>1, <2>2, WorkKeeps
  <1> QED BY <1>3, <1>4

LEMMA ReinstallKeeps ==
  ASSUME LockInv, DistributionInv, UNCHANGED lockVars, NEW p \in Installers, Reinstall(p)
  PROVE  DistributionInv'
  <1> DEFINE current == job[p].current
             now == IF target = "darwin" THEN current ELSE Started
  <1> USE DEF Reinstall, Services, InPart, Serves, Setback, Started
  <1>1. AtWorkFacts(p, "reinstall")
    BY AtWork
  <1>2. UNCHANGED <<target, enrolled, whole, activePath, removed>>
    OBVIOUS
  <1>3. startup' \in {startup, current} /\ serving' \in {serving, activePath, current} /\ stray' \in BOOLEAN
    BY DEF DistributionInv, DistributionTypeOK, PlacesTypeOK
  <1>4. PlacesTypeOK' /\ NothingNew(p)
    <2> HIDE DEF Reinstall
    <2> QED BY <1>1, <1>2, <1>3 DEF AtWorkFacts, Jobs, DistributionInv, DistributionTypeOK,
       PlacesTypeOK, NothingNew, Versions, PathOK, Late
  <1>5. CASE (current = Nil \/ enrolled = "none") /\ Continue(p, "discard")
             /\ UNCHANGED <<startup, serving, stray, activePath>>
    <2>1. ASSUME NEW j \in Jobs, Follows(p, j, "discard") PROVE Steady(p, j)'
      <3> USE <1>1, <1>5, <2>1, <1>2, LockAssumption, InstallerAssumption
            DEF DistributionInv, DistributionTypeOK, PlacesTypeOK, Follows, AtWorkFacts, Runs, Late
      <3> HIDE DEF Reinstall
      <3>1. PathOK(j.pc, p, j.current)'
        BY DEF PathOK, VersionsKept, InUse, Fresh, ServicesOK
      <3>2. ServicesOK(j.pc, p, j.unclean)'
        BY DEF ServicesOK, PathOK, Fresh, NoneActive, NotEnrolled
      <3>3. RecordOK(j.pc, j)'
        BY DEF RecordOK, PathOK, Resolved, Versions
      <3>4. VersionsKept'
        BY DEF VersionsKept, InUse, Resolved, PathOK, ServicesOK
      <3>5. NoneActive'
        BY DEF NoneActive, PathOK
      <3>6. NotEnrolled'
        BY DEF NotEnrolled, RecordOK
      <3> QED BY <3>1, <3>2, <3>3, <3>4, <3>5, <3>6 DEF Steady
    <2> QED BY <1>1, <1>4, <1>5, <2>1, GoesOn DEF AtWorkFacts, Pcs
  <1>6. CASE current \in whole /\ Continue(p, "discard") /\ Services(now, current) /\ enrolled # "none"
    <2>1. ASSUME NEW j \in Jobs, Follows(p, j, "discard") PROVE Steady(p, j)'
      <3> USE <1>1, <1>6, <2>1, <1>2, LockAssumption, InstallerAssumption
            DEF DistributionInv, DistributionTypeOK, PlacesTypeOK, Follows, AtWorkFacts, Runs, Late
      <3> HIDE DEF Reinstall
      <3>1. PathOK(j.pc, p, j.current)'
        BY DEF PathOK, VersionsKept, InUse, Fresh, ServicesOK
      <3>2. ServicesOK(j.pc, p, j.unclean)'
        BY DEF ServicesOK, PathOK, Fresh, NoneActive, NotEnrolled
      <3>3. RecordOK(j.pc, j)'
        BY DEF RecordOK, PathOK, Resolved, Versions
      <3>4. VersionsKept'
        BY DEF VersionsKept, InUse, Resolved, PathOK, ServicesOK
      <3>5. NoneActive'
        BY DEF NoneActive, PathOK
      <3>6. NotEnrolled'
        BY DEF NotEnrolled, RecordOK
      <3> QED BY <3>1, <3>2, <3>3, <3>4, <3>5, <3>6 DEF Steady
    <2> QED BY <1>1, <1>4, <1>6, <2>1, GoesOn DEF AtWorkFacts, Pcs
  <1>7. CASE /\ job' = [job EXCEPT ![p] = [@ EXCEPT !.pc = "discard", !.unrestored = TRUE]]
             /\ current # Nil /\ enrolled # "none"
             /\ IF current \in whole THEN InPart(now, current) ELSE UNCHANGED <<startup, serving, stray, setbacks>>
    <2>1. PICK j \in Jobs : /\ Takes(p, j) /\ j.pc = "discard" /\ j.current = job[p].current
                            /\ j.unclean = job[p].unclean /\ j.unrestored
      <3> DEFINE j == [job[p] EXCEPT !.pc = "discard", !.unrestored = TRUE]
      <3>1. j \in Jobs /\ j.pc = "discard" /\ j.current = job[p].current
            /\ j.unclean = job[p].unclean /\ j.unrestored
        BY <1>1 DEF AtWorkFacts, Jobs, Pcs
      <3>2. Takes(p, j)
        BY <1>1, <1>7 DEF Takes, AtWorkFacts, DistributionInv, DistributionTypeOK
      <3> QED BY <3>1, <3>2
    <2>2. Steady(p, j)'
      <3> USE <1>1, <1>7, <2>1, <1>2, LockAssumption, InstallerAssumption
            DEF DistributionInv, DistributionTypeOK, PlacesTypeOK, Follows, AtWorkFacts, Runs, Late
      <3> HIDE DEF Reinstall
      <3>1. PathOK(j.pc, p, j.current)'
        BY DEF PathOK, VersionsKept, InUse, Fresh, ServicesOK
      <3>2. ServicesOK(j.pc, p, j.unclean)'
        BY DEF ServicesOK, PathOK, Fresh, NoneActive, NotEnrolled
      <3>3. RecordOK(j.pc, j)'
        BY DEF RecordOK, PathOK, Resolved, Versions
      <3>4. VersionsKept'
        BY DEF VersionsKept, InUse, Resolved, PathOK, ServicesOK
      <3>5. NoneActive'
        BY DEF NoneActive, PathOK
      <3>6. NotEnrolled'
        BY DEF NotEnrolled, RecordOK
      <3> QED BY <3>1, <3>2, <3>3, <3>4, <3>5, <3>6 DEF Steady
    <2> QED BY <1>4, <2>1, <2>2, WorkKeeps
  <1> QED BY <1>5, <1>6, <1>7

\* All of them.
LEMMA WorkStep ==
  ASSUME LockInv, DistributionInv, UNCHANGED lockVars, NEW p \in Installers, Work(p)
  PROVE  DistributionInv'
  BY StageKeeps, StopCurrentKeeps, RestartCurrentKeeps, SetUpKeeps, ActivateKeeps, LinkCommandKeeps,
     RefreshStartupKeeps, PruneKeeps, RestoreActiveKeeps, UndoStartupKeeps, ReinstallKeeps,
     DiscardKeeps, UninstallKeeps, EraseVersionsKeeps, EraseActiveKeeps DEF Work

\* Entering and leaving the lock: a newcomer has staged nothing.
LEMMA AcquireKeeps ==
  ASSUME DistributionInv, NEW p \in Installers, Acquire(p), LockInv, UNCHANGED distributionVars
  PROVE  DistributionInv'
  <1>1. \E s \in Steps : step' = [step EXCEPT ![p] = s]
    BY DEF Acquire, Make, WritePid, ReadOwner, ProbeOwner, MakeReclaim, Recheck, DropReclaim,
       MoveAway, To, Steps
  <1>2. step[p] \notin {"work", "leave", "end", "dead"}
    BY DEF Acquire, Make, WritePid, ReadOwner, ProbeOwner, MakeReclaim, Recheck, DropReclaim,
       MoveAway
  <1>3. DistributionTypeOK' /\ VersionsKept' /\ NoneActive' /\ NotEnrolled'
    BY DEF DistributionInv, DistributionTypeOK, PlacesTypeOK, VersionsKept, InUse, Resolved,
       NoneActive,
       NotEnrolled, Runs, distributionVars
  <1>4. JobsAtWork' /\ Newcomers'
    BY <1>1, <1>2 DEF DistributionInv, JobsAtWork, Newcomers, Fresh, distributionVars, LockInv,
       LockTypeOK
  <1>5. JobsOK'
    <2> SUFFICES ASSUME NEW q \in Installers, step'[q] = "work" PROVE JobOK(q)'
      BY DEF JobsOK
    <2>1. CASE q = p
      <3>1. job[q] = NoJob /\ Fresh(q)
        BY <1>2, <2>1 DEF DistributionInv, JobsAtWork, Newcomers
      <3> QED BY <3>1 DEF JobOK, PathOK, ServicesOK, RecordOK, Late, NoJob, Fresh, distributionVars
    <2>2. CASE q # p
      <3>1. JobOK(q)
        BY <1>1, <2>2 DEF DistributionInv, JobsOK, LockInv, LockTypeOK
      <3> QED BY <3>1 DEF JobOK, PathOK, ServicesOK, RecordOK, Late, Fresh, Runs, Resolved, distributionVars
    <2> QED BY <2>1, <2>2
  <1> QED BY <1>3, <1>4, <1>5 DEF DistributionInv

LEMMA LeavesKeeps ==
  ASSUME DistributionInv, NEW p \in Installers, Leaves(p), LockInv
  PROVE  DistributionInv'
  <1>1. \E s \in {"leave", "end", "dead"} : step' = [step EXCEPT ![p] = s]
    BY DEF Leaves, Cleanup, RemovePid, RemoveLock, Kill, To
  <1>2. job' = [job EXCEPT ![p] = NoJob]
        /\ UNCHANGED <<target, enrolled, whole, activePath, startup, serving, removed, stray>>
    BY DEF Leaves
  <1>3. DistributionTypeOK' /\ VersionsKept' /\ NoneActive' /\ NotEnrolled'
    BY <1>2 DEF DistributionInv, DistributionTypeOK, PlacesTypeOK, VersionsKept, InUse, Resolved,
       NoneActive,
       NotEnrolled, Runs, NoJob, Jobs, Pcs
  <1>4. JobsAtWork' /\ Newcomers'
    BY <1>1, <1>2 DEF DistributionInv, DistributionTypeOK, JobsAtWork, Newcomers, Fresh, LockInv,
       LockTypeOK
  <1>5. JobsOK'
    <2> SUFFICES ASSUME NEW q \in Installers, step'[q] = "work" PROVE JobOK(q)'
      BY DEF JobsOK
    <2>1. q # p /\ JobOK(q) /\ job'[q] = job[q]
      BY <1>1, <1>2 DEF DistributionInv, DistributionTypeOK, JobsOK, LockInv, LockTypeOK
    <2> QED BY <1>2, <2>1 DEF JobOK, PathOK, ServicesOK, RecordOK, Late, Fresh, Runs, Resolved
  <1> QED BY <1>3, <1>4, <1>5 DEF DistributionInv

\* Services that begin or end beside an installer.
LEMMA ServicesKeep ==
  ASSUME LockInv, DistributionInv, UNCHANGED lockVars, ServicesStart \/ ServicesEnd
  PROVE  DistributionInv'
  <1> USE LockAssumption, InstallerAssumption
  <1>1. DistributionTypeOK' /\ VersionsKept' /\ NoneActive' /\ NotEnrolled'
    BY DEF ServicesStart, ServicesEnd, DistributionInv, DistributionTypeOK, PlacesTypeOK,
       VersionsKept, InUse,
       Resolved, NoneActive, NotEnrolled, Runs, Versions
  <1>2. JobsAtWork'
    BY DEF ServicesStart, ServicesEnd, DistributionInv, JobsAtWork, lockVars
  <1>3. Newcomers'
    BY DEF ServicesStart, ServicesEnd, DistributionInv, Newcomers, Fresh, Resolved, lockVars
  <1>4. JobsOK'
    <2> SUFFICES ASSUME NEW q \in Installers, step[q] = "work" PROVE JobOK(q)'
      BY DEF JobsOK, lockVars
    <2>1. JobOK(q) /\ job' = job
      BY DEF DistributionInv, JobsOK, ServicesStart, ServicesEnd
    <2>2. CASE ServicesEnd
      BY <2>1, <2>2 DEF ServicesEnd, JobOK, PathOK, ServicesOK, RecordOK, Late, Fresh, Runs,
         Resolved
    <2>3. CASE ServicesStart
      <3>1. Between(q) => stray'
        BY <2>3 DEF ServicesStart
      <3>2. UNCHANGED <<target, enrolled, whole, activePath, startup, job, removed>> /\ serving' = Resolved
            /\ Resolved \in whole
        BY <2>3 DEF ServicesStart
      <3>3. PathOK(job[q].pc, q, job[q].current)' /\ RecordOK(job[q].pc, job[q])'
        BY <2>1, <3>2 DEF JobOK, PathOK, RecordOK, Late, Resolved
      <3>4. ServicesOK(job[q].pc, q, job[q].unclean)'
        BY <2>1, <3>1, <3>2 DEF JobOK, ServicesOK, PathOK, Between, Late, Fresh, Runs, Resolved,
           DistributionInv,
           DistributionTypeOK, PlacesTypeOK, VersionsKept, InUse, Versions
      <3> QED BY <2>1, <3>2, <3>3, <3>4 DEF JobOK
    <2> QED BY <2>2, <2>3
  <1> QED BY <1>1, <1>2, <1>3, <1>4 DEF DistributionInv

\* Lock and distribution together, for every step.
LEMMA InstallerStep ==
  ASSUME LockInv, DistributionInv, [InstallerNext]_installerVars
  PROVE  LockInv' /\ DistributionInv'
  <1>1. CASE UNCHANGED installerVars
    <2>1. LockInv'
      BY <1>1, LockInvStutter DEF installerVars
    <2>2. DistributionInv'
      BY <1>1 DEF installerVars, distributionVars, lockVars, DistributionInv, DistributionTypeOK,
         PlacesTypeOK,
         VersionsKept, InUse, Resolved, NoneActive, NotEnrolled, Runs, JobsAtWork, Newcomers, Fresh, JobsOK, JobOK,
         PathOK, ServicesOK, RecordOK, Late
    <2> QED BY <2>1, <2>2
  <1>2. CASE (ServicesStart \/ ServicesEnd) /\ UNCHANGED lockVars
    BY <1>2, ServicesKeep, LockInvStutter
  <1>3. ASSUME NEW p \in Installers, Acquire(p) /\ UNCHANGED distributionVars
        PROVE  LockInv' /\ DistributionInv'
    BY <1>3, LockInvStep, AcquireKeeps
  <1>4. ASSUME NEW p \in Installers, Leaves(p)
        PROVE  LockInv' /\ DistributionInv'
    <2>1. Cleanup(p) \/ Kill(p)
      BY <1>4 DEF Leaves
    <2> QED BY <1>4, <2>1, LockInvStep, LeavesKeeps
  <1>5. ASSUME NEW p \in Installers, Work(p) /\ UNCHANGED lockVars
        PROVE  LockInv' /\ DistributionInv'
    BY <1>5, WorkStep, LockInvStutter
  <1> QED BY <1>1, <1>2, <1>3, <1>4, <1>5 DEF InstallerNext

\* A new, an installed and an enrolled device.
LEMMA InstallerStart == InstallerInit => LockInv /\ DistributionInv
  <1> SUFFICES ASSUME InstallerInit PROVE LockInv /\ DistributionInv
    OBVIOUS
  <1> USE LockAssumption, InstallerAssumption
  <1>1. LockInv
    BY LockInvInit DEF InstallerInit
  <1>2. \A p \in Installers : step[p] = "mkdir"
    BY DEF InstallerInit, LockInit
  <1>3. DistributionTypeOK
    BY DEF InstallerInit, DistributionTypeOK, PlacesTypeOK, Jobs, Pcs, NoJob, Versions
  <1>4. VersionsKept /\ NoneActive /\ NotEnrolled /\ JobsAtWork /\ Newcomers /\ JobsOK
    BY <1>2 DEF InstallerInit, VersionsKept, InUse, Resolved, NoneActive, NotEnrolled,
       JobsAtWork, Newcomers,
       Fresh, JobsOK, Runs
  <1> QED BY <1>1, <1>3, <1>4 DEF DistributionInv

\* Whatever the installers do under the lock, no two of them have it.
THEOREM InstallersExclude == InstallerSpec => []OneAtATime
  <1>1. InstallerInit => LockInv /\ DistributionInv
    BY InstallerStart
  <1>2. LockInv /\ DistributionInv /\ [InstallerNext]_installerVars => LockInv' /\ DistributionInv'
    BY InstallerStep
  <1>3. LockInv => OneAtATime
    BY DEF LockInv
  <1> QED BY <1>1, <1>2, <1>3, PTL DEF InstallerSpec

\* Whatever fails and whoever is killed, what active-path, the startup entries and
\* the services name is complete, and a restoration that is reported took place.
THEOREM WorkingVersionIsKept == InstallerSpec => []WorkingVersionKept
  <1>1. InstallerInit => LockInv /\ DistributionInv
    BY InstallerStart
  <1>2. LockInv /\ DistributionInv /\ [InstallerNext]_installerVars => LockInv' /\ DistributionInv'
    BY InstallerStep
  <1>3. LockInv /\ DistributionInv => WorkingVersionKept
    <2> SUFFICES ASSUME DistributionInv PROVE RestoredIsTrue
      BY DEF LockInv, DistributionInv, WorkingVersionKept
    <2> SUFFICES ASSUME NEW p \in Installers, Working(p, "undone"), job[p].current # Nil, enrolled # "none",
                        ~job[p].unclean, ~job[p].unrestored
                 PROVE  activePath = job[p].current /\ Resolved = job[p].current /\ job[p].current \in whole
      BY DEF RestoredIsTrue
    <2>1. AtWorkFacts(p, "undone")
      BY AtWork
    <2> QED BY <2>1 DEF AtWorkFacts, PathOK, RecordOK, Late
  <1> QED BY <1>1, <1>2, <1>3, PTL DEF InstallerSpec
=============================================================================
