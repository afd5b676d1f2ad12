------------------------------- MODULE Device -------------------------------
(***************************************************************************)
(* The life of an employee's device (client/setup.mjs, control.mjs): its   *)
(* enrolment, pause and resume, the replacement of its Access Key and its  *)
(* repair, over the login services (platform.mjs), the runtime's own gate  *)
(* (runtime.mjs) and the Gateway's handlers.                               *)
(*                                                                         *)
(* Operations hold the device operation lock, so there is one at a time,   *)
(* but the service manager starts jobs whenever it likes, the Gateway may  *)
(* answer late or handle a request its caller has given up, an             *)
(* administrator may reset the key, and a crash may end an operation       *)
(* between any two of its steps.                                           *)
(***************************************************************************)
EXTENDS Naturals, FiniteSets

CONSTANTS
    Keys,
    Bindings,
    Systems,     \* "windows", "macos", "linux"
    MaxFaults,   \* bound on crashes, timeouts and failed calls
    None

ASSUME DeviceAssumption ==
    /\ Systems \subseteq {"windows", "macos", "linux"}
    /\ MaxFaults \in Nat
    /\ None \notin Keys \cup Bindings

VARIABLES
    system,
    disk,        \* state.json; its key is None before the first setup
    token,       \* the binding whose tunnel.token is stored
    entry,       \* the startup entries of runtime and tunnel
    runtime,     \* DevSpace and Bridge: the process, and the binding it serves
    connector,   \* cloudflared: the binding whose token it runs with
    op,          \* the operation that holds the device operation lock
    late,        \* requests whose caller has given up
    gw,          \* the Gateway's rows
    intent,      \* history: the user paused, and no resume lifted the pause since
    closed,      \* history: and the local services were seen to stop
    unsure,      \* history: keys an enrolment was sent for and not recorded
    faults

localVars == <<system, disk, token, entry, runtime, connector>>
historyVars == <<intent, closed, unsure>>
deviceVars == <<localVars, op, late, gw, historyVars, faults>>

NoRequest == [kind |-> "none", key |-> None, binding |-> None, stage |-> "ok", state |-> None]
Request(kind, k, b) == [NoRequest EXCEPT !.kind = kind, !.key = k, !.binding = b, !.stage = "sent"]
Idle == [name |-> "none", pc |-> "end", key |-> None, keep |-> FALSE, local |-> "ok", req |-> NoRequest]
Stopped == [phase |-> "off", binding |-> None]
Unbound == [state |-> "issued", binding |-> None, mine |-> FALSE]

DeviceInit ==
    /\ system \in Systems
    /\ disk = [key |-> None, pending |-> None, binding |-> None, access |-> "active"]
    /\ token = None /\ entry = "none" /\ runtime = Stopped /\ connector = None
    /\ op = Idle /\ late = {}
    /\ gw = [k \in Keys |-> Unbound]
    /\ intent = FALSE /\ closed = FALSE /\ unsure = {}
    /\ faults = 0

Fault == faults < MaxFaults /\ faults' = faults + 1
Suspended == disk.access = "suspended"

-----------------------------------------------------------------------------
(* The service manager and the processes it starts.                        *)

\* Starting a job that runs already does nothing.
StartJobs ==
    /\ runtime' = IF runtime = Stopped THEN [Stopped EXCEPT !.phase = "starting"] ELSE runtime
    /\ connector' = IF connector = None THEN token ELSE connector
StopJobs == runtime' = Stopped /\ connector' = None

\* serviceAction('stop' | 'disable' | 'remove'): it throws when something did not
\* stop, and the entries may have been changed by then.
Stops(left) == StopJobs /\ entry' = left
StopFails(left) ==
    /\ Fault
    /\ entry' \in {entry, left}
    /\ runtime' \in {runtime, Stopped} /\ connector' \in {connector, None}

\* A login, a restart after a crash, opening the app.
JobsStart ==
    /\ entry = "enabled"
    /\ StartJobs
    /\ UNCHANGED <<system, disk, token, entry, op, late, gw, historyVars, faults>>

\* Mutant: the persisted pause is not looked at.
GateOpenAnyway == TRUE
GateOpen == ~Suspended

\* runComponent reads state.json once, then the services begin to listen.
RuntimeReads ==
    /\ runtime.phase = "starting"
    /\ runtime' = IF GateOpen /\ disk.binding # None
                    THEN [phase |-> "loading", binding |-> disk.binding] ELSE Stopped
    /\ UNCHANGED <<system, disk, token, entry, connector, op, late, gw, historyVars, faults>>
RuntimeListens ==
    /\ runtime.phase = "loading"
    /\ runtime' = [runtime EXCEPT !.phase = "serving"]
    /\ UNCHANGED <<system, disk, token, entry, connector, op, late, gw, historyVars, faults>>
\* DevSpace or the Bridge does not get its port: what has started is closed again.
RuntimeFails ==
    /\ runtime.phase = "loading"
    /\ Fault
    /\ runtime' = Stopped
    /\ UNCHANGED <<system, disk, token, entry, connector, op, late, gw, historyVars>>

Reachable(b) == runtime = [phase |-> "serving", binding |-> b] /\ connector = b

-----------------------------------------------------------------------------
(* The Gateway: what a row and a request may be after the row's handler ran *)
(* (its further steps are Gateway.tla's subject).                          *)

Known(r) == gw[r.key].mine /\ gw[r.key].binding = r.binding
Enrolled(r) == Known(r) /\ gw[r.key].state \in {"active", "suspended"}
Outcome(row, r, stage) == [row |-> row, req |-> [r EXCEPT !.stage = stage]]
Refused(r) == {Outcome(gw[r.key], r, "denied")}

Named == {disk.binding, token, runtime.binding, connector, op.req.binding}
         \cup {gw[k].binding : k \in Keys} \cup {r.binding : r \in late}

StateAnswered(state) == IF state = "suspended" THEN "suspended" ELSE "active"

\* Provisioning may fail: then the key stays bound and unprovisioned.
EnrolAt(r, b, state) ==
    LET Row(new) == [state |-> new, binding |-> b, mine |-> TRUE] IN
    {Outcome(Row(IF state = "suspended" THEN state ELSE "active"),
             [r EXCEPT !.binding = b, !.state = StateAnswered(state)], "ok")}
    \cup (IF state = "provisioning" THEN {Outcome(Row(state), r, "again")} ELSE {})
Enrol(r) ==
    LET row == gw[r.key] IN
    IF row.state = "issued" THEN UNION {EnrolAt(r, b, "provisioning") : b \in Bindings \ Named}
    ELSE IF row.mine /\ row.state # "resetting" THEN EnrolAt(r, row.binding, row.state)
    ELSE Refused(r)

\* The denial is recorded first; the cleanup behind it may have to be retried.
Release(r) ==
    IF Known(r) /\ gw[r.key].state # "provisioning"
      THEN {Outcome(Unbound, r, "ok"), Outcome([gw[r.key] EXCEPT !.state = "resetting"], r, "again")}
      ELSE Refused(r)

\* The device is probed, and the row is written after that.
Probe(r) ==
    IF gw[r.key].state = "active" \/ Reachable(r.binding)
      THEN Outcome(gw[r.key], r, "probed") ELSE Outcome(gw[r.key], r, "again")
Set(r, state) == Outcome([gw[r.key] EXCEPT !.state = state], r, "ok")

Outcomes(r) ==
    CASE r.kind = "enroll" -> Enrol(r)
      [] r.kind = "release" -> Release(r)
      [] r.kind = "preflight" -> {Outcome(gw[r.key], r, IF gw[r.key].state = "issued" THEN "ok" ELSE "denied")}
      [] r.kind = "suspend" -> IF Enrolled(r) THEN {Set(r, "suspended")} ELSE Refused(r)
      [] r.kind = "resume" /\ r.stage = "sent" -> IF Enrolled(r) THEN {Probe(r)} ELSE Refused(r)
      [] r.kind = "resume" /\ r.stage = "probed" -> IF Enrolled(r) THEN {Set(r, "active")} ELSE Refused(r)

Waiting(r) == r.stage \in {"sent", "probed"}

GatewayHandles ==
    /\ Waiting(op.req)
    /\ \E o \in Outcomes(op.req) :
         gw' = [gw EXCEPT ![o.req.key] = o.row] /\ op' = [op EXCEPT !.req = o.req]
    /\ UNCHANGED <<localVars, late, historyVars, faults>>
HandlesLate(r) ==
    /\ Waiting(r)
    /\ \E o \in Outcomes(r) :
         gw' = [gw EXCEPT ![r.key] = o.row] /\ late' = (late \ {r}) \cup {o.req}
    /\ UNCHANGED <<localVars, op, historyVars, faults>>

\* The caller's timeout, or an answer that is lost on its way.
TimesOut ==
    /\ op.req.kind # "none" /\ op.req.stage # "lost"
    /\ Fault
    /\ late' = late \cup {op.req}
    /\ op' = [op EXCEPT !.req.stage = "lost"]
    /\ UNCHANGED <<localVars, gw, historyVars>>

\* The administrator resets a key; another device enrols with it.
AdminReset(k) ==
    /\ gw[k].state # "issued"
    /\ gw' = [gw EXCEPT ![k] = Unbound]
    /\ UNCHANGED <<localVars, op, late, historyVars, faults>>
OtherDevice(k) ==
    /\ gw[k].state = "issued"
    /\ gw' = [gw EXCEPT ![k].state = "active"]
    /\ UNCHANGED <<localVars, op, late, historyVars, faults>>

-----------------------------------------------------------------------------
(* Steps that operations share.                                            *)

Goto(pc) == op' = [op EXCEPT !.pc = pc]
Send(pc, kind, k, b) == op' = [op EXCEPT !.pc = pc, !.req = Request(kind, k, b)]
End == op' = Idle
Free == op = Idle
At(name, pc) == op.name = name /\ op.pc = pc
Answered(stage) == op.req.stage = stage
Failed == op.req.stage \in {"again", "denied", "lost"}

\* What a pause leaves of the startup entries.
PausedEntry == IF system = "macos" THEN entry ELSE IF entry = "none" THEN "none" ELSE "disabled"

AccessAfterEnrolment == IF Suspended THEN "suspended" ELSE op.req.state

-----------------------------------------------------------------------------
(* configureDevice, and what setup, replacement and repair do after it.    *)

\* The key is published first: an enrolment whose answer was lost is retried
\* with the same identity.
SendEnrolment(name, k) ==
    /\ disk' = [disk EXCEPT !.key = k]
    /\ op' = [Idle EXCEPT !.name = name, !.pc = "enroll", !.req = Request("enroll", k, None)]
    /\ unsure' = unsure \cup {k}

\* A binding that is complete is reused; the desktop does not stop it first.
Setup(k) ==
    /\ Free
    /\ disk.binding # None => k = disk.key
    /\ IF disk.binding # None /\ token # None
         THEN /\ \E pc \in {"stop", "install"} : op' = [Idle EXCEPT !.name = "setup", !.pc = pc]
              /\ UNCHANGED <<disk, unsure>>
         ELSE SendEnrolment("setup", k)
    /\ UNCHANGED <<system, token, entry, runtime, connector, late, gw, intent, closed, faults>>

StopPrevious ==
    /\ op.pc = "stop"
    /\ \/ Stops(entry) /\ Goto("install") /\ UNCHANGED faults
       \/ StopFails(entry) /\ End
    /\ UNCHANGED <<system, disk, token, late, gw, historyVars>>

EnrolmentFails ==
    /\ op.pc = "enroll" /\ Failed
    /\ End
    /\ UNCHANGED <<localVars, late, gw, historyVars, faults>>
SaveToken ==
    /\ op.pc = "enroll" /\ Answered("ok")
    /\ token' = op.req.binding
    /\ Goto("save")
    /\ UNCHANGED <<system, disk, entry, runtime, connector, late, gw, historyVars, faults>>
SaveEnrolment ==
    /\ op.pc = "save"
    /\ disk' = [disk EXCEPT !.binding = op.req.binding, !.access = AccessAfterEnrolment]
    /\ unsure' = unsure \ {disk.key}
    /\ Goto(IF op.name = "repair" THEN "remove" ELSE "install")
    /\ UNCHANGED <<system, token, entry, runtime, connector, late, gw, intent, closed, faults>>

\* installServices: a pause removes or disables the entries.  macOS unloads jobs
\* before their definition is written again.
Install ==
    /\ op.pc = "install"
    /\ \/ /\ IF Suspended THEN Stops(IF system = "linux" THEN "disabled" ELSE "none")
             ELSE /\ entry' = "enabled"
                  /\ IF system = "macos" THEN StopJobs ELSE UNCHANGED <<runtime, connector>>
          /\ IF Suspended THEN End ELSE Goto("start")
          /\ UNCHANGED faults
       \/ StopFails("none") /\ End
    /\ UNCHANGED <<system, disk, token, late, gw, historyVars>>
Start ==
    /\ op.pc = "start" /\ op.name # "resume"
    /\ \/ StartJobs /\ UNCHANGED faults
       \/ Fault /\ UNCHANGED <<runtime, connector>>
    /\ End
    /\ UNCHANGED <<system, disk, token, entry, late, gw, historyVars>>

-----------------------------------------------------------------------------
(* replaceAccessKey and repairDevice.                                      *)

SendPreflight(k) ==
    /\ op' = [Idle EXCEPT !.name = "replace", !.pc = "preflight", !.key = k,
                          !.keep = Suspended, !.req = Request("preflight", k, None)]
    /\ UNCHANGED <<disk, unsure>>
Replace(k) ==
    /\ Free /\ disk.key # None
    /\ IF disk.pending = None /\ disk.key = k /\ disk.binding = None
         THEN SendEnrolment("setup", k)
         ELSE SendPreflight(k)
    /\ UNCHANGED <<system, token, entry, runtime, connector, late, gw, intent, closed, faults>>
Repair ==
    /\ Free /\ disk.key # None
    /\ IF disk.pending # None THEN SendPreflight(disk.pending)
       ELSE IF disk.binding = None \/ token = None THEN SendEnrolment("repair", disk.key)
       ELSE op' = [Idle EXCEPT !.name = "repair", !.pc = "remove"] /\ UNCHANGED <<disk, unsure>>
    /\ UNCHANGED <<system, token, entry, runtime, connector, late, gw, intent, closed, faults>>

RepairRemoves ==
    /\ At("repair", "remove")
    /\ \/ Stops("none") /\ Goto("install") /\ UNCHANGED faults
       \/ StopFails("none") /\ End
    /\ UNCHANGED <<system, disk, token, late, gw, historyVars>>

PreflightFails ==
    /\ op.pc = "preflight" /\ Failed
    /\ End
    /\ UNCHANGED <<localVars, late, gw, historyVars, faults>>
\* The intent to replace the key is saved, then the services are removed while
\* the Gateway is asked to release the binding.
StartRelease ==
    /\ op.pc = "preflight" /\ Answered("ok")
    /\ disk' = [disk EXCEPT !.pending = op.key, !.access = "suspended"]
    /\ op' = [op EXCEPT !.pc = "release", !.local = "due",
                        !.req = IF disk.binding = None THEN NoRequest
                                ELSE Request("release", disk.key, disk.binding)]
    /\ UNCHANGED <<system, token, entry, runtime, connector, late, gw, historyVars, faults>>
LocalHalf(left) ==
    /\ op.local = "due"
    /\ \/ Stops(left) /\ op' = [op EXCEPT !.local = "ok"] /\ UNCHANGED faults
       \/ StopFails(left) /\ op' = [op EXCEPT !.local = "failed"]
    /\ UNCHANGED <<system, disk, token, late, gw, historyVars>>
ReplaceStops == op.pc = "release" /\ LocalHalf("none")

\* 403: the binding was released before, or reset by the administrator.
Released == op.req.stage \in {"ok", "denied"}

ReleaseFails ==
    /\ op.pc = "release" /\ op.local # "due" /\ ~Waiting(op.req)
    /\ op.local = "failed" \/ ~Released
    /\ End
    /\ UNCHANGED <<localVars, late, gw, historyVars, faults>>
DropToken ==
    /\ op.pc = "release" /\ op.local = "ok" /\ ~Waiting(op.req)
    /\ Released
    /\ token' = None
    /\ Goto("forget")
    /\ UNCHANGED <<system, disk, entry, runtime, connector, late, gw, historyVars, faults>>
\* The old identity is forgotten and the new key enrolled.
ForgetBinding ==
    /\ op.pc = "forget"
    /\ disk' = [key |-> op.key, pending |-> None, binding |-> None,
                access |-> IF op.keep THEN "suspended" ELSE "active"]
    /\ op' = [Idle EXCEPT !.name = "setup", !.pc = "enroll", !.req = Request("enroll", op.key, None)]
    /\ unsure' = unsure \cup {op.key}
    /\ UNCHANGED <<system, token, entry, runtime, connector, late, gw, intent, closed, faults>>

-----------------------------------------------------------------------------
(* suspendRemoteAccess and resumeRemoteAccess.                             *)

\* The intent is saved before anything can fail; then both ends are closed.
Pause ==
    /\ Free /\ disk.key # None
    /\ disk' = [disk EXCEPT !.access = "suspended"]
    /\ op' = [Idle EXCEPT !.name = "pause", !.pc = "close", !.local = "due",
                          !.req = Request("suspend", disk.key, disk.binding)]
    /\ intent' = TRUE
    /\ UNCHANGED <<system, token, entry, runtime, connector, late, gw, closed, unsure, faults>>
PauseStops == At("pause", "close") /\ LocalHalf(PausedEntry)
PauseEnds ==
    /\ At("pause", "close") /\ op.local # "due" /\ ~Waiting(op.req)
    /\ closed' = (closed \/ op.local = "ok")
    /\ End
    /\ UNCHANGED <<localVars, late, gw, intent, unsure, faults>>

Resume ==
    /\ Free /\ disk.key # None
    /\ op' = [Idle EXCEPT !.name = "resume", !.pc = "deny",
                          !.req = Request("suspend", disk.key, disk.binding)]
    /\ UNCHANGED <<localVars, late, gw, historyVars, faults>>

\* Mutant: the local pause is lifted without the Gateway's denial.
CanLiftUnconfirmed == ~Waiting(op.req)
CanLift == Answered("ok")
LiftPause ==
    /\ At("resume", "deny") /\ CanLift
    /\ disk' = [disk EXCEPT !.access = "active"]
    /\ intent' = FALSE /\ closed' = FALSE
    /\ Goto("start")
    /\ UNCHANGED <<system, token, entry, runtime, connector, late, gw, unsure, faults>>

RollBack == Send("undo", "suspend", disk.key, disk.binding)
\* Entries are enabled or installed, and the jobs started.
ResumeStarts ==
    /\ At("resume", "start")
    /\ \/ entry' = "enabled" /\ StartJobs /\ Goto("wait") /\ UNCHANGED <<disk, intent, faults>>
       \/ /\ Fault /\ entry' \in {entry, "enabled"}
          /\ RollBack /\ disk' = [disk EXCEPT !.access = "suspended"] /\ intent' = TRUE
          /\ UNCHANGED <<runtime, connector>>
    /\ UNCHANGED <<system, token, late, gw, closed, unsure>>
\* The Gateway is asked to admit requests when everything local is ready.
AskToResume ==
    /\ At("resume", "wait")
    /\ runtime = [phase |-> "serving", binding |-> disk.binding] /\ connector # None
    /\ Enrolled([key |-> disk.key, binding |-> disk.binding])
    /\ Send("confirm", "resume", disk.key, disk.binding)
    /\ UNCHANGED <<localVars, late, gw, historyVars, faults>>
AskAgain ==
    /\ At("resume", "confirm") /\ Answered("again")
    /\ Goto("wait")
    /\ UNCHANGED <<localVars, late, gw, historyVars, faults>>
Resumed ==
    /\ At("resume", "confirm") /\ Answered("ok")
    /\ End
    /\ UNCHANGED <<localVars, late, gw, historyVars, faults>>

\* The pause is saved again; if that fails too, the services are still stopped.
ResumeFails ==
    /\ \/ op.name = "resume" /\ op.pc \in {"deny", "confirm"} /\ Answered("denied")
       \/ op.name = "resume" /\ op.pc \in {"deny", "confirm"} /\ Answered("lost")
       \/ At("resume", "wait")
    /\ RollBack
    /\ \/ disk' = [disk EXCEPT !.access = "suspended"] /\ intent' = TRUE /\ UNCHANGED faults
       \/ Fault /\ UNCHANGED <<disk, intent>>
    /\ UNCHANGED <<system, token, entry, runtime, connector, late, gw, closed, unsure>>
RollBackStops ==
    /\ At("resume", "undo") /\ ~Waiting(op.req)
    /\ \/ Stops(PausedEntry) /\ closed' = intent /\ UNCHANGED faults
       \/ StopFails(PausedEntry) /\ UNCHANGED closed
    /\ End
    /\ UNCHANGED <<system, disk, token, late, gw, intent, unsure>>

\* Exit, and the stop command: the entries stay for the next login.
Exit ==
    /\ Free
    /\ Stops(entry)
    /\ UNCHANGED <<system, disk, token, op, late, gw, historyVars, faults>>

\* restartTeamDevSpace: the services are stopped, then started.
Restart ==
    /\ Free /\ disk.key # None /\ ~Suspended
    /\ \/ Stops(entry) /\ op' = [Idle EXCEPT !.name = "restart", !.pc = "start"] /\ UNCHANGED faults
       \/ StopFails(entry) /\ UNCHANGED op
    /\ UNCHANGED <<system, disk, token, late, gw, historyVars>>

\* The process of the operation dies, or the whole computer restarts.
Crash ==
    /\ Fault
    /\ op # Idle
    /\ End
    /\ late' = IF op.req.kind = "none" THEN late ELSE late \cup {op.req}
    /\ StopJobs \/ UNCHANGED <<runtime, connector>>
    /\ UNCHANGED <<system, disk, token, entry, gw, historyVars>>
LoseToken ==
    /\ Fault
    /\ token' = None
    /\ UNCHANGED <<system, disk, entry, runtime, connector, op, late, gw, historyVars>>

-----------------------------------------------------------------------------
\* Keys change hands; the rest is the life of a device with its key.
KeyNext == LoseToken \/ \E k \in Keys : AdminReset(k) \/ OtherDevice(k) \/ Replace(k)
LifeNext ==
    \/ JobsStart \/ RuntimeReads \/ RuntimeListens \/ RuntimeFails
    \/ GatewayHandles \/ TimesOut \/ \E r \in late : HandlesLate(r)
    \/ (\E k \in Keys : Setup(k)) \/ StopPrevious
    \/ EnrolmentFails \/ SaveToken \/ SaveEnrolment \/ Install \/ Start
    \/ Repair \/ RepairRemoves \/ PreflightFails \/ StartRelease \/ ReplaceStops
    \/ ReleaseFails \/ DropToken \/ ForgetBinding
    \/ Pause \/ PauseStops \/ PauseEnds
    \/ Resume \/ LiftPause \/ ResumeStarts \/ AskToResume \/ AskAgain \/ Resumed
    \/ ResumeFails \/ RollBackStops
    \/ Exit \/ Restart \/ Crash
DeviceNext == KeyNext \/ LifeNext

DeviceSpec == DeviceInit /\ [][DeviceNext]_deviceVars

-----------------------------------------------------------------------------
(* Properties.                                                             *)

RequestType == [kind : {"none", "enroll", "suspend", "resume", "release", "preflight"},
                key : Keys \cup {None}, binding : Bindings \cup {None},
                stage : {"sent", "probed", "ok", "again", "denied", "lost"}, state : {None, "active", "suspended"}]
DeviceTypeOK ==
    /\ system \in Systems
    /\ disk \in [key : Keys \cup {None}, pending : Keys \cup {None},
                 binding : Bindings \cup {None}, access : {"active", "suspended"}]
    /\ {token, connector} \subseteq Bindings \cup {None}
    /\ entry \in {"none", "disabled", "enabled"}
    /\ runtime \in [phase : {"off", "starting", "loading", "serving"}, binding : Bindings \cup {None}]
    /\ op \in [name : {"none", "setup", "replace", "repair", "pause", "resume", "restart", "root"},
               pc : {"end", "stop", "enroll", "save", "install", "start", "preflight", "release",
                     "forget", "remove", "close", "deny", "wait", "confirm", "undo", "halt", "write",
                     "rerun", "verify", "unhalt", "unwrite", "unstart", "unverify"},
               key : Keys \cup {None}, keep : BOOLEAN, local : {"due", "ok", "failed"},
               req : RequestType]
    /\ late \subseteq RequestType
    /\ gw \in [Keys -> [state : {"issued", "provisioning", "active", "suspended", "resetting"},
                        binding : Bindings \cup {None}, mine : BOOLEAN]]
    /\ intent \in BOOLEAN /\ closed \in BOOLEAN /\ unsure \subseteq Keys
    /\ faults \in 0 .. MaxFaults

\* "Only the explicit resume operation may release a locally persisted pause":
\* whatever the device does after a pause - repairs, enrolments, another key,
\* crashes between their steps - state.json says suspended until then.
PauseIsSticky == intent => Suspended

\* "A stale startup task must never resurrect the bridge while the user intends
\* access to stay paused": once a pause has seen the services stop, nothing that
\* starts them again makes the runtime serve.
PausedServesNothing == closed => runtime.phase \notin {"loading", "serving"}

\* A pause holds on disk and in the processes until it is taken back.
PauseHolds == DeviceTypeOK /\ PauseIsSticky /\ PausedServesNothing

\* "Start it only after confirming Gateway denial": while a resume brings the
\* device up, no request is admitted before the Gateway has probed it.  A resume
\* whose caller gave up earlier is excepted: the Gateway may still carry it out.
DeniedUntilProbed ==
    /\ op.name = "resume" /\ op.pc \in {"start", "wait"}
    /\ Known([key |-> disk.key, binding |-> disk.binding])
    /\ \A r \in late : r.kind # "resume"
    => gw[disk.key].state # "active"

\* A key the Gateway holds for this device is one the device can still name,
\* unless the answer of its enrolment never was recorded.
NoForgottenBinding ==
    \A k \in Keys : gw[k].mine =>
        \/ k = disk.key
        \/ k \in unsure
        \/ \E r \in late : r.kind = "enroll" /\ r.key = k
=============================================================================
