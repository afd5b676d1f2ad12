------------------------------ MODULE Updates ------------------------------
(***************************************************************************)
(* Applying a client update (client/updates.mjs: applyUpdate,              *)
(* client/update-cache.mjs, platform/unix/bootstrap.sh and apply-update.sh) *)
(* on a device whose Bridge serves remote work.                            *)
(*                                                                         *)
(* Updaters are the processes that may call applyUpdate: the background    *)
(* scheduler, the Control Center and the CLI.  Each step of an updater is  *)
(* one awaited call.  The apply lock and the device operation lock are     *)
(* SQLite locks: the system frees them when their process ends.  The       *)
(* installer is a process of its own that outlives the updater.            *)
(***************************************************************************)
EXTENDS Bridge

CONSTANTS
    Updaters,
    Versions,     \* release numbers, a range of naturals starting at 1
    Guard,        \* how long an unconfirmed attempt blocks another one
    MaxAttempts,  \* bound on the attempts that are recorded
    MaxFaults,    \* bound on crashes and lost answers
    UserOps,      \* what the user does besides: "settings", "pause"
    Natives,      \* the kinds of system there are (see native)
    Nobody

ASSUME UpdatesAssumption ==
    /\ Versions = 1 .. Cardinality(Versions) /\ 1 \in Versions
    /\ Guard \in Nat /\ MaxAttempts \in Nat /\ MaxFaults \in Nat
    /\ UserOps \subseteq {"settings", "pause"} /\ Natives \subseteq BOOLEAN /\ Nobody \notin Updaters

VARIABLES
    native,       \* the system asks the user to authorise installers (macOS)
    active,       \* the installed version: active-path
    policy,       \* the fleet policy: versions for automatic and manual updates
    automaticOn,  \* settings.json: the user's consent to automatic updates
    remote,       \* the device is enrolled and not paused: its Bridge runs
    applyLock, opLock,
    attempt,      \* attempt.json
    result,       \* result.json
    job,          \* the installer of each attempt
    cache,        \* versions whose package is in the cache
    u,            \* the updaters
    faults,
    overdue       \* history: an installer was still at work when its guard ran out

deviceVars == <<native, active, policy, automaticOn, remote>>
fileVars == <<attempt, result, job, cache>>
updatesVars == <<bridgeVars, deviceVars, fileVars, applyLock, opLock, u, faults, overdue>>

Ids == 1 .. MaxAttempts
NoAttempt == [id |-> 0, version |-> 0, source |-> 0, at |-> 0]
NoResult == [id |-> 0, version |-> 0]
NoJob == [state |-> "none", version |-> 0, from |-> 0, at |-> 0]
Off == [pc |-> "idle", mode |-> "manual", source |-> 0, version |-> 0, drained |-> FALSE]

Modes == {"automatic", "manual", "repair"}
Automatic(p) == u[p].mode = "automatic"

UpdatesInit ==
    /\ BridgeInit
    /\ native \in Natives
    /\ active = 1
    /\ policy = [auto |-> 0, stable |-> 1]
    /\ automaticOn = TRUE /\ remote = TRUE
    /\ applyLock = Nobody /\ opLock = Nobody
    /\ attempt = NoAttempt /\ result = NoResult
    /\ job = [i \in Ids |-> NoJob]
    /\ cache = {}
    /\ u = [p \in Updaters |-> Off]
    /\ faults = 0 /\ overdue = FALSE

Goto(p, pc) == u' = [u EXCEPT ![p].pc = pc]

\* applyUpdate returns or throws, and both locks are free again.
Stop(p) ==
    /\ u' = [u EXCEPT ![p] = Off]
    /\ applyLock' = Nobody
    /\ opLock' = IF opLock = p THEN Nobody ELSE opLock
KeepLocks == UNCHANGED <<applyLock, opLock>>

-----------------------------------------------------------------------------
(* applyUpdate                                                             *)

OwnResult == result.version = attempt.version /\ result.id = attempt.id

\* Mutant: only the result of another attempt keeps the guard up.
ResolvedUnlessForeign ==
    \/ attempt = NoAttempt
    \/ result = NoResult \/ OwnResult
    \/ clock - attempt.at >= Guard

\* The attempt that is recorded is over: its result is there, the program that
\* runs is its target, or it is too old.
Resolved ==
    \/ attempt = NoAttempt
    \/ OwnResult
    \/ attempt.version = active /\ attempt.source # active
    \/ clock - attempt.at >= Guard

Begin(p, mode) ==
    /\ u[p] = Off
    /\ applyLock = Nobody
    /\ Resolved
    /\ applyLock' = p
    /\ u' = [u EXCEPT ![p] = [Off EXCEPT !.pc = "policy", !.mode = mode, !.source = active]]
    /\ UNCHANGED <<bridgeVars, deviceVars, fileVars, opLock, faults>>

Promoted(mode) == IF mode = "automatic" THEN policy.auto ELSE policy.stable

ChooseVersion(p) ==
    /\ u[p].pc = "policy"
    /\ LET mode == u[p].mode
           version == IF mode = "repair" THEN u[p].source ELSE Promoted(mode) IN
         IF (mode = "repair" \/ version > u[p].source) /\ (mode = "automatic" => automaticOn)
           THEN /\ u' = [u EXCEPT ![p] = [@ EXCEPT !.pc = "prepare", !.version = version]]
                /\ KeepLocks
           ELSE Stop(p)
    /\ UNCHANGED <<bridgeVars, deviceVars, fileVars, faults>>

\* The package is downloaded; policy and consent are read again after it.
Prepare(p) ==
    /\ u[p].pc = "prepare"
    /\ cache' = cache \cup {u[p].version}
    /\ IF /\ u[p].mode = "repair" \/ Promoted(u[p].mode) = u[p].version
          /\ Automatic(p) => automaticOn /\ ~native
         THEN Goto(p, "lock") /\ KeepLocks
         ELSE Stop(p)
    /\ UNCHANGED <<bridgeVars, deviceVars, attempt, result, job, faults>>

\* Mutant: the device operation lock is not taken.
EnterUnlocked(p) ==
    /\ u[p].pc = "lock"
    /\ Goto(p, IF remote THEN "drain" ELSE "clear")
    /\ UNCHANGED <<bridgeVars, deviceVars, fileVars, applyLock, opLock, faults>>
EnterOperation(p) ==
    /\ u[p].pc = "lock"
    /\ opLock = Nobody
    /\ IF active = u[p].source
         THEN /\ opLock' = p
              /\ Goto(p, IF remote THEN "drain" ELSE "clear")
              /\ UNCHANGED applyLock
         ELSE Stop(p)
    /\ UNCHANGED <<bridgeVars, deviceVars, fileVars, faults>>
\* The lock stays busy, or this process has an operation of its own (canApply).
Deferred(p) ==
    /\ u[p].pc = "lock"
    /\ Stop(p)
    /\ UNCHANGED <<bridgeVars, deviceVars, fileVars, faults>>

\* POST /update-drain.
Drain(p) ==
    /\ u[p].pc = "drain"
    /\ IF IdleFor(Automatic(p))
         THEN /\ StartDrain(Automatic(p))
              /\ u' = [u EXCEPT ![p] = [@ EXCEPT !.pc = "clear", !.drained = TRUE]]
              /\ KeepLocks
         ELSE Stop(p) /\ UNCHANGED bridgeVars
    /\ UNCHANGED <<deviceVars, fileVars, faults>>
\* Its answer is lost: the updater gives up without knowing that it drained.
DrainLost(p) ==
    /\ u[p].pc = "drain"
    /\ faults < MaxFaults /\ faults' = faults + 1
    /\ StartDrain(Automatic(p))
    /\ Stop(p)
    /\ UNCHANGED <<deviceVars, fileVars>>

ClearResult(p) ==
    /\ u[p].pc = "clear"
    /\ result' = NoResult
    /\ Goto(p, "persist")
    /\ UNCHANGED <<bridgeVars, deviceVars, attempt, job, cache, applyLock, opLock, faults>>

NextId(i) == \A j \in Ids : job[j].state = "none" <=> j >= i
PersistAttempt(p) ==
    /\ u[p].pc = "persist"
    /\ \E i \in Ids :
         /\ NextId(i)
         /\ attempt' = [id |-> i, version |-> u[p].version, source |-> u[p].source, at |-> clock]
         /\ job' = [job EXCEPT ![i] = [@ EXCEPT !.state = "due", !.version = u[p].version,
                                              !.at = clock]]
    /\ Goto(p, "handoff")
    /\ UNCHANGED <<bridgeVars, deviceVars, result, cache, applyLock, opLock, faults>>

\* The handoff: a failure may leave no installer, or one that was started.
StartJob(p) ==
    /\ job' = [job EXCEPT ![attempt.id].state = "queued"]
    /\ result' = IF native THEN result ELSE NoResult
Handoff(p) ==
    /\ u[p].pc = "handoff"
    /\ StartJob(p)
    /\ Goto(p, "phase")
    /\ UNCHANGED <<bridgeVars, deviceVars, attempt, cache, applyLock, opLock, faults>>

\* catch: the pause of admission is released, the attempt stays recorded.
Release(p) == IF u[p].drained THEN EndDrain ELSE UNCHANGED bridgeVars
HandoffFails(p) ==
    /\ u[p].pc \in {"clear", "persist", "handoff"}
    /\ Release(p)
    /\ \/ UNCHANGED <<job, result>>
       \/ u[p].pc = "handoff" /\ StartJob(p)
    /\ Stop(p)
    /\ UNCHANGED <<deviceVars, attempt, cache, faults>>

\* Where the user must still authorise the installer, admission goes on.
\* Mutant: admission stays paused there too.
HandedOffPaused(p) ==
    /\ u[p].pc = "phase"
    /\ Stop(p)
    /\ UNCHANGED <<bridgeVars, deviceVars, fileVars, faults>>
HandedOff(p) ==
    /\ u[p].pc = "phase"
    /\ IF native THEN Release(p) ELSE UNCHANGED bridgeVars
    /\ Stop(p)
    /\ UNCHANGED <<deviceVars, fileVars, faults>>

Crash(p) ==
    /\ u[p] # Off
    /\ faults < MaxFaults /\ faults' = faults + 1
    /\ Stop(p)
    /\ UNCHANGED <<bridgeVars, deviceVars, fileVars>>

\* checkForUpdates prunes the cache under the apply lock.  The policy it read may
\* be older by then: the same states, as SetPolicy can restore any policy.
\* Mutant: packages an installer may still need are not kept.
PruneUnneeded ==
    /\ applyLock = Nobody
    /\ cache' = cache \cap {active, policy.stable, policy.auto}
    /\ UNCHANGED <<bridgeVars, deviceVars, attempt, result, job, applyLock, opLock, u, faults>>
PruneCache ==
    /\ applyLock = Nobody
    /\ cache' = cache \cap {active, policy.stable, policy.auto, attempt.version}
    /\ UNCHANGED <<bridgeVars, deviceVars, attempt, result, job, applyLock, opLock, u, faults>>

-----------------------------------------------------------------------------
(* The installer: bootstrap.sh under apply-update.sh.                      *)

Move(i, from, to) == job[i].state = from /\ job' = [job EXCEPT ![i].state = to]

\* install.lock admits one installer.
TakeInstallLock(i) ==
    /\ \A j \in Ids : job[j].state \notin {"installing", "activated"}
    /\ Move(i, "queued", "installing")
    /\ UNCHANGED <<bridgeVars, deviceVars, attempt, result, cache, applyLock, opLock, u, faults>>

\* The candidate stops the services - a device operation - and becomes active.
ActivateCandidate(i) ==
    /\ opLock = Nobody
    /\ job[i].state = "installing"
    /\ job' = [job EXCEPT ![i] = [@ EXCEPT !.state = "activated", !.from = active]]
    /\ active' = job[i].version
    /\ RestartBridge
    /\ UNCHANGED <<native, policy, automaticOn, remote, attempt, result, cache, applyLock, opLock, u, faults>>
RollBack(i) ==
    /\ opLock = Nobody
    /\ Move(i, "activated", "undone")
    /\ active' = job[i].from
    /\ RestartBridge
    /\ UNCHANGED <<native, policy, automaticOn, remote, attempt, result, cache, applyLock, opLock, u, faults>>

\* trap finish: every end of the script is recorded, unless it was killed.  The
\* native installer of macOS records nothing.
FinishJob(i) ==
    /\ job[i].state \in {"queued", "installing", "activated", "undone"}
    /\ job' = [job EXCEPT ![i].state = "done"]
    /\ \/ UNCHANGED result
       \/ ~native /\ result' = [id |-> i, version |-> job[i].version]
    /\ UNCHANGED <<bridgeVars, deviceVars, attempt, cache, applyLock, opLock, u, faults>>

-----------------------------------------------------------------------------
(* Everything else that goes on.                                           *)

SetPolicy(stable, auto) ==
    /\ auto <= stable
    /\ policy' = [auto |-> auto, stable |-> stable]
    /\ UNCHANGED <<native, bridgeVars, active, automaticOn, remote, fileVars, applyLock, opLock, u, faults>>

\* Settings, pause and resume are device operations.
SetAutomatic ==
    /\ "settings" \in UserOps
    /\ opLock = Nobody
    /\ automaticOn' = ~automaticOn
    /\ UNCHANGED <<native, bridgeVars, active, policy, remote, fileVars, applyLock, opLock, u, faults>>
PauseOrResume ==
    /\ "pause" \in UserOps
    /\ opLock = Nobody
    /\ remote' = ~remote
    /\ RestartBridge
    /\ UNCHANGED <<native, active, policy, automaticOn, fileVars, applyLock, opLock, u, faults>>

BridgeWork ==
    /\ remote
    /\ \E c \in Calls : Serve(c)
    /\ UNCHANGED <<deviceVars, fileVars, applyLock, opLock, u, faults>>
BridgeCrash ==
    /\ faults < MaxFaults /\ faults' = faults + 1
    /\ RestartBridge
    /\ UNCHANGED <<deviceVars, fileVars, applyLock, opLock, u>>
Time == BridgeTick /\ UNCHANGED <<deviceVars, fileVars, applyLock, opLock, u, faults>>

UpdaterStep(p) ==
    \/ \E mode \in Modes : Begin(p, mode)
    \/ ChooseVersion(p) \/ Prepare(p) \/ EnterOperation(p) \/ Deferred(p)
    \/ Drain(p) \/ DrainLost(p) \/ ClearResult(p) \/ PersistAttempt(p)
    \/ Handoff(p) \/ HandoffFails(p) \/ HandedOff(p) \/ Crash(p)
InstallerStep(i) ==
    TakeInstallLock(i) \/ ActivateCandidate(i) \/ RollBack(i) \/ FinishJob(i)

Pending(i) == job[i].state \in {"queued", "installing", "activated"}
Expired(i) == clock - job[i].at >= Guard

UpdatesStep ==
    \/ \E p \in Updaters : UpdaterStep(p)
    \/ \E i \in Ids : InstallerStep(i)
    \/ \E stable \in Versions, auto \in Versions \cup {0} : SetPolicy(stable, auto)
    \/ PruneCache
    \/ SetAutomatic \/ PauseOrResume \/ BridgeWork \/ BridgeCrash \/ Time
NoteOverdue == overdue' = (overdue \/ \E i \in Ids : (Pending(i) /\ Expired(i))')
UpdatesNext == UpdatesStep /\ NoteOverdue

UpdatesSpec == UpdatesInit /\ [][UpdatesNext]_updatesVars

-----------------------------------------------------------------------------
(* Properties.                                                             *)

JobRecord ==
    [state : {"none", "due", "queued", "installing", "activated", "undone", "done"},
     version : Versions \cup {0}, from : Versions \cup {0}, at : Nat]
UpdaterRecord ==
    [pc : {"idle", "policy", "prepare", "lock", "drain", "clear", "persist", "handoff", "phase"},
     mode : Modes, source : Versions \cup {0}, version : Versions \cup {0}, drained : BOOLEAN]

UpdatesTypeOK ==
    /\ BridgeTypeOK
    /\ native \in BOOLEAN
    /\ active \in Versions
    /\ policy \in [auto : Versions \cup {0}, stable : Versions]
    /\ automaticOn \in BOOLEAN /\ remote \in BOOLEAN
    /\ {applyLock, opLock} \subseteq Updaters \cup {Nobody}
    /\ attempt \in [id : Ids \cup {0}, version : Versions \cup {0}, source : Versions \cup {0}, at : Nat]
    /\ result \in [id : Ids \cup {0}, version : Versions \cup {0}]
    /\ job \in [Ids -> JobRecord]
    /\ cache \subseteq Versions
    /\ u \in [Updaters -> UpdaterRecord]
    /\ faults \in 0 .. MaxFaults /\ overdue \in BOOLEAN

Started(i) == job[i].state \in {"none", "due"} /\ job'[i].state = "queued"

\* "Inspect the system task/result before retrying instead of launching a
\* duplicate": an installer is started only when no other one is at work, or
\* that one has already activated its version - whichever processes tried,
\* crashed, or lost an answer in between.  The guard gives this up for installers
\* that outlive it: one that then still rolls back sets others free.
OneInstaller ==
    [][\A i, j \in Ids : Started(i) /\ j # i /\ Pending(j) =>
            job[j].state = "activated" \/ overdue]_updatesVars

\* "The result of an old task cannot lift the guard of a new one": a result
\* that resolves the recorded attempt comes from that attempt's own installer.
ResultIsOwn == attempt # NoAttempt /\ OwnResult => job[attempt.id].state = "done"

\* No installer is started while remote work is in progress, as long as the
\* pause of admission that was obtained for it has not run out.
InstallerSparesWork ==
    [][\A i \in Ids : Started(i) /\ faults = 0 /\ Work # {} =>
            clock >= drainUntil /\ drainUntil > 0]_updatesVars

\* "Failed handoffs release it": admission is paused only for an updater that
\* is on its way to the installer, or for an installer that was started.
NoDrainLeftBehind ==
    /\ UpdatesTypeOK
    /\ Draining /\ faults = 0 =>
         \/ \E p \in Updaters : u[p].drained
         \/ \E i \in Ids : ~native /\ job[i].state \notin {"none", "due"} /\ clock < job[i].at + Window

\* As long as no installer has outlived the guard, an update never goes back to
\* an older version, whatever the policy becomes and whoever repairs or updates:
\* only an installer that undoes its own activation does.
NoDowngrade ==
    [][active' < active =>
        \/ \E i \in Ids : job[i].state = "activated" /\ job'[i].state = "undone"
        \/ overdue]_updatesVars

\* Cleaning the cache spares the package of an installer that still needs it.
PackageKept ==
    attempt # NoAttempt /\ job[attempt.id].state \in {"due", "queued", "installing"} =>
        attempt.version \in cache

\* What the files say of the recorded attempt holds of its installer.
AttemptIsBacked == ResultIsOwn /\ PackageKept

\* docs/updates.md: an automatic update confirms the user's own preference
\* again before it is carried out.
OptOutIsHonoured ==
    [][\A p \in Updaters, i \in Ids :
            u[p].pc = "handoff" /\ Automatic(p) /\ Started(i) /\ attempt.id = i => automaticOn]_updatesVars
=============================================================================
