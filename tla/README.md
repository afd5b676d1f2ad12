# Team DevSpace: a verification development

Team DevSpace lets ChatGPT work on an employee's own computer.  An employee's
MCP requests go to a **Gateway** (a Cloudflare Worker), which authenticates an
*Access Key*, finds the *Device Binding* of the one device that key is enrolled
on, and forwards the request through a Cloudflare **tunnel** to the **Bridge**
on that device's loopback, which hands it to the local DevSpace.  Pausing,
resetting, revoking, repairing and updating all have to be safe while requests,
administrators, cleanups, service managers and installers carry on at the same
time, and so do the parts that run without anybody asking: the cron, the update
scheduler, the keeper on Linux, the desktop process.  This directory holds TLA+ models of that behaviour, the TLC
configurations that check them, and proofs of what matters most.

All paths below are relative to the repository; `map` in `PROJECT.json` gives
the lines each definition stands for.

- [1. Inventory](#1-inventory)
- [2. The modules](#2-the-modules)
- [3. What is checked](#3-what-is-checked)
- [4. Fairness](#4-fairness)
- [5. What is proved](#5-what-is-proved)
- [6. Where code and documents disagree](#6-where-code-and-documents-disagree)
- [7. Abstractions, and what is not modelled](#7-abstractions-and-what-is-not-modelled)
- [8. Plan](#8-plan)

## 1. Inventory

### Gateway (`gateway/`, `migrations/`, `assets/`, `scripts/`)

| component | state | operations | correct when |
|---|---|---|---|
| key store, `store.mjs` | D1 tables `access_keys`, `access_key_events` | one SQL statement or batch per method: issue, bind, saveTunnel, activate, suspend, resume, reportVersion, disable, expireProvisioning, finishCleanup, delete | a binding belongs to one key and one device and ends only by cleanup; a revoked key never returns; the audit trail is never behind |
| request handlers and cron, `index.mjs` | none but the row each handler has read | enrol, release, suspend, resume, report, MCP proxy; the scheduled cleanup | nothing done from an old row undoes what others did since: no tunnel lost or left over, no pause lifted, no request at the wrong device |
| admin service, `admin-service.mjs` | none | issue, revoke, reset, delete, delete all | the denial comes before the cleanup, and every cleanup completes |
| admin web page, `assets/admin/admin.js` | the key it is creating, with its secret, in memory and in `sessionStorage`; the list and the policy it shows | create, retry, dismiss, reload; the buttons of the list; the form of the update policy | no key exists whose secret nobody has; what the page reports was done |
| Cloudflare client, `cloudflare.mjs` | the account's tunnels and DNS records | ensureTunnel, configure, remove | an enabled key's tunnel works; a removed one can never reconnect |
| update policy, `update-policy.mjs`, with `scripts/publish-downloads.mjs` and `download-server.sh` | the row `update_policy` (decision, revision, publication lease), the download server's releases, a cache per isolate | show, save; lease, publish, activate, prune; cached read | no release is deleted that the policy names; no decision is overwritten unseen; no older policy comes back |
| deployment, `scripts/deploy.mjs` and its helpers | schema, serving version, route, WAF rule, asset Worker | prepare, migrate, upload, wait, activate the Edge contract, retire the asset Worker, recover | schema, Worker and Edge move in that order; a failure gives the place back to the version before |
| observability, static assets | - | presentation | not modelled |

### Device (`client/`, `platform/`, `native/`)

| component | state | operations | correct when |
|---|---|---|---|
| Bridge, `bridge.mjs` | open calls, count of work, last work, drain deadline | admit, forward, end; drain, release | the count is exact; a drained Bridge is idle; quiet means quiet |
| local OAuth, `oauth.mjs` | credentials in memory and in `local-oauth.json`, one pending promise | token; obtain, refresh, grant, save | one grant or refresh for all; a call gets a token DevSpace takes; the owner is asked only when it must be; the device is never locked out |
| setup, `setup.mjs` | `state.json`, `tunnel.token`, the project root of DevSpace | configureDevice, replaceAccessKey, repairDevice, changeProjectRoot | an interrupted operation can be repeated; no binding is forgotten; the root that is served is the one on record |
| control, `control.mjs` | `remoteAccess` in `state.json` | pause, resume with rollback, restart, stop | a pause outlives everything but its resume |
| locks, `operation.mjs`, `process-lock.mjs` | SQLite file locks | withDeviceOperation, acquireProcessLock | one operation per installation, free after a crash |
| runtime, `runtime.mjs` | DevSpace and Bridge servers | run, close | does not serve while paused |
| login services, `platform.mjs` and others | startup entries and jobs of Task Scheduler, launchd, systemd | install, start, stop, enable, disable, remove | nothing stopped comes back unasked |
| standalone keeper, `standalone.mjs` | records, lock, keeper and worker processes | start, stop, remove; the keeper's loop | it signals exactly its own processes; a confirmed pause leaves nothing running |
| updates, `updates.mjs`, `update-cache.mjs` | settings, package cache, `attempt.json`, `result.json`, apply lock; the scheduler's deadlines and what is in its way | check, apply, prune; background checks with back-off | one installer, no downgrade, no work interrupted, consent honoured; it never stops checking |
| installers, `platform/` | versions, `active-path`, startup entries, install lock | install, repair, roll back, uninstall | one at a time; whatever fails or is killed, the version in use is complete |
| desktop controller and tray, `desktop-controller.mjs`, `tray.mjs`, `gateway-status-cache.mjs` | generation and revision, cached status, pending operation, exit | refresh, operate, check, choose a folder, exit | nothing older than the last operation is shown; services stop only when no operation is left |
| Control Center, `local-control.mjs`, `control.js` | capability, port and endpoint files; the page | listen, publish, close; poll, update, wait | no capability is accepted on two ports; an open page survives a restart |
| CLI, interactive setup, native UI, build scripts | - | call the above | not modelled |

### How they interact

The device calls the Gateway over HTTPS (`client/http.mjs`): every call may time
out while the Gateway goes on handling it.  The Gateway reaches the device only
through Cloudflare.  Processes on the device share files and SQLite locks, which
the system frees when a process dies.  The Gateway's invocations share only the
D1 database and the Cloudflare account, and each of them may die at any `await`.
The publisher shares the policy row with the administrators and the download
server with other publishers.  A deployment changes the database, the Worker and
the Edge one call after the other.  The desktop process and the Control Center
call the same operations as the CLI, beside it.

What is hard here: handlers that act on a row they read several awaits earlier;
cleanups that are started by five different parties and finished by any of them;
steps of several systems without a common transaction; callers that give up;
updaters, installers and users who race for one device; processes that are killed
between a spawn and its record, and ids that are used again; pages and status
that are older than what they are shown for.  `hazards` in
`PROJECT.json` lists these places, at their lines, with the properties that
watch them.

## 2. The modules

| module | extends | models |
|---|---|---|
| `KeyLifecycle` | - | the abstract specification of one key: unused, free, owned by one device under one binding, denied, dead, gone |
| `KeyStore` | instantiates `KeyLifecycle` | the store: one action per SQL statement, its `WHERE` clause the operator `Can...`; callers unconstrained |
| `AdminPage` | `KeyStore` | one tab of the admin page over the store, its requests with their timeouts |
| `Cloudflare` | - | the account (external): tunnels, their ingress, secrets and connections, DNS records |
| `Gateway` | `KeyStore`, instantiates `Cloudflare` | handlers and cron: one action per awaited call, `w[p].row` the handler's own copy of the row |
| `UpdatePolicy` | - | policy row with its publication lease, publishers, download server, administrators with the form of the page, the cache of an isolate |
| `Deployment` | - | deployments of the Gateway: one action per call, answers lost, jobs killed, operators who interfere |
| `Bridge` | - | the Bridge: one record per `/mcp` call, handler and response separate |
| `LocalOAuth` | - | how calls come by a token for DevSpace: one shared grant or refresh, its answers lost, late or unsaved, restarts for another Gateway; DevSpace's tokens (external) |
| `Updates` | `Bridge` | updaters, locks, attempt and result files, installers, users and administrators around the Bridge |
| `Scheduler` | - | the background loop that checks, retries and postpones, with its deadlines |
| `Device` | - | setup, replacement, repair, pause and resume on one device over the service manager, the runtime gate and the Gateway's rows |
| `ProjectRoot` | `Device` | the change of the project root and its rollback beside everything else `Device` does |
| `InstallLock` | - | the installers' lock: a directory with a process id, reclaimed when its owner was killed |
| `Installer` | `InstallLock` | what an installer does under it: candidate, services, setup, activation, restoration, removal |
| `Standalone` | - | keepers, their workers, strangers, records, lock and signals on one machine |
| `Desktop` | - | the desktop process: controller, status cache, dialogs, tray and exit |
| `ControlCenter` | - | Control Center processes over their files and ports, and the open page |
| `KeyStoreProofs`, `GatewayProofs`, `AdminPageProofs`, `OperatorProofs`, `UpdatesProofs`, `ClientProofs`, `DeviceProofs`, `DesktopProofs` | the modules they are about, `TLAPS` | the theorems of section 5 |
| `MC...` | the modules, `TLC` | symmetry sets for TLC; `MCScheduled`, `MCOperators`, `MCDevice`, `MCStandalone`: two modules side by side |

**Compositions and refinement.**  There are three levels of an Access Key.
`KeyLifecycle` is what its administrator is promised: one owner at a time, denied
before it is let go, dead for good, an id never used again.  `KeyStore` is the
database: any caller, any order; `ImplementsLifecycle` says that it implements
`KeyLifecycle` for each key, under a mapping of rows and trail to phases - checked
in run `store` and proved in `KeyStoreProofs`.  `Gateway` adds the handlers, and
run `scan` checks `StoreSpec` as a property of it, `GatewayProofs` proves it:
whatever a handler does to the tables is a statement of the store, with its guards - so everything proved of
`KeyStore` holds of the running Gateway.

`Updates` contains the whole of `Bridge` and drives its drain.  `ProjectRoot`
adds the root to every step of `Device`.  `AdminPage` lets a page drive the store
among other callers.  `Device` uses a Gateway row reduced to what its device can
tell apart (issued, provisioning, active, suspended, resetting; mine or not); the
races inside the Gateway's handlers are `Gateway`'s subject.

`Installer` runs under `InstallLock`: its steps under the lock leave the lock as it
is, and the end or the kill of an installer ends its work.  `Updates` sees an
installer from the updater's side, as a job that holds a lock, changes the active
version or goes back, and records a result; `Installer` is what it does meanwhile.

`MCScheduled` (Gateway, Scheduler), `MCOperators` (UpdatePolicy, Deployment),
`MCDevice` (ProjectRoot, Installer) and `MCStandalone` (Standalone, LocalOAuth) each
put two modules that share nothing into one run: a behaviour belongs to one of the two, chosen in its initial state.

`LocalOAuth` is the other end of a call of `Bridge` that waits for a token: where
`Bridge` says a call goes on or fails, `LocalOAuth` says with which token and why.
The two share no variable, so they are checked apart; `MCStandalone` runs it beside the
keeper that holds the Bridge's process up.

**Variables and code.**

- `KeyStore`: `rows[k]` is the row of a key id (state, device, binding, tunnel,
  client version, `cleanup_pending`, `updated_at`), `events` the audit trail,
  `now` the clock.  `minted` is history: for whom a binding id was drawn.
- `AdminPage`: `page` and `tab` are the credential in memory and in
  `sessionStorage`; `post` the request the page awaits, `late` the requests nobody
  awaits any more; `mine`, `saved`, `dropped` are history: what the tab drew, what
  the administrator kept and what went with a closed tab.
- `Gateway`: `tun`, `dns` the account; `w[p]` an invocation (where it is, the
  operation, the row it read); `held[d]` the binding ids a device was told;
  `faults` bounds failures.
- `Bridge`: `call[c]`; `activeWork`, `lastWorkAt`, `drainUntil` as in the code;
  `busyAt` is history: the last instant with an open POST call.
- `LocalOAuth`: `mem` is `this.credentials` and `file` the JSON file; `pending` the
  promise, named by the call that made it, and `flow[f]` where its `obtain()` is;
  `calls[c]` who waits and who has which token; `pairs` what DevSpace issued, with
  the time its access token ends and whether its refresh token is `honoured`.
- `Updates`: `active` is `active-path`; `policy`; `automaticOn` the setting;
  `remote` enrolled and not paused; `applyLock`, `opLock`; `attempt`, `result`
  the files; `job[i]` the installer of attempt `i`; `cache`; `u[p]` an updater;
  `native` whether the system asks the user to authorise installers; `overdue` is
  history: the guard ran out on an installer at work.
- `Scheduler`: `sched` the loop with its deadlines, kept as the time that remains
  (so time needs no bound); `saved` is `check.json`, `outcome`
  `automatic-result.json`; `occupied` what is in the way, `gateway` what the
  Gateway answers, `device` the kind of system and the setting.
- `UpdatePolicy`: `row`; `releases`, `stable`, `flock` the download server;
  `admin`, `pub`, `reader` the parties; `entry` the cache entry; `floor` history.
- `Deployment`: `worker`, `schema`, `route`, `assets`, `waf`, `legacy`, `database`
  the account; the deployment with its snapshot beside them; `disturbed` is
  history: somebody else changed the account.
- `Device`: `disk` is `state.json`; `token` is `tunnel.token`; `entry`,
  `runtime`, `connector` the startup entries and processes; `op` the operation
  that holds the device lock and its request in flight; `late` requests whose
  caller gave up; `gw` the rows; `intent`, `closed`, `unsure` are history.
- `ProjectRoot`: `root` is `state.json`, `served` the running DevSpace, `from` and
  `next` the change; `astray` is history: the runtime that runs opened a root that
  was being replaced.
- `InstallLock`: `installLock` is `install.lock` with its file `pid` and its directory
  `reclaim`; `step[p]` is where installer `p` is, `owner[p]` the id it read.
- `Installer`: `whole` the complete directories under `versions`, named by their
  installers; `activePath`; `startup` the version whose client wrote the startup
  entries, `serving` the one the running services were started from; `enrolled`
  what the script reads of `state.json`; `job[p]` the variables of the script;
  `removed`, `stray` are history.
- `Standalone`: `proc` the process table, where an id can be used again and a birth
  time cannot; `record`, `lock` the files; `caller`, `keeper` at their steps.
- `Desktop`: a status is the number of changes (`world`) it has seen; generation
  and revision are reduced to whether a pending answer is still current.
- `ControlCenter`: `cap`, `endpoint` the files, `inst` the processes, `foreign` other
  programs' ports; `served`, `collided` are history.

## 3. What is checked

Each run is a `.cfg` on an `MC...` module; `tlc -config X.cfg MCModule` repeats
it.  Every property of a passing run is also broken by a *mutant*: a variant of a
modelled definition that a plausible mistake in the code would amount to
(definitions commented "Mutant", listed in `PROJECT.json`).

| run | configuration | shows |
|---|---|---|
| `store` | `MCAdminPage.cfg`: 2 keys, 2 devices, 2 bindings, 1 tunnel; the devices and a clock, or a tab and other administrators | `StoreIsSound`: columns agree with the state, a binding id sits only where it was minted for, the audit trail keeps up; `ImplementsLifecycle`; `CredentialKept`: no key exists whose secret nobody was shown or can still ask for; `FlashIsTrue`: what the page says was done is done |
| `gateway` | `MCGateway.cfg`: 1 key, 2 devices, 2 bindings, 2 tunnels, 2 concurrent handlers, 1 fault anywhere | `TunnelsFollowRows`: an enabled key's tunnel lives, an active one is provisioned, nobody reconnects between disconnect and deletion, no tunnel is left over; `CleanupIsReal`, `DeliveredWhereAuthorised`, `PauseIsKept` |
| `scan` | `MCScheduled.cfg`: 1 handler, 1 scheduled turn, versions 1 and 2, a clock, 1 fault, fairness; or the scheduler with a check every 3, an hour 2, 1 mishap, fairness | `ScanSparesRepaired`: the cron never undoes what was written since its snapshot; `StoreSpec`; `NothingLingers`: outstanding cleanups and abandoned enrolments end; `BackOffHolds`: the delays owed are kept; `UpdatesKeepComing`: the scheduler neither stops checking nor gives up an update it can apply |
| `updates` | `MCUpdates.cfg`: 2 updaters, 2 attempts, 2 versions, both kinds of system, a user who changes the settings, 1 fault | `OneInstaller`, `NoDowngrade`: no duplicate installer and no way back but a rollback, until the guard runs out on an installer; `AttemptIsBacked`: a result answers its own attempt, and its package stays in the cache |
| `update_work` | `MCUpdatesWork.cfg`: 1 updater, 1 call, pause and resume, both kinds of system | `InstallerSparesWork`, `NoDrainLeftBehind`; `AccountIsTrue`: the Bridge counts the work it has, a drained one has none, and quiet was quiet |
| `policy` | `MCOperators.cfg`: 2 publishers that may outlive their lease with 1 administrator, or 2 administrators with 2 cached reads; or 3 deployments with 3 failures, kills or interventions | `PruneSparesPolicy`, `NobodyOverridden`: no decision is overwritten unseen and nobody ends another one's lease; `CacheNotOlder`; `RolloutHolds`: database, Worker and Edge contract move in order, and a failure gives the place back |
| `device` | `MCDevice.cfg`: 2 keys, 2 bindings, each of the three systems, 1 fault; or 2 project roots; or 3 installers on Linux or macOS, 2 kills or failed commands | `PauseHolds`: a pause outlives everything but its resume, and nothing is served while it lasts; `DeniedUntilProbed`; `StateIsTrue`: no binding is forgotten, and the root that is served is the one `state.json` names; `OneAtATime`: no two installers have the lock; `WorkingVersionKept`: what `active-path`, startup entries and services name is complete, and a restoration that is reported took place |
| `keeper` | `MCStandalone.cfg`: 2 keepers, a pool of process ids that are used again, 1 stranger; or 2 calls, 2 Gateways, a token that lives 3 ticks, an answer that takes up to 1, 2 faults; fairness | `StrangersUnharmed`, `PausedMeansStopped`, `OneOwner`, `PauseTakesHold`; `SoundTokens`: calls share one grant or refresh, nobody is given a token that has ended or is for another Gateway, and the owner is asked only when no refresh token is honoured; `CallsAreServed`: no loss locks the device out |
| `desktop` | `MCDesktop.cfg` | `ActivityIsTrue`: services stop, and the Control Center closes, only when no operation is left, and the window never says busy for nothing; `NeverOlder`, `ExitEnds` |
| `control` | `MCControlCenter.cfg`: 2 processes, 3 ports, a foreign program; or one, and a page | `TokenOneOrigin`, `PageSurvives`, `WaitEnds` |
| `opt_out` | `MCUpdatesOptOut.cfg` | a violation: section 6 |
| `policy_release` | `MCPolicyRelease.cfg` on `MCUpdatePolicy` | a violation: section 6 |

The type invariant of a module (`StoreTypeOK`, `GatewayTypeOK`, ...) is a conjunct
of one of its properties, never a property of its own.

**Bounds, and why they are enough.**

- *Keys.*  The store's guards compare a row with itself; a second key matters
  only for ids that must differ, hence two in `store` and one in `gateway`.
  `KeyStoreProofs` covers any number.
- *Bindings and tunnels* are pools of fresh ids: two of each let a handler of the
  first binding meet the tunnel and the row of the second, which is what stale
  handlers can damage.  A pool that is used up ends a behaviour, so these runs
  do not check deadlock.
- *Handlers.*  Two concurrent ones give every pair of enrol, repair, release,
  suspend, resume, revoke, reset and proxy at every pair of their awaits;
  `GatewayProofs` covers any number of them.
- *Faults.*  `MaxFaults`, `MaxTroubles`, `MaxMishaps`, `MaxFailures`, `MaxCrashes`
  and `MaxSetbacks` bound failed calls, lost answers, crashes, timeouts and interventions.  One may
  strike at any step; what it leaves behind is then worked on by later operations
  without a bound.  Three of them in a deployment let a failure, the failure of
  the recovery and a third in the next deployment meet.  Callers of the keeper give
  up, publishers and administrators in `UpdatePolicy` fail, and the Gateway of the
  scheduler is unreachable without a bound.
- *Installers.*  Three: one that is killed and leaves its lock, and two that find it
  and may both reclaim it, or of which one holds it anew while the other still
  acts on what it read.  Two setbacks let the restoration fail after the step it
  restores from.  `DeviceProofs` covers any number of installers, kills and failed
  commands.
- *Tokens.*  Two calls: one that begins a refresh and one that joins it, leaves or
  begins anew after a restart.  Three ticks give a grant, the refresh that follows it
  and an answer late enough to make the noted end too late by a tick; two
  faults let an answer be lost after a refresh token was ended or the process was
  killed.  `ClientProofs` covers any number of calls, ticks and faults.
- *Attempts.*  Two, so that one can meet the installer of the other; `UpdatesProofs`
  covers any number of updaters, attempts, versions, calls and faults.
- *Processes.*  `MaxPids` is below `MaxBirths`, so that ids are used again; two
  keepers (`MaxLaunches`) are the fewest of which one is left over; `ClientProofs`
  covers any number of either.  Three ports
  let two Control Centers and another program each have one; `DesktopProofs` covers
  any number of starts and ports.
- *Clocks* are ticks; each constant (`Grace`, `Window`, `Quiet`, `Guard`,
  `Lease`, `Margin`, `Fresh`, `Expiry`, the delays of the scheduler) is small and
  differs from the others where the order of two deadlines matters.  `MaxTime` is
  past the longest of them.
- `MaxRevision`, `MaxAttempts`, `MaxChanges`, `MaxDeployments` bound saves, recorded
  attempts, changes of what a status says, deployments: as many as a property
  compares.  One saved revision is an older and a newer decision; a second one
  makes the run too long.
- `Crews`, `Scenes` and the like choose who takes part: combinations whose product
  is out of reach and who meet only through what both combinations contain.
- *Symmetry* is used on model values only, in runs without liveness.

`CHECK_DEADLOCK FALSE` is set where time, faults or ids run out and the model
rightly stops.

## 4. Fairness

Assumed only where a run checks that something happens, and only of steps the
code takes by itself.  Nothing is assumed of clients, administrators, users or of
other programs.

- **Gateway** (run `scan`).  Cloudflare runs an invocation until it ends or is
  killed, so `Continue(p)` - the next awaited call of a running invocation - is
  weakly fair; a kill is `Fail`, at most `MaxFaults` times.  The cron trigger of
  `wrangler.jsonc` calls `scheduled` every five minutes, so a candidate row is taken
  up when a scan is free, `Scan(p, k)`, weakly fair for each key.  Without the scan
  abandoned enrolments stay, which is what the mutant of `NothingLingers` shows.
- **Scheduler** (run `scan`).  Weak fairness of its steps (every request it makes has
  a timeout, and every path of its loop arms a timer again), of the end of a check
  by hand (timeouts again) and of time.  A restart, a write that fails and a clock
  that is put back are `MaxMishaps` mishaps.
- **OAuth** (run `keeper`).  Weak fairness of the next `FlowStep` (there is one flow at a time): `loopbackRequest` has a timeout,
  so every request ends, and Node runs what was awaited.  A request that ends without
  an answer is `Lose`, which is bounded and not fair.  Nothing is assumed of the calls.
- **Keeper** (run `keeper`).  Weak fairness of each keeper's own loop, `runKeeper(n)`: it
  polls `state.json` by a timer.  Not of its callers, which may never come back.
- **Desktop** (run `desktop`).  Weak fairness of the steps of an operation and of its
  reads (child processes and requests with timeouts), of the steps of an exit and
  of the surface that answers `close`.  Not of dialogs, which a user may leave open;
  an exit aborts them.
- **Control Center** (run `control`).  Weak fairness of the page's poll and of its clock.

## 5. What is proved

TLAPS checks the following for every value of the constants: any numbers of
keys, devices, bindings, tunnels and calls, any grace period, window and bound.

**`KeyStoreProofs`** uses only `NoneAssumption` (SQL `NULL` is no id) and
`ClockAssumption`.  The inductive invariant is

    StoreInv == StoreTypeOK /\ RowShape /\ BindingOwner /\ AuditTrail

The conjuncts need each other: `Bind` keeps `BindingOwner` only
because an issued row carries no device (`RowShape`) and `minted` is fresh;
`AuditTrail` needs `RowShape` for rows that are absent.  Eleven of the fourteen
actions write one row and keep it, and what such a write may do to the row, the trail and
the minted ids is collected in `Moves`; `StepMoves` proves it once per action,
`MovesInv` derives the invariant from it, `PurgeInv` treats the deletions.
From `StoreInvariant` follow `StoreIsSoundHolds`, each of its parts, and, with
`Moves` again, the action properties `RevokedForGoodHolds` and
`BindingEndsInCleanupHolds`.

Its last part proves `StoreImplementsLifecycle`: `StoreSpec` implies
`KeyLifecycle`'s specification for every key, under the refinement mapping of
`ImplementsLifecycle`.  `StepTurns` says what each statement does to the one key it
writes, in terms of its row and the trail; `OtherKeys` that no other key's phase
moves; `TurnImplements` and `PurgeImplements` map such a change to a step of the
lifecycle or to a stutter, which needs `StoreInv` in the state before: that an
issued row has no binding, that the trail knows what was deleted.
`LifecycleStart` and `LifecycleStep` combine them.

**`GatewayProofs`** adds `ProcessAssumption` (requests and scans are different
invocations).  The inductive invariant is

    GatewayInv == StoreInv /\ GatewayTypeOK /\ HandlersOK

`HandlersOK` gives every invocation its `Shape`: what may still be relied on of the
row it read earlier.  A resume handler's binding id was minted for its own key and
device - ids are never reused, so this outlives any change of the row; a scan's row,
if its `updated_at` has not changed, has not changed at all, since every statement
that leaves a row in provisioning stamps it with the present (`Stamps`) and a scan
only selects rows of the past.  `StoreKeepsShapes` says that no statement of another
invocation takes this away, `StepMoved` that each step of an invocation keeps its
own, `StepWrites` that what it does to the tables is one statement of the store or
the resume of its own device.  Hence `GatewayImplementsStore`, by which the store's
theorems hold of the Gateway (`GatewayStoreIsSound`), `PauseIsKeptHolds` and
`ScanSparesRepairedHolds`.

Its second part adds the Cloudflare account, from the same assumptions. The
inductive invariant is

    TunnelInv == GatewayInv /\ (each tunnel: TunnelOK) /\ OneTunnel /\ (each record: RecordOK)
                   /\ (each row: RowOK) /\ (each invocation: Knows) /\ Accounted

What makes overlapping handlers harmless is that a binding id is minted once, serves
until its row is denied and never serves again (`Serving`, `ServingEnds`). So the
invariant promises little of a tunnel whose binding has ended, and `Knows` says of an
invocation at each place only what survives the others: an enrolment's tunnel has its
ingress and its record *as long as its binding serves*; a removal works on a binding
that does not serve, and from its rotation on no token of the tunnel is left, hence no
connector comes back (`QuietUntilDeleted`). Two frames carry this over the steps of
others: `TablesStep`, what a statement may do to the rows - a row with a live tunnel
keeps it, and only a provisioned row becomes active - and `CloudStep`, what an API call
may do to the account - it takes nothing from a binding that serves and gives nothing
back to one that has ended. `StepTables` and `StepAccount` show that every step is
within them, `KnowsKept` and `RowKept` that they leave what was known; then one lemma
per group of steps says what an invocation knows next (`EnrolKnows`, `ProvisionKnows`,
`RemovalKnows`, `OthersKnow`, `BeginKnows`). An enrolment that is refused has lost its
binding, not its tunnel to another one (`CancelEnded`, by `OneTunnel`). `Charge` says
which invocation has charge of a live tunnel no row names, `Accounted` that without a
fault there is one (`StepCharges`). There follow `TunnelsFollowRowsHolds`,
`CleanupIsRealHolds` and `DeliveredWhereAuthorisedHolds`.

**`UpdatesProofs`** uses `BridgeAssumption` (finitely many calls, `Window > 0`) and
`UpdatesAssumption` (versions are numbers from 1 on, `Nobody` is no updater).  The
inductive invariant of the Bridge alone is

    BridgeInv == BridgeTypeOK /\ HandlerShape /\ CountIsOpenWork /\ DrainedIsIdle /\ BusyShape

`HandlerShape` says which handlers may outlive their response - those waiting
for a token - without which `DrainedIsIdle` does not survive a forward;
`BusyShape` relates the history `busyAt` to `lastWorkAt`, so that the quiet time
the Bridge computes is the quiet time there was.  Three lemmas say what arrival,
forwarding and closing do to the set of open POST calls and its cardinality;
then one lemma per action, `BridgeInvStep`, and the theorems `WorkIsCountedHolds`,
`QuietBeforeAutomaticHolds` and, of both, `AccountIsTrueHolds`.

For updates on a device it is

    UpdatesInv == UpdatesTypeOK /\ BridgeOK /\ UpdatersOK /\ JobsOK /\ PauseOK

One updater is past the apply lock (`Alone`), and what it has found out stays true while
it holds its locks: that its source is the program that runs, its package is in the
cache, its pause of admission in force or no Bridge there to pause (`UpdaterOK`), and that
every installer at work has activated its version (`Settled`).  The last is the heart of
it.  An attempt counts as over when the program that runs is its target; that its own
installer has got so far, and no other, follows because until then the program is never
newer than what the attempt replaces (`AttemptOK`), since a rollback only leads to an older
one (`JobOK`).  `PauseOK` gives every pause of admission an owner.  One frame lemma per
part says when a step leaves it alone (`JobsFrame`, `GoesOn`, `BystanderOK`, `PauseFrame`),
and what the Bridge does in a step is a step of module `Bridge` (`BridgeSteps`, hence
`UpdatesImplementBridge`, so that `AccountIsTrueForUpdates` follows from the Bridge's own
theorem).  There follow `AttemptIsBackedHolds`, `NoDrainLeftBehindHolds` and, as
action properties, `OneInstallerHolds`, `InstallerSparesWorkHolds`, `NoDowngradeHolds`.

The proof showed that `OneInstaller` had first promised too much.  It excused only
the installer that is itself older than the guard, and two attempts are too few to tell.
With five, an installer of an old release that outlives the guard, is overtaken,
activates and then rolls back lets the recorded attempt look installed while its own
installer is still queued; two further updates within the hour then find it pending.
So the history `overdue` now says that the guard ran out on *some* installer at
work, and both `OneInstaller` and `NoDowngrade` hold until then - and no longer give up as
soon as an attempt that ended long ago is older than the guard.

**`ClientProofs`** is about three programs that run for long and meet others.  For the tokens it
uses `OAuthAssumption` (names differ; `Timeout <= Margin < Life`); the inductive
invariant is

    OAuthInv == OneFlight /\ WaitsForSome /\ CredsOK /\ \A f \in Calls : FlowOK(f)

Two clocks meet in it: a token ends `Life` after DevSpace issued it, and is noted to
end `Life` after its answer arrived, at most `Timeout` later (`FlowOK`).  So what is
noted is at most `Timeout` too late (`CredsOK`) - of the credentials in memory and of
those in the file, which another process may have written - and the margin makes up
for it (`FreshIsGood`).  `Grown` says that whatever DevSpace does, what it issued keeps
its number, its Gateway and its end.  There follow `OneFlightHolds`,
`TokenIsGoodHolds` and `NoNeedlessGrantHolds`, together `SoundTokensHolds`; the last needs that a flow which
begins a grant is the only one and has no answer in hand.

For the update scheduler it uses `SchedulerAssumption` (delays are positive numbers and
ordered, and there is a release); the inductive invariant is

    SchedulerInv == SchedulerTypeOK /\ RecordsTypeOK /\ RestOnRecord /\ CalmOnRecord

The loop itself forgets everything when it is started anew, so what it still owes must
be in its files: the delay since the last check in `check.json`, as that of this
release (`RestOnRecord`), and the delay since the last attempt in
`automatic-result.json`, as that of the release it was about (`CalmOnRecord`).  What
follows from a status (`DecideOK`) is shown once for the checks of the loop and the
statuses it reads back.  Where a file cannot be written nothing is owed: what the
code promises there is only the timer.  There follows `BackOffHoldsAlways`.

For the Linux supervisor it uses `StandaloneAssumption` (the bounds are numbers); the
inductive invariant is

    StandaloneInv ==
      MoreTypesOK /\ ProcsOK /\ KeepersOK /\ RecordOK /\ WorkersOK /\ CallerOK /\ SeenOK
      /\ StrangersUnharmed

At most one keeper is alive, and once it has taken up the record the record is its own
(`KeepersOK`): the next one is launched only after `stopOne` has seen that nothing runs,
and a launch that is not on record yet is either still waited for or `loose`, beside
which the bound launches nothing.  So what a caller has read of the record is still
true when it signals, clears and removes (`CallerOK`), every worker carries the nonce
the record names (`WorkersOK`), and a paused component is `Still`: nothing runs and no
keeper is about to start anything.  For signals the point is the birth time: what a
`clearSession` has listed was a worker, and as no two processes are born at the same
time (`ProcsOK`), a process that now has its id and its birth time still is one
(`SeenOK`).  There follow `OneOwnerHolds`, `PausedMeansStoppedHolds` and
`StrangersUnharmedHolds`.

**`OperatorProofs`** uses `PolicyAssumption` and `DeploymentAssumption`, that is, that
versions are numbers from 1 on and that `Nobody` is not a publisher or a reader. For the policy
row, its lease and the cached reads the inductive invariant is

    PolicyInv == PolicyTypeOK /\ FormsOK /\ PublishersOK /\ ReadsOK

A form was filled from a revision that is either older or the present row (`FormsOK`),
so a save that still finds its revision overwrites what its administrator saw. A
publisher whose lease has not ended is the one the row names, and the row names no
version it does not keep; while it deletes, it has the lock and `stable` is its release
(`PublishersOK`). A read whose answer will be stored is not older than the last
invalidation (`ReadsOK`). There follow `CacheNotOlderHolds` and, as action properties,
`PruneSparesPolicyHolds` (`OnlyPruneDeletes`) and `NobodyOverriddenHolds`
(`OnlyCommitSaves`, `LeaseStays`). For deployments it is

    DeploymentInv == DepTypeOK /\ DepOrder /\ CanGoBack /\ RolloutOrder /\ RecoveryKeepsServing

`DepOrder` says for every phase what the calls before it have made sure of, `CanGoBack`
that until the new release is accepted the one before it and its route can still be put
back: without these neither half of `RolloutHolds` survives a failure or a kill.

**`DeviceProofs`** uses `DeviceAssumption` and `RootAssumption`: `None` is no key,
binding or root. The inductive invariant is

    DeviceInv == DeviceTypeOK /\ DeviceOK /\ OperationOK
    RootInv   == DeviceInv /\ RootTypeOK /\ RootOK

`OperationOK` is, for each place in each operation's script, what the operation relies
on there: whose answer it waits for (`Asked`), that the key it enrols is on disk and its
answer will be the record (`Enrols`), that a key it forgets is not held any more, or
that a late enrolment still may take it (`Replaces`), that after a confirmed
denial nothing is admitted (`Denied`). `DeviceOK` has the account the properties are
about: a key the Gateway holds for this device is on disk, completely provisioned, or has
an enrolment whose outcome nobody recorded (`Accounted`). Requests are handled late, so
every handler has to keep this for rows its operation has left long ago: `Turn` says
what a handler may do to the row it names, `OutcomesTurn` and `SameTurns` that each does
no more. `RootOK` says that a runtime opened the root on disk unless it is astray, and
that a change which has stopped it finds it stopped. One lemma per action, collected by
`LifeKeeps`, `KeysKeep`, `AroundKeeps` and `RootStepKeeps`; then `PauseHoldsAlways`,
`DeniedUntilProbedHolds` and `StateIsTrueHolds`, of the device with its changes of root.

Its second part is about the installers, from `LockAssumption` and `InstallerAssumption`:
the names differ.  For the lock alone the inductive invariant is

    LockInv == LockTypeOK /\ OneAtATime /\ OwnerHolds /\ ClaimPins /\ OneClaim /\ OwnerEnded

`OneAtATime` by itself is not inductive: an installer that moves the lock away may
take another one's with it.  `OwnerEnded` says that it cannot, since the id it read
and rechecked belongs to an installer that has ended and is still the one in the
lock; that it is still there when the lock is moved is `ClaimPins` and `OneClaim` -
a lock with a `reclaim` in it is not made anew, and nobody else moves it.  Hence
`LockExcludes`.  What installers do under the lock is

    DistributionInv == DistributionTypeOK /\ VersionsKept /\ NoneActive /\ NotEnrolled
                         /\ JobsAtWork /\ Newcomers /\ JobsOK

`JobsOK` is, for each place in the script, what its candidate, `active-path`, the
startup entries and the running services are there; `Newcomers` that nothing names a
version before its installer has staged it; `NoneActive` and `NotEnrolled` that nothing runs
where no installer would stop it.  By `LockInv` only one installer is at work
(`Alone`), so a step has to re-establish the job of that one (`WorkKeeps`,
`GoesOn`).  One lemma per step follows, one for services that start and stop
meanwhile, and `WorkingVersionIsKept`.  Every step may end in a kill, so the
invariant also says what the next installer finds.

**`DesktopProofs`** uses `DesktopAssumption` and `ControlAssumption` (the bounds are
numbers, ports and instances are not 0).  For the desktop process the inductive
invariant is

    DesktopInv == DesktopTypeOK /\ TasksOK /\ EntryOK /\ KnownOK /\ FreshOK /\ ActivityEnds

`NeverOlder` compares a status with everything shown before it, so the invariant has to
follow a status from the request to the screen.  A request that is under way owns its
cache entry (`EntryOK`), so that what arrives cannot fill the entry of a later one.
`FreshOK` says of each place a status can be shown from - the cache, the read of a
current refresh, the read and the result of an operation - that it is not older than
what is on show; while an operation is under way it says nothing of the cache, which
may then be older than what the operation commits.  It is the invalidation at the end
of an operation (`OverKeeps`) and the revision at its beginning (`NewRevision`) that
make that good.  There follow `NeverOlderHolds`, by `RefreshShows` and `OpShows`, the
only two steps that change what is on show, and `ActivityIsTrueHolds`.

For the Control Center it is

    ControlInv == ControlTypeOK /\ RecordsOK /\ OriginsOK /\ CapOK /\ (each process: StartOK)

That no token *was* accepted on two ports is not inductive: a start that has read the
capability file goes on from it after the file has changed.  So `Origin` counts every
place a token may yet be accepted at - the file with its port, a start that holds an
older copy of it and keeps its port, a server - with those where it was, and
`OriginsOK` says that they are one.  A start that has left its port makes a new token,
numbered past all of them.  `CapOK` adds that there is one token only while nobody had to
leave a port.  There follow `TokenOneOriginHolds` and `PageSurvivesHolds`.

**`AdminPageProofs`** uses the assumptions of `KeyStore` and `KeyAssumption` (`NULL` is
no key).  The inductive invariant is

    AdminInv == StoreInv /\ CredentialKept /\ TabOK /\ PostOK /\ ActionOK

Every step is a statement of the store or leaves the tables alone
(`AdminStoreStep`, hence `AdminImplementsStore`, and with it
`AdminImplementsLifecycle` and `AdminStoreIsSound`).  The delicate step is the one that
forgets a credential after a refusal (`PageAnswerKeeps`).  A refused name says that the
key did not exist when the answer was made; that it does not exist *now* and never will
is `PostOK`: while a *first* request is out no other request of its key is, and nobody
else issues a key this tab drew.  After a retry the same answer proves nothing, which
is why the page does not forget then.  `TabOK` says that page and `sessionStorage`
agree, so that a reload loses nothing.  `ActionOK` carries the audit trail's entry from
the statement to the message.  There follow `CredentialKeptHolds` and
`FlashIsTrueHolds`.

**Only model-checked:** the liveness properties of all modules (`NothingLingers`,
`UpdatesKeepComing`, `PauseTakesHold`, `CallsAreServed`, `ExitEnds`, `WaitEnds`), since
fairness and `ENABLED` are beyond the prover.  Every invariant and every action property
of the runs is a theorem.

## 6. Where code and documents disagree

Both were met while translating the code; each has a run that shows it.

- **`opt_out`** - `docs/updates.md:36` says an automatic update confirms the local
  preference again before it is carried out.  `client/updates.mjs:312-313` does
  so before it takes the device operation lock (line 318) and not under it, while
  switching automatic updates off is an operation under that very lock: an
  opt-out that completes while the updater waits for the lock is followed by the
  update it refused.
- **`policy_release`** - `scripts/publish-downloads.mjs:299` and
  `docs/updates.md:56` say the publication lease keeps a promotion from naming a
  release that is being deleted.  It does so while the lease is live, but a
  publication changes no revision and leaves no lease behind: a save that verified
  its release before a publication pruned it, and commits after that publication
  ended, names a release that is gone.

## 7. Abstractions, and what is not modelled

- **Data.**  Secrets, hashes, version strings, XML, URLs and messages are ids or
  left out.  A device authenticates by being the device the row names.
- **Gateway.**  Preflight and status only read.  Rate limits, the update
  advisories, the minimum-version gate on `/mcp` and the scan's `LIMIT 10` are left
  out; the scan takes one candidate per turn.  Cloudflare is external: names and
  records behave as the calls in `cloudflare.mjs` rely on, with answers lost
  after taking effect.
- **Bridge.**  Credentials and header filtering are before a call is counted;
  streamed data is the time between forward and end.
- **Local OAuth.**  The steps of the owner grant, its checks of the callback and of the
  answer are three requests any of which may fail; client ids are part of the pair.
  Reading the file and making the first request are one step, and the clock does not
  move while the file is written.  DevSpace keeps its tokens over its restarts and
  takes an access token until its end: the Bridge passes a refusal on to its client
  and tells nobody, so a token that is taken back early stays in use until then.
- **Updates.**  Verification of signatures, `confirmedVersion` and the user's
  refusal of an authorisation are left out.  The installer is seen from the
  updater: lock, activation, rollback, recorded result.
- **Scheduler.**  An application is one step with the outcomes the scheduler tells
  apart - how it comes to them is `Updates`.  Jitter is left out; the longest delay
  a Gateway may ask for is that of a check.  What is in the way is not looked at on
  systems where the user authorises installers.  A clock is put back only while
  nothing runs; an attempt that waits then waits that much longer, since only
  checks notice it - no property covers that.
- **Policy.**  Publishing and making a release current are one step of the
  server; releases kept as upgrade baselines are not modelled (they only keep
  more); the cached stable catalogue has the structure of the cached policy; the
  parameter of `updateRules` that forces a fresh read has no caller in the
  source and is left out.  After a failed or unanswered save the form keeps the
  policy it shows, and may save again.
- **Admin page.**  With a page, other administrators act beside it and at most one
  enrolment is bound; without one, devices and the clock drive the store.  Id,
  secret, hash and label of a credential are one key, labels are unique among the
  rows that exist; loading the list and clicking in it are one step; the message
  that counts deleted keys is not part of `FlashIsTrue`.
- **Deployment.**  The concurrency group of the workflow lets one deployment run at
  a time, and releases are not deployed backwards.  Release 1 is the one with an
  asset Worker of its own.  Permission checks, domains and the text of the rules
  are left out.  Excepted where an operator changed the account (`disturbed`).
- **Device.**  Runtime and tunnel share one startup entry and one job pair;
  `restart` is `Exit` followed by `JobsStart`.  Uninstalling, `--no-startup` and the
  suspension by a failed version report are left out.  A 409 from a race inside
  the Gateway is the row before or after it.  Bindings are drawn from those nobody
  refers to, since ids never repeat.  Exempted from the properties, as the code
  offers no more: a resume request whose caller gave up may still take effect; a
  key whose enrolment was sent but never recorded is forgotten when the user sets
  up another key.
- **Project root.**  One key with two roots, or two keys with one.  Excepted
  (`astray`): a runtime that a login started inside a change, or that a pause had
  not stopped, keeps the root it opened until its next start.
- **Installer.**  Client commands succeed, or fail with part of their effects, and end
  with the installer that called them; what they do inside is `Device` and
  `Standalone`.  An installer's process id is not used again for another process.
  Trees that were damaged by somebody else, artifacts and their cache, the
  ownership marker and an installation without setup on macOS are left out.  Excepted
  from `VersionsKept`: what an uninstallation removed, and services that somebody
  started beside an installer or that ran on while no version was active (`stray`).
  Seen on the way, and not what a property could ask: a reader whose `reclaim` is in
  the lock when its owner leaves makes the owner's `rmdir` fail, and an installer
  killed with its `reclaim` in place leaves one nobody removes; either lock then
  refuses every later installer until somebody deletes it by hand.
- **Standalone.**  One component; the system gives the least free process id; a
  stranger stands for all other programs; the check of a process and the signal to
  it are one step, as they are two system calls in a row.  The wait for `/proc` and
  reading the environment of processes are left out.
- **Desktop.**  Update notices, failure texts and the line protocol of the helper
  are left out.
- **Control Center.**  The page is followed where processes do not overlap; its
  forms, drafts and release notes are left out.
- **Left out as components.**  The
  Windows and macOS installers: the role of the Unix one in other languages.  The
  release catalogue and update reports: pure functions over signed data.  CLI,
  interactive setup and native UI: argument handling and presentation over the
  operations modelled here.  Build and acceptance scripts: one-shot tooling that
  shares no state with the running system.  DevSpace itself: third party.

## 8. Plan

Done, in this order: `KeyStore`, `Cloudflare`, `Gateway` - the database everything
relies on and the handlers over it; `Bridge`, `Updates`, `UpdatePolicy`, `Device` -
the device's side; then what runs beside them: `Standalone`, `Desktop`,
`ControlCenter`, `AdminPage`, `ProjectRoot`, `Deployment`, `Scheduler`, `InstallLock`,
`Installer`, `LocalOAuth`; the abstract specification `KeyLifecycle`; the proofs of `KeyStore`,
`Gateway` with its account, `Bridge` and `Updates`, `LocalOAuth`, `Scheduler`, `Standalone`, `UpdatePolicy`, `Deployment`, `Device`
with `ProjectRoot`, the refinements, the installers, `Desktop`, `ControlCenter` and `AdminPage`.

Next, models:

1. `CleanupQueue`: the ten oldest candidates with rows that always fail;
   `VersionGate`: reported versions, downgrade suspension and the minimum version.
2. The torn pair `tunnel.token` / `state.json` as an instance of `Device` with two
   faults and one system.

Next, proofs: every safety property a run checks is proved.  What is left is to prove
the models above once they are written, and that a tab of the admin page and the
handlers of `Gateway` can be put side by side: both implement `KeyStore`, and nothing
is shown yet of the two together.
