----------------------------- MODULE Deployment -----------------------------
(***************************************************************************)
(* The deployment of the Gateway (scripts/deploy.mjs, deploy-checks.mjs,   *)
(* access.mjs, waf.mjs): database and Access Application, the snapshot,    *)
(* the migration, the upload and its readiness, the recovery of a failed   *)
(* upload, and the Edge contract, which follows when the rest is accepted. *)
(*                                                                         *)
(* One action is one call of the Cloudflare API or of wrangler, whose      *)
(* answer may be lost although it was carried out.  The workflow lets one  *)
(* deployment run at a time; devices enrol and other operators work on the *)
(* zone meanwhile, and the job may be killed anywhere.                     *)
(***************************************************************************)
EXTENDS Naturals

CONSTANTS
    Newest,           \* releases are 1 .. Newest; 1 is the one with a separate asset Worker
    MaxDeployments,   \* bounds: deployments, lost or failed calls and kills,
    MaxTroubles,
    MaxRows           \* changes of the devices' rows

ASSUME DeploymentAssumption == {Newest, MaxDeployments, MaxTroubles, MaxRows} \subseteq Nat /\ Newest > 1

VARIABLES
    worker,      \* the release that serves; 0: there is no Worker
    schema,      \* the release the database was migrated to
    rows,        \* stands for the rows of the devices
    route,       \* /mcp-app-assets/*: "ours" leads to the old asset Worker
    assets,      \* that Worker exists
    waf,         \* the release whose Edge contract is in force; 0: none
    legacy,      \* the WAF rule this contract replaces
    database,    \* databases created under our name
    app,         \* the Access Application of /admin, "open" while it has no policy
    recorded,    \* what deployment.json knows
    dep,         \* the deployment
    begun, troubles,
    disturbed    \* history: others took the route, or a recovery was reported incomplete

edgeVars == <<route, assets, waf, legacy>>
ownedVars == <<database, app, recorded>>
gatewayVars == <<worker, schema, rows>>
historyOfZone == <<begun, disturbed>>
deploymentVars == <<gatewayVars, edgeVars, ownedVars, dep, historyOfZone, troubles>>

NoDeployment == [pc |-> "none", kind |-> "local", release |-> 0, previous |-> 0, route |-> FALSE,
                 before |-> 0, uploaded |-> FALSE, reported |-> FALSE]

\* Nothing is there yet, or release 1 serves; this code deploys later ones.
DeploymentInit ==
    /\ \E old \in {0, 1} :
         /\ worker = old /\ schema = old /\ database = old
         /\ route = IF old = 1 THEN "ours" ELSE "none"
         /\ assets = (old = 1) /\ legacy = IF old = 1 THEN "there" ELSE "none"
         /\ app = IF old = 1 THEN "closed" ELSE "none"
         /\ recorded = [database |-> old = 1, app |-> old = 1]
    /\ rows = 1 /\ waf = 0
    /\ dep = NoDeployment
    /\ begun = 0 /\ troubles = 0 /\ disturbed = FALSE

Trouble == troubles < MaxTroubles /\ troubles' = troubles + 1
Goto(pc) == dep' = [dep EXCEPT !.pc = pc]
Doing(pc) == dep.pc = pc
Resting == dep.pc \in {"none", "refused", "provisioned", "recovered", "unsynced", "done", "killed"}

\* A call does `effect` and is answered; or it fails, or its answer is lost.
Call(effect, same, next, failed) ==
    \/ effect /\ Goto(next) /\ UNCHANGED troubles
    \/ Trouble /\ (effect \/ same) /\ Goto(failed)
Check(ok, next, failed) ==
    \/ ok /\ Goto(next) /\ UNCHANGED troubles
    \/ ~ok /\ Goto(failed) /\ UNCHANGED troubles
    \/ Trouble /\ Goto(failed)

-----------------------------------------------------------------------------
(* Preparation: the database, the Access Application, the snapshot.        *)

\* Releases are not deployed backwards.  In CI both resources must be on record.
Deploy(v, kind) ==
    /\ Resting /\ begun < MaxDeployments
    /\ v >= worker
    /\ kind = "ci" => recorded.database /\ recorded.app
    /\ begun' = begun + 1
    /\ dep' = [NoDeployment EXCEPT !.pc = "database", !.kind = kind, !.release = v]
    /\ UNCHANGED <<gatewayVars, edgeVars, ownedVars, troubles, disturbed>>

\* An unknown database of our name is not adopted.
FreeName == database = 0
UseDatabase ==
    /\ Doing("database")
    /\ IF recorded.database THEN Check(TRUE, "app", "refused") /\ UNCHANGED database
       ELSE IF FreeName THEN Call(database' = database + 1, UNCHANGED database, "recordDatabase", "refused")
       ELSE Goto("refused") /\ UNCHANGED <<database, troubles>>
    /\ UNCHANGED <<gatewayVars, edgeVars, app, recorded, historyOfZone>>
RecordDatabase ==
    /\ Doing("recordDatabase")
    /\ recorded' = [recorded EXCEPT !.database = TRUE]
    /\ Goto("app")
    /\ UNCHANGED <<gatewayVars, edgeVars, database, app, historyOfZone, troubles>>

\* ensureAdminAccess.
UseApp ==
    /\ Doing("app")
    /\ IF recorded.app THEN Check(app # "none", "policy", "refused") /\ UNCHANGED app
       ELSE IF app = "none" THEN Call(app' = "open", UNCHANGED app, "recordApp", "refused")
       ELSE Goto("refused") /\ UNCHANGED <<app, troubles>>
    /\ UNCHANGED <<gatewayVars, edgeVars, database, recorded, historyOfZone>>
RecordApp ==
    /\ Doing("recordApp")
    /\ recorded' = [recorded EXCEPT !.app = TRUE]
    /\ Goto("policy")
    /\ UNCHANGED <<gatewayVars, edgeVars, database, app, historyOfZone, troubles>>
\* A policy that is not ours is not touched, and nothing is deployed.
UsePolicy ==
    /\ Doing("policy")
    /\ IF app = "shared" THEN Goto("refused") /\ UNCHANGED <<app, troubles>>
       ELSE Call(app' = "closed", UNCHANGED app, IF dep.kind = "provision" THEN "provisioned" ELSE "snapshot", "refused")
    /\ UNCHANGED <<gatewayVars, edgeVars, database, recorded, historyOfZone>>

Snapshot ==
    /\ Doing("snapshot")
    /\ \/ /\ route # "foreign"
          /\ dep' = [dep EXCEPT !.pc = "before", !.previous = worker, !.route = (route = "ours")]
          /\ UNCHANGED troubles
       \/ route = "foreign" /\ Goto("refused") /\ UNCHANGED troubles
       \/ Trouble /\ Goto("refused")
    /\ UNCHANGED <<gatewayVars, edgeVars, ownedVars, historyOfZone>>

-----------------------------------------------------------------------------
(* The migration and the upload; a failure from here on is recovered from. *)

\* bindingSnapshot: there may be no table yet.
RowsBefore ==
    /\ Doing("before")
    /\ \/ dep' = [dep EXCEPT !.pc = "migrate", !.before = IF schema = 0 THEN 0 ELSE rows] /\ UNCHANGED troubles
       \/ Trouble /\ Goto("restoreRoute")
    /\ UNCHANGED <<gatewayVars, edgeVars, ownedVars, historyOfZone>>
\* Migrations only go forward.
Migrate ==
    /\ Doing("migrate")
    /\ Call(schema' = IF dep.release > schema THEN dep.release ELSE schema, UNCHANGED schema, "after", "restoreRoute")
    /\ UNCHANGED <<worker, rows, edgeVars, ownedVars, historyOfZone>>
RowsAfter ==
    /\ Doing("after")
    /\ Check(dep.before \in {0, rows}, "upload", "restoreRoute")
    /\ UNCHANGED <<gatewayVars, edgeVars, ownedVars, historyOfZone>>

\* Mutant: an upload counts as attempted when it has succeeded.
AttemptedIfDone(answered) == answered
Attempted(answered) == TRUE
Upload ==
    /\ Doing("upload")
    /\ \/ /\ worker' = dep.release /\ UNCHANGED troubles
          /\ dep' = [dep EXCEPT !.pc = "probe", !.uploaded = Attempted(TRUE)]
       \/ /\ Trouble /\ worker' \in {worker, dep.release}
          /\ dep' = [dep EXCEPT !.pc = "restoreRoute", !.uploaded = Attempted(FALSE)]
    /\ UNCHANGED <<schema, rows, edgeVars, ownedVars, historyOfZone>>

\* probeDeployment, then verifyAdminProtection.
Healthy == worker = dep.release /\ database > 0
Protected == app # "none"
Probe ==
    /\ Doing("probe")
    /\ Check(Healthy /\ Protected, IF dep.route THEN "dropRoute" ELSE "accept", "restoreRoute")
    /\ UNCHANGED <<gatewayVars, edgeVars, ownedVars, historyOfZone>>
\* The route is deleted by its identity: one that another operator put in its
\* place is not found.
DropRoute ==
    /\ Doing("dropRoute")
    /\ IF route = "ours" THEN Call(route' = "none", UNCHANGED route, "accept", "restoreRoute")
       ELSE Goto("restoreRoute") /\ UNCHANGED <<route, troubles>>
    /\ UNCHANGED <<gatewayVars, assets, waf, legacy, ownedVars, historyOfZone>>
\* The new Worker serves the assets, when no route leads elsewhere.
Accept ==
    /\ Doing("accept")
    /\ Check(Healthy /\ route = "none", "waf", "restoreRoute")
    /\ UNCHANGED <<gatewayVars, edgeVars, ownedVars, historyOfZone>>

-----------------------------------------------------------------------------
(* restoreDeployment: the route is read again and restored before the       *)
(* Worker.  The failures are collected and reported.                        *)

Reports(pc) == dep' = [dep EXCEPT !.pc = pc, !.reported = TRUE] /\ disturbed' = TRUE

RestoreRoute ==
    /\ Doing("restoreRoute")
    /\ \/ /\ dep.route => route # "foreign"
          /\ route' = IF dep.route THEN "ours" ELSE route
          /\ Goto("restoreWorker")
          /\ UNCHANGED <<disturbed, troubles>>
       \/ dep.route /\ route = "foreign" /\ Reports("restoreWorker") /\ UNCHANGED <<route, troubles>>
       \/ dep.route /\ Trouble /\ route # "foreign" /\ route' \in {route, "ours"} /\ Reports("restoreWorker")
    /\ UNCHANGED <<gatewayVars, assets, waf, legacy, ownedVars, begun>>

RestoresWorker == dep.uploaded /\ dep.previous # 0
RestoreWorker ==
    /\ Doing("restoreWorker")
    /\ \/ /\ worker' = IF RestoresWorker THEN dep.previous ELSE worker
          /\ Goto("recovered")
          /\ UNCHANGED <<disturbed, troubles>>
       \/ RestoresWorker /\ Trouble /\ worker' \in {worker, dep.previous} /\ Reports("recovered")
    /\ UNCHANGED <<schema, rows, edgeVars, ownedVars, begun>>

-----------------------------------------------------------------------------
(* The Edge contract, after acceptance; the Worker stays when it fails.     *)

WhenUnsynced == "unsynced"

\* ensureGatewayWaf: the new rule, and then the rule it replaces is retired.
SyncWaf ==
    /\ Doing("waf")
    /\ Call(waf' = dep.release, UNCHANGED waf, "legacy", WhenUnsynced)
    /\ UNCHANGED <<gatewayVars, route, assets, legacy, ownedVars, historyOfZone>>
RetireLegacy ==
    /\ Doing("legacy")
    /\ IF waf # dep.release THEN Goto(WhenUnsynced) /\ UNCHANGED <<legacy, troubles>>
       ELSE Call(legacy' = IF legacy = "there" THEN "retired" ELSE legacy, UNCHANGED legacy, "confirm", WhenUnsynced)
    /\ UNCHANGED <<gatewayVars, route, assets, waf, ownedVars, historyOfZone>>
\* verifyGatewayWaf, verifyAdminProtection and readiness once more.
Confirm ==
    /\ Doing("confirm")
    /\ Check(waf = dep.release /\ Protected /\ Healthy /\ route = "none", "retire", WhenUnsynced)
    /\ UNCHANGED <<gatewayVars, edgeVars, ownedVars, historyOfZone>>
\* The asset Worker goes when no route leads to it; if not, at the next deployment.
RetireAssets ==
    /\ Doing("retire")
    /\ IF route = "ours" THEN Goto("done") /\ UNCHANGED <<assets, troubles>>
       ELSE Call(assets' = FALSE, UNCHANGED assets, "done", "done")
    /\ UNCHANGED <<gatewayVars, route, waf, legacy, ownedVars, historyOfZone>>

-----------------------------------------------------------------------------
(* Everybody else.                                                          *)

\* The job is cancelled or its runner dies.
Kill ==
    /\ ~Resting /\ Trouble /\ Goto("killed")
    /\ UNCHANGED <<gatewayVars, edgeVars, ownedVars, historyOfZone>>
\* deployment.json is lost with its machine.
LoseRecord ==
    /\ Resting /\ Trouble
    /\ recorded' = [database |-> FALSE, app |-> FALSE]
    /\ UNCHANGED <<gatewayVars, edgeVars, database, app, dep, historyOfZone>>
DevicesChange ==
    /\ worker # 0 /\ rows <= MaxRows
    /\ rows' = rows + 1
    /\ UNCHANGED <<worker, schema, edgeVars, ownedVars, dep, historyOfZone, troubles>>
\* Another operator, or a DELETE that timed out and is carried out late.
RouteChanges(to) ==
    /\ Trouble
    /\ route # to /\ route' = to
    /\ disturbed' = TRUE
    /\ UNCHANGED <<gatewayVars, assets, waf, legacy, ownedVars, dep, begun>>
PolicyAdded ==
    /\ Trouble
    /\ app \in {"open", "closed"} /\ app' = "shared"
    /\ UNCHANGED <<gatewayVars, edgeVars, database, recorded, dep, historyOfZone>>

DeploymentNext ==
    \/ \E v \in 2 .. Newest, kind \in {"local", "ci", "provision"} : Deploy(v, kind)
    \/ UseDatabase \/ RecordDatabase \/ UseApp \/ RecordApp \/ UsePolicy \/ Snapshot
    \/ RowsBefore \/ Migrate \/ RowsAfter \/ Upload \/ Probe \/ DropRoute \/ Accept
    \/ RestoreRoute \/ RestoreWorker
    \/ SyncWaf \/ RetireLegacy \/ Confirm \/ RetireAssets
    \/ Kill \/ LoseRecord \/ DevicesChange \/ PolicyAdded
    \/ \E to \in {"none", "foreign"} : RouteChanges(to)

DeploymentSpec == DeploymentInit /\ [][DeploymentNext]_deploymentVars

-----------------------------------------------------------------------------
(* Properties.                                                              *)

DeploymentTypeOK ==
    /\ {worker, schema, waf} \subseteq 0 .. Newest
    /\ rows \in 1 .. MaxRows + 1 /\ database \in Nat
    /\ route \in {"none", "ours", "foreign"}
    /\ app \in {"none", "open", "closed", "shared"}
    /\ recorded \in [database : BOOLEAN, app : BOOLEAN]
    /\ legacy \in {"none", "there", "retired"}
    /\ {assets, disturbed, dep.route, dep.uploaded, dep.reported} \subseteq BOOLEAN
    /\ begun \in 0 .. MaxDeployments /\ troubles \in 0 .. MaxTroubles

\* "A stricter WAF must never cut off currently running old clients before their
\* replacement Gateway is accepted" and "migrations must remain backward
\* compatible with the previous release": whatever fails, is lost or killed, the
\* database is never behind the Worker nor the Worker behind the Edge contract,
\* no rule is retired before its replacement is in force, /admin is never served
\* unprotected, and no second database is created.
RolloutOrder ==
    /\ DeploymentTypeOK
    /\ waf <= worker /\ worker <= schema
    /\ legacy = "retired" => waf # 0
    /\ worker # 0 => Protected
    /\ database <= 1

\* A deployment that fails its readiness gives the place back to the release it
\* took it from, unless it reports that it could not; and release 1 is never left
\* without the route to its assets and the Worker behind it, not even when the
\* recovery is cut short.
RecoveryKeepsServing ==
    /\ dep.pc = "recovered" /\ dep.previous # 0 /\ ~dep.reported => worker = dep.previous
    /\ worker = 1 /\ ~disturbed => route = "ours" /\ assets

\* Both, for as many deployments as fail and are repeated.
RolloutHolds == RolloutOrder /\ RecoveryKeepsServing
=============================================================================
