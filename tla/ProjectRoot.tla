---------------------------- MODULE ProjectRoot ----------------------------
(***************************************************************************)
(* The project root of a device (changeProjectRoot in client/setup.mjs):   *)
(* the root state.json names, the one the runtime opened when it read      *)
(* state.json (startUpstream in client/runtime.mjs), and the operation     *)
(* that changes the first by stopping and starting the second, and goes    *)
(* back to the old root when a step fails.                                 *)
(*                                                                         *)
(* It holds the device operation lock like the operations of Device, whose *)
(* steps - logins, pauses, crashes - go on around it.                      *)
(***************************************************************************)
EXTENDS Device

CONSTANTS
    Roots,     \* project directories the user may choose
    Scenes     \* bound: "keys", where keys change, or "root", where the root does

ASSUME RootAssumption == None \notin Roots /\ Scenes \subseteq {"keys", "root"}

VARIABLES
    scene,
    root,      \* currentProjectRoot in state.json
    served,    \* the root of the running DevSpace
    from,      \* the root a change replaces, and goes back to
    next,      \* the root it brings
    astray     \* history: the runtime that runs opened a root that was being replaced

rootVars == <<scene, root, served, from, next, astray>>
allVars == <<deviceVars, rootVars>>
stateVars == <<system, disk, token, entry, connector, late, gw, historyVars>>

\* In the scene of the root the device is enrolled and serves.
RootInit ==
    /\ scene \in Scenes
    /\ root \in Roots /\ from = None /\ next = None /\ astray = FALSE
    /\ \/ scene = "keys" /\ DeviceInit /\ served = None
       \/ /\ scene = "root" /\ system \in Systems /\ served = root
          /\ \E k \in Keys, b \in Bindings :
               /\ disk = [key |-> k, pending |-> None, binding |-> b, access |-> "active"]
               /\ token = b /\ connector = b /\ entry = "enabled"
               /\ runtime = [phase |-> "serving", binding |-> b]
               /\ gw = [q \in Keys |-> IF q = k
                          THEN [state |-> "active", binding |-> b, mine |-> TRUE] ELSE Unbound]
          /\ op = Idle /\ late = {} /\ intent = FALSE /\ closed = FALSE /\ unsure = {} /\ faults = 0

\* changeProjectRoot runs the services only where they are meant to run.
ShouldRun == disk.binding # None /\ ~Suspended
Changing == op.name = "root"
Then(pc) == IF op.keep THEN Goto(pc) ELSE End

\* op.keep stands for shouldRun here.
ChangeRoot(r) ==
    /\ Free /\ disk.key # None /\ r # root
    /\ op' = [Idle EXCEPT !.name = "root", !.pc = IF ShouldRun THEN "halt" ELSE "write", !.keep = ShouldRun]
    /\ from' = root /\ next' = r
    /\ UNCHANGED <<stateVars, runtime, faults, scene, root, served, astray>>

\* serviceAction('stop'), of the runtime alone.
Halt(pc, then, failed) ==
    /\ Changing /\ op.pc = pc
    /\ \/ runtime' = Stopped /\ served' = None /\ astray' = FALSE /\ Goto(then) /\ UNCHANGED faults
       \/ /\ Fault /\ failed
          /\ \/ UNCHANGED <<runtime, served, astray>>
             \/ runtime' = Stopped /\ served' = None /\ astray' = FALSE
    /\ UNCHANGED <<stateVars, scene, root, from, next>>
\* state.json is written whole or not at all; DevSpace's own configuration is
\* written from it again at every start.
Write(pc, r, then, failed) ==
    /\ Changing /\ op.pc = pc
    /\ \/ root' = r /\ then /\ UNCHANGED faults
       \/ Fault /\ failed /\ UNCHANGED root
    /\ astray' = (astray \/ (root' # root /\ served # None /\ ~op.keep))
    /\ UNCHANGED <<stateVars, runtime, scene, served, from, next>>
Rerun(pc, then, failed) ==
    /\ Changing /\ op.pc = pc
    /\ \/ /\ runtime' = IF runtime = Stopped THEN [Stopped EXCEPT !.phase = "starting"] ELSE runtime
          /\ Goto(then) /\ UNCHANGED faults
       \/ Fault /\ failed /\ UNCHANGED runtime
    /\ UNCHANGED <<stateVars, rootVars>>
\* waitForRuntimeReady asks the ports for health and binding, not for the root;
\* its 15 seconds may pass before the runtime listens.
Ready == runtime = [phase |-> "serving", binding |-> disk.binding]
Verify(pc, failed) ==
    /\ Changing /\ op.pc = pc
    /\ IF Ready THEN End ELSE failed
    /\ UNCHANGED <<stateVars, runtime, faults, rootVars>>

\* A rollback that could not stop the runtime ends there.
\* Mutant: it goes on.
UnhaltedGoesBack == Goto("unwrite")
UnhaltedEnds == End

RootStep ==
    \/ \E r \in Roots : ChangeRoot(r)
    \/ Halt("halt", "write", Goto("unhalt"))
    \/ Write("write", next, Then("rerun"), Goto(IF op.keep THEN "unhalt" ELSE "unwrite"))
    \/ Rerun("rerun", "verify", Goto("unhalt"))
    \/ Verify("verify", Goto("unhalt"))
    \/ Halt("unhalt", "unwrite", UnhaltedEnds)
    \/ Write("unwrite", from, Then("unstart"), End)
    \/ Rerun("unstart", "unverify", End)
    \/ Verify("unverify", End)

\* A step of the device: the runtime opens the root when it reads state.json.
Opens == runtime.phase = "starting" /\ runtime'.phase = "loading"
Around ==
    /\ LifeNext \/ (scene = "keys" /\ KeyNext)
    /\ served' = IF Opens THEN root ELSE IF runtime'.phase \in {"off", "starting"} THEN None ELSE served
    /\ astray' = IF Opens THEN Changing /\ op.pc \in {"write", "unwrite"} ELSE astray /\ served' # None
    /\ UNCHANGED <<scene, root, from, next>>

RootNext == Around \/ (scene = "root" /\ RootStep)
RootSpec == RootInit /\ [][RootNext]_allVars

-----------------------------------------------------------------------------
(* Properties.                                                             *)

\* "A failed stop leaves ownership unresolved.  Do not change the running
\* owner's configuration": when no operation is under way the runtime serves the
\* root state.json names, whatever steps of a change, or of its rollback, failed
\* or were cut short.  Excepted is a runtime that a login started inside the
\* change, or that a pause had not stopped.
ServesItsRoot == Free /\ ~astray /\ served # None => served = root

\* What state.json names is what the Gateway holds for the device and what its
\* processes serve.
StateIsTrue == NoForgottenBinding /\ ServesItsRoot
=============================================================================
