----------------------------- MODULE Installer -----------------------------
(***************************************************************************)
(* Installation, repair and removal of a version on macOS and Linux        *)
(* (platform/unix/bootstrap.sh) under the installers' lock: a verified     *)
(* candidate is moved beside the current version, stops its services, is   *)
(* set up and activated, and the other versions are removed; or a failure  *)
(* takes the candidate back and restores the current version.              *)
(*                                                                         *)
(* A candidate's directory carries the process id of its installer and is  *)
(* named by it.  Startup entries name a version on macOS; on Linux they    *)
(* resolve active-path when a service starts.  What a client command does  *)
(* inside is module Device's subject: here it succeeds, or fails with part *)
(* of its effects, and ends with the installer that called it.             *)
(***************************************************************************)
EXTENDS InstallLock, FiniteSets

CONSTANTS
    Original,      \* the version an earlier installer left
    Targets,       \* "linux", "darwin"
    MaxSetbacks    \* bound on kills and failed commands

ASSUME InstallerAssumption ==
    /\ Original \notin Installers \cup {Nil}
    /\ Targets \subseteq {"linux", "darwin"}
    /\ MaxSetbacks \in Nat

VARIABLES
    target,
    enrolled,    \* state.json: "none", "pending", or "bound" with its token
    whole,       \* complete directories under versions
    activePath,  \* the version active-path names
    startup,     \* the version whose client wrote the startup entries
    serving,     \* the version the running services were started from
    job,         \* what each installer is doing under the lock
    removed,     \* history: the versions an uninstallation removed
    stray,       \* history: services began beside an installer, or no version was active
    setbacks

distributionVars == <<target, enrolled, whole, activePath, startup, serving, job, removed, stray, setbacks>>
installerVars == <<lockVars, distributionVars>>

Versions == Installers \cup {Original}
NoJob == [pc |-> "begin", setup |-> FALSE, current |-> Nil, unclean |-> FALSE, unrestored |-> FALSE]

InstallerInit ==
    /\ LockInit
    /\ target \in Targets
    /\ job = [p \in Installers |-> NoJob]
    /\ \/ enrolled = "none" /\ whole = {} /\ activePath = Nil /\ startup = Nil /\ serving = Nil
       \/ /\ whole = {Original} /\ activePath = Original
          /\ \/ enrolled = "none" /\ startup = Nil /\ serving = Nil
             \/ enrolled = "bound" /\ startup = Original /\ serving = Original
    /\ removed = {} /\ stray = FALSE /\ setbacks = 0

\* The version a service would be started from.
Resolved == IF target = "linux" /\ startup # Nil THEN activePath ELSE startup

Working(p, pc) == step[p] = "work" /\ job[p].pc = pc
Continue(p, pc) == job' = [job EXCEPT ![p].pc = pc]
Setback == setbacks < MaxSetbacks /\ setbacks' = setbacks + 1
\* Services are left behind when no version is active that an installer would stop.
Serves(v) ==
    /\ serving' = v
    /\ stray' = (v # Nil /\ (stray \/ (target = "linux" /\ activePath' = Nil)))
\* A command that stops or starts services was carried out, or only in part.
Services(v, old) == Serves(v) /\ UNCHANGED setbacks /\ startup' = old
InPart(v, entries) == Setback /\ startup' \in {startup, entries} /\ \E w \in {serving, v} : Serves(w)

-----------------------------------------------------------------------------
(* Logins and users start services, crashes and logouts end them.          *)

Between(p) == step[p] = "work" /\ job[p].pc \notin {"begin", "stop", "over", "undone"}
ServicesStart ==
    /\ serving = Nil /\ Resolved \in whole
    /\ serving' = Resolved
    /\ stray' = \E p \in Installers : Between(p)
    /\ UNCHANGED <<target, enrolled, whole, activePath, startup, job, removed, setbacks>>
ServicesEnd ==
    /\ serving # Nil
    /\ serving' = Nil /\ stray' = FALSE
    /\ UNCHANGED <<target, enrolled, whole, activePath, startup, job, removed, setbacks>>

-----------------------------------------------------------------------------
(* Installation.                                                           *)

\* Until the candidate is verified and moved a failure leaves everything as it is.
Stage(p) ==
    /\ Working(p, "begin")
    /\ whole' = whole \cup {p}
    /\ \E setup \in IF target = "darwin" THEN {TRUE} ELSE BOOLEAN :
         job' = [job EXCEPT ![p] =
            [NoJob EXCEPT !.setup = setup, !.current = activePath,
                          !.pc = IF activePath # Nil /\ enrolled # "none" THEN "stop" ELSE "setup"]]
    /\ UNCHANGED <<target, enrolled, activePath, startup, serving, removed, stray, setbacks>>

StopCurrent(p) ==
    /\ Working(p, "stop") /\ UNCHANGED activePath
    /\ \/ Continue(p, "setup") /\ Services(Nil, startup) /\ UNCHANGED whole
       \/ /\ Setback /\ Continue(p, "restart")
          /\ \E w \in {serving, Nil} : Serves(w)
          /\ whole' = whole \ {p} /\ UNCHANGED startup
    /\ UNCHANGED <<target, enrolled, removed>>
\* The upgrade is cancelled, whether the current version starts again or not.
RestartCurrent(p) ==
    /\ Working(p, "restart") /\ UNCHANGED activePath
    /\ Continue(p, "over")
    /\ \/ Serves(IF serving = Nil /\ Resolved \in whole THEN Resolved ELSE serving)
       \/ UNCHANGED <<serving, stray>>
    /\ UNCHANGED <<target, enrolled, whole, startup, removed, setbacks>>

\* On macOS setup also installs the startup entries and runs the services, once
\* the device is enrolled.
SetUp(p) ==
    /\ Working(p, "setup") /\ UNCHANGED activePath
    /\ \/ /\ job[p].setup
          /\ Continue(p, "activate") /\ enrolled' = "bound"
          /\ IF target = "darwin" THEN Services(p, p) ELSE UNCHANGED <<startup, serving, stray, setbacks>>
       \/ /\ job[p].setup
          /\ Continue(p, "undo")
          /\ \/ /\ enrolled' \in {enrolled, IF enrolled = "none" THEN "pending" ELSE "bound"}
                /\ Setback /\ UNCHANGED <<startup, serving, stray>>
             \/ enrolled' = "bound" /\ target = "darwin" /\ InPart(p, p)
       \/ ~job[p].setup /\ Continue(p, "activate") /\ UNCHANGED <<enrolled, startup, serving, stray, setbacks>>
    /\ UNCHANGED <<target, whole, removed>>

Activate(p) ==
    /\ Working(p, "activate")
    /\ \/ /\ activePath' = p /\ UNCHANGED setbacks
          /\ Continue(p, IF target = "linux" THEN "command" ELSE "prune")
       \/ Setback /\ Continue(p, "undo") /\ UNCHANGED activePath
    /\ UNCHANGED <<target, enrolled, whole, startup, serving, removed, stray>>

\* install_linux_cli, and whether the startup is refreshed after it.
LinkCommand(p) ==
    /\ Working(p, "command")
    /\ \/ /\ Continue(p, IF job[p].setup \/ enrolled = "bound" THEN "refresh" ELSE "prune")
          /\ UNCHANGED setbacks
       \/ Setback /\ Continue(p, "restore")
    /\ UNCHANGED <<target, enrolled, whole, activePath, startup, serving, removed, stray>>
\* A service that runs is not started again.
Started == IF serving = Nil THEN activePath ELSE serving
RefreshStartup(p) ==
    /\ Working(p, "refresh") /\ UNCHANGED activePath
    /\ \/ Continue(p, "prune") /\ Services(Started, p)
       \/ Continue(p, "restore") /\ InPart(Started, p)
    /\ UNCHANGED <<target, enrolled, whole, removed>>

\* Directories that cannot be removed now are left to a later repair.
Prune(p) ==
    /\ Working(p, "prune")
    /\ whole' = {p}
    /\ Continue(p, "over")
    /\ UNCHANGED <<target, enrolled, activePath, startup, serving, removed, stray, setbacks>>

-----------------------------------------------------------------------------
(* Going back.                                                             *)

\* Mutant: active-path is left at the candidate.
RestoreForgotten(p) == activePath
RestoreTo(p) == job[p].current
RestoreActive(p) ==
    /\ Working(p, "restore")
    /\ activePath' = RestoreTo(p) /\ Serves(serving)
    /\ Continue(p, "undo")
    /\ UNCHANGED <<target, enrolled, whole, startup, removed, setbacks>>

\* The candidate's uninstall, or without a state.json the script's own cleanup.
UndoStartup(p) ==
    /\ Working(p, "undo") /\ UNCHANGED activePath
    /\ \/ Continue(p, "reinstall") /\ Services(Nil, Nil)
       \/ /\ job' = [job EXCEPT ![p] = [@ EXCEPT !.pc = "reinstall", !.unclean = TRUE]]
          /\ InPart(Nil, Nil)
    /\ UNCHANGED <<target, enrolled, whole, removed>>
\* startup install --runtime-root of the current version, by the candidate: it
\* reads that version's release first.
Reinstall(p) ==
    LET current == job[p].current
        now == IF target = "darwin" THEN current ELSE Started IN
    /\ Working(p, "reinstall") /\ UNCHANGED activePath
    /\ \/ /\ current = Nil \/ enrolled = "none"
          /\ Continue(p, "discard") /\ UNCHANGED <<startup, serving, stray, setbacks>>
       \/ /\ current \in whole /\ enrolled # "none"
          /\ Continue(p, "discard") /\ Services(now, current)
       \/ /\ current # Nil /\ enrolled # "none"
          /\ job' = [job EXCEPT ![p] = [@ EXCEPT !.pc = "discard", !.unrestored = TRUE]]
          /\ IF current \in whole THEN InPart(now, current) ELSE UNCHANGED <<startup, serving, stray, setbacks>>
    /\ UNCHANGED <<target, enrolled, whole, removed>>
\* A candidate whose services may still run is kept.
Discard(p) ==
    /\ Working(p, "discard")
    /\ whole' = IF job[p].unclean THEN whole ELSE whole \ {p}
    /\ Continue(p, "undone")
    /\ UNCHANGED <<target, enrolled, activePath, startup, serving, removed, stray, setbacks>>

-----------------------------------------------------------------------------
(* Removal.                                                                *)

\* The installed client removes the startup, or the script's own cleanup does;
\* when neither succeeds the files stay.
Uninstall(p) ==
    /\ Working(p, "begin") /\ UNCHANGED activePath
    /\ \/ Continue(p, "erase") /\ Services(Nil, Nil)
       \/ Continue(p, "over") /\ InPart(Nil, Nil)
    /\ UNCHANGED <<target, enrolled, whole, removed>>
EraseVersions(p) ==
    /\ Working(p, "erase")
    /\ removed' = removed \cup whole /\ whole' = {}
    /\ Continue(p, "forget")
    /\ UNCHANGED <<target, enrolled, activePath, startup, serving, stray, setbacks>>
EraseActive(p) ==
    /\ Working(p, "forget")
    /\ activePath' = Nil /\ Serves(serving)
    /\ Continue(p, "over")
    /\ UNCHANGED <<target, enrolled, whole, startup, removed, setbacks>>

-----------------------------------------------------------------------------
Work(p) ==
    \/ Stage(p) \/ StopCurrent(p) \/ RestartCurrent(p) \/ SetUp(p) \/ Activate(p)
    \/ LinkCommand(p) \/ RefreshStartup(p) \/ Prune(p)
    \/ RestoreActive(p) \/ UndoStartup(p) \/ Reinstall(p) \/ Discard(p)
    \/ Uninstall(p) \/ EraseVersions(p) \/ EraseActive(p)

\* An installer ends by itself or, anywhere, on a signal; it may be killed.
Leaves(p) ==
    /\ \/ Cleanup(p) /\ UNCHANGED setbacks
       \/ Kill(p) /\ Setback
    /\ job' = [job EXCEPT ![p] = NoJob]
    /\ UNCHANGED <<target, enrolled, whole, activePath, startup, serving, removed, stray>>
InstallerNext ==
    \/ ServicesStart /\ UNCHANGED lockVars
    \/ ServicesEnd /\ UNCHANGED lockVars
    \/ \E p \in Installers :
         \/ Acquire(p) /\ UNCHANGED distributionVars
         \/ Leaves(p)
         \/ Work(p) /\ UNCHANGED lockVars
InstallerSpec == InstallerInit /\ [][InstallerNext]_installerVars

-----------------------------------------------------------------------------
\* "The old version is only a pre-commit recovery candidate": whatever fails or
\* is killed, active-path, the startup entries and the running services name a
\* version that is complete.  Excepted are what an uninstallation removed, and
\* services that somebody started beside an installer or that ran on while no
\* version was active.
InUse == {activePath, Resolved} \ {Nil}
VersionsKept ==
    /\ InUse \subseteq whole \cup removed
    /\ serving = Nil \/ stray \/ serving \in whole

\* "Previous startup state was restored": when it is said, the entries are those
\* of the version that was active before, and active-path names it again.
RestoredIsTrue ==
    \A p \in Installers :
        Working(p, "undone") /\ job[p].current # Nil /\ enrolled # "none"
            /\ ~job[p].unclean /\ ~job[p].unrestored
        => activePath = job[p].current /\ Resolved = job[p].current /\ job[p].current \in whole

Pcs == {"begin", "stop", "restart", "setup", "activate", "command", "refresh", "prune",
        "restore", "undo", "reinstall", "discard", "undone", "erase", "forget", "over"}
Jobs == [pc : Pcs, setup : BOOLEAN, current : Versions \cup {Nil},
         unclean : BOOLEAN, unrestored : BOOLEAN]
PlacesTypeOK ==
    /\ target \in {"linux", "darwin"} /\ enrolled \in {"none", "pending", "bound"}
    /\ whole \subseteq Versions /\ removed \subseteq Versions
    /\ activePath \in Versions \cup {Nil}
    /\ startup \in Versions \cup {Nil} /\ serving \in Versions \cup {Nil}
    /\ stray \in BOOLEAN
DistributionTypeOK == PlacesTypeOK /\ job \in [Installers -> Jobs]

\* Both: a failed, killed or cancelled installation costs nobody the version that
\* worked.
WorkingVersionKept == LockTypeOK /\ DistributionTypeOK /\ VersionsKept /\ RestoredIsTrue
=============================================================================
