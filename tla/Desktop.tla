------------------------------- MODULE Desktop -------------------------------
(* The desktop process on Windows and macOS: the controller that runs one      *)
(* lifecycle operation at a time and shows the device's status                 *)
(* (client/desktop-controller.mjs), the cache of what the Gateway last said of *)
(* this device (client/gateway-status.mjs), and the tray process that owns     *)
(* both (client/tray.mjs).                                                     *)
(*                                                                             *)
(* What a status says is abstracted to the number of the last change of the    *)
(* device that it was read after.  A read is as old as its request.            *)
EXTENDS Naturals

CONSTANT MaxChanges    \* bound: changes of what a status reports

ASSUME DesktopAssumption == MaxChanges \in Nat /\ MaxChanges > 0

Readers == {"refresh", "op"}
Unknown == 0
NoRead == [pc |-> "idle", key |-> 0, ver |-> Unknown]
NoEntry == [by |-> "none", key |-> 0, ver |-> Unknown]
NoRefresh == [on |-> FALSE, current |-> FALSE, forced |-> FALSE]
NoCheck == [pc |-> "none", current |-> FALSE]
NoOp == [pc |-> "none", own |-> Unknown, commit |-> Unknown]

VARIABLES
  world,     \* changes so far: this process's operations, the CLI, administrators
  intent,    \* what the cache key takes from state.json and operations change
  entry,     \* the cache entry, and the read that will fill it
  read,      \* the status a refresh, or an operation, is reading
  shown,     \* the status in the snapshot
  refresh,   \* refreshPromise; current while revision is what it was
  check,     \* a manual check that waits for a refresh
  pending,   \* the lifecycle operation, with the status it brings itself
  folder,    \* the dialog that chooses a folder is open
  aborted,   \* prompts.signal.aborted
  exit,      \* dispatch('exit')
  activity,  \* what the snapshot says is going on
  tray,      \* runTray
  floor      \* history: change a status may not be older than, from here on

device == <<world, intent>>
probe == <<entry, read>>
view == <<shown, floor>>
tasks == <<refresh, check>>
dialog == <<folder, aborted>>
vars == <<device, probe, view, tasks, pending, dialog, exit, activity, tray>>

closing == exit # "no"
disposed == tray # "open"
Open == ~closing /\ ~disposed
Max2(a, b) == IF a > b THEN a ELSE b

\* start() begins with a forced refresh.
Init ==
  /\ world = 1 /\ intent = 0
  /\ entry = NoEntry
  /\ read = [r \in Readers |-> IF r = "refresh" THEN [NoRead EXCEPT !.pc = "state"] ELSE NoRead]
  /\ shown = Unknown /\ floor = Unknown
  /\ refresh = [on |-> TRUE, current |-> TRUE, forced |-> TRUE]
  /\ check = NoCheck /\ pending = NoOp
  /\ folder = FALSE /\ aborted = FALSE /\ exit = "no"
  /\ activity = "starting" /\ tray = "open"

\* What a status reports changes; intent and binding are part of the cache key.
Change ==
  /\ world < MaxChanges
  /\ world' = world + 1
  /\ intent' \in {intent, 1 - intent}

Outside ==
  /\ Change
  /\ UNCHANGED <<probe, view, tasks, pending, dialog, exit, activity, tray>>

-----------------------------------------------------------------------------
(* Reading a status: deviceStatus loads state.json, then asks the probe.      *)

LoadState(r) ==
  /\ read[r].pc = "state"
  /\ \/ read' = [read EXCEPT ![r] = [@ EXCEPT !.pc = "probe", !.key = intent]]
     \/ read' = [read EXCEPT ![r] = [@ EXCEPT !.pc = "done"]]    \* it cannot be read
  /\ UNCHANGED <<device, entry, view, tasks, pending, dialog, exit, activity, tray>>

Forced(r) == r = "op" \/ refresh.forced
Reusable(r) == ~Forced(r) /\ entry.by # "none" /\ entry.key = read[r].key

\* A current entry answers; another read's request is shared; or the Gateway is asked.
Probe(r) ==
  /\ read[r].pc = "probe"
  /\ IF Reusable(r)
       THEN read' = [read EXCEPT ![r] = [pc |-> "answer", key |-> 0, ver |-> entry.ver]] /\ UNCHANGED entry
       ELSE /\ entry' = [by |-> r, key |-> read[r].key, ver |-> world]
            /\ read' = [read EXCEPT ![r] = [pc |-> "answer", key |-> 0, ver |-> world]]
  /\ UNCHANGED <<device, view, tasks, pending, dialog, exit, activity, tray>>

\* The answer goes into the entry made for it, if that is still the cache's.
\* Mutant: it is stored under its key.
AnsweredByKey(r, ver) == [by |-> "kept", key |-> intent, ver |-> ver]
Answered(r, ver) == IF entry.by = r THEN [entry EXCEPT !.by = "kept", !.ver = ver] ELSE entry
Arrive(r) ==
  /\ read[r].pc = "answer"
  /\ \E ver \in {read[r].ver, Unknown} :      \* Unknown: no answer in time, or not a valid one
       /\ entry' = Answered(r, ver)
       /\ read' = [read EXCEPT ![r] = [@ EXCEPT !.pc = "done", !.ver = ver]]
  /\ UNCHANGED <<device, view, tasks, pending, dialog, exit, activity, tray>>

EntryExpires ==
  /\ entry.by = "kept"
  /\ entry' = NoEntry
  /\ UNCHANGED <<device, read, view, tasks, pending, dialog, exit, activity, tray>>

Show(ver) == shown' = ver /\ floor' = Max2(floor, ver)

-----------------------------------------------------------------------------
(* refresh and check.                                                         *)

CanRefresh == pending = NoOp /\ Open
Refreshing(force) ==
  /\ refresh' = [on |-> TRUE, current |-> TRUE, forced |-> force]
  /\ read' = [read EXCEPT !["refresh"] = [NoRead EXCEPT !.pc = "state"]]

Tick ==
  /\ CanRefresh /\ ~refresh.on
  /\ Refreshing(FALSE)
  /\ UNCHANGED <<device, entry, view, check, pending, dialog, exit, activity, tray>>

\* Beside an operation a check has nothing to wait for and changes nothing.
CheckBegins ==
  /\ CanRefresh /\ check = NoCheck
  /\ activity' = "checking"
  /\ check' = [pc |-> IF refresh.on /\ ~refresh.forced THEN "chain" ELSE "join", current |-> TRUE]
  /\ IF refresh.on THEN UNCHANGED <<refresh, read>> ELSE Refreshing(TRUE)
  /\ UNCHANGED <<device, entry, view, pending, dialog, exit, tray>>

\* What was read before a later action is not shown.
IsCurrent == refresh.current /\ ~disposed

\* A check that waits for this refresh ends with it, or asks for one of its own.
CheckClears == check.pc = "join" /\ check.current
RefreshEnds ==
  /\ refresh.on /\ read["refresh"].pc = "done"
  /\ IF IsCurrent THEN Show(read["refresh"].ver) ELSE UNCHANGED view
  /\ activity' = IF (refresh.current /\ ~disposed) \/ CheckClears THEN "" ELSE activity
  /\ IF check.pc = "chain" /\ CanRefresh
       THEN Refreshing(TRUE) /\ check' = [check EXCEPT !.pc = "join"]
       ELSE /\ refresh' = NoRefresh /\ check' = NoCheck
            /\ read' = [read EXCEPT !["refresh"] = NoRead]
  /\ UNCHANGED <<device, entry, pending, dialog, exit, tray>>

-----------------------------------------------------------------------------
(* Lifecycle operations.                                                      *)

\* revision++ : what was asked before is no longer current.
NextRevision ==
  /\ refresh' = [refresh EXCEPT !.current = FALSE]
  /\ check' = [check EXCEPT !.current = FALSE]

\* project-root asks for a folder first, as part of the operation.
OpBegins(asks) ==
  /\ Open /\ pending = NoOp /\ ~folder
  /\ NextRevision
  /\ entry' = NoEntry
  /\ activity' = "operation"
  /\ pending' = [NoOp EXCEPT !.pc = IF asks THEN "dialog" ELSE "run"]
  /\ folder' = asks /\ aborted' = (aborted /\ ~asks)
  /\ UNCHANGED <<device, read, view, exit, tray>>

\* finally: nothing read meanwhile stays in the cache.
OpOver ==
  /\ entry' = NoEntry
  /\ pending' = NoOp
  /\ activity' = IF closing THEN activity ELSE ""

\* logs, diagnostics and a dialog of the page's own take a new abort signal.
Utility ==
  /\ Open
  /\ aborted' = FALSE
  /\ folder' \in {folder, TRUE}
  /\ UNCHANGED <<device, probe, view, tasks, pending, exit, activity, tray>>

\* The user answers or the signal ends the dialog; who waits for it goes on.
DialogEnds(answer) ==
  /\ folder
  /\ folder' = FALSE
  /\ \/ /\ pending.pc # "dialog"
        /\ UNCHANGED <<entry, pending, activity>>
     \/ /\ pending.pc = "dialog" /\ answer = "folder" /\ ~closing /\ ~aborted
        /\ pending' = [pending EXCEPT !.pc = "run"]
        /\ UNCHANGED <<entry, activity>>
     \/ /\ pending.pc = "dialog" /\ answer = "failure"
        /\ pending' = [pending EXCEPT !.pc = "ran"]
        /\ UNCHANGED <<entry, activity>>
     \/ /\ pending.pc = "dialog" /\ (answer = "none" \/ (answer = "folder" /\ (closing \/ aborted)))
        /\ OpOver
  /\ UNCHANGED <<device, read, view, tasks, aborted, exit, tray>>

\* Mutant: exit leaves an open dialog alone.
EndsWhenAnswered == FALSE
EndedBySignal == aborted
DialogAborted == EndedBySignal /\ \E answer \in {"none", "failure"} : DialogEnds(answer)

OpCommits ==
  /\ pending.pc = "run"
  /\ Change
  /\ pending' = [pending EXCEPT !.commit = world']
  /\ UNCHANGED <<probe, view, tasks, dialog, exit, activity, tray>>

\* It ends, or fails; some results are a status of their own.
RunEnds ==
  /\ pending.pc = "run"
  /\ \E own \in {world, Unknown} : pending' = [pending EXCEPT !.pc = "ran", !.own = own]
  /\ UNCHANGED <<device, probe, view, tasks, dialog, exit, activity, tray>>

ReadsStatus ==
  /\ pending.pc = "ran" /\ ~closing /\ pending.own = Unknown
  /\ pending' = [pending EXCEPT !.pc = "status"]
  /\ read' = [read EXCEPT !["op"] = [NoRead EXCEPT !.pc = "state"]]
  /\ UNCHANGED <<device, entry, view, tasks, dialog, exit, activity, tray>>

\* Once it is over, its own change is the least a status must have been read after.
OpEnds ==
  /\ \/ /\ pending.pc = "status" /\ read["op"].pc = "done"
        /\ shown' = read["op"].ver
     \/ /\ pending.pc = "ran" /\ ~closing /\ pending.own # Unknown
        /\ shown' = pending.own
     \/ pending.pc = "ran" /\ closing /\ UNCHANGED shown
  /\ floor' = Max2(floor, Max2(shown', pending.commit))
  /\ OpOver
  /\ read' = [read EXCEPT !["op"] = NoRead]
  /\ UNCHANGED <<device, tasks, dialog, exit, tray>>

-----------------------------------------------------------------------------
(* Exit, and the end of the tray process.                                     *)

ExitBegins ==
  /\ Open
  /\ exit' = "await"
  /\ NextRevision
  /\ aborted' = TRUE /\ activity' = "exiting"
  /\ UNCHANGED <<device, probe, view, pending, folder, tray>>

\* Mutant: it is not waited for.
Unawaited == TRUE
Settled == pending = NoOp

ExitStops ==
  /\ exit = "await" /\ Settled
  /\ exit' = "stop"
  /\ UNCHANGED <<device, probe, view, tasks, pending, dialog, activity, tray>>

ExitDone ==
  /\ exit = "stop"
  /\ \/ exit' = "gone" /\ UNCHANGED activity
     \/ exit' = "no" /\ activity' = ""
  /\ UNCHANGED <<device, probe, view, tasks, pending, dialog, tray>>

\* The native helper ends, by itself or after an exit; runTray disposes the
\* controller, waits for its operation and closes the Control Center.
HelperEnds ==
  /\ tray = "open"
  /\ tray' = "disposed"
  /\ aborted' = TRUE
  /\ UNCHANGED <<device, probe, view, tasks, pending, folder, exit, activity>>

SurfaceCloses ==
  /\ tray = "disposed" /\ Settled
  /\ tray' = "closed"
  /\ UNCHANGED <<device, probe, view, tasks, pending, dialog, exit, activity>>

OpSteps == DialogAborted \/ RunEnds \/ ReadsStatus \/ OpEnds
ReadSteps(r) == LoadState(r) \/ Probe(r) \/ Arrive(r)

Next ==
  \/ Outside \/ EntryExpires \/ Tick \/ CheckBegins \/ RefreshEnds \/ Utility
  \/ \E r \in Readers : ReadSteps(r)
  \/ \E asks \in BOOLEAN : OpBegins(asks)
  \/ \E answer \in {"folder", "none", "failure"} : DialogEnds(answer)
  \/ OpCommits \/ RunEnds \/ ReadsStatus \/ OpEnds
  \/ ExitBegins \/ ExitStops \/ ExitDone \/ HelperEnds \/ SurfaceCloses

\* Operations and their calls are bounded by timeouts; a dialog ends when its
\* signal is aborted.  Refreshes and users are not assumed to do anything.
Fairness ==
  /\ WF_vars(OpSteps) /\ WF_vars(ReadSteps("op"))
  /\ WF_vars(ExitStops) /\ WF_vars(ExitDone) /\ WF_vars(SurfaceCloses)

Spec == Init /\ [][Next]_vars
FairSpec == Spec /\ Fairness

-----------------------------------------------------------------------------
(* Properties.                                                                *)

DesktopTypeOK ==
  /\ world \in 1..MaxChanges /\ intent \in 0..1
  /\ entry \in [by : Readers \cup {"none", "kept"}, key : 0..1, ver : 0..MaxChanges]
  /\ read \in [Readers -> [pc : {"idle", "state", "probe", "answer", "done"},
                           key : 0..1, ver : 0..MaxChanges]]
  /\ shown \in 0..MaxChanges /\ floor \in 0..MaxChanges
  /\ refresh \in [on : BOOLEAN, current : BOOLEAN, forced : BOOLEAN]
  /\ check \in [pc : {"none", "chain", "join"}, current : BOOLEAN]
  /\ pending \in [pc : {"none", "dialog", "run", "ran", "status"},
                  own : 0..MaxChanges, commit : 0..MaxChanges]
  /\ folder \in BOOLEAN /\ aborted \in BOOLEAN
  /\ exit \in {"no", "await", "stop", "gone"}
  /\ activity \in {"", "starting", "checking", "operation", "exiting"}
  /\ tray \in {"open", "disposed", "closed"}

\* "Its late completion cannot repopulate the cache after a lifecycle
\* transaction": no status is put on show that is older than one shown before,
\* or than the last change an operation of this process made.
NeverOlder == [][shown' # shown /\ shown' # Unknown => shown' >= floor]_vars

\* "Finish an already-started binding transaction before stopping services", and
\* "settle controller transactions before closing this surface": no operation,
\* and none that a dialog would still start, is left when services are stopped
\* or the Control Center is closed.
SettledBeforeStop ==
  /\ DesktopTypeOK
  /\ exit \in {"stop", "gone"} \/ tray = "closed" => pending = NoOp /\ read["op"] = NoRead

\* The window says something is going on only while something is under way that
\* will take it back.
ActivityEnds ==
  activity # "" =>
    \/ pending # NoOp \/ closing \/ disposed
    \/ refresh.on /\ (refresh.current \/ check.current)

\* What is under way is settled before anything stops, and is never shown longer.
ActivityIsTrue == SettledBeforeStop /\ ActivityEnds

\* "An unrelated health probe or open browser never gates shutdown": an exit
\* stops the services or reports a failure, whatever refreshes and users do.
ExitEnds == []<>(exit \in {"no", "gone"})
=============================================================================
