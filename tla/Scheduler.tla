----------------------------- MODULE Scheduler -----------------------------
(***************************************************************************)
(* When a device checks for updates and tries to install them by itself    *)
(* (client/updates.mjs: startUpdateChecks, checkForUpdates), in the        *)
(* desktop process or the Linux runtime.                                   *)
(*                                                                         *)
(* Deadlines are kept as the time that is left to them, so that time needs *)
(* no bound: 0 says that there is none or that it has passed.  How an      *)
(* update is applied is the subject of module Updates; here it is one step *)
(* that ends in one of the ways the scheduler distinguishes.               *)
(***************************************************************************)
EXTENDS Integers

CONSTANTS
    Newest,                    \* releases are 1 .. Newest, and 1 is installed
    BusyDelay, FailureDelay,   \* BUSY_INTERVAL, FAILURE_INTERVAL,
    CheckDelay,                \* CHECK_INTERVAL, and the longest Retry-After
    LongestDelay,
    MaxMishaps                  \* bound: restarts, failed writes, a clock put back

ASSUME SchedulerAssumption ==
    /\ {Newest, BusyDelay, FailureDelay, CheckDelay, LongestDelay, MaxMishaps} \subseteq Nat
    /\ Newest > 0 /\ 0 < BusyDelay /\ BusyDelay < FailureDelay /\ FailureDelay < CheckDelay /\ CheckDelay <= LongestDelay

Releases == 1 .. Newest
\* The second one was made before the clock was put back.
NoCheckYet == [app |-> 0, due |-> 0, ago |-> 1, auto |-> 0, error |-> FALSE]
CheckInFuture == [app |-> 1, due |-> CheckDelay, ago |-> -1, auto |-> 0, error |-> FALSE]
NoOutcome == [version |-> 0, code |-> "none", wait |-> 0]
Calm == [version |-> 0, wait |-> 0]
NoInstaller == [version |-> 0, left |-> 0]
NotRunning == [pc |-> "off", timer |-> 0, due |-> 0, auto |-> 0]
\* startUpdateChecks: 15 to 30 seconds after the start.
JustStarted == [NotRunning EXCEPT !.pc = "sleep", !.timer = 1]

VARIABLES
    device,     \* the system asks the user to authorise installers; settings.json
    gateway,    \* is it there, and the release it approves for automatic updates
    occupied,   \* what would stand in the way of an installer
    release,    \* RELEASE_VERSION
    saved,      \* check.json: whose, nextCheckAt, age (up to 1), policy.auto, error
    outcome,    \* automatic-result.json, with nextAttemptAt
    installer,  \* an attempt without a result, until it expires
    byHand,     \* a check somebody asked for is on its way
    sched,      \* the scheduler, with the nextCheckAt and policy.auto it has read
    mishaps,
    rest, calm  \* history: time that must pass before the next check, attempt

around == <<device, gateway, occupied>>
records == <<saved, outcome, installer>>
histories == <<rest, calm>>
schedulerVars == <<around, release, records, byHand, sched, mishaps, histories>>

\* An operation of this process, one of another, remote work, or a Bridge that
\* does not answer; they are not looked at where the user runs the installer.
Obstacles == {"no"} \cup (IF device.native THEN {} ELSE {"local", "other", "remote", "silent"})
SchedulerInit ==
    /\ device \in [native : BOOLEAN, consent : BOOLEAN]
    /\ gateway \in [up : BOOLEAN, auto : {0} \cup 2 .. Newest]
    /\ occupied \in Obstacles
    /\ release = 1
    /\ saved \in {NoCheckYet, CheckInFuture} /\ outcome = NoOutcome /\ installer = NoInstaller
    /\ byHand = FALSE
    /\ sched \in {NotRunning, JustStarted}
    /\ mishaps = (IF saved = CheckInFuture THEN 1 ELSE 0) /\ mishaps <= MaxMishaps
    /\ rest = 0 /\ calm = Calm

Mishap == mishaps < MaxMishaps /\ mishaps' = mishaps + 1
Least(S) == CHOOSE x \in S : \A y \in S : x <= y
Less(n) == IF n > 0 THEN n - 1 ELSE 0

\* finally: one wake, at the first deadline there is.
Sleeps(due, waits) ==
    LET first == Least({due} \cup waits) IN
      sched' = [NotRunning EXCEPT !.pc = "sleep", !.timer = IF first = 0 THEN 1 ELSE first]
Waits(o) == IF o.wait > 0 THEN {o.wait} ELSE {}

-----------------------------------------------------------------------------
(* The tick: a check, and what follows from its status.                    *)

OutcomeOf(s) == IF outcome.version = s.auto THEN outcome ELSE NoOutcome
Approved(s) == ~s.error /\ device.consent /\ s.auto > release

\* The attempt did not come about: it is on record when the next one is due.
Postponed(due, o) ==
    /\ outcome' = o
    /\ calm' = [version |-> o.version, wait |-> o.wait]
    /\ Sleeps(due, Waits(o))
Withdrawn(due) ==
    /\ outcome' = NoOutcome /\ calm' = Calm
    /\ Sleeps(due, {})

\* Mutant: what was in the way the last time still is.
BlockedAsBefore(code) == code \in {"remote", "local"}
BlockedBy(code) ==
    \/ code = "remote" /\ occupied \in {"remote", "silent"}
    \/ code = "local" /\ occupied = "local"

\* A device that was busy is looked at before anything is fetched again.
StillBlocked(s, o) ==
    Postponed(s.due, [version |-> s.auto,
                      code |-> IF occupied = "silent" THEN "failed" ELSE o.code,
                      wait |-> IF occupied = "silent" THEN FailureDelay ELSE BusyDelay])
Attempts(s) ==
    /\ sched' = [pc |-> "apply", timer |-> 0, due |-> s.due, auto |-> s.auto]
    /\ UNCHANGED <<outcome, calm>>
Rests(s, o) ==
    /\ Sleeps(s.due, IF s.error \/ ~device.consent THEN {} ELSE Waits(o))
    /\ UNCHANGED <<outcome, calm>>

Decide(s) ==
    LET o == OutcomeOf(s) IN
      CASE Approved(s) /\ o.code # "ready" /\ o.wait = 0 ->
             IF BlockedBy(o.code) THEN StillBlocked(s, o) ELSE Attempts(s)
        [] ~Approved(s) /\ ~s.error -> Withdrawn(s.due)
        [] OTHER -> Rests(s, o)

\* Another check holds the lock, or this one is not due: the status is what is
\* on disk.  After another release, or a clock that was put back, every check is due.
NotDue == saved.ago >= 0 /\ saved.app = release /\ saved.due > 0
Wake ==
    /\ sched.pc = "sleep" /\ sched.timer = 0
    /\ \/ /\ byHand \/ NotDue
          /\ Decide(saved)
       \/ /\ ~byHand /\ ~NotDue
          /\ sched' = [sched EXCEPT !.pc = "fetch"]
          /\ UNCHANGED <<outcome, calm>>
    /\ UNCHANGED <<around, release, saved, installer, byHand, mishaps, rest>>

\* Mutant: a failure leaves the release of the last success on record.
FailedWithoutRelease(delay) == [saved EXCEPT !.due = delay, !.ago = 0, !.error = TRUE]
Failed(delay) == [saved EXCEPT !.app = release, !.due = delay, !.ago = 0, !.error = TRUE]
Fetched ==
    IF gateway.up
      THEN {[app |-> release, due |-> CheckDelay, ago |-> 0, auto |-> gateway.auto, error |-> FALSE]}
      ELSE {Failed(delay) : delay \in {FailureDelay, LongestDelay}}

CheckEnds ==
    /\ sched.pc = "fetch"
    /\ saved' \in Fetched
    /\ rest' = saved'.due
    /\ Decide(saved')
    /\ UNCHANGED <<around, release, installer, byHand, mishaps>>
\* check.json cannot be written: the tick knows nothing.
CheckThrows ==
    /\ sched.pc = "fetch" /\ Mishap
    /\ \/ outcome' = [NoOutcome EXCEPT !.code = "failed", !.wait = FailureDelay] /\ calm' = Calm
       \/ UNCHANGED <<outcome, calm>>
    /\ Sleeps(FailureDelay, {})
    /\ UNCHANGED <<around, release, saved, installer, byHand, rest>>

\* applyUpdate: it returns or throws in one of these ways.
NothingToApply == gateway.up /\ ~(gateway.auto > release /\ device.consent)
Hindrances ==
    LET because(code, wait) == [version |-> gateway.auto, code |-> code, wait |-> wait] IN
      CASE installer.left > 0 -> {[version |-> installer.version, code |-> "failed", wait |-> FailureDelay]}
        [] installer.left = 0 /\ ~gateway.up ->
             {[version |-> sched.auto, code |-> "failed", wait |-> delay] : delay \in {FailureDelay, LongestDelay}}
        [] OTHER ->
             {because("failed", FailureDelay)}
             \cup (IF device.native THEN {because("ready", 0)} ELSE {})
             \cup (IF ~device.native /\ occupied \in {"local", "other"} THEN {because("local", BusyDelay)} ELSE {})
             \cup (IF ~device.native /\ occupied = "remote" THEN {because("remote", BusyDelay)} ELSE {})
Started == [version |-> gateway.auto, left |-> FailureDelay]
HandsOver == ~device.native /\ occupied = "no" /\ gateway.up /\ installer.left = 0
ApplyEnds ==
    /\ sched.pc = "apply"
    /\ \/ /\ installer.left = 0 /\ NothingToApply
          /\ Withdrawn(sched.due)
          /\ UNCHANGED installer
       \/ /\ installer.left > 0 \/ ~NothingToApply
          /\ \E o \in Hindrances : Postponed(sched.due, o)
          /\ UNCHANGED installer
       \/ /\ HandsOver /\ ~NothingToApply
          /\ installer' = Started
          /\ Withdrawn(sched.due)        \* no later tick reads that it was handed over
    /\ UNCHANGED <<around, release, saved, byHand, mishaps, rest>>
\* automatic-result.json cannot be written.
OutcomeLost ==
    /\ sched.pc = "apply" /\ Mishap
    /\ \E wait \in {BusyDelay, FailureDelay} : Sleeps(sched.due, {wait})
    /\ installer' \in {installer} \cup (IF HandsOver /\ ~NothingToApply THEN {Started} ELSE {})
    /\ calm' = Calm
    /\ UNCHANGED <<around, release, saved, outcome, byHand, rest>>

-----------------------------------------------------------------------------
(* Everything around it.                                                   *)

\* The installer replaces the release and starts the process again; it fails
\* and says so; or the process is killed and started again.
Installed ==
    /\ sched.pc # "off" /\ installer.left > 0
    /\ \/ /\ installer.version > release
          /\ release' = installer.version /\ sched' = JustStarted /\ rest' = 0
       \/ UNCHANGED <<release, sched, rest>>
    /\ installer' = NoInstaller
    /\ UNCHANGED <<around, saved, outcome, byHand, mishaps, calm>>
Restarted ==
    /\ sched.pc # "off" /\ Mishap
    /\ sched' = JustStarted
    /\ UNCHANGED <<around, release, records, byHand, histories>>

\* checkForUpdates with force, from the Control Center or the command line.
ByHandBegins ==
    /\ sched.pc \notin {"off", "fetch"} /\ ~byHand
    /\ saved.ago # 0             \* not again within seconds of the last check
    /\ byHand' = TRUE
    /\ UNCHANGED <<around, release, records, sched, mishaps, histories>>
ByHandEnds ==
    /\ byHand /\ byHand' = FALSE
    /\ saved' \in Fetched
    /\ rest' = saved'.due
    /\ UNCHANGED <<around, release, outcome, installer, sched, mishaps, calm>>

\* Administrators, the network, the user, other processes and remote work.
Surroundings ==
    /\ sched.pc \in {"sleep", "apply"}     \* what a fetch finds is chosen before it
    /\ \/ /\ \E auto \in {0} \cup 2 .. Newest, up \in BOOLEAN : gateway' = [up |-> up, auto |-> auto]
          /\ UNCHANGED <<device, occupied>>
       \/ device' = [device EXCEPT !.consent = ~@] /\ UNCHANGED <<gateway, occupied>>
       \/ occupied' \in Obstacles /\ UNCHANGED <<device, gateway>>
    /\ UNCHANGED <<release, records, byHand, sched, mishaps, histories>>

\* A check ends within seconds; preparing a package may take long.
Time ==
    /\ (sched.pc = "sleep" /\ sched.timer > 0) \/ sched.pc = "apply"
    /\ ~byHand
    /\ sched' = [sched EXCEPT !.timer = Less(@), !.due = Less(@)]
    /\ saved' = [saved EXCEPT !.due = Less(@), !.ago = IF @ < 1 THEN @ + 1 ELSE 1]
    /\ outcome' = [outcome EXCEPT !.wait = Less(@)]
    /\ installer' = IF installer.left > 1 THEN [installer EXCEPT !.left = @ - 1] ELSE NoInstaller
    /\ rest' = Less(rest) /\ calm' = [calm EXCEPT !.wait = Less(@)]
    /\ UNCHANGED <<around, release, byHand, mishaps>>

SchedulerStep == Wake \/ CheckEnds \/ ApplyEnds
SchedulerNext ==
    \/ SchedulerStep \/ CheckThrows \/ OutcomeLost
    \/ Installed \/ Restarted \/ ByHandBegins \/ ByHandEnds \/ Surroundings \/ Time

\* Requests are bounded by timeouts, and time passes.
SchedulerFairness ==
    WF_schedulerVars(SchedulerStep) /\ WF_schedulerVars(ByHandEnds) /\ WF_schedulerVars(Time)
SchedulerSpec == SchedulerInit /\ [][SchedulerNext]_schedulerVars /\ SchedulerFairness

-----------------------------------------------------------------------------
(* Properties.                                                             *)

SchedulerTypeOK ==
    /\ device \in [native : BOOLEAN, consent : BOOLEAN]
    /\ gateway \in [up : BOOLEAN, auto : {0} \cup Releases] /\ occupied \in Obstacles
    /\ release \in Releases
    /\ sched.pc \in {"off", "sleep", "fetch", "apply"}
    /\ saved.app \in Releases \cup {0} /\ {saved.due, outcome.wait, sched.timer, rest, calm.wait} \subseteq Nat
    /\ mishaps \in 0 .. MaxMishaps

\* "First failures and failures after an upgrade are not let off by a restart":
\* no check begins by itself before the delay that the last one ended with, and
\* no attempt before the delay that the last one of that release ended with,
\* whatever was restarted, asked for by hand or checked in between.
BackOffHolds ==
    /\ SchedulerTypeOK
    /\ sched.pc = "fetch" => rest = 0
    /\ sched.pc = "apply" /\ calm.version = sched.auto => calm.wait = 0

\* A device never stops asking what it should run; and once a release stays
\* approved, with consent, a Gateway that answers and nothing in the way, it
\* goes on trying to install it, or is ready for the user to do so.
AttemptDue ==
    gateway.up /\ gateway.auto > release /\ device.consent /\ occupied = "no"
UpdatesKeepComing ==
    /\ []<>(sched.pc \in {"fetch", "off"} \/ byHand)
    /\ <>[]AttemptDue => []<>(sched.pc \in {"apply", "off"} \/ (outcome.code = "ready" /\ outcome.version = gateway.auto))
=============================================================================
