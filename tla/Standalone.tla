----------------------------- MODULE Standalone -----------------------------
(* The Linux supervisor that replaces systemd (client/standalone.mjs), for one *)
(* component: callers of start and stop, one at a time under the device lock;  *)
(* the detached keepers they launch; the workers a keeper runs and restarts;   *)
(* the owner record and the SQLite lock (client/process-lock.mjs); the kernel, *)
(* which reuses process ids.  A signal and the identity check before it are    *)
(* one step.  A keeper's random nonce is the number of its launch.             *)
EXTENDS Naturals, FiniteSets

CONSTANTS MaxPids,       \* process ids the kernel hands out
          MaxBirths,     \* bound: processes ever born
          MaxLaunches,   \* bound: keepers ever launched
          MaxFailures,   \* rapid failures a keeper tolerates (5 in the code)
          MaxCrashes,    \* bound: keepers and callers killed from outside
          Ops            \* what callers ask for

ASSUME StandaloneAssumption == {MaxPids, MaxBirths, MaxLaunches, MaxFailures, MaxCrashes} \subseteq Nat

Pids == 1..MaxPids
Nonces == 1..MaxLaunches
Actors == {0} \cup Nonces          \* 0 is the caller
NoProcess == [start |-> 0, role |-> "none", nonce |-> 0, sig |-> "none"]
NoIdentity == [pid |-> 0, start |-> 0]
Free == 0
Probing == MaxLaunches + 1
NoRecord == [owner |-> NoIdentity, nonce |-> 0, child |-> NoIdentity]
NoClear == [phase |-> "idle", seen |-> {}]
IdleCaller == [pc |-> "idle", after |-> "done", nonce |-> 0, owner |-> NoIdentity]
NoKeeper == [pc |-> "none", id |-> NoIdentity, stopping |-> FALSE,
             failures |-> 0, child |-> NoIdentity]

VARIABLES
  suspended,  \* remoteAccess in state.json is 'suspended'
  installed,  \* the startup file of the component exists
  record,     \* the owner record, or NoRecord
  lock,       \* holder of the SQLite lock: a nonce, Probing or Free
  proc,       \* the process table
  births,     \* processes born so far; a birth time identifies a process
  caller,     \* the operation that holds the device lock
  keeper,     \* the keepers, by nonce
  clr,        \* clearSession, as the caller or a keeper runs it
  crashes,    \* processes killed from outside so far
  quiet,      \* history: a caller was told that the paused component stopped
  loose       \* history: a launch was given up before its keeper was on record

intent == <<suspended, installed>>
disk == <<record, lock>>
table == <<proc, births>>
past == <<crashes, quiet, loose>>
vars == <<intent, disk, table, caller, keeper, clr, past>>

Init ==
  /\ suspended = FALSE /\ installed = TRUE
  /\ record = NoRecord /\ lock = Free
  /\ proc = [p \in Pids |-> NoProcess] /\ births = 0
  /\ caller = IdleCaller
  /\ keeper = [n \in Nonces |-> NoKeeper]
  /\ clr = [a \in Actors |-> NoClear]
  /\ crashes = 0 /\ quiet = FALSE /\ loose = FALSE

-----------------------------------------------------------------------------
(* Processes and who owns them. *)

Live(p) == proc[p].role # "none"
\* Mutant: the process id alone is trusted.
SamePid(id) == id.start # 0 /\ Live(id.pid)
isSameProcess(id) == id.start # 0 /\ proc[id.pid].start = id.start

\* Command line and nonce of a live owner must match.
keeperAlive(rec) ==
  /\ isSameProcess(rec.owner)
  /\ proc[rec.owner.pid].role = "keeper" /\ proc[rec.owner.pid].nonce = rec.nonce

\* Mutant: only the worker the keeper started itself, as its process group would be.
DirectWorkers(owner, nonce) ==
  {[pid |-> p, start |-> proc[p].start] : p \in {q \in Pids :
     keeper[nonce].child = [pid |-> q, start |-> proc[q].start]}}
\* Live processes, not the owner, born after it with its nonce in their environment.
ownedWorkers(owner, nonce) ==
  {[pid |-> p, start |-> proc[p].start] : p \in {q \in Pids :
     /\ proc[q].role = "worker" /\ proc[q].nonce = nonce
     /\ proc[q].start >= owner.start}}

\* A worker may ignore SIGTERM, or end: it may end at any time.
Signalled(id, signal) ==
  IF isSameProcess(id) /\ ~(signal = "term" /\ proc[id.pid].role = "worker")
  THEN [proc EXCEPT ![id.pid].sig = signal] ELSE proc

\* The kernel hands out the least free id, so that ids return as soon as they can.
Born(p, role, nonce) ==
  /\ ~Live(p) /\ (\A q \in 1..p - 1 : Live(q)) /\ births < MaxBirths
  /\ births' = births + 1
  /\ proc' = [proc EXCEPT ![p] = [start |-> births + 1, role |-> role,
                                  nonce |-> nonce, sig |-> "none"]]

-----------------------------------------------------------------------------
(* clearSession: SIGTERM to the owned workers and a wait, then SIGKILL and a   *)
(* wait, then a last look.  Each wait ends when none is left or in time.       *)

clearStart(a, owner, nonce) ==
  clr' = [clr EXCEPT ![a] = [phase |-> "term", seen |-> ownedWorkers(owner, nonce)]]

\* What is left of the session that a clears.
Left(a) == IF a = 0 THEN ownedWorkers(caller.owner, caller.nonce)
                    ELSE ownedWorkers(keeper[a].id, a)

clearSignal(a) == \E id \in clr[a].seen :
  /\ clr[a].phase \in {"term", "kill"}
  /\ proc' = Signalled(id, clr[a].phase)
  /\ clr' = [clr EXCEPT ![a].seen = @ \ {id}]
  /\ UNCHANGED <<intent, disk, births, caller, keeper, past>>

clearWaited(a) ==
  /\ clr[a].phase \in {"term", "kill"} /\ clr[a].seen = {}
  /\ clr' = [clr EXCEPT
       ![a].phase = IF @ = "term" THEN "kill"
                    ELSE IF Left(a) = {} THEN "clear" ELSE "failed",
       ![a].seen = IF clr[a].phase = "term" THEN Left(a) ELSE {}]
  /\ UNCHANGED <<intent, disk, table, caller, keeper, past>>

\* Mutant: workers that survive SIGKILL are left behind in silence.
Endured(a) == clr[a].phase \in {"clear", "failed"}
Cleared(a) == clr[a].phase = "clear"

-----------------------------------------------------------------------------
(* Callers: standaloneAction and installStandalone under withDeviceOperation.  *)

\* The operation returns; a stop that returns normally was confirmed.
Return(ok) ==
  /\ caller' = IdleCaller
  /\ clr' = [clr EXCEPT ![0] = NoClear]
  /\ quiet' = (quiet \/ (ok /\ suspended /\ caller.pc # "start"))

\* What follows a stopOne that went well.
Stopped ==
  /\ installed' = (installed /\ caller.after # "remove")
  /\ IF caller.after = "spawn"
     THEN /\ caller' = [IdleCaller EXCEPT !.pc = "spawn"]
          /\ clr' = [clr EXCEPT ![0] = NoClear] /\ UNCHANGED quiet
     ELSE Return(caller.after # "fail")

Begin(op) ==
  /\ caller.pc = "idle"
  /\ suspended' = CASE op = "pause" -> TRUE [] op = "resume" -> FALSE
                    [] OTHER -> suspended
  /\ installed' = (installed \/ op = "repair")
  /\ quiet' = (quiet /\ suspended')
  /\ caller' = [IdleCaller EXCEPT
       !.after = IF op = "remove" THEN "remove" ELSE "done",
       !.pc = IF op \in {"pause", "stop", "remove"} \/ (op = "repair" /\ suspended)
              THEN "stop" ELSE "start"]
  /\ UNCHANGED <<disk, table, keeper, clr, crashes, loose>>

startOne ==
  /\ caller.pc = "start"
  /\ IF suspended THEN Return(TRUE)
     ELSE /\ caller' = IF keeperAlive(record)
                       THEN [caller EXCEPT !.pc = "wait", !.nonce = record.nonce]
                       ELSE [caller EXCEPT !.pc = "stop", !.after = "spawn"]
          /\ UNCHANGED <<clr, quiet>>
  /\ UNCHANGED <<intent, disk, table, keeper, crashes, loose>>

\* The owner that stopOne has read.
Target(pc) == [caller EXCEPT !.pc = pc, !.owner = record.owner,
                             !.nonce = record.nonce]

stopOne ==
  /\ caller.pc = "stop"
  /\ IF record = NoRecord
     THEN caller' = [caller EXCEPT !.pc = "probe"] /\ UNCHANGED <<clr, quiet>>
     ELSE IF keeperAlive(record)
     THEN caller' = Target("term")
          /\ UNCHANGED <<clr, quiet>>
     ELSE IF isSameProcess(record.owner) THEN Return(FALSE)
     ELSE /\ caller' = Target("clear")
          /\ clearStart(0, record.owner, record.nonce) /\ UNCHANGED quiet
  /\ UNCHANGED <<intent, disk, table, keeper, crashes, loose>>

\* It takes the lock for an instant.
processLockHeld ==
  /\ caller.pc = "probe"
  /\ IF lock = Free
     THEN /\ lock' = Probing /\ caller' = [caller EXCEPT !.pc = "probed"]
          /\ UNCHANGED <<clr, quiet>>
     ELSE Return(FALSE) /\ UNCHANGED lock
  /\ UNCHANGED <<intent, record, table, keeper, crashes, loose>>

Probed ==
  /\ caller.pc = "probed" /\ lock' = Free /\ Stopped
  /\ UNCHANGED <<suspended, record, table, keeper, crashes, loose>>

\* SIGTERM, eight seconds, SIGKILL, two seconds; then the session is cleared.
StopKeeper ==
  /\ caller.pc \in {"term", "dying", "killing"}
  /\ IF caller.pc = "term"
     THEN /\ caller' = [caller EXCEPT !.pc = "dying"]
          /\ proc' = Signalled(caller.owner, "term") /\ UNCHANGED <<clr, quiet>>
     ELSE IF ~keeperAlive(caller)
     THEN /\ caller' = [caller EXCEPT !.pc = "clear"]
          /\ clearStart(0, caller.owner, caller.nonce)
          /\ UNCHANGED <<proc, quiet>>
     ELSE IF caller.pc = "dying"
     THEN /\ caller' = [caller EXCEPT !.pc = "killing"]
          /\ proc' = Signalled(caller.owner, "kill") /\ UNCHANGED <<clr, quiet>>
     ELSE Return(FALSE) /\ UNCHANGED proc
  /\ UNCHANGED <<intent, disk, births, keeper, crashes, loose>>

\* The record is read again before it is removed: it may have a new owner.
StopCleared ==
  /\ caller.pc = "clear" /\ clr[0].phase \in {"clear", "failed"}
  /\ IF ~Cleared(0) \/ record.nonce \notin {0, caller.nonce}
     THEN Return(FALSE)
     ELSE /\ caller' = [caller EXCEPT !.pc = "rm"]
          /\ clr' = [clr EXCEPT ![0] = NoClear] /\ UNCHANGED quiet
  /\ UNCHANGED <<intent, disk, table, keeper, crashes, loose>>

StopRemoved ==
  /\ caller.pc = "rm" /\ record' = NoRecord /\ Stopped
  /\ UNCHANGED <<suspended, lock, table, keeper, crashes, loose>>

Launched == Cardinality({n \in Nonces : keeper[n].pc # "none"})

\* Bound: nothing is launched beside a
\* launch that was left loose.
Launch == \E p \in Pids : LET n == Launched + 1 IN
  /\ caller.pc = "spawn" /\ installed /\ ~loose /\ n \in Nonces
  /\ Born(p, "keeper", n)
  /\ keeper' = [keeper EXCEPT ![n].pc = "launched",
                  ![n].id = [pid |-> p, start |-> births + 1]]
  /\ caller' = [caller EXCEPT !.pc = "wait", !.nonce = n]
  /\ UNCHANGED <<intent, disk, clr, past>>

\* There is no startup file, no program or no process to be had.
LaunchFails ==
  /\ caller.pc = "spawn" /\ Return(FALSE)
  /\ UNCHANGED <<intent, disk, table, keeper, crashes, loose>>

\* The caller leaves a launch that is not on record yet.
LeavesLoose == /\ caller.pc = "wait"
               /\ keeper[caller.nonce].pc \in {"launched", "locked"}

StartReady ==
  /\ caller.pc = "wait" /\ record.nonce = caller.nonce
  /\ keeperAlive(record) /\ isSameProcess(record.child) /\ Return(TRUE)
  /\ UNCHANGED <<intent, disk, table, keeper, crashes, loose>>

\* The keeper has finished, or twenty seconds are over.
StartGivesUp ==
  /\ caller.pc = "wait"
  /\ loose' = (loose \/ LeavesLoose)
  /\ caller' = [caller EXCEPT !.pc = "stop", !.after = "fail"]
  /\ UNCHANGED <<intent, disk, table, keeper, clr, crashes, quiet>>

\* The caller is killed; the system frees its locks.
CallerDies ==
  /\ caller.pc # "idle" /\ crashes < MaxCrashes
  /\ crashes' = crashes + 1
  /\ loose' = (loose \/ LeavesLoose)
  /\ lock' = IF lock = Probing THEN Free ELSE lock
  /\ caller' = IdleCaller
  /\ clr' = [clr EXCEPT ![0] = NoClear]
  /\ UNCHANGED <<intent, record, table, keeper, quiet>>

-----------------------------------------------------------------------------
(* Keepers: runKeeper. *)

At(n, pc) == keeper[n].pc = pc /\ isSameProcess(keeper[n].id)
Goto(n, pc) == keeper' = [keeper EXCEPT ![n].pc = pc]
\* Its flag `finished` only shortens the wait of a caller.
Written(n, child) == record' = [owner |-> keeper[n].id, nonce |-> n, child |-> child]

KeeperGone(n) == [keeper EXCEPT ![n] = [NoKeeper EXCEPT !.pc = "gone"]]

\* Whoever finds the lock held leaves without touching the record.
acquireProcessLock(n) ==
  /\ At(n, "launched")
  /\ IF lock = Free
     THEN lock' = n /\ Goto(n, "locked") /\ UNCHANGED proc
     ELSE /\ keeper' = KeeperGone(n) /\ UNCHANGED lock
          /\ proc' = [proc EXCEPT ![keeper[n].id.pid] = NoProcess]
  /\ UNCHANGED <<intent, record, births, caller, clr, past>>

TakeRecord(n) ==
  /\ At(n, "locked") /\ Written(n, NoIdentity) /\ Goto(n, "loop")
  /\ UNCHANGED <<intent, lock, table, caller, clr, past>>

\* Mutant: a paused keeper goes on.
ToldToStop(n) == keeper[n].stopping
MustStop(n) == keeper[n].stopping \/ suspended

\* Paused, told to stop or without a startup file, it finishes.
Loop(n) ==
  /\ At(n, "loop")
  /\ IF MustStop(n) \/ ~installed
     THEN Goto(n, "finishing") /\ clearStart(n, keeper[n].id, n)
     ELSE Goto(n, "spawn") /\ UNCHANGED clr
  /\ UNCHANGED <<intent, disk, table, caller, past>>

SpawnWorker(n) == \E p \in Pids :
  /\ At(n, "spawn") /\ Born(p, "worker", n)
  /\ keeper' = [keeper EXCEPT ![n].pc = "started",
                  ![n].child = [pid |-> p, start |-> births + 1]]
  /\ UNCHANGED <<intent, disk, caller, clr, past>>

RecordWorker(n) ==
  /\ At(n, "started") /\ Written(n, keeper[n].child) /\ Goto(n, "poll")
  /\ UNCHANGED <<intent, lock, table, caller, clr, past>>

\* A stop, a pause or the end of the worker ends the poll.
Poll(n) ==
  /\ At(n, "poll")
  /\ MustStop(n) \/ ~isSameProcess(keeper[n].child)
  /\ keeper' = [keeper EXCEPT ![n].pc = "clearing",
       ![n].stopping = MustStop(n) /\ (@ \/ isSameProcess(keeper[n].child))]
  /\ clearStart(n, keeper[n].id, n)
  /\ UNCHANGED <<intent, disk, table, caller, past>>

\* The worker has ended: normally (stop), or not (restart within the limit).
\* A worker that lived a minute starts the count anew.
WorkerOver(n) == \E normal, long \in BOOLEAN :
  LET failures == IF long THEN 1 ELSE keeper[n].failures + 1
      over == ~Cleared(n) \/ keeper[n].stopping \/ normal \/ failures >= MaxFailures
  IN
  /\ At(n, "clearing") /\ clr[n].phase \in {"clear", "failed"}
  /\ IF Cleared(n) THEN Written(n, NoIdentity) ELSE UNCHANGED record
  /\ IF over THEN Goto(n, "finishing") /\ clearStart(n, keeper[n].id, n)
     ELSE /\ keeper' = [keeper EXCEPT ![n].pc = "loop", ![n].child = NoIdentity,
                                      ![n].failures = failures]
          /\ clr' = [clr EXCEPT ![n] = NoClear]
  /\ UNCHANGED <<intent, lock, table, caller, past>>

\* The last word goes to the record only when no worker is left; then the lock
\* is released and the process ends.
Finish(n) ==
  /\ At(n, "finishing") /\ clr[n].phase \in {"clear", "failed"}
  /\ IF Cleared(n) THEN Written(n, NoIdentity) ELSE UNCHANGED record
  /\ lock' = Free /\ clr' = [clr EXCEPT ![n] = NoClear]
  /\ keeper' = KeeperGone(n) /\ proc' = [proc EXCEPT ![keeper[n].id.pid] = NoProcess]
  /\ UNCHANGED <<intent, births, caller, past>>

\* The SIGTERM handler; before it is installed nobody knows the keeper.
Heed(n) ==
  /\ isSameProcess(keeper[n].id) /\ proc[keeper[n].id.pid].sig = "term"
  /\ proc' = [proc EXCEPT ![keeper[n].id.pid].sig = "none"]
  /\ keeper' = [keeper EXCEPT ![n].stopping = TRUE]
  /\ UNCHANGED <<intent, disk, births, caller, clr, past>>

-----------------------------------------------------------------------------
(* The kernel (external). *)

\* A keeper dies of SIGKILL, the caller's or one from outside; its lock is free.
KeeperKilled(n) ==
  /\ isSameProcess(keeper[n].id)
  /\ IF proc[keeper[n].id.pid].sig = "kill" THEN UNCHANGED crashes
     ELSE crashes < MaxCrashes /\ crashes' = crashes + 1
  /\ proc' = [proc EXCEPT ![keeper[n].id.pid] = NoProcess]
  /\ lock' = IF lock = n THEN Free ELSE lock
  /\ keeper' = KeeperGone(n) /\ clr' = [clr EXCEPT ![n] = NoClear]
  /\ UNCHANGED <<intent, record, births, caller, quiet, loose>>

\* Workers end when they like.
Exit(p) ==
  /\ proc[p].role = "worker"
  /\ proc' = [proc EXCEPT ![p] = NoProcess]
  /\ UNCHANGED <<intent, disk, births, caller, keeper, clr, past>>

\* A worker starts a process, which inherits the nonce, in any session.
Fork(p) == \E q \in Pids :
  /\ proc[q].role = "worker" /\ proc[q].sig # "kill" /\ Born(p, "worker", proc[q].nonce)
  /\ UNCHANGED <<intent, disk, caller, keeper, clr, past>>

\* Bound: one stranger, which stays.
Stranger(p) ==
  /\ (\A q \in Pids : proc[q].role # "stranger") /\ Born(p, "stranger", 0)
  /\ UNCHANGED <<intent, disk, caller, keeper, clr, past>>

-----------------------------------------------------------------------------
CallerStep ==
  \/ startOne \/ stopOne \/ processLockHeld \/ Probed \/ StopKeeper
  \/ StopCleared \/ StopRemoved \/ Launch \/ LaunchFails \/ StartReady
  \/ StartGivesUp \/ clearSignal(0) \/ clearWaited(0)

runKeeper(n) ==
  \/ acquireProcessLock(n) \/ TakeRecord(n) \/ Loop(n) \/ SpawnWorker(n)
  \/ RecordWorker(n) \/ Poll(n) \/ WorkerOver(n) \/ Finish(n)
  \/ clearSignal(n) \/ clearWaited(n)

Next ==
  \/ \E op \in Ops : Begin(op)
  \/ CallerStep \/ CallerDies
  \/ \E n \in Nonces : runKeeper(n) \/ Heed(n) \/ KeeperKilled(n)
  \/ \E p \in Pids : Exit(p) \/ Fork(p) \/ Stranger(p)

\* A keeper that runs goes on: its sleeps and waits all have an end.
StandaloneSpec ==
  /\ Init /\ [][Next]_vars
  /\ \A n \in Nonces : WF_vars(runKeeper(n))

-----------------------------------------------------------------------------
Identities == [pid : 0..MaxPids, start : 0..MaxBirths]
Records == [owner : Identities, nonce : 0..MaxLaunches, child : Identities]

StandaloneTypeOK ==
  /\ {suspended, installed, quiet, loose} \subseteq BOOLEAN
  /\ record \in Records
  /\ lock \in Nonces \cup {Free, Probing}
  /\ proc \in [Pids -> [start : 0..MaxBirths, nonce : 0..MaxLaunches,
       role : {"none", "keeper", "worker", "stranger"},
       sig : {"none", "term", "kill"}]]
  /\ births \in 0..MaxBirths /\ crashes \in 0..MaxCrashes

\* No process is signalled but the keeper's own: neither one that got the id of
\* a dead worker between the scan and the signal, nor one that got the id of a
\* dead keeper whose record is still there, whoever was killed when.
StrangersUnharmed ==
  \A p \in Pids : proc[p].role = "stranger" => proc[p].sig = "none"

\* Once the caller of a pause was told that it is done, nothing of the component
\* runs until it is resumed, although keepers were launched, killed or about to
\* restart their worker meanwhile.
PausedMeansStopped ==
  quiet => \A p \in Pids : proc[p].role # "worker"

\* Two keepers never have workers at the same time, and a running worker can be
\* found through the record: the next stop reaches it even if its keeper died.
\* (The variables have their types as well.)
OneOwner ==
  /\ StandaloneTypeOK
  /\ \A p \in Pids : proc[p].role = "worker" => proc[p].nonce = record.nonce

\* A pause that stays reaches a keeper although its caller was killed before it
\* could stop anything: by its own poll the keeper sees it and gives up its lock.
PauseTakesHold ==
  (suspended /\ \E n \in Nonces : At(n, "poll")) ~> (~suspended \/ lock \notin Nonces)
=============================================================================
