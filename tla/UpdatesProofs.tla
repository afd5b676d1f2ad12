--------------------------- MODULE UpdatesProofs ---------------------------
(***************************************************************************)
(* Proofs about the Bridge and about updates on a device it serves, for    *)
(* any number of calls, updaters, versions and attempts, any quiet time,   *)
(* pause of admission and guard, and on either kind of system.             *)
(*                                                                         *)
(* The Bridge by itself first.  Its invariant adds to the properties what  *)
(* their induction needs: HandlerShape says which handlers can be left     *)
(* once the response is closed, and BusyShape relates the history variable *)
(* to the Bridge's own clock readings.                                     *)
(*                                                                         *)
(* Then applyUpdate and its installers.  The two locks leave one updater   *)
(* at work, and what it has found out - that no installer is still to      *)
(* activate its version, that its source is the program that runs, that    *)
(* the Bridge is idle - stays true until it starts the next one.           *)
(***************************************************************************)
EXTENDS Updates, FiniteSetTheorems, TLAPS

\* A handler outlives its response only while it waits for the token.
HandlerShape ==
    \A c \in Calls :
        /\ call[c].handler = "none" => ~call[c].open
        /\ ~call[c].open => call[c].handler \in {"none", "token"}

\* Open work is seen at every instant; after it, lastWorkAt remembers its end.
BusyShape ==
    /\ busyAt <= clock /\ lastWorkAt <= clock
    /\ Work # {} => busyAt = clock
    /\ Work = {} => busyAt <= lastWorkAt

BridgeInv ==
    BridgeTypeOK /\ HandlerShape /\ CountIsOpenWork /\ DrainedIsIdle /\ BusyShape

-----------------------------------------------------------------------------
(* What an action does to the set of open POST calls.                      *)

\* The open POST calls are finitely many, and none are open when the count is 0.
LEMMA WorkFinite ==
    ASSUME BridgeInv
    PROVE  /\ IsFiniteSet(Work)
           /\ activeWork = 0 <=> Work = {}
<1>1. IsFiniteSet(Work)
  BY BridgeAssumption, FS_Subset DEF Work
<1>2. activeWork = 0 <=> Work = {}
  BY <1>1, FS_EmptySet DEF BridgeInv, CountIsOpenWork
<1> QED BY <1>1, <1>2

\* A call that is admitted is one more, if it is new work.
LEMMA ArriveWork ==
    ASSUME BridgeInv, NEW c \in Calls, NEW post \in BOOLEAN, Arrive(c, post)
    PROVE  /\ post => Work' = Work \cup {c} /\ c \notin Work
           /\ ~post => Work' = Work
BY DEF BridgeInv, BridgeTypeOK, Arrive, NoCall, Work

\* What the handler does leaves the open work as it is.
LEMMA HandlerWork ==
    ASSUME BridgeInv, NEW c \in Calls, Forward(c) \/ Conclude(c)
    PROVE  Work' = Work
BY DEF BridgeInv, BridgeTypeOK, Forward, Conclude, NoCall, Work

\* The end of a response is one less, if it was work.
LEMMA CloseWork ==
    ASSUME BridgeInv, NEW c \in Calls, Close(c)
    PROVE  /\ call[c].post => Work' = Work \ {c} /\ c \in Work
           /\ ~call[c].post => Work' = Work
BY DEF BridgeInv, BridgeTypeOK, Close, NoCall, Work

-----------------------------------------------------------------------------
(* The invariant.                                                          *)

\* It holds at first.
LEMMA BridgeInvInit == BridgeInit => BridgeInv
<1> SUFFICES ASSUME BridgeInit PROVE BridgeInv OBVIOUS
<1>1. Work = {}
  BY DEF BridgeInit, NoCall, Work
<1>2. CountIsOpenWork
  BY <1>1, FS_EmptySet DEF BridgeInit, CountIsOpenWork
<1>3. BridgeTypeOK /\ HandlerShape /\ DrainedIsIdle
  BY DEF BridgeInit, BridgeTypeOK, HandlerShape, DrainedIsIdle, Draining, NoCall, Handlers
<1>4. BusyShape
  BY <1>1 DEF BridgeInit, BusyShape
<1> QED BY <1>2, <1>3, <1>4 DEF BridgeInv

\* A call is admitted: there is work now, and it is seen now.
LEMMA ArriveInv ==
    ASSUME BridgeInv, NEW c \in Calls, NEW post \in BOOLEAN, Arrive(c, post)
    PROVE  BridgeInv'
<1> USE DEF BridgeInv
<1>1. (BridgeTypeOK /\ HandlerShape)'
  BY DEF Arrive, BridgeTypeOK, HandlerShape, Handlers, NoCall
<1>2. DrainedIsIdle'
  BY DEF Arrive, BridgeTypeOK, DrainedIsIdle, Draining, NoCall
<1>3. CASE post
  <2>1. Work' = Work \cup {c} /\ c \notin Work
    BY <1>3, ArriveWork
  <2>2. IsFiniteSet(Work)
    BY WorkFinite
  <2>3. Cardinality(Work') = Cardinality(Work) + 1
    BY <2>1, <2>2, FS_AddElement
  <2>4. CountIsOpenWork'
    BY <1>3, <2>3 DEF Arrive, CountIsOpenWork
  <2>5. BusyShape'
    BY <1>3, <2>1 DEF Arrive, BridgeTypeOK, BusyShape
  <2> QED BY <1>1, <1>2, <2>4, <2>5
<1>4. CASE ~post
  <2>1. Work' = Work
    BY <1>4, ArriveWork
  <2>2. (CountIsOpenWork /\ BusyShape)'
    BY <1>4, <2>1 DEF Arrive, CountIsOpenWork, BusyShape
  <2> QED BY <1>1, <1>2, <2>2
<1> QED BY <1>3, <1>4

\* The handler goes on: a closed response is not forwarded.
LEMMA HandlerInv ==
    ASSUME BridgeInv, NEW c \in Calls, Forward(c) \/ Conclude(c)
    PROVE  BridgeInv'
<1> USE DEF BridgeInv
<1>1. (BridgeTypeOK /\ HandlerShape)'
  <2>1. CASE Forward(c)
    BY <2>1 DEF Forward, BridgeTypeOK, HandlerShape, Handlers, NoCall
  <2>2. CASE Conclude(c)
    BY <2>2 DEF Conclude, BridgeTypeOK, HandlerShape, Handlers, NoCall
  <2> QED BY <2>1, <2>2
<1>2. CountIsOpenWork'
  BY HandlerWork DEF Forward, Conclude, CountIsOpenWork
<1>3. DrainedIsIdle'
  BY DEF Forward, Conclude, BridgeTypeOK, DrainedIsIdle, Draining, NoCall
<1>4. BusyShape'
  BY HandlerWork DEF Forward, Conclude, BusyShape
<1> QED BY <1>1, <1>2, <1>3, <1>4

\* A response is closed: its work, if it was any, ends now.
LEMMA CloseInv ==
    ASSUME BridgeInv, NEW c \in Calls, Close(c)
    PROVE  BridgeInv'
<1> USE DEF BridgeInv
<1>1. CountIsOpenWork' /\ activeWork' \in Nat
  <2>1. CASE call[c].post
    <3>1. Work' = Work \ {c} /\ c \in Work
      BY <2>1, CloseWork
    <3>2. IsFiniteSet(Work)
      BY WorkFinite
    <3>3. IsFiniteSet(Work') /\ Cardinality(Work') = Cardinality(Work) - 1
      BY <3>1, <3>2, FS_RemoveElement
    <3>4. Cardinality(Work') \in Nat
      BY <3>3, FS_CardinalityType
    <3> QED BY <2>1, <3>3, <3>4 DEF Close, CountIsOpenWork
  <2>2. CASE ~call[c].post
    BY <2>2, CloseWork DEF Close, BridgeTypeOK, CountIsOpenWork
  <2> QED BY <2>1, <2>2
<1>2. (BridgeTypeOK /\ HandlerShape)'
  BY <1>1 DEF Close, BridgeTypeOK, HandlerShape, Handlers, NoCall
<1>3. DrainedIsIdle'
  BY DEF Close, BridgeTypeOK, DrainedIsIdle, Draining, NoCall
<1>4. BusyShape'
  <2>1. CASE call[c].post
    BY <2>1, CloseWork DEF Close, BridgeTypeOK, BusyShape
  <2>2. CASE ~call[c].post
    BY <2>2, CloseWork DEF Close, BridgeTypeOK, BusyShape
  <2> QED BY <2>1, <2>2
<1> QED BY <1>1, <1>2, <1>3, <1>4

\* Admission is paused only when the count, and so the work, is none.
LEMMA DrainInv ==
    ASSUME BridgeInv, (\E automatic \in BOOLEAN : StartDrain(automatic)) \/ EndDrain
    PROVE  BridgeInv'
<1> USE DEF BridgeInv
<1>1. Work' = Work
  BY DEF StartDrain, EndDrain, Work
<1>2. (BridgeTypeOK /\ HandlerShape /\ CountIsOpenWork /\ BusyShape)'
  BY <1>1, BridgeAssumption
  DEF StartDrain, EndDrain, BridgeTypeOK, HandlerShape, CountIsOpenWork, BusyShape
<1>3. DrainedIsIdle'
  <2>1. CASE EndDrain
    BY <2>1 DEF EndDrain, BridgeTypeOK, DrainedIsIdle, Draining
  <2>2. ASSUME NEW automatic \in BOOLEAN, StartDrain(automatic) PROVE DrainedIsIdle'
    <3>1. Work = {}
      BY <2>2, WorkFinite DEF StartDrain, IdleFor
    <3>2. \A c \in Calls : call[c].post => ~call[c].open /\ call[c].handler # "upstream"
      BY <3>1 DEF Work, HandlerShape, BridgeTypeOK
    <3> QED BY <2>2, <3>2 DEF StartDrain, DrainedIsIdle
  <2> QED BY <2>1, <2>2
<1> QED BY <1>2, <1>3

\* A new process knows of no work, and there is none.
LEMMA RestartInv ==
    ASSUME BridgeInv, RestartBridge
    PROVE  BridgeInv'
<1> USE DEF BridgeInv
<1>1. Work' = {}
  BY DEF RestartBridge, NoCall, Work
<1>2. CountIsOpenWork'
  BY <1>1, FS_EmptySet DEF RestartBridge, CountIsOpenWork
<1>3. (BridgeTypeOK /\ HandlerShape /\ DrainedIsIdle)'
  BY DEF RestartBridge, BridgeTypeOK, HandlerShape, DrainedIsIdle, Draining, NoCall, Handlers
<1>4. BusyShape'
  BY <1>1 DEF RestartBridge, BridgeTypeOK, BusyShape
<1> QED BY <1>2, <1>3, <1>4

\* Time passes: a pause can only end by it.
LEMMA TickInv ==
    ASSUME BridgeInv, BridgeTick
    PROVE  BridgeInv'
<1> USE DEF BridgeInv
<1>1. Work' = Work
  BY DEF BridgeTick, Work
<1>2. (BridgeTypeOK /\ HandlerShape /\ CountIsOpenWork)'
  BY <1>1 DEF BridgeTick, BridgeTypeOK, HandlerShape, CountIsOpenWork
<1>3. DrainedIsIdle'
  BY DEF BridgeTick, BridgeTypeOK, DrainedIsIdle, Draining
<1>4. BusyShape'
  BY <1>1 DEF BridgeTick, BridgeTypeOK, BusyShape
<1> QED BY <1>2, <1>3, <1>4

\* Every step keeps it.
LEMMA BridgeInvStep == BridgeInv /\ [BridgeNext]_bridgeVars => BridgeInv'
<1> SUFFICES ASSUME BridgeInv, [BridgeNext]_bridgeVars PROVE BridgeInv' OBVIOUS
<1>1. ASSUME NEW c \in Calls, Serve(c) PROVE BridgeInv'
  BY <1>1, ArriveInv, HandlerInv, CloseInv DEF Serve
<1>2. CASE (\E automatic \in BOOLEAN : StartDrain(automatic)) \/ EndDrain
  BY <1>2, DrainInv
<1>3. CASE RestartBridge
  BY <1>3, RestartInv
<1>4. CASE BridgeTick
  BY <1>4, TickInv
<1>5. CASE UNCHANGED bridgeVars
  BY <1>5 DEF bridgeVars, BridgeInv, BridgeTypeOK, HandlerShape, CountIsOpenWork, DrainedIsIdle,
              Draining, BusyShape, Work
<1> QED BY <1>1, <1>2, <1>3, <1>4, <1>5 DEF BridgeNext

-----------------------------------------------------------------------------
(* The theorems.                                                           *)

\* The invariant holds in every reachable state of client/bridge.mjs.
THEOREM BridgeInvariant == BridgeSpec => []BridgeInv
BY BridgeInvInit, BridgeInvStep, PTL DEF BridgeSpec

\* The Bridge's variables keep their types; activeWork never goes below zero.
THEOREM BridgeTypeCorrect == BridgeSpec => []BridgeTypeOK
<1>1. BridgeInv => BridgeTypeOK
  BY DEF BridgeInv
<1> QED BY <1>1, BridgeInvariant, PTL

\* bridge.mjs:85-86: the counter is the number of open POST calls, for any
\* number of calls and however each of them ends.
THEOREM CountIsOpenWorkHolds == BridgeSpec => []CountIsOpenWork
<1>1. BridgeInv => CountIsOpenWork
  BY DEF BridgeInv
<1> QED BY <1>1, BridgeInvariant, PTL

\* bridge.mjs:63-90: while admission is paused no work is open and none is sent
\* to DevSpace, also none whose client left while its token was awaited.
THEOREM DrainedIsIdleHolds == BridgeSpec => []DrainedIsIdle
<1>1. BridgeInv => DrainedIsIdle
  BY DEF BridgeInv
<1> QED BY <1>1, BridgeInvariant, PTL

\* Both together: the answer to an updater is about the work there is.
THEOREM WorkIsCountedHolds == BridgeSpec => []WorkIsCounted
<1>1. BridgeInv => WorkIsCounted
  BY DEF BridgeInv, WorkIsCounted
<1> QED BY <1>1, BridgeInvariant, PTL

\* bridge.mjs:68: an automatic update is admitted only after the whole quiet
\* time without open work.
THEOREM QuietBeforeAutomaticHolds == BridgeSpec => []QuietBeforeAutomatic
<1>1. ASSUME BridgeInv PROVE QuietBeforeAutomatic
  <2> SUFFICES ASSUME IdleFor(TRUE) PROVE clock - busyAt >= Quiet
    BY DEF QuietBeforeAutomatic
  <2>1. Work = {}
    BY <1>1, WorkFinite DEF IdleFor
  <2>2. busyAt <= lastWorkAt /\ clock - lastWorkAt >= Quiet
    BY <1>1, <2>1 DEF IdleFor, BridgeInv, BusyShape
  <2>3. clock \in Nat /\ busyAt \in Nat /\ lastWorkAt \in Nat /\ Quiet \in Nat
    BY <1>1, BridgeAssumption DEF BridgeInv, BridgeTypeOK
  <2> QED BY <2>2, <2>3
<1> QED BY <1>1, BridgeInvariant, PTL

\* Both: for any set of calls and any length of the pause and of the quiet time.
THEOREM AccountIsTrueHolds == BridgeSpec => []AccountIsTrue
<1>1. WorkIsCounted /\ QuietBeforeAutomatic => AccountIsTrue
  BY DEF AccountIsTrue
<1> QED BY <1>1, WorkIsCountedHolds, QuietBeforeAutomaticHolds, PTL

-----------------------------------------------------------------------------
(* Updates: what holds of every step of applyUpdate and of its installers.  *)

Inside == {"drain", "clear", "persist", "handoff", "phase"}
HandingOff == {"clear", "persist", "handoff"}

\* The updater in its critical sections.
LocksOK(p) ==
    /\ u[p].pc # "idle" <=> applyLock = p
    /\ u[p].pc \in Inside <=> opLock = p
    /\ u[p].pc = "idle" => u[p] = Off

\* What an updater has found out still holds as long as it has its locks.
FoundOK(p) ==
    /\ u[p].pc \in {"policy", "prepare", "lock"} \cup Inside => u[p].source \in Versions
    /\ u[p].pc \in {"prepare", "lock", "drain", "clear", "persist"} =>
           u[p].version \in Versions /\ u[p].source <= u[p].version
    /\ u[p].pc \in {"lock", "drain", "clear", "persist"} => u[p].version \in cache
    /\ u[p].pc \in {"drain", "clear", "persist"} => active = u[p].source

\* Its pause of admission is in force, or there is no Bridge to pause.
DrainOK(p) ==
    /\ u[p].drained => u[p].pc \in HandingOff \cup {"phase"}
    /\ u[p].pc \in HandingOff => u[p].drained \/ ~remote
    /\ u[p].pc \in HandingOff /\ u[p].drained /\ faults = 0 => drainUntil > 0

\* The recorded attempt is its own, and its installer comes after its record.
RecordOK(p) ==
    /\ u[p].pc \in {"handoff", "phase"} =>
           attempt # NoAttempt /\ drainUntil <= job[attempt.id].at + Window
    /\ u[p].pc = "handoff" => job[attempt.id].state = "due"
    /\ u[p].pc = "phase" => job[attempt.id].state \notin {"none", "due"}

\* Every installer that is at work has activated its version.
Settled == ~overdue => \A i \in Ids : Pending(i) => job[i].state = "activated"

UpdaterOK(p) ==
    /\ LocksOK(p) /\ FoundOK(p) /\ DrainOK(p) /\ RecordOK(p)
    /\ u[p].pc \in {"policy", "prepare", "lock", "drain", "clear", "persist"} => Settled

JobOK(i) ==
    /\ job[i].state # "none" => job[i].version \in Versions
    /\ job[i].state \in {"activated", "undone"} => job[i].from \in Versions
    /\ job[i].state = "activated" =>
           active = job[i].version /\ (~overdue => job[i].from <= active)
    /\ result.id = i => job[i].state = "done"
    /\ Pending(i) /\ Expired(i) => overdue
    /\ Pending(i) /\ i # attempt.id /\ ~overdue => job[i].state = "activated"

\* install.lock: one installer works at a time.
InstallersExclude ==
    \A i, j \in Ids : {job[i].state, job[j].state} \subseteq {"installing", "activated"} => i = j

\* attempt.json is about the installer that was started last; until that has
\* activated its version, the program is not newer than what it replaces.
AttemptOK ==
    /\ attempt = NoAttempt => \A i \in Ids : job[i].state = "none"
    /\ attempt # NoAttempt =>
        /\ attempt.id \in Ids /\ attempt.source \in Versions /\ attempt.source <= attempt.version
        /\ job[attempt.id].state # "none"
        /\ job[attempt.id].version = attempt.version /\ job[attempt.id].at = attempt.at
        /\ job[attempt.id].state \in {"due", "queued", "installing"} =>
               attempt.version \in cache /\ (~overdue => active <= attempt.source)

BridgeOK ==
    /\ BridgeInv
    /\ ~remote => Work = {}
    /\ drainUntil <= clock + Window

\* A pause of admission belongs to an updater on its way, or to an installer.
PauseOK ==
    Draining /\ faults = 0 =>
        \/ \E p \in Updaters : u[p].drained
        \/ \E i \in Ids : ~native /\ job[i].state \notin {"none", "due"} /\ drainUntil <= job[i].at + Window

UpdatersOK == \A p \in Updaters : UpdaterOK(p)
JobsOK == (\A i \in Ids : JobOK(i)) /\ InstallersExclude /\ AttemptOK

UpdatesInv == UpdatesTypeOK /\ BridgeOK /\ UpdatersOK /\ JobsOK /\ PauseOK

-----------------------------------------------------------------------------
(* Updates: the Bridge, the locks and the history.                         *)

\* The history only grows, and knows of every installer that is late.
LEMMA HistoryFacts ==
    ASSUME UpdatesTypeOK, NoteOverdue
    PROVE  /\ overdue' \in BOOLEAN /\ (overdue => overdue')
           /\ \A i \in Ids : (Pending(i) /\ Expired(i))' => overdue'
BY DEF UpdatesTypeOK, NoteOverdue

\* An updater that does something has the apply lock, and is the only one.
LEMMA Alone ==
    ASSUME UpdatesInv, NEW p \in Updaters, u[p].pc # "idle"
    PROVE  /\ applyLock = p /\ \A q \in Updaters \ {p} : u[q] = Off
           /\ opLock = IF u[p].pc \in Inside THEN p ELSE Nobody
<1>1. \A q \in Updaters : UpdaterOK(q)
  BY DEF UpdatesInv, UpdatersOK
<1>2. applyLock = p
  BY <1>1 DEF UpdaterOK, LocksOK
<1>3. \A q \in Updaters \ {p} : u[q].pc = "idle" /\ u[q] = Off /\ opLock # q
  BY <1>1, <1>2 DEF UpdaterOK, LocksOK, Inside
<1>4. opLock \in Updaters \cup {Nobody}
  BY DEF UpdatesInv, UpdatesTypeOK
<1>5. u[p].pc \in Inside <=> opLock = p
  BY <1>1 DEF UpdaterOK, LocksOK
<1> QED BY <1>2, <1>3, <1>4, <1>5

\* Whoever stops leaves every updater at rest and every lock free.
LEMMA StopFrees ==
    ASSUME UpdatesInv, NEW p \in Updaters, u[p].pc # "idle", Stop(p)
    PROVE  /\ u' = [q \in Updaters |-> Off] /\ applyLock' = Nobody /\ opLock' = Nobody
<1>1. \A q \in Updaters \ {p} : u[q] = Off
  BY Alone
<1>2. u \in [Updaters -> {u[q] : q \in Updaters}]
  BY DEF UpdatesInv, UpdatesTypeOK
<1>3. u' = [q \in Updaters |-> Off]
  BY <1>1, <1>2 DEF Stop
<1>4. opLock' = Nobody
  BY Alone DEF Stop
<1> QED BY <1>3, <1>4 DEF Stop

\* An updater at rest has nothing to keep.
LEMMA IdleOK ==
    ASSUME NEW p \in Updaters, u'[p] = Off, applyLock' # p, opLock' # p
    PROVE  UpdaterOK(p)'
BY DEF Off, UpdaterOK, LocksOK, FoundOK, DrainOK, RecordOK, Inside, HandingOff

\* No updater is at work: nothing has to be kept for one.
LEMMA AllIdle ==
    ASSUME u' = [q \in Updaters |-> Off], applyLock' = Nobody, opLock' = Nobody
    PROVE  UpdatersOK'
<1> SUFFICES ASSUME NEW p \in Updaters PROVE UpdaterOK(p)'
  BY DEF UpdatersOK
<1> QED BY IdleOK, UpdatesAssumption

\* What the Bridge does in a step of the device is a step of the Bridge.
LEMMA BridgeSteps ==
    ASSUME UpdatesStep
    PROVE  \/ UNCHANGED <<bridgeVars, remote>>
           \/ UNCHANGED remote /\ ((\E automatic \in BOOLEAN : StartDrain(automatic)) \/ EndDrain \/ BridgeTick)
           \/ RestartBridge
           \/ UNCHANGED remote /\ remote /\ \E c \in Calls : Serve(c)
<1>1. ASSUME NEW p \in Updaters, UpdaterStep(p)
      PROVE  UNCHANGED remote /\ \/ UNCHANGED bridgeVars \/ EndDrain
                                 \/ \E automatic \in BOOLEAN : StartDrain(automatic)
  BY <1>1 DEF UpdaterStep, Begin, ChooseVersion, Prepare, EnterOperation, Deferred, Drain, DrainLost,
              ClearResult, PersistAttempt, Handoff, HandoffFails, HandedOff, Crash, Release, Automatic, deviceVars
<1>2. ASSUME NEW i \in Ids, InstallerStep(i)
      PROVE  UNCHANGED <<bridgeVars, remote>> \/ RestartBridge
  BY <1>2 DEF InstallerStep, TakeInstallLock, ActivateCandidate, RollBack, FinishJob, deviceVars
<1>3. ASSUME \/ \E stable \in Versions, auto \in Versions \cup {0} : SetPolicy(stable, auto)
             \/ PruneCache \/ SetAutomatic
      PROVE  UNCHANGED <<bridgeVars, remote>>
  BY <1>3 DEF SetPolicy, PruneCache, SetAutomatic, deviceVars
<1>4. PauseOrResume \/ BridgeCrash => RestartBridge
  BY DEF PauseOrResume, BridgeCrash
<1>5. BridgeWork => remote /\ UNCHANGED remote /\ \E c \in Calls : Serve(c)
  BY DEF BridgeWork, deviceVars
<1>6. Time => BridgeTick /\ UNCHANGED remote
  BY DEF Time, deviceVars
<1> QED BY <1>1, <1>2, <1>3, <1>4, <1>5, <1>6 DEF UpdatesStep

\* The Bridge keeps its invariant, and a paused device has no work.
LEMMA BridgeStays ==
    ASSUME UpdatesInv, UpdatesStep
    PROVE  BridgeOK' /\ [BridgeNext]_bridgeVars
<1> USE DEF UpdatesInv, BridgeOK
<1>0. clock \in Nat /\ drainUntil \in Nat /\ Window \in Nat
  BY BridgeAssumption DEF BridgeInv, BridgeTypeOK
<1>1. [BridgeNext]_bridgeVars
  BY BridgeSteps DEF BridgeNext, bridgeVars
<1>2. BridgeInv'
  BY <1>1, BridgeInvStep
<1>3. CASE UNCHANGED <<bridgeVars, remote>>
  BY <1>1, <1>2, <1>3 DEF bridgeVars, Work
<1>4. CASE UNCHANGED remote /\ ((\E automatic \in BOOLEAN : StartDrain(automatic)) \/ EndDrain \/ BridgeTick)
  BY <1>0, <1>1, <1>2, <1>4 DEF StartDrain, EndDrain, BridgeTick, Work
<1>5. CASE RestartBridge
  BY <1>0, <1>1, <1>2, <1>5 DEF RestartBridge, Work, NoCall
<1>6. CASE UNCHANGED remote /\ remote /\ \E c \in Calls : Serve(c)
  BY <1>0, <1>1, <1>2, <1>6 DEF Serve, Forward, Conclude, Close, Arrive
<1> QED BY <1>1, <1>3, <1>4, <1>5, <1>6, BridgeSteps

-----------------------------------------------------------------------------
(* The variables keep their types.                                         *)

\* Of the record of an installer and of an updater.
LEMMA JobFields ==
    ASSUME NEW x \in JobRecord, NEW from \in Versions, NEW version \in Versions \cup {0}, NEW at \in Nat,
           NEW s \in {"none", "due", "queued", "installing", "activated", "undone", "done"}
    PROVE  /\ [x EXCEPT !.state = s] \in JobRecord
           /\ [x EXCEPT !.state = s, !.from = from] \in JobRecord
           /\ [x EXCEPT !.state = s, !.version = version, !.at = at] \in JobRecord
BY DEF JobRecord
LEMMA UpdaterFields ==
    ASSUME NEW x \in UpdaterRecord, NEW version \in Versions \cup {0},
           NEW pc \in {"policy", "prepare", "lock", "drain", "clear", "persist", "handoff", "phase"}
    PROVE  /\ [x EXCEPT !.pc = pc] \in UpdaterRecord
           /\ [x EXCEPT !.pc = pc, !.version = version] \in UpdaterRecord
           /\ [x EXCEPT !.pc = pc, !.drained = TRUE] \in UpdaterRecord
BY DEF UpdaterRecord

\* Of applyUpdate.
LEMMA UpdaterTypes ==
    ASSUME UpdatesInv, UpdatesStep, NoteOverdue, NEW p \in Updaters, UpdaterStep(p)
    PROVE  UpdatesTypeOK'
<1> USE DEF UpdatesTypeOK
<1>0. BridgeTypeOK' /\ overdue' \in BOOLEAN /\ clock \in Nat /\ UpdatesTypeOK /\ 1 \in Versions
  BY BridgeStays, HistoryFacts, UpdatesAssumption DEF UpdatesInv, BridgeOK, BridgeInv, BridgeTypeOK
<1>1. Off \in UpdaterRecord
  BY DEF Off, Modes, UpdaterRecord
<1>2. u[p].pc # "idle" /\ Stop(p) => /\ u' \in [Updaters -> UpdaterRecord]
                                     /\ {applyLock', opLock'} \subseteq Updaters \cup {Nobody}
  BY <1>1, StopFrees
<1>3. ASSUME NEW mode \in Modes, Begin(p, mode) PROVE UpdatesTypeOK'
  <2>1. [Off EXCEPT !.pc = "policy", !.mode = mode, !.source = active] \in UpdaterRecord
    BY <1>0 DEF Off, UpdaterRecord
  <2> QED BY <1>0, <1>3, <2>1 DEF Begin, deviceVars, fileVars
<1>15. \A pc \in {"lock", "drain", "clear", "persist", "handoff", "phase"} :
          [u[p] EXCEPT !.pc = pc] \in UpdaterRecord
  BY <1>0, UpdaterFields
<1>4. CASE ChooseVersion(p)
  <2>1. ASSUME NEW version \in Versions \cup {0}
        PROVE  [u[p] EXCEPT !.pc = "prepare", !.version = version] \in UpdaterRecord
    BY <1>0, UpdaterFields
  <2>2. Promoted(u[p].mode) \in Versions \cup {0} /\ u[p].source \in Versions \cup {0}
    BY <1>0 DEF Promoted, UpdaterRecord
  <2>3. CASE UNCHANGED <<applyLock, opLock>> /\ \E version \in Versions \cup {0} :
               u' = [u EXCEPT ![p] = [@ EXCEPT !.pc = "prepare", !.version = version]]
    BY <1>0, <1>4, <2>1, <2>3 DEF ChooseVersion, deviceVars, fileVars
  <2>4. CASE u[p].pc # "idle" /\ Stop(p)
    BY <1>0, <1>2, <1>4, <2>4 DEF ChooseVersion, deviceVars, fileVars
  <2> QED BY <1>4, <2>2, <2>3, <2>4 DEF ChooseVersion, KeepLocks
<1>5. CASE Prepare(p)
  <2>1. u[p].version \in Versions
    BY <1>5 DEF Prepare, UpdatesInv, UpdatersOK, UpdaterOK, FoundOK
  <2> QED BY <1>0, <1>2, <1>15, <1>5, <2>1 DEF Prepare, Goto, KeepLocks, deviceVars
<1>6. CASE EnterOperation(p) \/ Deferred(p)
  BY <1>0, <1>2, <1>15, <1>6 DEF EnterOperation, Deferred, Goto, deviceVars, fileVars
<1>7. CASE Drain(p) \/ DrainLost(p)
  <2>1. [u[p] EXCEPT !.pc = "clear", !.drained = TRUE] \in UpdaterRecord
    BY <1>0, UpdaterFields
  <2> QED BY <1>0, <1>2, <1>7, <2>1, UpdatesAssumption DEF Drain, DrainLost, KeepLocks, deviceVars, fileVars
<1>8. CASE ClearResult(p)
  BY <1>0, <1>15, <1>8 DEF ClearResult, Goto, NoResult, deviceVars
<1>9. CASE PersistAttempt(p)
  <2>1. PICK i \in Ids :
           /\ attempt' = [id |-> i, version |-> u[p].version, source |-> u[p].source, at |-> clock]
           /\ job' = [job EXCEPT ![i] = [@ EXCEPT !.state = "due", !.version = u[p].version, !.at = clock]]
    BY <1>9 DEF PersistAttempt
  <2>2. u[p].version \in Versions \cup {0} /\ u[p].source \in Versions \cup {0}
    BY <1>0 DEF UpdaterRecord
  <2>3. job' \in [Ids -> JobRecord]
    <3>1. [job[i] EXCEPT !.state = "due", !.version = u[p].version, !.at = clock] \in JobRecord
      BY <1>0, <2>2, JobFields
    <3> QED BY <1>0, <2>1, <3>1
  <2> QED BY <1>0, <1>15, <1>9, <2>1, <2>2, <2>3 DEF PersistAttempt, Goto, deviceVars
<1>10. StartJob(p) => /\ job' \in [Ids -> JobRecord]
                      /\ result' \in [id : Ids \cup {0}, version : Versions \cup {0}]
  <2>1. \A i \in Ids : [job[i] EXCEPT !.state = "queued"] \in JobRecord
    BY <1>0, JobFields
  <2>3. StartJob(p) => job' \in [Ids -> JobRecord]
    <3>1. ASSUME NEW k, k \in Ids => job[k] \in JobRecord, job \in [Ids -> JobRecord]
          PROVE  [job EXCEPT ![k].state = "queued"] \in [Ids -> JobRecord]
      BY <2>1, <3>1
    <3>2. PICK k : k = attempt.id
      OBVIOUS
    <3>3. [job EXCEPT ![k].state = "queued"] \in [Ids -> JobRecord]
      BY <1>0, <3>1
    <3> QED BY <3>2, <3>3 DEF StartJob
  <2>4. NoResult \in [id : Ids \cup {0}, version : Versions \cup {0}]
    BY DEF NoResult
  <2> QED BY <1>0, <2>3, <2>4 DEF StartJob
<1>11. CASE Handoff(p)
  BY <1>0, <1>10, <1>11, <1>15 DEF Handoff, Goto, deviceVars
<1>12. CASE HandoffFails(p)
  BY <1>0, <1>2, <1>10, <1>12 DEF HandoffFails, deviceVars
<1>13. CASE HandedOff(p)
  BY <1>0, <1>2, <1>13 DEF HandedOff, deviceVars, fileVars
<1>14. CASE Crash(p)
  <2>1. u[p].pc # "idle"
    BY <1>14 DEF Crash, UpdatesInv, UpdatersOK, UpdaterOK, LocksOK
  <2> QED BY <1>0, <1>2, <1>14, <2>1, UpdatesAssumption DEF Crash, deviceVars, fileVars
<1> QED BY <1>3, <1>4, <1>5, <1>6, <1>7, <1>8, <1>9, <1>11, <1>12, <1>13, <1>14, <1>0
        DEF UpdaterStep

\* Of the installers and of everything else.
LEMMA TypesStay ==
    ASSUME UpdatesInv, UpdatesStep, NoteOverdue
    PROVE  UpdatesTypeOK'
<1> USE DEF UpdatesTypeOK
<1>0. BridgeTypeOK' /\ overdue' \in BOOLEAN /\ UpdatesTypeOK
  BY BridgeStays, HistoryFacts DEF UpdatesInv, BridgeOK, BridgeInv
<1>1. ASSUME NEW i \in Ids, InstallerStep(i) PROVE UpdatesTypeOK'
  <2>0. \A s \in {"installing", "undone", "done"} : [job[i] EXCEPT !.state = s] \in JobRecord
    BY <1>0, <1>1, JobFields
  <2>1. CASE TakeInstallLock(i)
    BY <1>0, <2>0, <2>1 DEF TakeInstallLock, Move, deviceVars
  <2>2. CASE ActivateCandidate(i)
    <3>1. job[i].version \in Versions
      BY <2>2 DEF ActivateCandidate, UpdatesInv, JobsOK, JobOK
    <3>2. [job[i] EXCEPT !.state = "activated", !.from = active] \in JobRecord
      BY <1>0, JobFields
    <3> QED BY <1>0, <2>2, <3>1, <3>2 DEF ActivateCandidate
  <2>3. CASE RollBack(i)
    <3>1. job[i].from \in Versions
      BY <2>3 DEF RollBack, Move, UpdatesInv, JobsOK, JobOK
    <3> QED BY <1>0, <2>0, <2>3, <3>1 DEF RollBack, Move
  <2>4. CASE FinishJob(i)
    <3>1. job[i].version \in Versions \cup {0}
      BY <1>0, <1>1 DEF JobRecord
    <3> QED BY <1>0, <1>1, <2>0, <2>4, <3>1 DEF FinishJob, deviceVars
  <2> QED BY <1>1, <2>1, <2>2, <2>3, <2>4 DEF InstallerStep
<1>2. ASSUME NEW stable \in Versions, NEW auto \in Versions \cup {0}, SetPolicy(stable, auto)
      PROVE  UpdatesTypeOK'
  BY <1>0, <1>2 DEF SetPolicy, fileVars
<1>3. CASE PruneCache \/ SetAutomatic \/ PauseOrResume
  BY <1>0, <1>3 DEF PruneCache, SetAutomatic, PauseOrResume, deviceVars, fileVars
<1>4. CASE BridgeWork \/ BridgeCrash \/ Time
  BY <1>0, <1>4, UpdatesAssumption DEF BridgeWork, BridgeCrash, Time, deviceVars, fileVars
<1> QED BY <1>1, <1>2, <1>3, <1>4, UpdaterTypes DEF UpdatesStep

-----------------------------------------------------------------------------
(* The files and the installers.                                           *)

\* Releases are numbers.
LEMMA VersionsAreNumbers == Versions \subseteq Int
<1>1. PICK n : Versions = 1 .. n
  BY UpdatesAssumption
<1> QED BY <1>1

\* A step that leaves the installers and the recorded attempt alone.
LEMMA JobsFrame ==
    ASSUME UpdatesInv, NoteOverdue, UNCHANGED <<job, active, attempt>>, result' \in {result, NoResult},
           attempt.version \in cache => attempt.version \in cache'
    PROVE  JobsOK'
<1>0. /\ overdue => overdue'
      /\ \A i \in Ids : (Pending(i) /\ Expired(i))' => overdue'
  BY HistoryFacts DEF UpdatesInv
<1>1. ASSUME NEW i \in Ids PROVE JobOK(i)'
  <2>1. JobOK(i)
    BY DEF UpdatesInv, JobsOK
  <2>2. result'.id = i => result.id = i
    BY DEF NoResult, Ids
  <2> QED BY <1>0, <2>1, <2>2 DEF JobOK, Pending
<1>2. InstallersExclude'
  BY DEF UpdatesInv, JobsOK, InstallersExclude
<1>3. AttemptOK'
  BY <1>0 DEF UpdatesInv, JobsOK, AttemptOK
<1> QED BY <1>1, <1>2, <1>3 DEF JobsOK

\* An attempt is recorded.
LEMMA PersistJobs ==
    ASSUME UpdatesInv, NoteOverdue, NEW p \in Updaters, PersistAttempt(p)
    PROVE  JobsOK'
<1>0. /\ overdue => overdue'
      /\ \A i \in Ids : (Pending(i) /\ Expired(i))' => overdue'
  BY HistoryFacts DEF UpdatesInv
<1>1. PICK i \in Ids :
         /\ job[i].state = "none"
         /\ attempt' = [id |-> i, version |-> u[p].version, source |-> u[p].source, at |-> clock]
         /\ job' = [job EXCEPT ![i] = [@ EXCEPT !.state = "due", !.version = u[p].version, !.at = clock]]
  <2>1. \A i \in Ids : i \in Int
    BY UpdatesAssumption DEF Ids
  <2>2. PICK i \in Ids :
           /\ NextId(i)
           /\ attempt' = [id |-> i, version |-> u[p].version, source |-> u[p].source, at |-> clock]
           /\ job' = [job EXCEPT ![i] = [@ EXCEPT !.state = "due", !.version = u[p].version, !.at = clock]]
    BY DEF PersistAttempt
  <2>3. job[i].state = "none"
    BY <2>1, <2>2 DEF NextId
  <2> QED BY <2>2, <2>3
<1>2. /\ u[p].version \in Versions /\ u[p].source \in Versions /\ u[p].source <= u[p].version
      /\ u[p].version \in cache /\ active = u[p].source /\ Settled
  <2>1. u[p].pc = "persist" /\ UpdaterOK(p)
    BY DEF PersistAttempt, UpdatesInv, UpdatersOK
  <2> QED BY <2>1 DEF UpdaterOK, FoundOK, Inside
<1>3. /\ job'[i].state = "due" /\ job'[i].version = u[p].version /\ job'[i].at = clock
      /\ \A j \in Ids \ {i} : job'[j] = job[j]
  BY <1>1 DEF UpdatesInv, UpdatesTypeOK, JobRecord
<1>4. UNCHANGED <<active, result, cache>>
  BY DEF PersistAttempt, deviceVars
<1>5. ASSUME NEW j \in Ids PROVE JobOK(j)'
  <2>1. JobOK(j)
    BY DEF UpdatesInv, JobsOK
  <2>2. CASE j = i
    BY <1>0, <1>1, <1>2, <1>3, <1>4, <2>1, <2>2 DEF JobOK, Pending
  <2>3. CASE j # i
    <3>1. ~overdue /\ Pending(j) => job[j].state = "activated"
      BY <1>2 DEF Settled
    <3> QED BY <1>0, <1>3, <1>4, <2>1, <2>3, <3>1 DEF JobOK, Pending
  <2> QED BY <2>2, <2>3
<1>6. InstallersExclude'
  BY <1>3 DEF UpdatesInv, JobsOK, InstallersExclude
<1>7. active' <= attempt'.source
  BY <1>1, <1>2, <1>4, VersionsAreNumbers
<1>8. AttemptOK'
  BY <1>1, <1>2, <1>3, <1>4, <1>7 DEF AttemptOK, NoAttempt, Ids
<1> QED BY <1>5, <1>6, <1>8 DEF JobsOK

\* The installer of the recorded attempt is started.
LEMMA StartJobs ==
    ASSUME UpdatesInv, NoteOverdue, NEW p \in Updaters, u[p].pc = "handoff", StartJob(p),
           UNCHANGED <<active, attempt, cache>>
    PROVE  JobsOK'
<1>0. /\ overdue => overdue'
      /\ \A i \in Ids : (Pending(i) /\ Expired(i))' => overdue'
  BY HistoryFacts DEF UpdatesInv
<1>1. AttemptOK /\ attempt # NoAttempt /\ job[attempt.id].state = "due"
  BY DEF UpdatesInv, JobsOK, UpdatersOK, UpdaterOK, RecordOK
<1>2. PICK i \in Ids : i = attempt.id
  BY <1>1 DEF AttemptOK
<1>3. /\ job'[i].state = "queued" /\ job'[i].version = job[i].version /\ job'[i].at = job[i].at
      /\ \A j \in Ids \ {i} : job'[j] = job[j]
  BY <1>2 DEF StartJob, UpdatesInv, UpdatesTypeOK, JobRecord
<1>4. ASSUME NEW j \in Ids PROVE JobOK(j)'
  <2>1. JobOK(j)
    BY DEF UpdatesInv, JobsOK
  <2>2. result'.id = j => result.id = j
    BY DEF StartJob, NoResult, Ids
  <2>3. CASE j = i
    BY <1>0, <1>1, <1>2, <1>3, <2>1, <2>2, <2>3 DEF JobOK, Pending
  <2>4. CASE j # i
    BY <1>0, <1>3, <2>1, <2>2, <2>4 DEF JobOK, Pending
  <2> QED BY <2>3, <2>4
<1>5. InstallersExclude'
  BY <1>3 DEF UpdatesInv, JobsOK, InstallersExclude
<1>6. AttemptOK'
  BY <1>0, <1>1, <1>2, <1>3 DEF AttemptOK
<1> QED BY <1>4, <1>5, <1>6 DEF JobsOK

\* An installer gets install.lock.
LEMMA TakeJobs ==
    ASSUME UpdatesInv, NoteOverdue, NEW i \in Ids, TakeInstallLock(i)
    PROVE  JobsOK'
<1>0. /\ overdue => overdue'
      /\ \A j \in Ids : (Pending(j) /\ Expired(j))' => overdue'
  BY HistoryFacts DEF UpdatesInv
<1>1. /\ job'[i].state = "installing" /\ job'[i].version = job[i].version /\ job'[i].at = job[i].at
      /\ \A j \in Ids \ {i} : job'[j] = job[j]
      /\ job[i].state = "queued"
  BY DEF TakeInstallLock, Move, UpdatesInv, UpdatesTypeOK, JobRecord
<1>2. UNCHANGED <<active, attempt, result, cache>>
  BY DEF TakeInstallLock, deviceVars
<1>3. ASSUME NEW j \in Ids PROVE JobOK(j)'
  <2>1. JobOK(j)
    BY DEF UpdatesInv, JobsOK
  <2>2. CASE j = i
    BY <1>0, <1>1, <1>2, <2>1, <2>2 DEF JobOK, Pending
  <2>3. CASE j # i
    BY <1>0, <1>1, <1>2, <2>1, <2>3 DEF JobOK, Pending
  <2> QED BY <2>2, <2>3
<1>4. InstallersExclude'
  BY <1>1 DEF TakeInstallLock, InstallersExclude
<1>5. AttemptOK'
  BY <1>0, <1>1, <1>2 DEF UpdatesInv, JobsOK, AttemptOK
<1> QED BY <1>3, <1>4, <1>5 DEF JobsOK

\* The candidate is that of the recorded attempt, and no older than the program.
LEMMA CandidateIsNewer ==
    ASSUME UpdatesInv, NEW i \in Ids, ActivateCandidate(i)
    PROVE  active' \in Versions /\ (~overdue => i = attempt.id /\ active <= active')
<1>1. job[i].state = "installing" /\ active' = job[i].version /\ active \in Versions
  BY DEF ActivateCandidate, UpdatesInv, UpdatesTypeOK
<1>2. AttemptOK /\ JobOK(i) /\ Pending(i)
  BY <1>1 DEF UpdatesInv, JobsOK, Pending
<1>3. active' \in Versions
  BY <1>1, <1>2 DEF JobOK
<1>4. ASSUME ~overdue PROVE i = attempt.id /\ active <= active'
  <2>1. i = attempt.id /\ attempt # NoAttempt
    BY <1>1, <1>2, <1>4 DEF JobOK, AttemptOK
  <2>2. /\ active <= attempt.source /\ attempt.source <= attempt.version
        /\ active' = attempt.version /\ attempt.source \in Versions
    BY <1>1, <1>2, <1>4, <2>1 DEF AttemptOK
  <2>3. active \in Int /\ attempt.source \in Int /\ active' \in Int
    BY <1>1, <1>3, <2>2, VersionsAreNumbers
  <2> QED BY <2>1, <2>2, <2>3
<1> QED BY <1>3, <1>4

\* The candidate becomes the program.
LEMMA ActivateJobs ==
    ASSUME UpdatesInv, NoteOverdue, NEW i \in Ids, ActivateCandidate(i)
    PROVE  JobsOK'
<1>0. /\ overdue => overdue'
      /\ \A j \in Ids : (Pending(j) /\ Expired(j))' => overdue'
  BY HistoryFacts DEF UpdatesInv
<1>1. /\ job'[i].state = "activated" /\ job'[i].version = job[i].version /\ job'[i].at = job[i].at
      /\ job'[i].from = active
      /\ \A j \in Ids \ {i} : job'[j] = job[j]
      /\ job[i].state = "installing" /\ active' = job[i].version
  BY DEF ActivateCandidate, UpdatesInv, UpdatesTypeOK, JobRecord
<1>2. UNCHANGED <<attempt, result, cache>> /\ active \in Versions
  BY DEF ActivateCandidate, UpdatesInv, UpdatesTypeOK
<1>3. AttemptOK /\ JobOK(i) /\ Pending(i)
  BY <1>1 DEF UpdatesInv, JobsOK, Pending
<1>4. ~overdue => i = attempt.id
  BY CandidateIsNewer
<1>5. ~overdue => active <= active'
  BY CandidateIsNewer
<1>6. ASSUME NEW j \in Ids PROVE JobOK(j)'
  <2>1. JobOK(j)
    BY DEF UpdatesInv, JobsOK
  <2>2. CASE j = i
    BY <1>0, <1>1, <1>2, <1>4, <1>5, <2>1, <2>2 DEF JobOK, Pending
  <2>3. CASE j # i
    <3>1. job[j].state # "activated"
      BY <1>1, <2>3 DEF UpdatesInv, JobsOK, InstallersExclude
    <3> QED BY <1>0, <1>1, <1>2, <2>1, <2>3, <3>1 DEF JobOK, Pending
  <2> QED BY <2>2, <2>3
<1>7. InstallersExclude'
  BY <1>1 DEF UpdatesInv, JobsOK, InstallersExclude
<1>8. AttemptOK'
  BY <1>0, <1>1, <1>2, <1>3, <1>4 DEF AttemptOK
<1> QED BY <1>6, <1>7, <1>8 DEF JobsOK

\* The installer undoes its activation.
LEMMA RollBackJobs ==
    ASSUME UpdatesInv, NoteOverdue, NEW i \in Ids, RollBack(i)
    PROVE  JobsOK'
<1>0. /\ overdue => overdue'
      /\ \A j \in Ids : (Pending(j) /\ Expired(j))' => overdue'
  BY HistoryFacts DEF UpdatesInv
<1>1. /\ job'[i].state = "undone" /\ job'[i].version = job[i].version /\ job'[i].at = job[i].at
      /\ job'[i].from = job[i].from
      /\ \A j \in Ids \ {i} : job'[j] = job[j]
      /\ job[i].state = "activated" /\ active' = job[i].from
  BY DEF RollBack, Move, UpdatesInv, UpdatesTypeOK, JobRecord
<1>2. UNCHANGED <<attempt, result, cache>> /\ active \in Versions
  BY DEF RollBack, UpdatesInv, UpdatesTypeOK
<1>3. AttemptOK /\ JobOK(i)
  BY <1>1 DEF UpdatesInv, JobsOK
<1>4. active' \in Versions /\ (~overdue => active' <= active)
  BY <1>1, <1>3 DEF JobOK
<1>5. ASSUME NEW j \in Ids PROVE JobOK(j)'
  <2>1. JobOK(j)
    BY DEF UpdatesInv, JobsOK
  <2>2. CASE j = i
    BY <1>0, <1>1, <1>2, <2>1, <2>2 DEF JobOK, Pending
  <2>3. CASE j # i
    <3>1. job[j].state # "activated"
      BY <1>1, <2>3 DEF UpdatesInv, JobsOK, InstallersExclude
    <3> QED BY <1>0, <1>1, <1>2, <2>1, <2>3, <3>1 DEF JobOK, Pending
  <2> QED BY <2>2, <2>3
<1>6. InstallersExclude'
  BY <1>1 DEF UpdatesInv, JobsOK, InstallersExclude
<1>7. AttemptOK'
  <2> SUFFICES ASSUME attempt' # NoAttempt, ~overdue', job'[attempt.id].state \in {"due", "queued", "installing"},
                      attempt.id # i
               PROVE  active' <= attempt.source
    BY <1>0, <1>1, <1>2, <1>3 DEF AttemptOK
  <2>1. active <= attempt.source /\ attempt.source \in Versions
    BY <1>0, <1>1, <1>2, <1>3 DEF AttemptOK
  <2>2. active' <= active
    BY <1>0, <1>4
  <2>3. active \in Int /\ active' \in Int /\ attempt.source \in Int
    BY <1>2, <1>4, <2>1, VersionsAreNumbers
  <2> QED BY <2>1, <2>2, <2>3
<1> QED BY <1>5, <1>6, <1>7 DEF JobsOK

\* The installer ends.
LEMMA FinishJobs ==
    ASSUME UpdatesInv, NoteOverdue, NEW i \in Ids, FinishJob(i)
    PROVE  JobsOK'
<1>0. /\ overdue => overdue'
      /\ \A j \in Ids : (Pending(j) /\ Expired(j))' => overdue'
  BY HistoryFacts DEF UpdatesInv
<1>1. /\ job'[i].state = "done" /\ job'[i].version = job[i].version /\ job'[i].at = job[i].at
      /\ \A j \in Ids \ {i} : job'[j] = job[j]
      /\ job[i].state \in {"queued", "installing", "activated", "undone"}
  BY DEF FinishJob, UpdatesInv, UpdatesTypeOK, JobRecord
<1>2. UNCHANGED <<active, attempt, cache>> /\ (result'.id # i => result' = result)
  BY DEF FinishJob, deviceVars
<1>3. ASSUME NEW j \in Ids PROVE JobOK(j)'
  <2>1. JobOK(j)
    BY DEF UpdatesInv, JobsOK
  <2>2. CASE j = i
    BY <1>0, <1>1, <1>2, <2>1, <2>2 DEF JobOK, Pending
  <2>3. CASE j # i
    BY <1>0, <1>1, <1>2, <2>1, <2>3 DEF JobOK, Pending
  <2> QED BY <2>2, <2>3
<1>4. InstallersExclude'
  BY <1>1 DEF UpdatesInv, JobsOK, InstallersExclude
<1>5. AttemptOK'
  BY <1>0, <1>1, <1>2 DEF UpdatesInv, JobsOK, AttemptOK
<1> QED BY <1>3, <1>4, <1>5 DEF JobsOK

\* Every step.
LEMMA JobsStay ==
    ASSUME UpdatesInv, UpdatesStep, NoteOverdue
    PROVE  JobsOK'
<1>1. ASSUME NEW p \in Updaters, UpdaterStep(p) PROVE JobsOK'
  <2>1. CASE PersistAttempt(p)
    BY <2>1, PersistJobs
  <2>2. CASE u[p].pc = "handoff" /\ StartJob(p) /\ UNCHANGED <<active, attempt, cache>>
    BY <2>2, StartJobs
  <2>3. CASE UNCHANGED <<job, active, attempt>> /\ result' \in {result, NoResult} /\ cache \subseteq cache'
    BY <2>3, JobsFrame
  <2> QED
    BY <1>1, <2>1, <2>2, <2>3
    DEF UpdaterStep, Begin, ChooseVersion, Prepare, EnterOperation, Deferred, Drain, DrainLost,
        ClearResult, Handoff, HandoffFails, HandedOff, Crash, deviceVars, fileVars
<1>2. ASSUME NEW i \in Ids, InstallerStep(i) PROVE JobsOK'
  BY <1>2, TakeJobs, ActivateJobs, RollBackJobs, FinishJobs DEF InstallerStep
<1>3. CASE PruneCache
  BY <1>3, JobsFrame DEF PruneCache, deviceVars
<1>4. ASSUME \/ \E stable \in Versions, auto \in Versions \cup {0} : SetPolicy(stable, auto)
             \/ SetAutomatic \/ PauseOrResume \/ BridgeWork \/ BridgeCrash \/ Time
      PROVE  JobsOK'
  <2>1. UNCHANGED <<job, active, attempt, result, cache>>
    BY <1>4 DEF SetPolicy, SetAutomatic, PauseOrResume, BridgeWork, BridgeCrash, Time, deviceVars, fileVars
  <2> QED BY <2>1, JobsFrame
<1> QED BY <1>1, <1>2, <1>3, <1>4 DEF UpdatesStep

-----------------------------------------------------------------------------
(* The updaters.                                                           *)

\* The one updater that goes on keeps what it has, if that is what it needs.
LEMMA GoesOn ==
    ASSUME UpdatesInv, NEW p \in Updaters, NEW y, u' = [u EXCEPT ![p] = y], y.pc # "idle",
           \A q \in Updaters \ {p} : u[q] = Off,
           applyLock' = p, opLock' = IF y.pc \in Inside THEN p ELSE Nobody,
           (FoundOK(p) /\ DrainOK(p) /\ RecordOK(p))',
           y.pc \in {"policy", "prepare", "lock", "drain", "clear", "persist"} => Settled'
    PROVE  UpdatersOK'
<1>1. u'[p] = y /\ \A q \in Updaters \ {p} : u'[q] = Off
  BY DEF UpdatesInv, UpdatesTypeOK
<1>2. UpdaterOK(p)'
  BY <1>1, UpdatesAssumption DEF UpdaterOK, LocksOK
<1>3. ASSUME NEW q \in Updaters \ {p} PROVE UpdaterOK(q)'
  BY <1>1, IdleOK, UpdatesAssumption
<1> QED BY <1>2, <1>3 DEF UpdatersOK

\* Installers that have activated their version have done so whatever the
\* updaters do next.
LEMMA SettledFrame ==
    ASSUME UpdatesInv, NoteOverdue, Settled, UNCHANGED job
    PROVE  Settled'
BY HistoryFacts DEF UpdatesInv, Settled, Pending

\* An updater begins only when the recorded attempt is over.
LEMMA BeginOK ==
    ASSUME UpdatesInv, NoteOverdue, NEW p \in Updaters, NEW mode \in Modes, Begin(p, mode)
    PROVE  UpdatersOK'
<1>0. /\ \A q \in Updaters : UpdaterOK(q)
      /\ \A i \in Ids : JobOK(i)
      /\ AttemptOK /\ active \in Versions /\ u[p].pc = "idle"
  BY DEF UpdatesInv, UpdatersOK, JobsOK, UpdatesTypeOK, Begin, Off
<1>1. Settled
  <2> SUFFICES ASSUME ~overdue, NEW i \in Ids, Pending(i) PROVE job[i].state = "activated"
    BY DEF Settled
  <2>1. JobOK(i) /\ attempt # NoAttempt /\ (i # attempt.id => job[i].state = "activated")
    BY <1>0 DEF AttemptOK, JobOK, Pending
  <2> SUFFICES ASSUME i = attempt.id, job[i].state \in {"queued", "installing"} PROVE FALSE
    BY <2>1 DEF Pending
  <2>2. CASE OwnResult
    BY <2>1, <2>2 DEF OwnResult, JobOK
  <2>3. CASE attempt.version = active /\ attempt.source # active
    <3>1. active <= attempt.source /\ attempt.source <= active /\ attempt.source \in Versions
      BY <1>0, <2>1, <2>3 DEF AttemptOK
    <3>2. active \in Int /\ attempt.source \in Int
      BY <1>0, <3>1, VersionsAreNumbers
    <3> QED BY <2>3, <3>1, <3>2
  <2>4. CASE clock - attempt.at >= Guard
    BY <1>0, <2>1, <2>4 DEF AttemptOK, JobOK, Pending, Expired
  <2> QED BY <2>1, <2>2, <2>3, <2>4 DEF Begin, Resolved
<1>2. Settled'
  BY <1>1, SettledFrame DEF Begin, fileVars
<1>3. \A q \in Updaters : u[q] = Off /\ opLock # q
  BY <1>0, UpdatesAssumption DEF Begin, UpdaterOK, LocksOK, Inside
<1>4. opLock' = Nobody /\ applyLock' = p
  BY <1>3 DEF Begin, UpdatesInv, UpdatesTypeOK
<1>5. PICK y : y = [Off EXCEPT !.pc = "policy", !.mode = mode, !.source = active]
  OBVIOUS
<1>6. u' = [u EXCEPT ![p] = y] /\ u'[p] = y
  BY <1>5 DEF Begin, UpdatesInv, UpdatesTypeOK
<1>7. y.pc = "policy" /\ y.source = active /\ y.drained = FALSE
  BY <1>5 DEF Off
<1>8. (FoundOK(p) /\ DrainOK(p) /\ RecordOK(p))'
  BY <1>0, <1>6, <1>7 DEF FoundOK, DrainOK, RecordOK, Inside, HandingOff
<1> QED BY <1>2, <1>3, <1>4, <1>6, <1>7, <1>8, GoesOn DEF Inside

\* It chooses a version, prepares its package and gets the operation lock.
LEMMA PreparationOK ==
    ASSUME UpdatesInv, NoteOverdue, NEW p \in Updaters, ChooseVersion(p) \/ Prepare(p) \/ EnterOperation(p)
    PROVE  UpdatersOK'
<1>0. u[p].pc \in {"policy", "prepare", "lock"} /\ UpdaterOK(p) /\ Settled /\ u[p] \in UpdaterRecord
  BY DEF ChooseVersion, Prepare, EnterOperation, UpdatesInv, UpdatersOK, UpdaterOK, UpdatesTypeOK
<1>1. CASE Stop(p)
  BY <1>0, <1>1, StopFrees, AllIdle
<1>2. applyLock = p /\ opLock = Nobody /\ \A q \in Updaters \ {p} : u[q] = Off
  BY <1>0, Alone DEF Inside
<1>3. Settled'
  BY <1>0, SettledFrame DEF ChooseVersion, Prepare, EnterOperation, fileVars
<1>4. u[p].source \in Versions /\ u[p].drained = FALSE
  BY <1>0 DEF UpdaterOK, FoundOK, DrainOK, HandingOff, UpdaterRecord
<1>5. CASE ChooseVersion(p) /\ ~Stop(p)
  <2>1. PICK v : /\ v = (IF u[p].mode = "repair" THEN u[p].source ELSE Promoted(u[p].mode))
                 /\ u[p].mode = "repair" \/ v > u[p].source
                 /\ u' = [u EXCEPT ![p] = [@ EXCEPT !.pc = "prepare", !.version = v]]
                 /\ UNCHANGED <<applyLock, opLock>>
    BY <1>5 DEF ChooseVersion, KeepLocks
  <2>2. v \in Versions \cup {0} /\ u[p].source \in 1 .. Cardinality(Versions)
    BY <1>4, <2>1, UpdatesAssumption DEF Promoted, UpdatesInv, UpdatesTypeOK
  <2>3. v \in Versions /\ u[p].source <= v
    BY <2>1, <2>2, VersionsAreNumbers
  <2>4. PICK y : y = [u[p] EXCEPT !.pc = "prepare", !.version = v]
    OBVIOUS
  <2>5. u' = [u EXCEPT ![p] = y] /\ u'[p] = y /\ y.pc = "prepare" /\ y.source = u[p].source
        /\ y.version = v /\ y.drained = FALSE
    BY <1>0, <1>4, <2>1, <2>4 DEF UpdaterRecord, UpdatesInv, UpdatesTypeOK
  <2>6. (FoundOK(p) /\ DrainOK(p) /\ RecordOK(p))'
    BY <1>4, <2>3, <2>5 DEF FoundOK, DrainOK, RecordOK, Inside, HandingOff
  <2> QED BY <1>2, <1>3, <2>1, <2>5, <2>6, GoesOn DEF Inside
<1>6. CASE (Prepare(p) \/ EnterOperation(p)) /\ ~Stop(p)
  <2>1. PICK pc \in {"lock", "drain", "clear"} :
           /\ u' = [u EXCEPT ![p].pc = pc]
           /\ applyLock' = p /\ opLock' = IF pc = "lock" THEN Nobody ELSE p
           /\ pc \in {"drain", "clear"} => active = u[p].source
           /\ pc = "clear" => ~remote
           /\ u[p].version \in cache'
           /\ UNCHANGED <<active, remote>>
    <3>1. u[p].pc = "lock" => u[p].version \in cache
      BY <1>0 DEF UpdaterOK, FoundOK
    <3> QED BY <1>2, <1>6, <3>1 DEF Prepare, EnterOperation, Goto, KeepLocks, deviceVars, fileVars
  <2>2. PICK y : y = [u[p] EXCEPT !.pc = pc]
    OBVIOUS
  <2>3. u' = [u EXCEPT ![p] = y] /\ u'[p] = y /\ y.pc = pc /\ y.source = u[p].source
        /\ y.version = u[p].version /\ y.drained = FALSE
    BY <1>0, <1>4, <2>1, <2>2 DEF UpdaterRecord, UpdatesInv, UpdatesTypeOK
  <2>4. u[p].version \in Versions /\ u[p].source <= u[p].version
    BY <1>0, <1>6 DEF UpdaterOK, FoundOK, Prepare, EnterOperation
  <2>5. (FoundOK(p) /\ DrainOK(p) /\ RecordOK(p))'
    BY <1>4, <2>1, <2>3, <2>4 DEF FoundOK, DrainOK, RecordOK, Inside, HandingOff
  <2> QED BY <1>2, <1>3, <2>1, <2>3, <2>5, GoesOn DEF Inside
<1> QED BY <1>1, <1>5, <1>6

\* It pauses admission and clears the result of an earlier installer.
LEMMA DrainedOK ==
    ASSUME UpdatesInv, NoteOverdue, NEW p \in Updaters, Drain(p) \/ ClearResult(p)
    PROVE  UpdatersOK'
<1>0. u[p].pc \in {"drain", "clear"} /\ UpdaterOK(p) /\ Settled /\ u[p] \in UpdaterRecord
  BY DEF Drain, ClearResult, UpdatesInv, UpdatersOK, UpdaterOK, UpdatesTypeOK
<1>1. CASE Stop(p)
  BY <1>0, <1>1, StopFrees, AllIdle
<1>2. applyLock = p /\ opLock = p /\ \A q \in Updaters \ {p} : u[q] = Off
  BY <1>0, Alone DEF Inside
<1>3. Settled'
  BY <1>0, SettledFrame DEF Drain, ClearResult, fileVars
<1>4. /\ u[p].source \in Versions /\ u[p].version \in Versions /\ u[p].source <= u[p].version
      /\ u[p].version \in cache /\ active = u[p].source
  BY <1>0 DEF UpdaterOK, FoundOK, Inside
<1>5. CASE Drain(p) /\ ~Stop(p)
  <2>1. /\ u' = [u EXCEPT ![p] = [@ EXCEPT !.pc = "clear", !.drained = TRUE]]
        /\ UNCHANGED <<applyLock, opLock, active, cache, remote>> /\ drainUntil' = clock + Window
    BY <1>5 DEF Drain, StartDrain, KeepLocks, deviceVars, fileVars
  <2>2. PICK y : y = [u[p] EXCEPT !.pc = "clear", !.drained = TRUE]
    OBVIOUS
  <2>3. u' = [u EXCEPT ![p] = y] /\ u'[p] = y /\ y.pc = "clear" /\ y.source = u[p].source
        /\ y.version = u[p].version /\ y.drained = TRUE
    BY <1>0, <2>1, <2>2 DEF UpdaterRecord, UpdatesInv, UpdatesTypeOK
  <2>4. drainUntil' > 0
    BY <2>1, BridgeAssumption DEF UpdatesInv, UpdatesTypeOK, BridgeTypeOK
  <2>5. (FoundOK(p) /\ DrainOK(p) /\ RecordOK(p))'
    BY <1>4, <2>1, <2>3, <2>4 DEF FoundOK, DrainOK, RecordOK, Inside, HandingOff
  <2> QED BY <1>2, <1>3, <2>1, <2>3, <2>5, GoesOn DEF Inside
<1>6. CASE ClearResult(p)
  <2>1. u' = [u EXCEPT ![p].pc = "persist"] /\ u[p].pc = "clear"
        /\ UNCHANGED <<applyLock, opLock, active, cache, remote, drainUntil, faults>>
    BY <1>6 DEF ClearResult, Goto, deviceVars, bridgeVars
  <2>2. PICK y : y = [u[p] EXCEPT !.pc = "persist"]
    OBVIOUS
  <2>3. u' = [u EXCEPT ![p] = y] /\ u'[p] = y /\ y.pc = "persist" /\ y.source = u[p].source
        /\ y.version = u[p].version /\ y.drained = u[p].drained
    BY <1>0, <2>1, <2>2 DEF UpdaterRecord, UpdatesInv, UpdatesTypeOK
  <2>4. (u[p].drained \/ ~remote) /\ (u[p].drained /\ faults = 0 => drainUntil > 0)
    BY <1>0, <2>1 DEF UpdaterOK, DrainOK, HandingOff
  <2>5. (FoundOK(p) /\ DrainOK(p) /\ RecordOK(p))'
    BY <1>4, <2>1, <2>3, <2>4 DEF FoundOK, DrainOK, RecordOK, Inside, HandingOff
  <2> QED BY <1>2, <1>3, <2>1, <2>3, <2>5, GoesOn DEF Inside
<1> QED BY <1>1, <1>5, <1>6

\* It records the attempt, and then starts the installer.
LEMMA RecordedOK ==
    ASSUME UpdatesInv, NoteOverdue, NEW p \in Updaters, PersistAttempt(p) \/ Handoff(p)
    PROVE  UpdatersOK'
<1>0. u[p].pc \in {"persist", "handoff"} /\ UpdaterOK(p) /\ u[p] \in UpdaterRecord
  BY DEF PersistAttempt, Handoff, UpdatesInv, UpdatersOK, UpdatesTypeOK
<1>1. applyLock = p /\ opLock = p /\ \A q \in Updaters \ {p} : u[q] = Off
  BY <1>0, Alone DEF Inside
<1>2. UNCHANGED <<applyLock, opLock, active, cache, remote, drainUntil, faults>>
  BY DEF PersistAttempt, Handoff, deviceVars, bridgeVars
<1>3. PICK pc \in {"handoff", "phase"} :
         /\ u' = [u EXCEPT ![p].pc = pc]
         /\ pc = "handoff" <=> PersistAttempt(p)
         /\ pc = "phase" <=> Handoff(p)
  BY DEF PersistAttempt, Handoff, Goto
<1>4. PICK y : y = [u[p] EXCEPT !.pc = pc]
  OBVIOUS
<1>5. u' = [u EXCEPT ![p] = y] /\ u'[p] = y /\ y.pc = pc /\ y.source = u[p].source /\ y.drained = u[p].drained
  BY <1>0, <1>3, <1>4 DEF UpdaterRecord, UpdatesInv, UpdatesTypeOK
<1>6. /\ u[p].source \in Versions /\ (u[p].drained \/ ~remote)
      /\ u[p].drained /\ faults = 0 => drainUntil > 0
  BY <1>0 DEF UpdaterOK, FoundOK, DrainOK, HandingOff, Inside
<1>7. (FoundOK(p) /\ DrainOK(p))'
  BY <1>2, <1>3, <1>5, <1>6 DEF FoundOK, DrainOK, Inside, HandingOff
<1>8. RecordOK(p)'
  <2>1. CASE PersistAttempt(p)
    <3>1. PICK i \in Ids :
             /\ attempt' = [id |-> i, version |-> u[p].version, source |-> u[p].source, at |-> clock]
             /\ job' = [job EXCEPT ![i] = [@ EXCEPT !.state = "due", !.version = u[p].version, !.at = clock]]
      BY <2>1 DEF PersistAttempt
    <3>2. attempt'.id = i /\ attempt' # NoAttempt
      BY <3>1 DEF NoAttempt, Ids
    <3>3. job'[i].state = "due" /\ job'[i].at = clock
      BY <3>1 DEF UpdatesInv, UpdatesTypeOK, JobRecord
    <3>4. y.pc = "handoff" /\ drainUntil' <= clock + Window
      BY <1>2, <1>3, <1>5, <2>1 DEF UpdatesInv, BridgeOK, PersistAttempt, Handoff
    <3> QED BY <1>5, <3>2, <3>3, <3>4 DEF RecordOK
  <2>2. CASE Handoff(p)
    <3>1. attempt # NoAttempt /\ drainUntil <= job[attempt.id].at + Window /\ attempt.id \in Ids
      BY <1>0, <2>2 DEF UpdaterOK, RecordOK, UpdatesInv, JobsOK, AttemptOK, Handoff
    <3>2. job'[attempt.id].state = "queued" /\ job'[attempt.id].at = job[attempt.id].at /\ UNCHANGED attempt
      BY <2>2, <3>1 DEF Handoff, StartJob, UpdatesInv, UpdatesTypeOK, JobRecord
    <3>3. y.pc = "phase"
      BY <1>3, <1>5, <2>2
    <3> QED BY <1>2, <1>5, <3>1, <3>2, <3>3 DEF RecordOK
  <2> QED BY <2>1, <2>2
<1> QED BY <1>1, <1>2, <1>3, <1>5, <1>7, <1>8, GoesOn DEF Inside

\* A step of applyUpdate.
LEMMA UpdaterMoves ==
    ASSUME UpdatesInv, NoteOverdue, NEW p \in Updaters, UpdaterStep(p)
    PROVE  UpdatersOK'
<1>1. CASE Deferred(p) \/ DrainLost(p) \/ HandoffFails(p) \/ HandedOff(p) \/ Crash(p)
  <2>1. u[p].pc # "idle" /\ Stop(p)
    BY <1>1 DEF Deferred, DrainLost, HandoffFails, HandedOff, Crash, UpdatesInv, UpdatersOK, UpdaterOK, LocksOK
  <2> QED BY <2>1, StopFrees, AllIdle
<1> QED BY <1>1, BeginOK, PreparationOK, DrainedOK, RecordedOK DEF UpdaterStep

\* What else happens does not concern an updater: who needs the program, the
\* remote work and its own installer to stay as they are has the operation lock.
LEMMA BystanderOK ==
    ASSUME UpdatesInv, NEW p \in Updaters, UNCHANGED <<u, applyLock, opLock, attempt>>,
           faults \in Nat, faults' \in Nat, faults <= faults', applyLock # Nobody => cache \subseteq cache',
           opLock # Nobody => UNCHANGED <<active, remote>> /\ (UNCHANGED drainUntil \/ (drainUntil' = 0 /\ faults' > 0)),
           \A i \in Ids : /\ job'[i].at = job[i].at
                          /\ job'[i].state = job[i].state \/ {job[i].state, job'[i].state} \cap {"none", "due"} = {},
           Settled => Settled'
    PROVE  UpdaterOK(p)'
<1>0. UpdaterOK(p) /\ applyLock \in Updaters \cup {Nobody} /\ opLock \in Updaters \cup {Nobody} /\ Nobody \notin Updaters
  BY UpdatesAssumption DEF UpdatesInv, UpdatersOK, UpdatesTypeOK
<1>1. LocksOK(p)'
  BY <1>0 DEF UpdaterOK, LocksOK
<1>2. FoundOK(p)'
  <2>1. u[p].pc # "idle" => cache \subseteq cache'
    BY <1>0 DEF UpdaterOK, LocksOK
  <2>2. u[p].pc \in Inside => UNCHANGED active
    BY <1>0 DEF UpdaterOK, LocksOK
  <2> QED BY <1>0, <2>1, <2>2 DEF UpdaterOK, FoundOK, Inside
<1>3. DrainOK(p)' /\ RecordOK(p)'
  <2>1. CASE u[p].pc \notin Inside
    BY <1>0, <2>1 DEF UpdaterOK, DrainOK, RecordOK, Inside, HandingOff
  <2>2. CASE u[p].pc \in Inside
    <3>1. UNCHANGED remote /\ (UNCHANGED drainUntil \/ (drainUntil' = 0 /\ faults' > 0))
      BY <1>0, <2>2 DEF UpdaterOK, LocksOK
    <3>2. faults' = 0 => faults = 0
      OBVIOUS
    <3>3. DrainOK(p)'
      BY <1>0, <3>1, <3>2 DEF UpdaterOK, DrainOK
    <3>4. ASSUME u[p].pc \in {"handoff", "phase"} PROVE RecordOK(p)'
      <4>1. /\ attempt # NoAttempt /\ drainUntil <= job[attempt.id].at + Window /\ attempt.id \in Ids
            /\ job[attempt.id].at \in Nat /\ Window \in Nat
        BY <1>0, <3>4, BridgeAssumption
        DEF UpdaterOK, RecordOK, UpdatesInv, JobsOK, AttemptOK, UpdatesTypeOK, JobRecord
      <4>2. drainUntil' <= job[attempt.id].at + Window
        BY <3>1, <4>1
      <4>3. job'[attempt.id].at = job[attempt.id].at
        BY <4>1
      <4>4. u[p].pc = "handoff" => job'[attempt.id].state = "due"
        BY <1>0, <4>1 DEF UpdaterOK, RecordOK
      <4>5. u[p].pc = "phase" => job'[attempt.id].state \notin {"none", "due"}
        BY <1>0, <4>1 DEF UpdaterOK, RecordOK
      <4> QED BY <4>1, <4>2, <4>3, <4>4, <4>5 DEF RecordOK
    <3> QED BY <3>3, <3>4 DEF RecordOK
  <2> QED BY <2>1, <2>2
<1> QED BY <1>0, <1>1, <1>2, <1>3 DEF UpdaterOK

\* An installer that takes its lock or activates its version, or ends, leaves
\* those settled that were.
LEMMA InstallerSettled ==
    ASSUME UpdatesInv, NoteOverdue, NEW i \in Ids, InstallerStep(i), Settled
    PROVE  Settled'
<1>0. (overdue => overdue') /\ job \in [Ids -> JobRecord]
  BY HistoryFacts DEF UpdatesInv, UpdatesTypeOK
<1>1. /\ \A j \in Ids \ {i} : job'[j] = job[j]
      /\ \/ job[i].state \in {"queued", "installing"}
         \/ job'[i].state \in {"undone", "done"}
  BY <1>0 DEF InstallerStep, TakeInstallLock, ActivateCandidate, RollBack, FinishJob, Move, JobRecord
<1>2. CASE job[i].state \in {"queued", "installing"}
  <2>1. overdue
    BY <1>2 DEF Settled, Pending
  <2> QED BY <1>0, <2>1 DEF Settled
<1>3. CASE job'[i].state \in {"undone", "done"}
  BY <1>0, <1>1, <1>3 DEF Settled, Pending
<1> QED BY <1>1, <1>2, <1>3

\* Every step.
LEMMA UpdatersStay ==
    ASSUME UpdatesInv, UpdatesStep, NoteOverdue
    PROVE  UpdatersOK'
<1>0. /\ faults \in Nat /\ faults' \in Nat /\ job \in [Ids -> JobRecord]
      /\ MaxFaults \in Nat
  BY TypesStay, UpdatesAssumption DEF UpdatesInv, UpdatesTypeOK
<1>1. ASSUME NEW i \in Ids, InstallerStep(i) PROVE UpdatersOK'
  <2>1. UNCHANGED <<u, applyLock, opLock, attempt, faults, cache>>
    BY <1>1 DEF InstallerStep, TakeInstallLock, ActivateCandidate, RollBack, FinishJob, deviceVars
  <2>2. opLock # Nobody => UNCHANGED <<active, remote, drainUntil>>
    BY <1>1 DEF InstallerStep, TakeInstallLock, ActivateCandidate, RollBack, FinishJob, deviceVars, bridgeVars
  <2>3. \A j \in Ids : /\ job'[j].at = job[j].at
                       /\ job'[j].state = job[j].state \/ {job[j].state, job'[j].state} \cap {"none", "due"} = {}
    <3>1. \A j \in Ids \ {i} : job'[j] = job[j]
      BY <1>0, <1>1 DEF InstallerStep, TakeInstallLock, ActivateCandidate, RollBack, FinishJob, Move
    <3>2. job'[i].at = job[i].at
      BY <1>0, <1>1 DEF InstallerStep, TakeInstallLock, ActivateCandidate, RollBack, FinishJob, Move, JobRecord
    <3>3. job[i].state \notin {"none", "due"} /\ job'[i].state \notin {"none", "due"}
      BY <1>0, <1>1 DEF InstallerStep, TakeInstallLock, ActivateCandidate, RollBack, FinishJob, Move, JobRecord
    <3> QED BY <3>1, <3>2, <3>3
  <2>4. Settled => Settled'
    BY <1>1, InstallerSettled
  <2>5. \A p \in Updaters : UpdaterOK(p)'
    BY <1>0, <2>1, <2>2, <2>3, <2>4, BystanderOK
  <2> QED BY <2>5 DEF UpdatersOK
<1>2. ASSUME \/ \E stable \in Versions, auto \in Versions \cup {0} : SetPolicy(stable, auto)
             \/ PruneCache \/ SetAutomatic \/ PauseOrResume \/ BridgeWork \/ BridgeCrash \/ Time
      PROVE  UpdatersOK'
  <2>1. UNCHANGED <<u, applyLock, opLock, attempt, job>>
    BY <1>2 DEF SetPolicy, PruneCache, SetAutomatic, PauseOrResume, BridgeWork, BridgeCrash, Time, fileVars
  <2>2. /\ faults <= faults' /\ (applyLock # Nobody => cache \subseteq cache')
        /\ opLock # Nobody => /\ UNCHANGED <<active, remote>>
                              /\ UNCHANGED drainUntil \/ (drainUntil' = 0 /\ faults' > 0)
    BY <1>0, <1>2 DEF SetPolicy, PruneCache, SetAutomatic, PauseOrResume, BridgeWork, BridgeCrash, Time, fileVars,
        deviceVars, bridgeVars, RestartBridge, BridgeTick, Serve, Arrive, Forward, Conclude, Close
  <2>3. Settled => Settled'
    BY <2>1, SettledFrame
  <2>4. \A p \in Updaters : UpdaterOK(p)'
    BY <1>0, <2>1, <2>2, <2>3, BystanderOK
  <2> QED BY <2>4 DEF UpdatersOK
<1> QED BY <1>1, <1>2, UpdaterMoves DEF UpdatesStep

-----------------------------------------------------------------------------
(* Paused admission.                                                       *)

\* The pause goes on as before, or is over.
LEMMA PauseFrame ==
    ASSUME UpdatesInv, native' = native, clock' \in Nat, clock <= clock', faults' = 0 => faults = 0,
           drainUntil' = drainUntil \/ drainUntil' = 0,
           \A i \in Ids : job[i].state \notin {"none", "due"} =>
                              job'[i].state \notin {"none", "due"} /\ job'[i].at = job[i].at,
           (\E p \in Updaters : u[p].drained) => drainUntil' = 0 \/ \E p \in Updaters : u'[p].drained
    PROVE  PauseOK'
<1> SUFFICES ASSUME Draining', faults' = 0
             PROVE  \/ \E p \in Updaters : u'[p].drained
                    \/ \E i \in Ids : /\ ~native /\ job'[i].state \notin {"none", "due"}
                                      /\ drainUntil' <= job'[i].at + Window
  BY DEF PauseOK
<1>1. clock \in Nat /\ drainUntil' = drainUntil /\ Draining /\ drainUntil' # 0
  BY DEF Draining, UpdatesInv, UpdatesTypeOK, BridgeTypeOK
<1>2. CASE \E p \in Updaters : u[p].drained
  BY <1>1, <1>2
<1>3. CASE \E i \in Ids : ~native /\ job[i].state \notin {"none", "due"} /\ drainUntil <= job[i].at + Window
  <2>1. PICK i \in Ids : ~native /\ job[i].state \notin {"none", "due"} /\ drainUntil <= job[i].at + Window
    BY <1>3
  <2>2. job'[i].state \notin {"none", "due"} /\ job'[i].at = job[i].at
    BY <2>1
  <2> QED BY <1>1, <2>1, <2>2
<1> QED BY <1>1, <1>2, <1>3 DEF UpdatesInv, PauseOK

\* Of an updater.
LEMMA UpdaterPauses ==
    ASSUME UpdatesInv, UpdatesStep, NoteOverdue, NEW p \in Updaters, UpdaterStep(p)
    PROVE  PauseOK'
<1>0. /\ u \in [Updaters -> UpdaterRecord] /\ u[p] \in UpdaterRecord /\ job \in [Ids -> JobRecord]
      /\ clock \in Nat /\ clock' = clock /\ native' = native /\ faults \in Nat
      /\ UpdaterOK(p)
  <2>1. clock' = clock /\ native' = native
    BY DEF UpdaterStep, Begin, ChooseVersion, Prepare, EnterOperation, Deferred, Drain, DrainLost, ClearResult,
           PersistAttempt, Handoff, HandoffFails, HandedOff, Crash, Release, StartDrain, EndDrain, deviceVars,
           bridgeVars
  <2>2. MaxFaults \in Nat
    BY UpdatesAssumption
  <2> QED BY <2>1, <2>2 DEF UpdatesInv, UpdatesTypeOK, BridgeTypeOK, UpdatersOK
<1>1. \A q \in Updaters : u[q].drained => q = p /\ u[p].pc \in HandingOff \cup {"phase"}
  <2> SUFFICES ASSUME NEW q \in Updaters, u[q].drained PROVE q = p /\ u[p].pc \in HandingOff \cup {"phase"}
    OBVIOUS
  <2>1. UpdaterOK(q) /\ u[q].pc \in HandingOff \cup {"phase"} /\ u[q].pc # "idle"
    BY DEF UpdatesInv, UpdatersOK, UpdaterOK, DrainOK, HandingOff
  <2>2. applyLock = q /\ \A r \in Updaters \ {q} : u[r] = Off
    BY <2>1, Alone
  <2>3. UpdaterStep(p) /\ u[p] = Off => \E mode \in Modes : Begin(p, mode)
    BY DEF UpdaterStep, Off, Crash, ChooseVersion, Prepare, EnterOperation, Deferred, Drain, DrainLost,
           ClearResult, PersistAttempt, Handoff, HandoffFails, HandedOff
  <2>4. u[p] # Off
    BY <2>2, <2>3, UpdatesAssumption DEF Begin
  <2> QED BY <2>1, <2>2, <2>4
<1>2. CASE DrainLost(p) \/ Crash(p)
  <2>1. faults' # 0
    BY <1>0, <1>2 DEF DrainLost, Crash
  <2> QED BY <2>1 DEF PauseOK
<1>3. CASE Drain(p) /\ ~Stop(p)
  <2>1. u'[p].drained
    BY <1>0, <1>3 DEF Drain, UpdaterRecord
  <2> QED BY <2>1 DEF PauseOK
<1>4. CASE PersistAttempt(p) \/ Handoff(p) \/ ClearResult(p)
  <2>1. UNCHANGED <<drainUntil, faults>> /\ u'[p].drained = u[p].drained
    BY <1>0, <1>4 DEF PersistAttempt, Handoff, ClearResult, Goto, UpdaterRecord, bridgeVars
  <2>2. ASSUME NEW i \in Ids, job[i].state \notin {"none", "due"}
        PROVE  job'[i].state \notin {"none", "due"} /\ job'[i].at = job[i].at
    <3>1. CASE PersistAttempt(p)
      <4>1. PICK k \in Ids : /\ NextId(k)
                             /\ job' = [job EXCEPT ![k] = [@ EXCEPT !.state = "due", !.version = u[p].version,
                                                                    !.at = clock]]
        BY <3>1 DEF PersistAttempt
      <4>2. job[k].state = "none"
        <5>1. k \in Int
          BY UpdatesAssumption DEF Ids
        <5> QED BY <4>1, <5>1 DEF NextId
      <4> QED BY <1>0, <2>2, <4>1, <4>2
    <3>2. CASE Handoff(p)
      BY <1>0, <2>2, <3>2 DEF Handoff, StartJob, JobRecord
    <3>3. CASE ClearResult(p)
      BY <2>2, <3>3 DEF ClearResult
    <3> QED BY <1>4, <3>1, <3>2, <3>3
  <2> QED BY <1>0, <1>1, <2>1, <2>2, PauseFrame
<1>5. CASE HandoffFails(p) \/ (HandedOff(p) /\ native)
  <2>1. UNCHANGED faults /\ (u[p].drained => drainUntil' = 0) /\ (drainUntil' = drainUntil \/ drainUntil' = 0)
    BY <1>5 DEF HandoffFails, HandedOff, Release, EndDrain, bridgeVars
  <2>2. ASSUME NEW i \in Ids, job[i].state \notin {"none", "due"}
        PROVE  job'[i].state \notin {"none", "due"} /\ job'[i].at = job[i].at
    BY <1>0, <1>5, <2>2 DEF HandoffFails, HandedOff, StartJob, JobRecord, fileVars
  <2> QED BY <1>0, <1>1, <2>1, <2>2, PauseFrame
<1>6. CASE HandedOff(p) /\ ~native
  <2>1. UNCHANGED <<faults, drainUntil, job, clock>>
    BY <1>6 DEF HandedOff, bridgeVars, fileVars
  <2>2. CASE u[p].drained
    <3>1. /\ attempt # NoAttempt /\ drainUntil <= job[attempt.id].at + Window
          /\ job[attempt.id].state \notin {"none", "due"} /\ attempt.id \in Ids
      BY <1>0, <1>6 DEF HandedOff, UpdaterOK, RecordOK, UpdatesInv, JobsOK, AttemptOK
    <3> QED BY <1>0, <1>6, <2>1, <3>1 DEF PauseOK
  <2>3. CASE ~u[p].drained
    BY <1>0, <1>1, <2>1, <2>3, PauseFrame
  <2> QED BY <2>2, <2>3
<1>7. CASE (\E mode \in Modes : Begin(p, mode)) \/ ChooseVersion(p) \/ Prepare(p) \/ EnterOperation(p)
           \/ Deferred(p) \/ (Drain(p) /\ Stop(p))
  <2>1. u[p].pc \notin HandingOff \cup {"phase"}
    <3>1. (\E mode \in Modes : Begin(p, mode)) => u[p].pc = "idle"
      BY DEF Begin, Off
    <3>2. u[p].pc \in {"idle", "policy", "prepare", "lock", "drain"}
      BY <1>7, <3>1 DEF ChooseVersion, Prepare, EnterOperation, Deferred, Drain
    <3> QED BY <3>2 DEF HandingOff
  <2>2. CASE UNCHANGED <<faults, drainUntil, job>>
    BY <1>0, <1>1, <2>1, <2>2, PauseFrame
  <2>3. CASE Drain(p) /\ u' = [u EXCEPT ![p] = [@ EXCEPT !.pc = "clear", !.drained = TRUE]]
    <3>1. u'[p].drained
      BY <1>0, <2>3 DEF UpdaterRecord
    <3> QED BY <3>1 DEF PauseOK
  <2> QED BY <1>7, <2>2, <2>3
          DEF Begin, ChooseVersion, Prepare, EnterOperation, Deferred, Drain, bridgeVars, fileVars
<1> QED BY <1>2, <1>3, <1>4, <1>5, <1>6, <1>7 DEF UpdaterStep

\* Every step.
LEMMA PauseStays ==
    ASSUME UpdatesInv, UpdatesStep, NoteOverdue
    PROVE  PauseOK'
<1>0. /\ clock \in Nat /\ clock' \in Nat /\ faults \in Nat /\ faults' \in Nat /\ job \in [Ids -> JobRecord]
      /\ MaxFaults \in Nat
  BY TypesStay, UpdatesAssumption DEF UpdatesInv, UpdatesTypeOK, BridgeTypeOK
<1>1. ASSUME NEW i \in Ids, InstallerStep(i) PROVE PauseOK'
  <2>1. UNCHANGED <<u, native, faults, clock>> /\ (drainUntil' = drainUntil \/ drainUntil' = 0)
    BY <1>1 DEF InstallerStep, TakeInstallLock, ActivateCandidate, RollBack, FinishJob, RestartBridge,
                deviceVars, bridgeVars
  <2>2. \A j \in Ids \ {i} : job'[j] = job[j]
    BY <1>0, <1>1 DEF InstallerStep, TakeInstallLock, ActivateCandidate, RollBack, FinishJob, Move
  <2>3. job'[i].state \notin {"none", "due"} /\ job'[i].at = job[i].at
    BY <1>0, <1>1 DEF InstallerStep, TakeInstallLock, ActivateCandidate, RollBack, FinishJob, Move, JobRecord
  <2> QED BY <1>0, <2>1, <2>2, <2>3, PauseFrame
<1>2. ASSUME \/ \E stable \in Versions, auto \in Versions \cup {0} : SetPolicy(stable, auto)
             \/ PruneCache \/ SetAutomatic \/ PauseOrResume \/ BridgeWork \/ BridgeCrash \/ Time
      PROVE  PauseOK'
  <2>1. UNCHANGED <<u, native, job>>
    BY <1>2 DEF SetPolicy, PruneCache, SetAutomatic, PauseOrResume, BridgeWork, BridgeCrash, Time,
                deviceVars, fileVars
  <2>2. /\ clock <= clock' /\ (faults' = 0 => faults = 0)
        /\ drainUntil' = drainUntil \/ drainUntil' = 0
    BY <1>0, <1>2 DEF SetPolicy, PruneCache, SetAutomatic, PauseOrResume, BridgeWork, BridgeCrash, Time,
        bridgeVars, RestartBridge, BridgeTick, Serve, Arrive, Forward, Conclude, Close
  <2> QED BY <1>0, <2>1, <2>2, PauseFrame
<1> QED BY <1>1, <1>2, UpdaterPauses DEF UpdatesStep

-----------------------------------------------------------------------------
(* The invariant and what follows from it.                                 *)

\* It holds at first.
LEMMA UpdatesInvInit == UpdatesInit => UpdatesInv
<1> SUFFICES ASSUME UpdatesInit PROVE UpdatesInv
  OBVIOUS
<1>0. /\ \A i \in Ids : job[i] = NoJob /\ i \in Int /\ i # 0
      /\ \A p \in Updaters : u[p] = Off
      /\ BridgeInv
  BY BridgeInvInit, UpdatesAssumption DEF UpdatesInit, Ids
<1>1. UpdatesTypeOK
  <2>1. NoJob \in JobRecord /\ Off \in UpdaterRecord
    BY DEF NoJob, JobRecord, Off, UpdaterRecord, Modes
  <2>2. /\ job \in [Ids -> JobRecord] /\ u \in [Updaters -> UpdaterRecord]
        /\ faults \in 0 .. MaxFaults /\ overdue \in BOOLEAN /\ cache \subseteq Versions
    <3>1. job \in [Ids -> JobRecord] /\ u \in [Updaters -> UpdaterRecord]
      BY <2>1 DEF UpdatesInit
    <3>2. 0 \in 0 .. MaxFaults
      BY UpdatesAssumption
    <3> QED BY <3>1, <3>2 DEF UpdatesInit
  <2>3. /\ native \in BOOLEAN /\ active \in Versions /\ automaticOn \in BOOLEAN /\ remote \in BOOLEAN
        /\ policy \in [auto : Versions \cup {0}, stable : Versions]
        /\ {applyLock, opLock} \subseteq Updaters \cup {Nobody}
    <3>1. 1 \in Versions /\ Natives \subseteq BOOLEAN
      BY UpdatesAssumption
    <3> QED BY <3>1 DEF UpdatesInit
  <2>4. /\ attempt \in [id : Ids \cup {0}, version : Versions \cup {0}, source : Versions \cup {0}, at : Nat]
        /\ result \in [id : Ids \cup {0}, version : Versions \cup {0}]
    BY DEF UpdatesInit, NoAttempt, NoResult
  <2> QED BY <1>0, <2>2, <2>3, <2>4 DEF UpdatesTypeOK, BridgeInv
<1>2. BridgeOK
  BY <1>0, BridgeAssumption DEF BridgeOK, UpdatesInit, BridgeInit
<1>3. UpdatersOK
  BY <1>0, UpdatesAssumption
  DEF UpdatersOK, UpdaterOK, LocksOK, FoundOK, DrainOK, RecordOK, Off, Inside, HandingOff, UpdatesInit
<1>4. JobsOK
  BY <1>0 DEF JobsOK, JobOK, InstallersExclude, AttemptOK, NoJob, Pending, UpdatesInit, NoResult, NoAttempt
<1>5. PauseOK
  BY DEF PauseOK, Draining, UpdatesInit, BridgeInit
<1> QED BY <1>1, <1>2, <1>3, <1>4, <1>5 DEF UpdatesInv

\* Every step keeps it.
LEMMA UpdatesInvStep == UpdatesInv /\ [UpdatesNext]_updatesVars => UpdatesInv'
<1> SUFFICES ASSUME UpdatesInv, [UpdatesNext]_updatesVars PROVE UpdatesInv'
  OBVIOUS
<1>1. CASE UpdatesNext
  BY <1>1, BridgeStays, TypesStay, JobsStay, UpdatersStay, PauseStays DEF UpdatesNext, UpdatesInv
<1>2. CASE UNCHANGED updatesVars
  <2>1. UpdatesTypeOK' /\ PauseOK'
    BY <1>2 DEF updatesVars, bridgeVars, deviceVars, fileVars, UpdatesInv, UpdatesTypeOK, BridgeTypeOK, PauseOK,
                Draining
  <2>2. BridgeOK'
    <3>1. BridgeInv'
      BY <1>2, BridgeInvStep DEF updatesVars, UpdatesInv, BridgeOK
    <3> QED BY <1>2, <3>1 DEF updatesVars, bridgeVars, deviceVars, UpdatesInv, BridgeOK, Work
  <2>3. UpdatersOK'
    BY <1>2 DEF updatesVars, bridgeVars, deviceVars, fileVars, UpdatesInv, UpdatersOK, UpdaterOK, LocksOK, FoundOK,
                DrainOK, RecordOK, Settled, Pending
  <2>4. JobsOK'
    BY <1>2 DEF updatesVars, bridgeVars, deviceVars, fileVars, UpdatesInv, JobsOK, JobOK, InstallersExclude,
                AttemptOK, Pending, Expired
  <2> QED BY <2>1, <2>2, <2>3, <2>4 DEF UpdatesInv
<1> QED BY <1>1, <1>2

\* The invariant holds in every reachable state of a device that updates itself.
THEOREM UpdatesInvariant == UpdatesSpec => []UpdatesInv
BY UpdatesInvInit, UpdatesInvStep, PTL DEF UpdatesSpec

\* Updates, installers, pauses and crashes ask of the Bridge only what the
\* Bridge does: client/bridge.mjs as module Bridge has it is implemented.
THEOREM UpdatesImplementBridge == UpdatesSpec => BridgeSpec
<1>1. UpdatesInit => BridgeInit
  BY DEF UpdatesInit
<1>2. ASSUME UpdatesInv, [UpdatesNext]_updatesVars PROVE [BridgeNext]_bridgeVars
  BY <1>2, BridgeStays DEF UpdatesNext, updatesVars
<1> QED BY <1>1, <1>2, UpdatesInvariant, PTL DEF UpdatesSpec, BridgeSpec

\* bridge.mjs:63-86: what the Bridge answers an updater is true of the work it
\* has, with any updaters, installers, pauses and crashes around it.
THEOREM AccountIsTrueForUpdates == UpdatesSpec => []AccountIsTrue
BY UpdatesImplementBridge, AccountIsTrueHolds, PTL

\* updates.mjs:288, update-cache.mjs:18: a result that lifts the guard is the
\* attempt's own, and its package stays in the cache.
THEOREM AttemptIsBackedHolds == UpdatesSpec => []AttemptIsBacked
<1>1. UpdatesInv => AttemptIsBacked
  BY DEF UpdatesInv, JobsOK, JobOK, AttemptOK, AttemptIsBacked, ResultIsOwn, PackageKept, OwnResult
<1> QED BY <1>1, UpdatesInvariant, PTL

\* updates.mjs:350-360: a pause of admission always belongs to somebody.
THEOREM NoDrainLeftBehindHolds == UpdatesSpec => []NoDrainLeftBehind
<1>1. ASSUME UpdatesInv PROVE NoDrainLeftBehind
  <2>1. /\ UpdatesTypeOK /\ clock \in Nat /\ drainUntil \in Nat /\ Window \in Nat
        /\ \A i \in Ids : job[i].at \in Nat
    BY <1>1, BridgeAssumption DEF UpdatesInv, UpdatesTypeOK, BridgeTypeOK, JobRecord
  <2>2. \A i \in Ids : Draining /\ drainUntil <= job[i].at + Window => clock < job[i].at + Window
    BY <2>1 DEF Draining
  <2> QED BY <1>1, <2>1, <2>2 DEF UpdatesInv, PauseOK, NoDrainLeftBehind
<1> QED BY <1>1, UpdatesInvariant, PTL

\* Only an updater at its handoff starts an installer: that of its attempt.
LEMMA StartedBy ==
    ASSUME UpdatesInv, [UpdatesNext]_updatesVars, NEW i \in Ids, Started(i)
    PROVE  i = attempt.id /\ \E p \in Updaters : u[p].pc = "handoff" /\ UpdaterOK(p)
<1>0. job \in [Ids -> JobRecord]
  BY DEF UpdatesInv, UpdatesTypeOK
<1>1. job' # job /\ job'[i].state = "queued" /\ job[i].state \in {"none", "due"}
  BY DEF Started
<1>2. PICK p \in Updaters : UpdaterStep(p)
  <2>1. ASSUME NEW j \in Ids, InstallerStep(j) PROVE FALSE
    BY <1>0, <1>1, <2>1
    DEF InstallerStep, TakeInstallLock, ActivateCandidate, RollBack, FinishJob, Move, JobRecord
  <2>2. UNCHANGED updatesVars => UNCHANGED job
    BY DEF updatesVars, fileVars
  <2>3. (\E stable \in Versions, auto \in Versions \cup {0} : SetPolicy(stable, auto))
        \/ PruneCache \/ SetAutomatic \/ PauseOrResume \/ BridgeWork \/ BridgeCrash \/ Time => UNCHANGED job
    BY DEF SetPolicy, PruneCache, SetAutomatic, PauseOrResume, BridgeWork, BridgeCrash, Time, fileVars
  <2> QED BY <1>1, <2>1, <2>2, <2>3 DEF UpdatesNext, UpdatesStep
<1>3. ~PersistAttempt(p)
  <2> SUFFICES ASSUME PersistAttempt(p) PROVE FALSE
    OBVIOUS
  <2>1. PICK k \in Ids :
           job' = [job EXCEPT ![k] = [@ EXCEPT !.state = "due", !.version = u[p].version, !.at = clock]]
    BY DEF PersistAttempt
  <2> QED BY <1>0, <1>1, <2>1 DEF JobRecord
<1>4. u[p].pc = "handoff" /\ StartJob(p)
  BY <1>1, <1>2, <1>3
  DEF UpdaterStep, Begin, ChooseVersion, Prepare, EnterOperation, Deferred, Drain, DrainLost, ClearResult,
      Handoff, HandoffFails, HandedOff, Crash, fileVars
<1>5. i = attempt.id
  BY <1>0, <1>1, <1>4 DEF StartJob
<1> QED BY <1>4, <1>5 DEF UpdatesInv, UpdatersOK

\* updates.mjs:286-292: no installer is started beside one that has still to
\* activate its version, unless the guard has run out on one.
THEOREM OneInstallerHolds == UpdatesSpec => OneInstaller
<1>1. ASSUME UpdatesInv, [UpdatesNext]_updatesVars
      PROVE  [\A i, j \in Ids : Started(i) /\ j # i /\ Pending(j) =>
                 job[j].state = "activated" \/ overdue]_updatesVars
  <2> SUFFICES ASSUME NEW i \in Ids, NEW j \in Ids, Started(i), j # i, Pending(j)
               PROVE  job[j].state = "activated" \/ overdue
    OBVIOUS
  <2>1. i = attempt.id
    BY <1>1, StartedBy
  <2> QED BY <1>1, <2>1 DEF UpdatesInv, JobsOK, JobOK
<1> QED BY <1>1, UpdatesInvariant, PTL DEF UpdatesSpec, OneInstaller

\* updates.mjs:318-343: the installer starts on an idle Bridge, or its pause of
\* admission has run out.
THEOREM InstallerSparesWorkHolds == UpdatesSpec => InstallerSparesWork
<1>1. ASSUME UpdatesInv, [UpdatesNext]_updatesVars
      PROVE  [\A i \in Ids : Started(i) /\ faults = 0 /\ Work # {} =>
                 clock >= drainUntil /\ drainUntil > 0]_updatesVars
  <2> SUFFICES ASSUME NEW i \in Ids, Started(i), faults = 0, Work # {}
               PROVE  clock >= drainUntil /\ drainUntil > 0
    OBVIOUS
  <2>1. PICK p \in Updaters : u[p].pc = "handoff" /\ UpdaterOK(p)
    BY <1>1, StartedBy
  <2>2. remote
    BY <1>1 DEF UpdatesInv, BridgeOK
  <2>3. drainUntil > 0
    BY <2>1, <2>2 DEF UpdaterOK, DrainOK, HandingOff
  <2>4. ~Draining
    BY <1>1 DEF UpdatesInv, BridgeOK, BridgeInv, DrainedIsIdle, Work
  <2>5. clock \in Nat /\ drainUntil \in Nat
    BY <1>1 DEF UpdatesInv, UpdatesTypeOK, BridgeTypeOK
  <2> QED BY <2>3, <2>4, <2>5 DEF Draining
<1> QED BY <1>1, UpdatesInvariant, PTL DEF UpdatesSpec, InstallerSparesWork

\* updates.mjs:300-305: while no installer outlives the guard, only a rollback
\* takes a device to an older version.
THEOREM NoDowngradeHolds == UpdatesSpec => NoDowngrade
<1>1. ASSUME UpdatesInv, [UpdatesNext]_updatesVars
      PROVE  [active' < active =>
                 \/ \E i \in Ids : job[i].state = "activated" /\ job'[i].state = "undone"
                 \/ overdue]_updatesVars
  <2>0. active \in Int /\ job \in [Ids -> JobRecord]
    BY <1>1, VersionsAreNumbers DEF UpdatesInv, UpdatesTypeOK
  <2> SUFFICES ASSUME active' < active, ~overdue
               PROVE  \E i \in Ids : job[i].state = "activated" /\ job'[i].state = "undone"
    OBVIOUS
  <2>1. active' # active
    BY <2>0
  <2>2. PICK i \in Ids : ActivateCandidate(i) \/ RollBack(i)
    <3>1. UNCHANGED updatesVars => UNCHANGED active
      BY DEF updatesVars, deviceVars
    <3>2. ASSUME NEW p \in Updaters, UpdaterStep(p) PROVE UNCHANGED active
      BY <3>2 DEF UpdaterStep, Begin, ChooseVersion, Prepare, EnterOperation, Deferred, Drain, DrainLost,
                  ClearResult, PersistAttempt, Handoff, HandoffFails, HandedOff, Crash, deviceVars
    <3>3. ASSUME NEW i \in Ids, TakeInstallLock(i) \/ FinishJob(i) PROVE UNCHANGED active
      BY <3>3 DEF TakeInstallLock, FinishJob, deviceVars
    <3>4. (\E stable \in Versions, auto \in Versions \cup {0} : SetPolicy(stable, auto))
          \/ PruneCache \/ SetAutomatic \/ PauseOrResume \/ BridgeWork \/ BridgeCrash \/ Time => UNCHANGED active
      BY DEF SetPolicy, PruneCache, SetAutomatic, PauseOrResume, BridgeWork, BridgeCrash, Time, deviceVars
    <3> QED BY <1>1, <2>1, <3>1, <3>2, <3>3, <3>4 DEF UpdatesNext, UpdatesStep, InstallerStep
  <2>3. ~ActivateCandidate(i)
    <3> SUFFICES ASSUME ActivateCandidate(i) PROVE FALSE
      OBVIOUS
    <3>1. NoteOverdue
      BY <1>1, <2>1 DEF UpdatesNext, updatesVars, deviceVars
    <3>2. active <= active' /\ active' \in Int
      BY <1>1, <2>0, CandidateIsNewer, VersionsAreNumbers
    <3> QED BY <2>0, <3>2
  <2> QED BY <2>0, <2>2, <2>3 DEF RollBack, Move, JobRecord
<1> QED BY <1>1, UpdatesInvariant, PTL DEF UpdatesSpec, NoDowngrade
=============================================================================
