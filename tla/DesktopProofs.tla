--------------------------- MODULE DesktopProofs ----------------------------
(***************************************************************************)
(* The desktop process and its Control Center, for any number of changes   *)
(* and of overlapping starts, on any ports.                                *)
(*                                                                         *)
(* Desktop: no status is shown that is older than one shown before, and    *)
(* nothing stops while an operation is left.  A read is as old as its      *)
(* request; the entry of the cache, the read that fills it and what an     *)
(* operation reads itself are each at least as new as what is on show,     *)
(* for as long as they may still be shown.                                 *)
(*                                                                         *)
(* ControlCenter: a capability is accepted on one port, and an open page   *)
(* is not orphaned.  Every place a token may yet be accepted at, in a      *)
(* file or in the hands of a start, is counted with those it was.          *)
(***************************************************************************)
EXTENDS Desktop, ControlCenter, TLAPS

(* The desktop process.                                                      *)

Entries == [by : Readers \cup {"none", "kept"}, key : 0..1, ver : 0..MaxChanges]
Reads == [pc : {"idle", "state", "probe", "answer", "done"}, key : 0..1, ver : 0..MaxChanges]
Refreshes == [on : BOOLEAN, current : BOOLEAN, forced : BOOLEAN]
Checks == [pc : {"none", "chain", "join"}, current : BOOLEAN]
Operations == [pc : {"none", "dialog", "run", "ran", "status"}, own : 0..MaxChanges, commit : 0..MaxChanges]

\* A refresh is current only while no operation has begun; what an operation reads, it
\* reads at its end; and no operation is left once something stops.
TasksOK ==
  /\ refresh.current => refresh.on /\ pending = NoOp
  /\ ~refresh.on => read["refresh"] = NoRead
  /\ pending.pc = "none" => pending = NoOp
  /\ pending.pc # "status" => read["op"] = NoRead
  /\ check.current => check.pc # "none"
  /\ exit \in {"stop", "gone"} \/ tray = "closed" => pending = NoOp

\* An entry that waits for an answer waits for that of the read that made it.
EntryOK == entry.by \in Readers => read[entry.by].pc = "answer" /\ entry.ver = read[entry.by].ver

\* Nothing is known from the future.
KnownOK ==
  /\ shown <= floor /\ floor <= world /\ entry.ver <= world /\ \A r \in Readers : read[r].ver <= world
  /\ pending.own <= world /\ pending.commit <= world

\* What may still be shown is not older than what was.
FreshOK ==
  /\ pending = NoOp /\ entry.ver # Unknown => entry.ver >= floor
  /\ refresh.current /\ read["refresh"].ver # Unknown =>
       /\ read["refresh"].ver >= floor
       /\ entry.ver # Unknown => entry.ver >= read["refresh"].ver
  /\ read["op"].ver # Unknown => read["op"].ver >= floor
  /\ pending.own # Unknown => pending.own >= floor

DesktopInv == DesktopTypeOK /\ TasksOK /\ EntryOK /\ KnownOK /\ FreshOK /\ ActivityEnds

LEMMA DesktopTypes ==
  ASSUME DesktopTypeOK
  PROVE  /\ MaxChanges \in Nat /\ world \in Nat /\ floor \in Nat /\ shown \in Nat
         /\ entry \in Entries /\ entry.ver \in Nat /\ entry.by \in Readers \cup {"none", "kept"}
         /\ read \in [Readers -> Reads] /\ \A r \in Readers : read[r] \in Reads /\ read[r].ver \in Nat
         /\ refresh \in Refreshes /\ refresh.on \in BOOLEAN /\ refresh.current \in BOOLEAN
         /\ check \in Checks /\ check.current \in BOOLEAN /\ check.pc \in {"none", "chain", "join"}
         /\ pending \in Operations /\ pending.own \in Nat /\ pending.commit \in Nat
         /\ pending.pc \in {"none", "dialog", "run", "ran", "status"}
         /\ "refresh" \in Readers /\ "op" \in Readers
<1>1. /\ MaxChanges \in Nat /\ world \in Nat /\ floor \in Nat /\ shown \in Nat
      /\ "refresh" \in Readers /\ "op" \in Readers
  <2>1. world \in 1..MaxChanges /\ floor \in 0..MaxChanges /\ shown \in 0..MaxChanges
    BY DEF DesktopTypeOK
  <2> QED BY <2>1, DesktopAssumption DEF Readers
<1>2. /\ entry \in Entries /\ read \in [Readers -> Reads] /\ refresh \in Refreshes /\ check \in Checks
      /\ pending \in Operations
  BY DEF DesktopTypeOK, Entries, Reads, Refreshes, Checks, Operations
<1>3. \A r \in Readers : read[r] \in Reads
  BY <1>2
<1> QED BY <1>1, <1>2, <1>3 DEF Entries, Reads, Refreshes, Checks, Operations

LEMMA PlainTypes ==
  ASSUME DesktopTypeOK
  PROVE  /\ world \in 1..MaxChanges /\ intent \in 0..1 /\ shown \in 0..MaxChanges /\ floor \in 0..MaxChanges
         /\ folder \in BOOLEAN /\ aborted \in BOOLEAN /\ exit \in {"no", "await", "stop", "gone"}
         /\ activity \in {"", "starting", "checking", "operation", "exiting"}
         /\ tray \in {"open", "disposed", "closed"}
BY DEF DesktopTypeOK

LEMMA Constants ==
  /\ 0 \in 0..MaxChanges /\ NoRead \in Reads /\ NoRead.pc = "idle" /\ NoRead.ver = 0 /\ [NoRead EXCEPT !.pc = "state"] \in Reads
  /\ [NoRead EXCEPT !.pc = "state"].pc = "state" /\ [NoRead EXCEPT !.pc = "state"].ver = 0
  /\ NoEntry \in Entries /\ NoEntry.by = "none" /\ NoEntry.ver = 0
  /\ NoRefresh \in Refreshes /\ ~NoRefresh.on /\ ~NoRefresh.current
  /\ NoCheck \in Checks /\ NoCheck.pc = "none" /\ ~NoCheck.current
  /\ NoOp \in Operations /\ NoOp.pc = "none" /\ NoOp.own = 0 /\ NoOp.commit = 0
<1>1. 0 \in 0..MaxChanges
  BY DesktopAssumption
<1>2. /\ NoRead \in Reads /\ NoRead.pc = "idle" /\ NoRead.ver = 0 /\ [NoRead EXCEPT !.pc = "state"] \in Reads
      /\ [NoRead EXCEPT !.pc = "state"].pc = "state" /\ [NoRead EXCEPT !.pc = "state"].ver = 0
  BY <1>1 DEF NoRead, Reads, Unknown
<1>3. /\ NoEntry \in Entries /\ NoEntry.by = "none" /\ NoEntry.ver = 0
  BY <1>1 DEF NoEntry, Entries, Unknown
<1>4. /\ NoRefresh \in Refreshes /\ ~NoRefresh.on /\ ~NoRefresh.current
      /\ NoCheck \in Checks /\ NoCheck.pc = "none" /\ ~NoCheck.current
  BY DEF NoRefresh, Refreshes, NoCheck, Checks
<1>5. /\ NoOp \in Operations /\ NoOp.pc = "none" /\ NoOp.own = 0 /\ NoOp.commit = 0
  BY <1>1 DEF NoOp, Operations, Unknown
<1> QED BY <1>1, <1>2, <1>3, <1>4, <1>5

\* What is left for a step to show of types.
LEMMA TypesAgain ==
  ASSUME world' \in 1..MaxChanges, intent' \in 0..1, entry' \in Entries, read' \in [Readers -> Reads],
         shown' \in 0..MaxChanges, floor' \in 0..MaxChanges, refresh' \in Refreshes, check' \in Checks,
         pending' \in Operations, folder' \in BOOLEAN, aborted' \in BOOLEAN,
         exit' \in {"no", "await", "stop", "gone"},
         activity' \in {"", "starting", "checking", "operation", "exiting"},
         tray' \in {"open", "disposed", "closed"}
  PROVE  DesktopTypeOK'
BY DEF DesktopTypeOK, Entries, Reads, Refreshes, Checks, Operations

-----------------------------------------------------------------------------
(* What others do, and reading a status.                                       *)

LEMMA ChangeGrows ==
  ASSUME DesktopTypeOK, Change
  PROVE  world' \in 1..MaxChanges /\ intent' \in 0..1 /\ world <= world'
<1>1. world \in 1..MaxChanges /\ intent \in 0..1
  BY DEF DesktopTypeOK
<1> QED BY <1>1, DesktopAssumption DEF Change

LEMMA OutsideKeeps == ASSUME DesktopInv, Outside PROVE DesktopInv'
<1>0. UNCHANGED <<entry, read, shown, floor, refresh, check, pending, folder, aborted, exit, activity, tray>>
  BY DEF Outside, probe, view, tasks, dialog
<1>1. DesktopTypeOK'
  BY <1>0, ChangeGrows, DesktopTypes, PlainTypes, TypesAgain DEF DesktopInv, Outside
<1>2. KnownOK'
  <2>1. /\ world \in Nat /\ world' \in Nat /\ world <= world' /\ floor \in Nat /\ entry.ver \in Nat
        /\ pending.own \in Nat /\ pending.commit \in Nat /\ \A r \in Readers : read[r].ver \in Nat
    BY ChangeGrows, DesktopTypes, DesktopAssumption DEF DesktopInv, Outside
  <2> QED BY <1>0, <2>1 DEF DesktopInv, KnownOK
<1>3. TasksOK' /\ EntryOK' /\ FreshOK' /\ ActivityEnds'
  BY <1>0 DEF DesktopInv, TasksOK, EntryOK, FreshOK, ActivityEnds, closing, disposed
<1> QED BY <1>1, <1>2, <1>3 DEF DesktopInv

LEMMA UtilityKeeps == ASSUME DesktopInv, Utility PROVE DesktopInv'
<1>0. /\ UNCHANGED <<world, intent, entry, read, shown, floor, refresh, check, pending, exit, activity, tray>>
      /\ folder' \in {folder, TRUE} /\ aborted' = FALSE
  BY DEF Utility, device, probe, view, tasks
<1>1. DesktopTypeOK'
  BY <1>0, DesktopTypes, PlainTypes, TypesAgain DEF DesktopInv
<1> QED BY <1>0, <1>1 DEF DesktopInv, KnownOK, TasksOK, EntryOK, FreshOK, ActivityEnds, closing, disposed

LEMMA ExpiresKeeps == ASSUME DesktopInv, EntryExpires PROVE DesktopInv'
<1>0. /\ UNCHANGED <<world, intent, read, shown, floor, refresh, check, pending, folder, aborted, exit, activity, tray>>
      /\ entry' = NoEntry
  BY DEF EntryExpires, device, view, tasks, dialog
<1>1. DesktopTypeOK'
  BY <1>0, Constants, DesktopTypes, PlainTypes, TypesAgain DEF DesktopInv
<1>2. EntryOK' /\ KnownOK' /\ FreshOK'
  BY <1>0, Constants, DesktopTypes DEF DesktopInv, EntryOK, KnownOK, FreshOK, Unknown, Readers
<1>3. TasksOK' /\ ActivityEnds'
  BY <1>0 DEF DesktopInv, TasksOK, ActivityEnds, closing, disposed
<1> QED BY <1>1, <1>2, <1>3 DEF DesktopInv

\* A read that goes on writes its own record.
LEMMA ReadWrites ==
  ASSUME DesktopInv, NEW r \in Readers, NEW x \in Reads, read' = [read EXCEPT ![r] = x]
  PROVE  read' \in [Readers -> Reads] /\ read'[r] = x /\ \A s \in Readers : s # r => read'[s] = read[s]
<1>1. read \in [Readers -> Reads]
  BY DesktopTypes DEF DesktopInv
<1> QED BY <1>1

LEMMA ReadKeeps ==
  ASSUME DesktopInv, NEW r \in Readers, NEW x \in Reads, read' = [read EXCEPT ![r] = x], read[r].pc # "idle",
         entry' \in Entries, EntryOK', KnownOK', FreshOK',
         UNCHANGED <<device, view, tasks, pending, dialog, exit, activity, tray>>
  PROVE  DesktopInv'
<1>0. /\ UNCHANGED <<world, intent, shown, floor, refresh, check, pending, folder, aborted, exit, activity, tray>>
      /\ read' \in [Readers -> Reads] /\ read'[r] = x /\ \A s \in Readers : s # r => read'[s] = read[s]
  BY ReadWrites DEF device, view, tasks, dialog
<1>1. DesktopTypeOK'
  BY <1>0, DesktopTypes, PlainTypes, TypesAgain DEF DesktopInv
<1>2. TasksOK'
  BY <1>0, Constants DEF DesktopInv, TasksOK, Readers
<1> QED BY <1>0, <1>1, <1>2 DEF DesktopInv, ActivityEnds, closing, disposed

LEMMA LoadStateKeeps == ASSUME DesktopInv, NEW r \in Readers, LoadState(r) PROVE DesktopInv'
<1>1. read[r] \in Reads /\ read[r].pc = "state" /\ intent \in 0..1 /\ entry \in Entries
  BY DesktopTypes DEF DesktopInv, DesktopTypeOK, LoadState
<1>2. PICK x \in Reads : read' = [read EXCEPT ![r] = x] /\ x.ver = read[r].ver
  <2>1. PICK x : read' = [read EXCEPT ![r] = x] /\ \/ x = [read[r] EXCEPT !.pc = "probe", !.key = intent]
                                                   \/ x = [read[r] EXCEPT !.pc = "done"]
    BY DEF LoadState
  <2>2. x \in Reads /\ x.ver = read[r].ver
    BY <1>1, <2>1 DEF Reads
  <2> QED BY <2>1, <2>2
<1>3. read'[r] = x /\ \A s \in Readers : s # r => read'[s] = read[s]
  BY <1>2, ReadWrites
<1>4. UNCHANGED <<world, entry, shown, floor, refresh, pending>> /\ "refresh" \in Readers /\ "op" \in Readers
  BY DEF LoadState, device, view, tasks, Readers
<1>5. EntryOK'
  BY <1>1, <1>3, <1>4 DEF DesktopInv, EntryOK
<1>6. \A s \in Readers : read'[s].ver = read[s].ver
  BY <1>2, <1>3
<1>7. KnownOK' /\ FreshOK'
  BY <1>4, <1>6 DEF DesktopInv, KnownOK, FreshOK
<1> QED BY <1>1, <1>2, <1>4, <1>5, <1>7, ReadKeeps DEF LoadState

\* A request answers with what is so when it is made; a kept answer may be reused by a
\* refresh, which began after the last operation was over or will not be shown.
LEMMA ProbeKeeps == ASSUME DesktopInv, NEW r \in Readers, Probe(r) PROVE DesktopInv'
<1>1. /\ read[r] \in Reads /\ read[r].pc = "probe" /\ entry \in Entries /\ world \in 1..MaxChanges /\ floor \in Nat
      /\ entry.ver \in 0..MaxChanges /\ read[r].key \in 0..1
  BY DesktopTypes DEF DesktopInv, DesktopTypeOK, Probe, Entries, Reads
<1>4. UNCHANGED <<world, shown, floor, refresh, pending>> /\ "refresh" \in Readers /\ "op" \in Readers
  BY DEF Probe, device, view, tasks, Readers
<1>5. world \in Nat /\ world <= MaxChanges /\ world \in 0..MaxChanges
  BY <1>1, DesktopAssumption
<1>6. CASE Reusable(r)
  <2>1. PICK x : x = [pc |-> "answer", key |-> 0, ver |-> entry.ver]
    OBVIOUS
  <2>2. x \in Reads /\ read' = [read EXCEPT ![r] = x] /\ x.ver = entry.ver /\ x.pc = "answer" /\ entry' = entry
    BY <1>1, <1>6, <2>1 DEF Probe, Reads
  <2>3. read'[r] = x /\ \A s \in Readers : s # r => read'[s] = read[s]
    BY <2>2, ReadWrites
  <2>4. r = "refresh"
    BY <1>6 DEF Reusable, Forced, Readers
  <2>5. EntryOK'
    BY <1>1, <2>2, <2>3 DEF DesktopInv, EntryOK
  <2>6. KnownOK'
    BY <1>4, <2>2, <2>3 DEF DesktopInv, KnownOK
  <2>7. FreshOK'
    BY <1>1, <1>4, <2>2, <2>3, <2>4 DEF DesktopInv, FreshOK, TasksOK
  <2> QED BY <1>1, <2>2, <2>5, <2>6, <2>7, ReadKeeps DEF Probe
<1>7. CASE ~Reusable(r)
  <2>1. PICK x, e : x = [pc |-> "answer", key |-> 0, ver |-> world] /\ e = [by |-> r, key |-> read[r].key, ver |-> world]
    OBVIOUS
  <2>2. /\ x \in Reads /\ read' = [read EXCEPT ![r] = x] /\ x.ver = world /\ x.pc = "answer"
        /\ entry' = e /\ e \in Entries /\ e.by = r /\ e.ver = world
    BY <1>1, <1>5, <1>7, <2>1 DEF Probe, Reads, Entries
  <2>3. read'[r] = x /\ \A s \in Readers : s # r => read'[s] = read[s]
    BY <2>2, ReadWrites
  <2>5. EntryOK'
    BY <2>2, <2>3 DEF EntryOK
  <2>6. KnownOK'
    BY <1>4, <1>5, <2>2, <2>3 DEF DesktopInv, KnownOK
  <2>7. FreshOK'
    <3>1. floor <= world /\ \A s \in Readers : read[s].ver <= world
      BY DEF DesktopInv, KnownOK
    <3> QED BY <1>1, <1>4, <1>5, <2>2, <2>3, <3>1, DesktopTypes DEF DesktopInv, FreshOK, TasksOK
  <2> QED BY <1>1, <2>2, <2>5, <2>6, <2>7, ReadKeeps DEF Probe
<1> QED BY <1>6, <1>7

LEMMA ArriveKeeps == ASSUME DesktopInv, NEW r \in Readers, Arrive(r) PROVE DesktopInv'
<1>1. /\ read[r] \in Reads /\ read[r].pc = "answer" /\ entry \in Entries /\ floor \in Nat
      /\ read[r].ver \in 0..MaxChanges /\ 0 \in 0..MaxChanges
  <2>1. read[r] \in Reads /\ entry \in Entries /\ floor \in Nat
    BY DesktopTypes DEF DesktopInv
  <2> QED BY <2>1, Constants DEF Arrive, Reads
<1>2. PICK ver \in {read[r].ver, 0} : /\ entry' = Answered(r, ver)
                                      /\ read' = [read EXCEPT ![r] = [@ EXCEPT !.pc = "done", !.ver = ver]]
  BY DEF Arrive, Unknown
<1>3. PICK x : x = [read[r] EXCEPT !.pc = "done", !.ver = ver]
  OBVIOUS
<1>4. x \in Reads /\ x.ver = ver /\ x.pc = "done" /\ read' = [read EXCEPT ![r] = x]
  BY <1>1, <1>2, <1>3 DEF Reads
<1>5. read'[r] = x /\ \A s \in Readers : s # r => read'[s] = read[s]
  BY <1>4, ReadWrites
<1>6. /\ entry' \in Entries /\ entry'.by \notin {r} /\ (entry.by # r => entry' = entry)
      /\ entry.by = r => entry'.by = "kept" /\ entry'.ver = ver
  <2>1. CASE entry.by = r
    <3>1. PICK e : e = [entry EXCEPT !.by = "kept", !.ver = ver]
      OBVIOUS
    <3>2. e \in Entries /\ e.by = "kept" /\ e.ver = ver
      BY <1>1, <1>2, <3>1 DEF Entries
    <3> QED BY <1>2, <2>1, <3>1, <3>2 DEF Answered, Readers
  <2>2. CASE entry.by # r
    BY <1>1, <1>2, <2>2 DEF Answered
  <2> QED BY <2>1, <2>2
<1>7. UNCHANGED <<world, shown, floor, refresh, pending>> /\ "refresh" \in Readers /\ "op" \in Readers /\ "kept" \notin Readers
  BY DEF Arrive, device, view, tasks, Readers
<1>8. EntryOK'
  BY <1>5, <1>6, <1>7 DEF DesktopInv, EntryOK
<1>9. KnownOK'
  <2>1. ver <= world
    BY <1>1, <1>2, DesktopTypes DEF DesktopInv, KnownOK
  <2> QED BY <1>4, <1>5, <1>6, <1>7, <2>1 DEF DesktopInv, KnownOK
<1>10. FreshOK'
  <2>1. entry.by = r => entry.ver = read[r].ver
    BY DEF DesktopInv, EntryOK
  <2> QED BY <1>2, <1>4, <1>5, <1>6, <1>7, <2>1, DesktopTypes DEF DesktopInv, FreshOK, Unknown, Readers
<1> QED BY <1>1, <1>4, <1>6, <1>8, <1>9, <1>10, ReadKeeps DEF Arrive

-----------------------------------------------------------------------------
(* Refreshes and checks.                                                       *)

LEMMA Known ==
  ASSUME DesktopInv
  PROVE  /\ world \in 0..MaxChanges /\ floor \in 0..MaxChanges /\ shown \in 0..MaxChanges
         /\ 0 <= world /\ shown <= floor /\ floor <= world /\ entry.ver <= world /\ read["op"].ver <= world
         /\ read["refresh"].ver <= world /\ pending.own <= world /\ pending.commit <= world
         /\ read["op"].ver \in Nat /\ read["refresh"].ver \in Nat /\ MaxChanges \in Nat
<1>1. world \in 1..MaxChanges /\ MaxChanges \in Nat /\ floor \in 0..MaxChanges /\ shown \in 0..MaxChanges
  BY PlainTypes, DesktopTypes DEF DesktopInv
<1>2. world \in 0..MaxChanges /\ 0 <= world
  BY <1>1
<1>3. "op" \in Readers /\ "refresh" \in Readers /\ \A r \in Readers : read[r].ver \in Nat
  BY DesktopTypes DEF DesktopInv
<1> QED BY <1>1, <1>2, <1>3 DEF DesktopInv, KnownOK

\* A refresh that begins has read nothing yet.
LEMMA Begins ==
  ASSUME DesktopInv, NEW force \in BOOLEAN, Refreshing(force)
  PROVE  /\ refresh' \in Refreshes /\ refresh'.on /\ refresh'.current
         /\ read' \in [Readers -> Reads] /\ read'["refresh"].pc = "state" /\ read'["refresh"].ver = 0
         /\ read'["op"] = read["op"]
<1>1. refresh' \in Refreshes /\ refresh'.on /\ refresh'.current
  BY DEF Refreshing, Refreshes
<1>2. read' = [read EXCEPT !["refresh"] = [NoRead EXCEPT !.pc = "state"]]
  BY DEF Refreshing
<1> HIDE DEF Refreshing
<1>3. read \in [Readers -> Reads] /\ "refresh" \in Readers /\ "op" \in Readers
  BY DesktopTypes DEF DesktopInv
<1> QED BY <1>1, <1>2, <1>3, Constants

\* What the invariant says of a refresh that has just begun, with no operation under way.
LEMMA BeginsKeep ==
  ASSUME DesktopInv, NEW force \in BOOLEAN, Refreshing(force), pending = NoOp,
         read["refresh"].pc # "answer" \/ entry.by # "refresh",
         UNCHANGED <<device, entry, shown, pending, dialog, exit, tray>>,
         floor' \in 0..MaxChanges, floor' <= world, shown' <= floor', entry.ver # Unknown => entry.ver >= floor',
         check' \in Checks, check'.current => check'.pc # "none",
         activity' \in {"", "starting", "checking", "operation", "exiting"}
  PROVE  DesktopInv'
<1>0. UNCHANGED <<world, intent, entry, shown, pending, folder, aborted, exit, tray>> /\ "op" \in Readers /\ "refresh" \in Readers
  BY DEF device, dialog, Readers
<1>1. DesktopTypeOK'
  BY <1>0, Begins, DesktopTypes, PlainTypes, TypesAgain DEF DesktopInv
<1>2. TasksOK'
  BY <1>0, Begins DEF DesktopInv, TasksOK
<1>3. EntryOK'
  BY <1>0, Begins DEF DesktopInv, EntryOK, Readers
<1>4. KnownOK'
  <2>1. 0 <= world /\ read["op"].ver <= world
    BY Known
  <2>2. \A r \in Readers : read'[r].ver <= world
    BY <2>1, Begins DEF Readers
  <2> QED BY <1>0, <2>2 DEF DesktopInv, KnownOK
<1>5. FreshOK'
  <2>1. read["op"].ver = 0 /\ pending.own = 0
    BY <1>0, Constants DEF DesktopInv, TasksOK
  <2> QED BY <1>0, <2>1, Begins DEF FreshOK, Unknown
<1>6. ActivityEnds'
  BY Begins DEF ActivityEnds
<1> QED BY <1>1, <1>2, <1>3, <1>4, <1>5, <1>6 DEF DesktopInv

LEMMA RefreshTickKeeps == ASSUME DesktopInv, Tick PROVE DesktopInv'
<1>1. read["refresh"].pc # "answer" /\ pending = NoOp
  BY Constants DEF DesktopInv, TasksOK, Tick, CanRefresh
<1>2. /\ floor' \in 0..MaxChanges /\ floor' <= world /\ shown' <= floor' /\ (entry.ver # Unknown => entry.ver >= floor')
      /\ check' \in Checks /\ (check'.current => check'.pc # "none")
      /\ activity' \in {"", "starting", "checking", "operation", "exiting"} /\ shown' = shown
  BY <1>1, PlainTypes, DesktopTypes DEF DesktopInv, Tick, view, KnownOK, FreshOK, TasksOK
<1> QED BY <1>1, <1>2, BeginsKeep DEF Tick

LEMMA CheckKeeps == ASSUME DesktopInv, CheckBegins PROVE DesktopInv'
<1>0. /\ UNCHANGED <<device, entry, shown, floor, pending, dialog, exit, tray>> /\ activity' = "checking"
      /\ pending = NoOp
  BY DEF CheckBegins, view, CanRefresh
<1>1. check' \in Checks /\ check'.current /\ check'.pc # "none"
  BY DEF CheckBegins, Checks
<1>2. CASE ~refresh.on
  <2>1. read["refresh"].pc # "answer" /\ Refreshing(TRUE)
    BY <1>2, Constants DEF DesktopInv, TasksOK, CheckBegins
  <2>2. floor' \in 0..MaxChanges /\ floor' <= world /\ shown' <= floor' /\ (entry.ver # Unknown => entry.ver >= floor')
    BY <1>0, PlainTypes DEF DesktopInv, KnownOK, FreshOK
  <2> QED BY <1>0, <1>1, <2>1, <2>2, BeginsKeep
<1>3. CASE refresh.on
  <2>0. UNCHANGED <<world, intent, entry, read, shown, floor, refresh, pending, folder, aborted, exit, tray>>
    BY <1>0, <1>3 DEF CheckBegins, device, dialog
  <2>1. DesktopTypeOK'
    BY <1>0, <1>1, <2>0, DesktopTypes, PlainTypes, TypesAgain DEF DesktopInv
  <2>2. TasksOK' /\ EntryOK' /\ KnownOK' /\ FreshOK'
    BY <1>1, <2>0 DEF DesktopInv, TasksOK, EntryOK, KnownOK, FreshOK
  <2>3. ActivityEnds'
    BY <1>1, <1>3, <2>0 DEF ActivityEnds
  <2> QED BY <2>1, <2>2, <2>3 DEF DesktopInv
<1> QED BY <1>2, <1>3

\* A status that is put on show is not older than the floor, and raises it no higher
\* than what is cached.
LEMMA RefreshShows ==
  ASSUME DesktopInv, RefreshEnds
  PROVE  /\ shown' \in 0..MaxChanges /\ shown' <= floor' /\ floor' \in 0..MaxChanges /\ floor' <= world /\ floor <= floor'
         /\ pending = NoOp => (entry.ver # Unknown => entry.ver >= floor')
         /\ refresh.current \/ floor' = floor
         /\ shown' # shown /\ shown' # Unknown => shown' >= floor
<1>0. /\ floor \in Nat /\ shown \in 0..MaxChanges /\ floor \in 0..MaxChanges /\ floor <= world /\ shown <= floor
      /\ read["refresh"].ver \in Nat /\ read["refresh"].ver <= world /\ world \in Nat /\ entry.ver \in Nat
      /\ world <= MaxChanges /\ MaxChanges \in Nat
  BY Known, DesktopTypes DEF DesktopInv
<1>1. CASE IsCurrent
  <2>1. shown' = read["refresh"].ver /\ floor' = Max2(floor, read["refresh"].ver) /\ refresh.current /\ pending = NoOp
    BY <1>1 DEF RefreshEnds, Show, IsCurrent, DesktopInv, TasksOK
  <2>2. /\ read["refresh"].ver # 0 => read["refresh"].ver >= floor /\ (entry.ver # 0 => entry.ver >= read["refresh"].ver)
        /\ entry.ver # 0 => entry.ver >= floor
    BY <2>1 DEF DesktopInv, FreshOK, Unknown
  <2> QED BY <1>0, <2>1, <2>2 DEF Max2, Unknown
<1>2. CASE ~IsCurrent
  <2>1. shown' = shown /\ floor' = floor
    BY <1>2 DEF RefreshEnds, view
  <2> QED BY <1>0, <2>1 DEF DesktopInv, FreshOK
<1> QED BY <1>1, <1>2

LEMMA RefreshEndsKeeps == ASSUME DesktopInv, RefreshEnds PROVE DesktopInv'
<1>0. /\ UNCHANGED <<world, intent, entry, pending, folder, aborted, exit, tray>>
      /\ refresh.on /\ read["refresh"].pc = "done"
      /\ activity' = IF (refresh.current /\ ~disposed) \/ CheckClears THEN "" ELSE activity
  BY DEF RefreshEnds, device, dialog
<1>1. activity' \in {"", "starting", "checking", "operation", "exiting"}
  BY <1>0, PlainTypes DEF DesktopInv
<1>2. CASE check.pc = "chain" /\ CanRefresh
  <2>1. Refreshing(TRUE) /\ check' = [check EXCEPT !.pc = "join"] /\ pending = NoOp
    BY <1>2 DEF RefreshEnds, CanRefresh
  <2>2. PICK c : c = [check EXCEPT !.pc = "join"]
    OBVIOUS
  <2>3. check' = c /\ c \in Checks /\ c.pc # "none"
    BY <2>1, <2>2, DesktopTypes DEF DesktopInv, Checks
  <2>4. DesktopTypeOK'
    BY <1>0, <1>1, <2>1, <2>3, Begins, RefreshShows, DesktopTypes, PlainTypes, TypesAgain DEF DesktopInv
  <2>5. TasksOK'
    BY <1>0, <2>1, <2>3, Begins DEF DesktopInv, TasksOK
  <2>6. EntryOK'
    BY <1>0, <2>1, Begins DEF DesktopInv, EntryOK, Readers
  <2>7. KnownOK'
    <3>1. 0 <= world /\ read["op"].ver <= world
      BY Known
    <3>2. \A r \in Readers : read'[r].ver <= world
      BY <2>1, <3>1, Begins DEF Readers
    <3> QED BY <1>0, <3>2, RefreshShows DEF DesktopInv, KnownOK
  <2>8. FreshOK'
    <3>1. read["op"].ver = 0 /\ pending.own = 0
      BY <2>1, Constants DEF DesktopInv, TasksOK
    <3> QED BY <1>0, <2>1, <3>1, Begins, RefreshShows DEF FreshOK, Unknown
  <2>9. ActivityEnds'
    BY <2>1, Begins DEF ActivityEnds
  <2> QED BY <2>4, <2>5, <2>6, <2>7, <2>8, <2>9 DEF DesktopInv
<1>3. CASE ~(check.pc = "chain" /\ CanRefresh)
  <2>1. refresh' = NoRefresh /\ check' = NoCheck /\ read' = [read EXCEPT !["refresh"] = NoRead]
    BY <1>3 DEF RefreshEnds
  <2>2. read' \in [Readers -> Reads] /\ read'["refresh"] = NoRead /\ read'["op"] = read["op"]
    BY <2>1, Constants, DesktopTypes DEF DesktopInv
  <2>4. DesktopTypeOK'
    BY <1>0, <1>1, <2>1, <2>2, Constants, RefreshShows, DesktopTypes, PlainTypes, TypesAgain DEF DesktopInv
  <2>5. TasksOK'
    BY <1>0, <2>1, <2>2, Constants DEF DesktopInv, TasksOK
  <2>6. EntryOK'
    BY <1>0, <2>2 DEF DesktopInv, EntryOK, Readers
  <2>7. KnownOK'
    <3>1. 0 <= world /\ read["op"].ver <= world
      BY Known
    <3>2. \A r \in Readers : read'[r].ver <= world
      BY <2>2, <3>1, Constants DEF Readers
    <3> QED BY <1>0, <3>2, RefreshShows DEF DesktopInv, KnownOK
  <2>8. FreshOK'
    <3>1. pending # NoOp => floor' = floor
      BY RefreshShows DEF DesktopInv, TasksOK
    <3>2. pending = NoOp => read["op"].ver = 0 /\ pending.own = 0
      BY Constants DEF DesktopInv, TasksOK
    <3> QED BY <1>0, <2>1, <2>2, <3>1, <3>2, Constants, RefreshShows DEF DesktopInv, FreshOK, Unknown
  <2>9. ActivityEnds'
    <3> SUFFICES ASSUME activity' # "" PROVE pending # NoOp \/ closing \/ disposed
      BY <1>0 DEF ActivityEnds, closing, disposed
    <3>1. activity # "" /\ ~(refresh.current /\ ~disposed) /\ ~(check.pc = "join" /\ check.current)
      BY <1>0 DEF CheckClears
    <3>2. CASE check.current
      <4>1. check.pc = "chain"
        BY <3>1, <3>2, DesktopTypes DEF DesktopInv, TasksOK
      <4> QED BY <1>3, <4>1 DEF CanRefresh, Open
    <3> QED BY <3>1, <3>2 DEF DesktopInv, ActivityEnds
  <2> QED BY <2>4, <2>5, <2>6, <2>7, <2>8, <2>9 DEF DesktopInv
<1> QED BY <1>2, <1>3

-----------------------------------------------------------------------------
(* Lifecycle operations.                                                       *)

LEMMA NewRevision ==
  ASSUME DesktopInv, NextRevision
  PROVE  /\ refresh' \in Refreshes /\ ~refresh'.current /\ refresh'.on = refresh.on
         /\ check' \in Checks /\ ~check'.current /\ check'.pc = check.pc
<1>1. refresh \in Refreshes /\ check \in Checks
  BY DesktopTypes DEF DesktopInv
<1> QED BY <1>1 DEF NextRevision, Refreshes, Checks

LEMMA OpBeginsKeeps == ASSUME DesktopInv, NEW asks \in BOOLEAN, OpBegins(asks) PROVE DesktopInv'
<1>0. /\ UNCHANGED <<world, intent, read, shown, floor, exit, tray>> /\ pending = NoOp
      /\ entry' = NoEntry /\ activity' = "operation" /\ folder' \in BOOLEAN /\ aborted' \in BOOLEAN
      /\ exit = "no" /\ tray = "open"
  BY PlainTypes DEF OpBegins, device, view, DesktopInv, Open, closing, disposed
<1>1. pending' \in Operations /\ pending'.pc \in {"dialog", "run"} /\ pending'.own = 0 /\ pending'.commit = 0
  <2>1. PICK o : pending' = o /\ o = [NoOp EXCEPT !.pc = IF asks THEN "dialog" ELSE "run"]
    BY DEF OpBegins
  <2> QED BY <2>1, Constants DEF Operations
<1>2. refresh' \in Refreshes /\ ~refresh'.current /\ refresh'.on = refresh.on /\ check' \in Checks /\ ~check'.current
  BY NewRevision DEF OpBegins
<1>3. DesktopTypeOK'
  BY <1>0, <1>1, <1>2, Constants, DesktopTypes, PlainTypes, TypesAgain DEF DesktopInv
<1>4. read["op"] = NoRead
  BY <1>0, Constants DEF DesktopInv, TasksOK
<1>5. TasksOK'
  BY <1>0, <1>1, <1>2, <1>4, Constants DEF DesktopInv, TasksOK
<1>6. EntryOK' /\ KnownOK' /\ FreshOK'
  BY <1>0, <1>1, <1>2, <1>4, Constants, Known DEF DesktopInv, EntryOK, KnownOK, FreshOK, Readers, Unknown
<1>7. ActivityEnds'
  <2>1. pending' # NoOp
    BY <1>1, Constants
  <2> QED BY <2>1 DEF ActivityEnds
<1> QED BY <1>3, <1>5, <1>6, <1>7 DEF DesktopInv

\* An operation that goes on.
LEMMA OperationGoes ==
  ASSUME DesktopInv, pending' \in Operations, pending.pc # "none", pending'.pc # "none",
         pending'.pc # "status" => read'["op"] = NoRead, pending'.own # Unknown => pending'.own >= floor,
         pending'.own <= world', pending'.commit <= world', world <= world',
         world' \in 1..MaxChanges, intent' \in 0..1, folder' \in BOOLEAN,
         read' \in [Readers -> Reads], read'["op"] \in {read["op"], [NoRead EXCEPT !.pc = "state"]},
         read["op"].pc # "answer", read'["refresh"] = read["refresh"],
         UNCHANGED <<entry, view, tasks, aborted, exit, activity, tray>>
  PROVE  DesktopInv'
<1>0. UNCHANGED <<entry, shown, floor, refresh, check, aborted, exit, activity, tray>>
  BY DEF view, tasks
<1>1. DesktopTypeOK'
  BY <1>0, DesktopTypes, PlainTypes, TypesAgain DEF DesktopInv
<1>2. pending # NoOp /\ pending' # NoOp
  BY Constants
<1>3. TasksOK'
  BY <1>0, <1>2 DEF DesktopInv, TasksOK
<1>4. EntryOK'
  BY <1>0 DEF DesktopInv, EntryOK, Readers
<1>5. read'["op"].ver = read["op"].ver \/ read'["op"].ver = 0
  BY Constants
<1>6. KnownOK'
  <2>1. world' \in Nat /\ world \in Nat /\ entry.ver \in Nat /\ floor \in Nat
    BY DesktopTypes, DesktopAssumption DEF DesktopInv
  <2>2. shown <= floor /\ floor <= world' /\ entry.ver <= world' /\ read'["op"].ver <= world' /\ read'["refresh"].ver <= world'
    BY <1>5, <2>1, Known
  <2>3. \A r \in Readers : read'[r].ver <= world'
    BY <2>2 DEF Readers
  <2> QED BY <1>0, <2>2, <2>3 DEF KnownOK
<1>7. FreshOK'
  BY <1>0, <1>2, <1>5 DEF DesktopInv, FreshOK, TasksOK, Unknown
<1> QED BY <1>0, <1>1, <1>2, <1>3, <1>4, <1>6, <1>7 DEF DesktopInv, ActivityEnds

\* Before it reads its status an operation has read nothing.
LEMMA NotReading ==
  ASSUME DesktopInv, pending.pc # "status"
  PROVE  read["op"] = NoRead /\ read["op"].pc # "answer" /\ read["op"].ver = 0
BY Constants DEF DesktopInv, TasksOK

LEMMA RunKeeps == ASSUME DesktopInv, OpCommits \/ RunEnds \/ ReadsStatus PROVE DesktopInv'
<1>0. pending \in Operations /\ pending.own \in Nat /\ pending.commit \in Nat /\ read \in [Readers -> Reads]
  BY DesktopTypes DEF DesktopInv
<1>1. CASE OpCommits
  <2>1. world' \in 1..MaxChanges /\ intent' \in 0..1 /\ world <= world' /\ world' \in 0..MaxChanges /\ world' <= world'
    BY <1>1, ChangeGrows, DesktopAssumption DEF OpCommits, DesktopInv
  <2>2. PICK o : o = [pending EXCEPT !.commit = world']
    OBVIOUS
  <2>3. pending' = o /\ o \in Operations /\ o.pc = "run" /\ o.own = pending.own /\ o.commit = world'
    BY <1>0, <1>1, <2>1, <2>2 DEF OpCommits, Operations
  <2>4. UNCHANGED <<read, entry, view, tasks, folder, aborted, exit, activity, tray>>
    BY <1>1 DEF OpCommits, probe, dialog
  <2>5. pending.own <= world' /\ (pending.own # Unknown => pending.own >= floor)
    BY <1>0, <2>1, Known DEF DesktopInv, FreshOK
  <2>6. read["op"] = NoRead /\ read["op"].pc # "answer" /\ pending.pc = "run"
    BY <1>1, NotReading DEF OpCommits
  <2> QED BY <1>0, <2>1, <2>3, <2>4, <2>5, <2>6, PlainTypes, OperationGoes DEF DesktopInv
<1>2. CASE RunEnds
  <2>1. PICK own \in {world, 0} : pending' = [pending EXCEPT !.pc = "ran", !.own = own]
    BY <1>2 DEF RunEnds, Unknown
  <2>2. PICK o : o = [pending EXCEPT !.pc = "ran", !.own = own]
    OBVIOUS
  <2>3. pending' = o /\ o \in Operations /\ o.pc = "ran" /\ o.own = own /\ o.commit = pending.commit
    BY <1>0, <2>1, <2>2, Known, Constants DEF Operations
  <2>4. UNCHANGED <<world, intent, read, entry, view, tasks, folder, aborted, exit, activity, tray>>
    BY <1>2 DEF RunEnds, device, probe, dialog
  <2>5. own <= world /\ (own # Unknown => own >= floor) /\ world <= world /\ pending.commit <= world
    BY <2>1, Known DEF Unknown
  <2>6. read["op"] = NoRead /\ read["op"].pc # "answer" /\ pending.pc = "run"
    BY <1>2, NotReading DEF RunEnds
  <2> QED BY <1>0, <2>3, <2>4, <2>5, <2>6, PlainTypes, OperationGoes DEF DesktopInv
<1>3. CASE ReadsStatus
  <2>2. PICK o : o = [pending EXCEPT !.pc = "status"]
    OBVIOUS
  <2>3. pending' = o /\ o \in Operations /\ o.pc = "status" /\ o.own = pending.own /\ o.commit = pending.commit
    BY <1>0, <1>3, <2>2 DEF ReadsStatus, Operations
  <2>4. UNCHANGED <<world, intent, entry, view, tasks, folder, aborted, exit, activity, tray>> /\ pending.own = Unknown
    BY <1>3 DEF ReadsStatus, device, dialog
  <2>5. /\ read' \in [Readers -> Reads] /\ read'["op"] = [NoRead EXCEPT !.pc = "state"]
        /\ read'["refresh"] = read["refresh"]
    BY <1>0, <1>3, Constants, DesktopTypes DEF ReadsStatus, DesktopInv
  <2>6. read["op"] = NoRead /\ read["op"].pc # "answer" /\ pending.pc = "ran"
    BY <1>3, NotReading DEF ReadsStatus
  <2>7. pending.own <= world /\ world <= world /\ pending.commit <= world
    BY Known
  <2> QED BY <1>0, <2>3, <2>4, <2>5, <2>6, <2>7, PlainTypes, OperationGoes DEF DesktopInv
<1> QED BY <1>1, <1>2, <1>3

\* An operation that is over leaves neither itself nor an entry.
LEMMA OverKeeps ==
  ASSUME DesktopInv, OpOver, pending.pc # "none", shown' \in 0..MaxChanges, floor' \in 0..MaxChanges, floor' <= world,
         shown' <= floor', read' \in [Readers -> Reads], read'["op"] = NoRead, read'["refresh"] = read["refresh"], folder' \in BOOLEAN,
         UNCHANGED <<device, tasks, aborted, exit, tray>>
  PROVE  DesktopInv'
<1>0. /\ UNCHANGED <<world, intent, refresh, check, aborted, exit, tray>> /\ entry' = NoEntry /\ pending' = NoOp
      /\ activity' = IF closing THEN activity ELSE ""
  BY DEF OpOver, device, tasks
<1>1. activity' \in {"", "starting", "checking", "operation", "exiting"}
  BY <1>0, PlainTypes DEF DesktopInv
<1>2. DesktopTypeOK'
  BY <1>0, <1>1, Constants, DesktopTypes, PlainTypes, TypesAgain DEF DesktopInv
<1>3. ~refresh.current
  BY Constants DEF DesktopInv, TasksOK
<1>4. TasksOK'
  BY <1>0, <1>3, Constants DEF DesktopInv, TasksOK
<1>5. \A r \in Readers : read'[r].ver <= world
  BY Known, Constants DEF Readers
<1>6. EntryOK' /\ KnownOK' /\ FreshOK'
  BY <1>0, <1>3, <1>5, Constants, Known DEF EntryOK, KnownOK, FreshOK, Readers, Unknown
<1>7. ActivityEnds'
  BY <1>0 DEF ActivityEnds, closing
<1> QED BY <1>2, <1>4, <1>6, <1>7 DEF DesktopInv

LEMMA DialogKeeps ==
  ASSUME DesktopInv, NEW answer \in {"folder", "none", "failure"}, DialogEnds(answer)
  PROVE  DesktopInv'
<1>0. /\ UNCHANGED <<world, intent, read, shown, floor, refresh, check, aborted, exit, tray>> /\ folder' = FALSE
  BY DEF DialogEnds, device, view, tasks
<1>1. CASE UNCHANGED <<entry, pending, activity>>
  <2>1. DesktopTypeOK'
    BY <1>0, <1>1, DesktopTypes, PlainTypes, TypesAgain DEF DesktopInv
  <2> QED BY <1>0, <1>1, <2>1 DEF DesktopInv, KnownOK, TasksOK, EntryOK, FreshOK, ActivityEnds, closing, disposed
<1>2. ASSUME NEW pc \in {"run", "ran"}, pending.pc = "dialog", pending' = [pending EXCEPT !.pc = pc],
             UNCHANGED <<entry, activity>>
      PROVE  DesktopInv'
  <2>1. PICK o : o = [pending EXCEPT !.pc = pc]
    OBVIOUS
  <2>2. pending' = o /\ o \in Operations /\ o.pc = pc /\ o.own = pending.own /\ o.commit = pending.commit
    BY <1>2, <2>1, DesktopTypes DEF DesktopInv, Operations
  <2>3. pending.own <= world /\ pending.commit <= world /\ world <= world /\ (pending.own # Unknown => pending.own >= floor)
    BY Known DEF DesktopInv, FreshOK
  <2>4. UNCHANGED <<entry, view, tasks, aborted, exit, activity, tray>> /\ read' \in [Readers -> Reads]
    BY <1>0, <1>2, DesktopTypes DEF view, tasks, DesktopInv
  <2> QED BY <1>0, <1>2, <2>2, <2>3, <2>4, NotReading, PlainTypes, OperationGoes DEF DesktopInv
<1>3. CASE pending.pc = "dialog" /\ OpOver
  BY <1>0, <1>3, Known, NotReading, DesktopTypes, OverKeeps DEF DesktopInv, device, tasks
<1> QED BY <1>1, <1>2, <1>3 DEF DialogEnds

LEMMA OpEndsKeeps == ASSUME DesktopInv, OpEnds PROVE DesktopInv'
<1>0. /\ UNCHANGED <<device, tasks, aborted, exit, tray>> /\ folder' = folder /\ OpOver
      /\ read' = [read EXCEPT !["op"] = NoRead] /\ floor' = Max2(floor, Max2(shown', pending.commit))
      /\ shown' \in {read["op"].ver, pending.own, shown} /\ pending.pc # "none"
  BY DEF OpEnds, dialog
<1>1. read' \in [Readers -> Reads] /\ read'["op"] = NoRead /\ read'["refresh"] = read["refresh"]
  BY <1>0, Constants, DesktopTypes DEF DesktopInv
<1>2. /\ floor \in Nat /\ floor <= world /\ pending.commit \in Nat /\ pending.commit <= world
      /\ shown \in Nat /\ pending.own \in Nat /\ pending.own <= world /\ read["op"].ver \in Nat
      /\ read["op"].ver <= world /\ world \in Nat /\ world <= MaxChanges /\ MaxChanges \in Nat
  BY Known, DesktopTypes DEF DesktopInv
<1>3. shown <= floor /\ shown <= world
  BY <1>2, Known
<1>4. shown' \in 0..MaxChanges /\ shown' <= floor' /\ floor' \in 0..MaxChanges /\ floor' <= world
  BY <1>0, <1>2, <1>3 DEF Max2
<1> QED BY <1>0, <1>1, <1>4, PlainTypes, OverKeeps DEF DesktopInv

-----------------------------------------------------------------------------
(* Exit, and the end of the tray process.                                      *)

LEMMA ExitBeginsKeeps == ASSUME DesktopInv, ExitBegins PROVE DesktopInv'
<1>0. /\ UNCHANGED <<world, intent, entry, read, shown, floor, pending, folder, tray>>
      /\ exit = "no" /\ tray = "open" /\ exit' = "await" /\ aborted' = TRUE /\ activity' = "exiting"
  BY DEF ExitBegins, device, probe, view, Open, closing, disposed
<1>1. refresh' \in Refreshes /\ ~refresh'.current /\ refresh'.on = refresh.on /\ check' \in Checks /\ ~check'.current
  BY NewRevision DEF ExitBegins
<1>2. DesktopTypeOK'
  BY <1>0, <1>1, DesktopTypes, PlainTypes, TypesAgain DEF DesktopInv
<1>3. TasksOK' /\ EntryOK' /\ KnownOK' /\ FreshOK'
  BY <1>0, <1>1 DEF DesktopInv, TasksOK, EntryOK, KnownOK, FreshOK
<1>4. ActivityEnds'
  BY <1>0 DEF ActivityEnds, closing
<1> QED BY <1>2, <1>3, <1>4 DEF DesktopInv

\* Services are stopped, and the Control Center is closed, once no operation is left.
LEMMA StopsKeep == ASSUME DesktopInv, ExitStops \/ ExitDone \/ HelperEnds \/ SurfaceCloses PROVE DesktopInv'
<1>0. /\ UNCHANGED <<world, intent, entry, read, shown, floor, refresh, check, pending, folder>>
      /\ aborted' \in BOOLEAN /\ exit' \in {"no", "await", "stop", "gone"} /\ tray' \in {"open", "disposed", "closed"}
      /\ activity' \in {activity, ""}
  BY PlainTypes DEF ExitStops, ExitDone, HelperEnds, SurfaceCloses, DesktopInv, device, probe, view, tasks, dialog
<1>1. DesktopTypeOK'
  BY <1>0, DesktopTypes, PlainTypes, TypesAgain DEF DesktopInv
<1>2. EntryOK' /\ KnownOK' /\ FreshOK'
  BY <1>0 DEF DesktopInv, EntryOK, KnownOK, FreshOK
<1>3. exit' \in {"stop", "gone"} \/ tray' = "closed" => pending' = NoOp
  BY <1>0 DEF ExitStops, ExitDone, HelperEnds, SurfaceCloses, Settled, DesktopInv, TasksOK, dialog
<1>4. TasksOK'
  BY <1>0, <1>3 DEF DesktopInv, TasksOK
<1>5. activity' # "" => (closing \/ disposed => closing' \/ disposed')
  BY DEF ExitStops, ExitDone, HelperEnds, SurfaceCloses, closing, disposed, dialog
<1>6. ActivityEnds'
  BY <1>0, <1>5 DEF DesktopInv, ActivityEnds
<1> QED BY <1>1, <1>2, <1>4, <1>6 DEF DesktopInv

-----------------------------------------------------------------------------
(* The invariant, and what it gives.                                           *)

LEMMA DesktopStart == Init => DesktopInv
<1> SUFFICES ASSUME Init PROVE DesktopInv
  OBVIOUS
<1>1. /\ world = 1 /\ intent = 0 /\ entry = NoEntry /\ shown = 0 /\ floor = 0 /\ check = NoCheck /\ pending = NoOp
      /\ folder = FALSE /\ aborted = FALSE /\ exit = "no" /\ activity = "starting" /\ tray = "open"
      /\ refresh = [on |-> TRUE, current |-> TRUE, forced |-> TRUE]
  BY DEF Init, Unknown
<1>2. /\ read \in [Readers -> Reads] /\ read["op"] = NoRead /\ read["op"].ver = 0
      /\ read["refresh"].ver = 0 /\ read["refresh"].pc = "state"
  BY Constants DEF Init, Readers
<1>3. refresh \in Refreshes /\ refresh.on /\ refresh.current
  BY <1>1 DEF Refreshes
<1>4. DesktopTypeOK
  <2>1. 1 \in 1..MaxChanges
    BY DesktopAssumption
  <2>2. world \in 1..MaxChanges /\ shown \in 0..MaxChanges /\ floor \in 0..MaxChanges /\ intent \in 0..1
    BY <1>1, <2>1, Constants
  <2>3. entry \in Entries /\ check \in Checks /\ pending \in Operations
    BY <1>1, Constants
  <2>4. /\ folder \in BOOLEAN /\ aborted \in BOOLEAN /\ exit \in {"no", "await", "stop", "gone"}
        /\ activity \in {"", "starting", "checking", "operation", "exiting"} /\ tray \in {"open", "disposed", "closed"}
    BY <1>1
  <2> QED BY <1>2, <1>3, <2>2, <2>3, <2>4 DEF DesktopTypeOK, Entries, Reads, Refreshes, Checks, Operations
<1>5. TasksOK
  BY <1>1, <1>2, <1>3, Constants DEF TasksOK
<1>6. EntryOK /\ KnownOK /\ FreshOK
  <2>1. \A r \in Readers : read[r].ver = 0
    BY <1>2 DEF Readers
  <2> QED BY <1>1, <1>2, <2>1, Constants DEF EntryOK, KnownOK, FreshOK, Readers, Unknown
<1>7. ActivityEnds
  BY <1>3 DEF ActivityEnds
<1> QED BY <1>4, <1>5, <1>6, <1>7 DEF DesktopInv

LEMMA DesktopStep == ASSUME DesktopInv, [Next]_vars PROVE DesktopInv'
<1>1. ASSUME NEW r \in Readers, ReadSteps(r) PROVE DesktopInv'
  BY <1>1, LoadStateKeeps, ProbeKeeps, ArriveKeeps DEF ReadSteps
<1>2. CASE UNCHANGED vars
  <2>0. UNCHANGED <<world, intent, entry, read, shown, floor, refresh, check, pending, folder, aborted, exit, activity, tray>>
    BY <1>2 DEF vars, device, probe, view, tasks, dialog
  <2>1. DesktopTypeOK'
    BY <2>0, DesktopTypes, PlainTypes, TypesAgain DEF DesktopInv
  <2> QED BY <2>0, <2>1 DEF DesktopInv, KnownOK, TasksOK, EntryOK, FreshOK, ActivityEnds, closing, disposed
<1> QED BY <1>1, <1>2, OutsideKeeps, ExpiresKeeps, RefreshTickKeeps, CheckKeeps, RefreshEndsKeeps, UtilityKeeps,
           OpBeginsKeeps, DialogKeeps, RunKeeps, OpEndsKeeps, ExitBeginsKeeps, StopsKeep DEF Next

\* The desktop process keeps its invariant, whatever refreshes, checks, operations and
\* exits overlap (client/desktop-controller.mjs, client/gateway-status.mjs).
THEOREM DesktopInvariant == Spec => []DesktopInv
<1>1. Init => DesktopInv
  BY DesktopStart
<1>2. ASSUME DesktopInv, [Next]_vars PROVE DesktopInv'
  BY <1>2, DesktopStep
<1> QED BY <1>1, <1>2, PTL DEF Spec

\* No operation is left when services are stopped or the Control Center is closed, and the
\* window says that something is going on only while something is that will take it back
\* (client/desktop-controller.mjs, client/tray.mjs).
THEOREM ActivityIsTrueHolds == Spec => []ActivityIsTrue
<1>1. ASSUME DesktopInv PROVE ActivityIsTrue
  BY <1>1, Constants DEF DesktopInv, TasksOK, ActivityIsTrue, SettledBeforeStop
<1> QED BY <1>1, DesktopInvariant, PTL

LEMMA OpShows == ASSUME DesktopInv, OpEnds PROVE shown' # shown /\ shown' # Unknown => shown' >= floor
BY DEF OpEnds, DesktopInv, FreshOK

\* A status that is put on show is never older than one shown before, or than the last
\* change an operation of this process made (client/gateway-status.mjs).
THEOREM NeverOlderHolds == Spec => NeverOlder
<1>1. ASSUME DesktopInv, [Next]_vars PROVE shown' # shown /\ shown' # Unknown => shown' >= floor
  <2>1. CASE RefreshEnds
    BY <2>1, <1>1, RefreshShows
  <2>2. CASE OpEnds
    BY <2>2, <1>1, OpShows
  <2>3. ASSUME NEW r \in Readers, ReadSteps(r) PROVE shown' = shown
    BY <2>3 DEF ReadSteps, LoadState, Probe, Arrive, view
  <2>4. ASSUME NEW asks \in BOOLEAN, OpBegins(asks) PROVE shown' = shown
    BY <2>4 DEF OpBegins, view
  <2>5. ASSUME NEW answer \in {"folder", "none", "failure"}, DialogEnds(answer) PROVE shown' = shown
    BY <2>5 DEF DialogEnds, view
  <2>6. CASE Outside \/ EntryExpires \/ Tick \/ CheckBegins \/ Utility \/ UNCHANGED vars
    BY <2>6 DEF Outside, EntryExpires, Tick, CheckBegins, Utility, vars, view
  <2>7. CASE OpCommits \/ RunEnds \/ ReadsStatus \/ ExitBegins \/ ExitStops \/ ExitDone \/ HelperEnds \/ SurfaceCloses
    BY <2>7 DEF OpCommits, RunEnds, ReadsStatus, ExitBegins, ExitStops, ExitDone, HelperEnds, SurfaceCloses, view
  <2> QED BY <1>1, <2>1, <2>2, <2>3, <2>4, <2>5, <2>6, <2>7 DEF Next
<1>2. ASSUME DesktopInv, [Next]_vars PROVE [shown' # shown /\ shown' # Unknown => shown' >= floor]_vars
  BY <1>1, <1>2
<1> QED BY <1>2, DesktopInvariant, PTL DEF Spec, NeverOlder

-----------------------------------------------------------------------------
(* The Control Center.                                                       *)

Caps == [token : Tokens \cup {0}, port : Ports \cup {0}]
Starts == [pc : {"idle", "create", "bind", "bound", "claimed", "serving"}, cap : Caps,
           port : Ports \cup {0}, moved : BOOLEAN, token : Tokens \cup {0}, app : Apps]
Pages == [pc : {"closed", "loading", "connected", "waiting", "lost", "refused"},
          port : Ports \cup {0}, token : Tokens \cup {0}, known : Instances \cup {0, Another},
          offers : BOOLEAN, modal : BOOLEAN, sent : {"no", "out", "lost"}, wait : BOOLEAN,
          until : Nat, timedOut : BOOLEAN]
Attempts == [at : 0..MaxTime, outcome : {"none", "pending", "failed", "done"}]

RecordsOK ==
  /\ inst \in [Instances -> Starts] /\ attempt \in Attempts
  /\ page \in Pages /\ (page.wait \/ page.until = 0)

Binding(i) == inst[i].pc \in {"bind", "bound"}
Owning(i) == inst[i].pc \in {"claimed", "serving"}

\* Where a token is accepted, was accepted, or will be by a start that keeps its port.
Origin(t, p) ==
  \/ <<t, p>> \in served
  \/ cap # NoCap /\ t = cap.token /\ p = Requested(cap)
  \/ \E i \in Instances : Binding(i) /\ ~inst[i].moved /\ t = inst[i].cap.token /\ p = inst[i].port
  \/ \E i \in Instances : Owning(i) /\ t = inst[i].token /\ p = inst[i].port

OriginsOK ==
  \A t \in Tokens, p \in Ports : Origin(t, p) =>
    t <= made /\ \A q \in Ports : Origin(t, q) => p = q

\* A start has a token and a port; its credential may be older than the one on record,
\* but a port that was recorded once stays recorded.
StartOK(i) ==
  /\ Binding(i) => inst[i].cap.token # 0 /\ inst[i].port # 0
  /\ Binding(i) /\ inst[i].cap.port # 0 => inst[i].moved \/ inst[i].cap.port = inst[i].port
  /\ Owning(i) => inst[i].token # 0 /\ inst[i].port # 0
  /\ Binding(i) => cap # NoCap
  /\ Owning(i) \/ (Binding(i) /\ inst[i].cap.port # 0) => cap.port # 0

\* Nobody moved unless somebody had to leave a port.
CapOK ==
  /\ cap.token = 0 => cap = NoCap
  /\ made = 0 <=> cap = NoCap
  /\ ~collided => made <= 1 /\ \A i \in Instances : ~inst[i].moved

ControlInv ==
  ControlTypeOK /\ RecordsOK /\ OriginsOK /\ CapOK /\ \A i \in Instances : StartOK(i)

LEMMA ControlNumbers ==
  /\ MaxTime \in Nat /\ Limit \in Nat /\ MaxTokens \in Nat /\ 1 \in Tokens /\ 0 \notin Tokens
  /\ \A t \in Tokens : t \in Nat
  /\ 0 \notin Ports /\ Preferred \in Ports /\ 0 \notin Instances /\ Another \notin Instances
BY ControlAssumption DEF Tokens, Another

LEMMA ControlTypes ==
  ASSUME ControlInv
  PROVE  /\ cap \in Caps /\ endpoint \in Ports \cup {0} /\ made \in 0..MaxTokens
         /\ inst \in [Instances -> Starts] /\ attempt \in Attempts /\ page \in Pages
         /\ now \in 0..MaxTime /\ app \in Apps /\ foreign \subseteq Ports /\ served \subseteq Tokens \X Ports
BY ControlNumbers DEF ControlInv, ControlTypeOK, RecordsOK, Caps, Tokens

\* What is said of types follows from the records.
LEMMA TypesFollow ==
  ASSUME cap' \in Caps, endpoint' \in Ports \cup {0}, made' \in 0..MaxTokens,
         inst' \in [Instances -> Starts], foreign' \subseteq Ports, served' \subseteq Tokens \X Ports,
         app' \in Apps, attempt' \in Attempts, now' \in 0..MaxTime, page' \in Pages,
         page'.wait \/ page'.until = 0
  PROVE  ControlTypeOK' /\ RecordsOK'
<1>1. made' \in Tokens \cup {0}
  BY ControlNumbers DEF Tokens
<1>2. \A i \in Instances : inst'[i] \in Starts
  OBVIOUS
<1>3. /\ attempt'.at \in 0..MaxTime
      /\ page'.pc \in {"closed", "loading", "connected", "waiting", "lost", "refused"}
  BY DEF Attempts, Pages
<1>4. \A i \in Instances :
        /\ inst'[i].pc \in {"idle", "create", "bind", "bound", "claimed", "serving"}
        /\ inst'[i].cap.token \in Tokens \cup {0} /\ inst'[i].token \in Tokens \cup {0}
        /\ inst'[i].port \in Ports \cup {0} /\ inst'[i].app \in Apps
  BY <1>2 DEF Starts, Caps
<1> QED BY <1>1, <1>3, <1>4 DEF ControlTypeOK, RecordsOK, Caps

\* Where nothing begins to be accepted, the origins stay as they were.
LEMMA OriginsStay ==
  ASSUME ControlInv, made' = made, \A t \in Tokens, p \in Ports : Origin(t, p)' => Origin(t, p)
  PROVE  OriginsOK'
BY DEF ControlInv, OriginsOK

\* A fresh token has one origin.
LEMMA OriginIsFresh ==
  ASSUME ControlInv, made' = FreshToken, NEW o \in Ports,
         \A t \in Tokens, p \in Ports : Origin(t, p)' => Origin(t, p) \/ (t = FreshToken /\ p = o)
  PROVE  OriginsOK'
<1>1. made \in Nat /\ FreshToken = made + 1
  BY ControlTypes, ControlNumbers DEF FreshToken
<1>2. \A t \in Tokens, p \in Ports : Origin(t, p) => t <= made /\ t # FreshToken /\ \A q \in Ports : Origin(t, q) => p = q
  BY <1>1, ControlNumbers DEF ControlInv, OriginsOK
<1> QED BY <1>1, <1>2, ControlNumbers DEF OriginsOK

-----------------------------------------------------------------------------
(* Steps beside the starts.                                                    *)

LEMMA StartsRest ==
  ASSUME ControlInv, UNCHANGED <<files, inst, served, collided>>
  PROVE  OriginsOK' /\ CapOK' /\ \A i \in Instances : StartOK(i)'
<1>1. \A t, p : Origin(t, p)' = Origin(t, p)
  BY DEF files, Origin, Binding, Owning, Requested
<1>2. OriginsOK'
  BY <1>1, OriginsStay DEF files
<1>3. \A i \in Instances : StartOK(i)'
  BY DEF ControlInv, StartOK, Binding, Owning, files
<1> QED BY <1>2, <1>3 DEF ControlInv, CapOK, files

LEMMA RestKeeps ==
  ASSUME ControlInv, UNCHANGED <<files, inst, served, collided>>, foreign' \subseteq Ports,
         app' \in Apps, attempt' \in Attempts, now' \in 0..MaxTime, page' \in Pages,
         page'.wait \/ page'.until = 0
  PROVE  ControlInv'
<1>1. ControlTypeOK' /\ RecordsOK'
  <2>1. /\ cap' \in Caps /\ endpoint' \in Ports \cup {0} /\ made' \in 0..MaxTokens
        /\ inst' \in [Instances -> Starts] /\ served' \subseteq Tokens \X Ports
    BY ControlTypes DEF files
  <2> QED BY <2>1, TypesFollow
<1> QED BY <1>1, StartsRest DEF ControlInv

LEMMA ForeignKeeps ==
  ASSUME ControlInv, NEW p \in Ports, ForeignTakes(p) \/ ForeignLeaves(p)
  PROVE  ControlInv'
<1>1. foreign' \subseteq Ports /\ UNCHANGED <<files, inst, served, collided, update, page, now>>
  BY ControlTypes DEF ForeignTakes, ForeignLeaves
<1>2. /\ app' \in Apps /\ attempt' \in Attempts /\ now' \in 0..MaxTime /\ page' \in Pages
      /\ page'.wait \/ page'.until = 0
  BY <1>1, ControlTypes DEF update, ControlInv, RecordsOK
<1> QED BY <1>1, <1>2, RestKeeps

LEMMA InstallsKeeps ==
  ASSUME ControlInv, NEW outcome \in {"failed", "done"}, Installs(outcome)
  PROVE  ControlInv'
<1>1. attempt' \in Attempts
  BY ControlTypes DEF Installs, Attempts
<1>2. /\ UNCHANGED <<files, inst, served, collided>> /\ foreign' = foreign /\ page' = page /\ now' = now
      /\ app' \in Apps
  BY ControlTypes DEF Installs, surroundings, Apps
<1> QED BY <1>1, <1>2, ControlTypes, RestKeeps DEF ControlInv, RecordsOK

LEMMA TickKeeps == ASSUME ControlInv, ControlTick PROVE ControlInv'
<1>1. now' \in 0..MaxTime
  BY ControlTypes, ControlNumbers DEF ControlTick
<1>2. /\ UNCHANGED <<files, inst, served, collided>> /\ foreign' = foreign /\ page' = page
      /\ app' = app /\ attempt' = attempt
  BY DEF ControlTick, surroundings, update
<1> QED BY <1>1, <1>2, ControlTypes, RestKeeps DEF ControlInv, RecordsOK

\* What a page becomes, whatever it learns.
LEMMA PageForms ==
  ASSUME ControlInv, NEW i \in Instances
  PROVE  /\ Reloaded(i) \in Pages /\ (Reloaded(i).wait \/ Reloaded(i).until = 0)
         /\ Rendered(i) \in Pages /\ (Rendered(i).wait \/ Rendered(i).until = 0)
         /\ Lost \in Pages /\ (Lost.wait \/ Lost.until = 0)
         /\ Refused \in Pages /\ (Refused.wait \/ Refused.until = 0)
<1>1. page \in Pages /\ now \in Nat /\ inst[i] \in Starts /\ (page.wait \/ page.until = 0)
  BY ControlTypes, ControlNumbers DEF ControlInv, RecordsOK
<1>2. StillWaits \in BOOLEAN
  BY <1>1 DEF StillWaits, Pages
<1>3. Reloaded(i) \in Pages /\ (Reloaded(i).wait \/ Reloaded(i).until = 0)
  BY <1>1, <1>2 DEF Reloaded, NoPage, Pages
<1>4. \A q \in Pages : NoWait(q) \in Pages /\ ~NoWait(q).wait /\ NoWait(q).until = 0
  BY DEF NoWait, Pages
<1>5. ASSUME NEW q \in Pages, q.wait \/ q.until = 0
      PROVE  Waiting(q, i) \in Pages /\ (Waiting(q, i).wait \/ Waiting(q, i).until = 0)
  <2>1. attempt.at + Limit \in Nat
    BY ControlTypes, ControlNumbers DEF Attempts
  <2>2. /\ [NoWait(q) EXCEPT !.timedOut = TRUE] \in Pages
        /\ [NoWait(q) EXCEPT !.timedOut = FALSE] \in Pages
        /\ [q EXCEPT !.wait = TRUE, !.until = attempt.at + Limit] \in Pages
    BY <1>4, <2>1, <1>5 DEF Pages
  <2>3. /\ [NoWait(q) EXCEPT !.timedOut = TRUE].until = 0
        /\ [NoWait(q) EXCEPT !.timedOut = FALSE].until = 0
        /\ [q EXCEPT !.wait = TRUE, !.until = attempt.at + Limit].wait
    BY <1>4, <1>5 DEF Pages
  <2>4. Waiting(q, i) \in {[NoWait(q) EXCEPT !.timedOut = TRUE], [NoWait(q) EXCEPT !.timedOut = FALSE],
                           [q EXCEPT !.wait = TRUE, !.until = attempt.at + Limit], NoWait(q), q}
    BY DEF Waiting
  <2> QED BY <1>4, <1>5, <2>2, <2>3, <2>4
<1>6. Rendered(i) \in Pages /\ (Rendered(i).wait \/ Rendered(i).until = 0)
  <2> DEFINE q == [page EXCEPT !.pc = "connected", !.known = i, !.offers = inst[i].app = 1,
                               !.modal = page.modal /\ inst[i].app = 1]
  <2>1. q \in Pages
    BY <1>1 DEF Pages
  <2>2. q.wait \/ q.until = 0
    BY <1>1 DEF Pages
  <2>3. Waiting(q, i) \in Pages /\ (Waiting(q, i).wait \/ Waiting(q, i).until = 0)
    BY <1>5, <2>1, <2>2
  <2> QED BY <2>3 DEF Rendered
<1>7. Refused \in Pages /\ (Refused.wait \/ Refused.until = 0)
  BY <1>1, <1>4 DEF Refused, Pages
<1>8. Lost \in Pages /\ (Lost.wait \/ Lost.until = 0)
  BY <1>1, <1>4 DEF Lost, Pages
<1> QED BY <1>3, <1>6, <1>7, <1>8

\* The steps of the page.
PageTurns == page' \in Pages /\ (page'.wait \/ page'.until = 0)

LEMMA PageKeeps ==
  ASSUME ControlInv, PageTurns, UNCHANGED <<files, inst, surroundings, served, app, now>>, attempt' \in Attempts
  PROVE  ControlInv'
<1>1. /\ UNCHANGED <<files, inst, served, collided>> /\ foreign' \subseteq Ports
      /\ app' \in Apps /\ now' \in 0..MaxTime
  BY ControlTypes DEF surroundings
<1> QED BY <1>1, RestKeeps DEF PageTurns

LEMMA RefreshKeeps == ASSUME ControlInv, Refresh PROVE ControlInv'
<1>1. PageTurns
  <2>1. CASE Listener = {}
    <3>1. page' = Lost
      BY <2>1 DEF Refresh
    <3>2. Lost \in Pages /\ (Lost.wait \/ Lost.until = 0)
      <4>1. page \in Pages /\ (page.wait \/ page.until = 0)
        BY DEF ControlInv, RecordsOK
      <4> QED BY <4>1 DEF Lost, NoWait, Pages
    <3> QED BY <3>1, <3>2 DEF PageTurns
  <2>2. CASE Listener # {}
    <3>1. PICK i \in Instances : page' = Refused \/ page' = Reloaded(i) \/ page' = Rendered(i)
      BY <2>2 DEF Refresh, Listener
    <3> QED BY <3>1, PageForms DEF PageTurns
  <2> QED BY <2>1, <2>2
<1>2. UNCHANGED <<files, inst, surroundings, served, app, now>> /\ attempt' \in Attempts
  BY ControlTypes DEF Refresh, update
<1> QED BY <1>1, <1>2, PageKeeps

LEMMA TabKeeps ==
  ASSUME ControlInv, OpenModal \/ Confirm \/ NotApplied \/ \E i \in Instances : OpenPage(i)
  PROVE  ControlInv'
<1>0. page \in Pages /\ (page.wait \/ page.until = 0) /\ now + Limit \in Nat
  BY ControlTypes, ControlNumbers DEF ControlInv, RecordsOK
<1>1. CASE OpenModal
  BY <1>0, <1>1, ControlTypes, PageKeeps DEF OpenModal, PageTurns, Pages, update
<1>2. CASE Confirm
  BY <1>0, <1>2, ControlTypes, PageKeeps DEF Confirm, PageTurns, Pages, update
<1>3. CASE NotApplied
  BY <1>0, <1>3, ControlTypes, PageKeeps DEF NotApplied, NoWait, PageTurns, Pages, update
<1>4. ASSUME NEW i \in Instances, OpenPage(i) PROVE ControlInv'
  <2>1. inst[i] \in Starts
    BY ControlTypes
  <2>2. PageTurns
    BY <1>4, <2>1 DEF OpenPage, NoPage, Pages, Starts, PageTurns
  <2> QED BY <1>4, <2>2, ControlTypes, PageKeeps DEF OpenPage, update
<1> QED BY <1>1, <1>2, <1>3, <1>4

LEMMA ApplyKeeps == ASSUME ControlInv, NEW i \in Instances, Apply(i) PROVE ControlInv'
<1>0. page \in Pages /\ (page.wait \/ page.until = 0) /\ now \in 0..MaxTime
  BY ControlTypes DEF ControlInv, RecordsOK
<1>1. PageTurns
  BY <1>0 DEF Apply, PageTurns, Pages
<1>2. attempt' \in Attempts
  BY <1>0 DEF Apply, Attempts
<1> QED BY <1>1, <1>2, PageKeeps DEF Apply

-----------------------------------------------------------------------------
(* The starts.                                                                 *)

\* One start writes its record.
LEMMA StartWrites ==
  ASSUME ControlInv, NEW i \in Instances, NEW r \in Starts, inst' = [inst EXCEPT ![i] = r]
  PROVE  /\ inst' \in [Instances -> Starts] /\ inst'[i] = r
         /\ \A j \in Instances : j # i => inst'[j] = inst[j]
BY ControlTypes

LEMMA StartTypes ==
  ASSUME ControlInv, inst' \in [Instances -> Starts], cap' \in Caps, endpoint' \in Ports \cup {0},
         made' \in 0..MaxTokens, served' \subseteq Tokens \X Ports, UNCHANGED <<foreign, update, now>>,
         page' \in Pages, page'.wait \/ page'.until = 0
  PROVE  ControlTypeOK' /\ RecordsOK'
<1>1. /\ foreign' \subseteq Ports /\ app' \in Apps /\ attempt' \in Attempts /\ now' \in 0..MaxTime
  BY ControlTypes DEF update
<1> QED BY <1>1, TypesFollow

\* A start that ends takes nothing with it that others rely on.
LEMMA EndsKeeps == ASSUME ControlInv, NEW i \in Instances, Ends(i) PROVE ControlInv'
<1>1. Idle \in Starts /\ Idle.pc = "idle" /\ ~Idle.moved
  BY DEF Idle, Starts, NoCap, Caps, Apps
<1>2. inst' \in [Instances -> Starts] /\ inst'[i] = Idle /\ \A j \in Instances : j # i => inst'[j] = inst[j]
  BY <1>1, StartWrites DEF Ends
<1>3. page' \in Pages /\ (page'.wait \/ page'.until = 0)
  <2>1. page \in Pages /\ (page.wait \/ page.until = 0)
    BY DEF ControlInv, RecordsOK
  <2>2. \A a, b : a \in Instances \cup {0, Another} /\ b \in {"no", "out", "lost"} =>
          /\ [page EXCEPT !.known = a, !.sent = b] \in Pages
          /\ [page EXCEPT !.known = a, !.sent = b].wait = page.wait
          /\ [page EXCEPT !.known = a, !.sent = b].until = page.until
    BY <2>1 DEF Pages
  <2>3. PICK a, b : /\ a \in Instances \cup {0, Another} /\ b \in {"no", "out", "lost"}
                    /\ page' = [page EXCEPT !.known = a, !.sent = b]
    <3> DEFINE a == IF page.known = i THEN Another ELSE page.known
               b == IF page.sent = "out" /\ inst[i].port = page.port THEN "lost" ELSE page.sent
    <3>1. a \in Instances \cup {0, Another} /\ b \in {"no", "out", "lost"}
      BY <2>1 DEF Pages
    <3>2. page' = [page EXCEPT !.known = a, !.sent = b]
      BY DEF Ends
    <3> HIDE DEF a, b
    <3> QED BY <3>1, <3>2
  <2> QED BY <2>1, <2>2, <2>3
<1>4. UNCHANGED <<cap, endpoint, made, served, foreign, collided, update, now>>
  BY DEF Ends, files, surroundings
<1>5. ControlTypeOK' /\ RecordsOK'
  BY <1>2, <1>3, <1>4, ControlTypes, StartTypes
<1>6. OriginsOK'
  <2>1. \A t \in Tokens, p \in Ports : Origin(t, p)' => Origin(t, p)
    BY <1>1, <1>2, <1>4 DEF Origin, Binding, Owning, Requested
  <2> QED BY <1>4, <2>1, OriginsStay
<1>7. \A j \in Instances : StartOK(j)'
  BY <1>1, <1>2, <1>4 DEF ControlInv, StartOK, Binding, Owning
<1>8. CapOK'
  BY <1>1, <1>2, <1>4 DEF ControlInv, CapOK
<1> QED BY <1>5, <1>6, <1>7, <1>8 DEF ControlInv

\* The page stays as it is while a start goes on.
LEMMA StartKeeps ==
  ASSUME ControlInv, inst' \in [Instances -> Starts], cap' \in Caps, endpoint' \in Ports \cup {0},
         made' \in 0..MaxTokens, served' \subseteq Tokens \X Ports, UNCHANGED <<foreign, update, page, now>>,
         OriginsOK', CapOK', \A j \in Instances : StartOK(j)'
  PROVE  ControlInv'
<1>1. page' \in Pages /\ (page'.wait \/ page'.until = 0)
  BY DEF ControlInv, RecordsOK
<1> QED BY <1>1, StartTypes DEF ControlInv

\* What a start takes from the credential on record.
LEMMA Takes ==
  ASSUME ControlInv, cap # NoCap, NEW i \in Instances, NEW r,
         r = [inst[i] EXCEPT !.pc = "bind", !.cap = cap, !.port = Requested(cap)]
  PROVE  /\ r \in Starts /\ r.pc = "bind" /\ r.cap = cap /\ r.port = Requested(cap) /\ r.port \in Ports
         /\ r.moved = inst[i].moved /\ cap.token \in Tokens
         /\ cap.port # 0 => r.port = cap.port
<1>1. cap \in Caps /\ inst[i] \in Starts /\ cap.token # 0
  BY ControlTypes DEF ControlInv, CapOK
<1>2. Requested(cap) \in Ports
  BY <1>1, ControlTypes, ControlNumbers DEF Requested, Caps
<1> QED BY <1>1, <1>2 DEF Starts, Caps, Requested

LEMMA TakesKeeps ==
  ASSUME ControlInv, cap # NoCap, NEW i \in Instances,
         inst' = [inst EXCEPT ![i] = [@ EXCEPT !.pc = "bind", !.cap = cap, !.port = Requested(cap)]],
         UNCHANGED <<files, surroundings, served, update, page, now>>
  PROVE  ControlInv'
<1>1. PICK r : /\ r = [inst[i] EXCEPT !.pc = "bind", !.cap = cap, !.port = Requested(cap)]
               /\ r \in Starts /\ r.pc = "bind" /\ r.cap = cap /\ r.port = Requested(cap) /\ r.port \in Ports
               /\ r.moved = inst[i].moved /\ cap.token \in Tokens
               /\ cap.port # 0 => r.port = cap.port
  BY Takes
<1>2. inst' \in [Instances -> Starts] /\ inst'[i] = r /\ \A j \in Instances : j # i => inst'[j] = inst[j]
  BY <1>1, StartWrites
<1>3. UNCHANGED <<cap, endpoint, made, served, foreign, collided>>
  BY DEF files, surroundings
<1>4. OriginsOK'
  <2>1. \A t \in Tokens, p \in Ports : Origin(t, p)' => Origin(t, p)
    <3> SUFFICES ASSUME NEW t \in Tokens, NEW p \in Ports, Origin(t, p)' PROVE Origin(t, p)
      OBVIOUS
    <3>1. CASE \E j \in Instances : Binding(j)' /\ ~inst'[j].moved /\ t = inst'[j].cap.token /\ p = inst'[j].port
      BY <3>1, <1>1, <1>2, <1>3 DEF Origin, Binding
    <3>2. CASE \E j \in Instances : Owning(j)' /\ t = inst'[j].token /\ p = inst'[j].port
      BY <3>2, <1>1, <1>2, <1>3 DEF Origin, Owning
    <3> QED BY <3>1, <3>2, <1>3 DEF Origin, Requested
  <2> QED BY <1>3, <2>1, OriginsStay
<1>5. \A j \in Instances : StartOK(j)'
  <2>1. \A j \in Instances : j # i => StartOK(j)'
    BY <1>2, <1>3 DEF ControlInv, StartOK, Binding, Owning
  <2>2. StartOK(i)'
    BY <1>1, <1>2, <1>3, ControlNumbers DEF StartOK, Binding, Owning
  <2> QED BY <2>1, <2>2
<1>6. CapOK'
  BY <1>1, <1>2, <1>3 DEF ControlInv, CapOK
<1> QED BY <1>2, <1>3, <1>4, <1>5, <1>6, ControlTypes, StartKeeps

LEMMA BeginKeeps == ASSUME ControlInv, NEW i \in Instances, Begin(i) PROVE ControlInv'
<1>1. CASE cap # NoCap
  <2>1. inst' = [inst EXCEPT ![i] = [@ EXCEPT !.pc = "bind", !.cap = cap, !.port = Requested(cap)]]
    BY <1>1 DEF Begin, Starting
  <2> QED BY <1>1, <2>1, TakesKeeps DEF Begin
<1>2. CASE cap = NoCap
  <2>0. PICK r : r = [inst[i] EXCEPT !.pc = "create"]
    OBVIOUS
  <2>1. r \in Starts /\ r.pc = "create" /\ ~r.moved
    <3>1. inst[i] \in Starts
      BY ControlTypes
    <3>2. ~inst[i].moved
      BY DEF Begin, Idle
    <3> QED BY <2>0, <3>1, <3>2 DEF Starts
  <2>2. inst' \in [Instances -> Starts] /\ inst'[i] = r /\ \A j \in Instances : j # i => inst'[j] = inst[j]
    BY <1>2, <2>0, <2>1, StartWrites DEF Begin
  <2>3. UNCHANGED <<cap, endpoint, made, served, foreign, collided, update, page, now>>
    BY DEF Begin, files, surroundings
  <2>4. OriginsOK'
    <3>1. \A t \in Tokens, p \in Ports : Origin(t, p)' => Origin(t, p)
      BY <2>1, <2>2, <2>3 DEF Origin, Binding, Owning, Requested
    <3> QED BY <2>3, <3>1, OriginsStay
  <2>5. \A j \in Instances : StartOK(j)'
    BY <2>1, <2>2, <2>3 DEF ControlInv, StartOK, Binding, Owning
  <2>6. CapOK'
    BY <2>1, <2>2, <2>3 DEF ControlInv, CapOK
  <2> QED BY <2>2, <2>3, <2>4, <2>5, <2>6, ControlTypes, StartKeeps
<1> QED BY <1>1, <1>2

\* The first credential has one origin, as every start will ask for the same port.
LEMMA CreateKeeps == ASSUME ControlInv, NEW i \in Instances, CreateCapability(i) PROVE ControlInv'
<1>1. CASE cap # NoCap
  <2>1. /\ inst' = [inst EXCEPT ![i] = [@ EXCEPT !.pc = "bind", !.cap = cap, !.port = Requested(cap)]]
        /\ UNCHANGED <<files, surroundings, served, update, page, now>>
    BY <1>1 DEF CreateCapability, Creates, Starting, files
  <2> QED BY <1>1, <2>1, TakesKeeps
<1>2. CASE cap = NoCap
  <2> DEFINE new == [token |-> FreshToken, port |-> 0]
  <2>0. /\ FreshToken \in Tokens /\ made' = FreshToken /\ cap' = new
        /\ inst' = [inst EXCEPT ![i] = [@ EXCEPT !.pc = "bind", !.cap = cap', !.port = Requested(cap')]]
        /\ UNCHANGED <<endpoint, served, foreign, collided, update, page, now>>
    BY <1>2 DEF CreateCapability, Creates, Starting, surroundings
  <2>1. made = 0 /\ FreshToken = 1
    BY <1>2 DEF ControlInv, CapOK, FreshToken
  <2>2. new \in Caps /\ new # NoCap /\ new.token = 1 /\ new.port = 0
    BY <2>0, <2>1, ControlNumbers DEF Caps, NoCap
  <2>3. Requested(new) \in Ports
    BY <2>2, ControlTypes, ControlNumbers DEF Requested
  <2>6. Requested(cap') = Requested(new) /\ Requested(cap)' = Requested(new) /\ cap' = new
    BY <2>0 DEF Requested
  <2> HIDE DEF new
  <2>11. PICK r : r = [inst[i] EXCEPT !.pc = "bind", !.cap = new, !.port = Requested(new)]
    OBVIOUS
  <2>4. r \in Starts /\ r.pc = "bind" /\ r.cap = new /\ r.port = Requested(new) /\ r.moved = inst[i].moved
    <3>1. inst[i] \in Starts
      BY ControlTypes
    <3> QED BY <3>1, <2>11, <2>2, <2>3 DEF Starts
  <2>5. inst' \in [Instances -> Starts] /\ inst'[i] = r /\ \A j \in Instances : j # i => inst'[j] = inst[j]
    BY <2>0, <2>4, <2>6, <2>11, StartWrites
  <2>7. OriginsOK'
    <3>1. \A t \in Tokens, p \in Ports : Origin(t, p)' => Origin(t, p) \/ (t = FreshToken /\ p = Requested(new))
      BY <2>0, <2>1, <2>2, <2>4, <2>5, <2>6 DEF Origin, Binding, Owning
    <3> QED BY <2>0, <2>3, <3>1, OriginIsFresh
  <2>8. \A j \in Instances : StartOK(j)'
    <3>1. \A j \in Instances : j # i => StartOK(j)'
      BY <1>2, <2>2, <2>5, <2>6 DEF ControlInv, StartOK, Binding, Owning, NoCap
    <3>2. StartOK(i)'
      BY <2>2, <2>3, <2>4, <2>5, <2>6, ControlNumbers DEF StartOK, Binding, Owning
    <3> QED BY <3>1, <3>2
  <2>9. CapOK'
    BY <2>0, <2>1, <2>2, <2>4, <2>5, <2>6 DEF ControlInv, CapOK
  <2>10. made' \in 0..MaxTokens /\ cap' \in Caps
    BY <2>0, <2>2, ControlNumbers DEF Tokens
  <2> QED BY <2>0, <2>5, <2>7, <2>8, <2>9, <2>10, ControlTypes, StartKeeps
<1> QED BY <1>1, <1>2

LEMMA BindKeeps == ASSUME ControlInv, NEW i \in Instances, BindRequested(i) PROVE ControlInv'
<1>0. PICK r : r = [inst[i] EXCEPT !.pc = "bound"]
  OBVIOUS
<1>1. /\ r \in Starts /\ r.pc = "bound" /\ r.cap = inst[i].cap
      /\ r.port = inst[i].port /\ r.moved = inst[i].moved
  <2>1. inst[i] \in Starts
    BY ControlTypes
  <2> QED BY <1>0, <2>1 DEF Starts
<1>2. inst' \in [Instances -> Starts] /\ inst'[i] = r /\ \A j \in Instances : j # i => inst'[j] = inst[j]
  BY <1>0, <1>1, StartWrites DEF BindRequested
<1>3. UNCHANGED <<cap, endpoint, made, served, foreign, collided, update, page, now>> /\ inst[i].pc = "bind"
  BY DEF BindRequested, files, surroundings
<1>4. OriginsOK'
  <2>1. \A t \in Tokens, p \in Ports : Origin(t, p)' => Origin(t, p)
    BY <1>1, <1>2, <1>3 DEF Origin, Binding, Owning, Requested
  <2> QED BY <1>3, <2>1, OriginsStay
<1>5. \A j \in Instances : StartOK(j)'
  BY <1>1, <1>2, <1>3 DEF ControlInv, StartOK, Binding, Owning
<1>6. CapOK'
  BY <1>1, <1>2, <1>3 DEF ControlInv, CapOK
<1> QED BY <1>2, <1>3, <1>4, <1>5, <1>6, ControlTypes, StartKeeps

\* Who leaves the port of its credential is not an origin of it any more.
LEMMA FallbackKeeps == ASSUME ControlInv, NEW i \in Instances, BindFallback(i) PROVE ControlInv'
<1>0. /\ UNCHANGED <<cap, endpoint, made, served, foreign, update, page, now>> /\ collided' = TRUE
      /\ inst[i].pc = "bind"
  BY DEF BindFallback, files
<1>1. PICK r \in Starts : /\ inst' = [inst EXCEPT ![i] = r]
                          /\ \/ r.pc = "idle"
                             \/ r.pc = "bound" /\ r.moved /\ r.cap = inst[i].cap /\ r.port # 0
  <2>1. Idle \in Starts /\ Idle.pc = "idle"
    BY DEF Idle, Starts, NoCap, Caps, Apps
  <2>2. ASSUME NEW p \in Ports, inst' = [inst EXCEPT ![i] = [@ EXCEPT !.pc = "bound", !.port = p, !.moved = TRUE]]
        PROVE  \E r \in Starts : /\ inst' = [inst EXCEPT ![i] = r]
                                 /\ r.pc = "bound" /\ r.moved /\ r.cap = inst[i].cap /\ r.port # 0
    <3>1. PICK r : r = [inst[i] EXCEPT !.pc = "bound", !.port = p, !.moved = TRUE]
      OBVIOUS
    <3>2. r \in Starts /\ r.pc = "bound" /\ r.moved /\ r.cap = inst[i].cap /\ r.port # 0
      BY <3>1, ControlTypes, ControlNumbers DEF Starts
    <3> QED BY <2>2, <3>1, <3>2
  <2> QED BY <2>1, <2>2 DEF BindFallback
<1>2. inst' \in [Instances -> Starts] /\ inst'[i] = r /\ \A j \in Instances : j # i => inst'[j] = inst[j]
  BY <1>1, StartWrites
<1>4. OriginsOK'
  <2>1. \A t \in Tokens, p \in Ports : Origin(t, p)' => Origin(t, p)
    BY <1>0, <1>1, <1>2 DEF Origin, Binding, Owning, Requested
  <2> QED BY <1>0, <2>1, OriginsStay
<1>5. \A j \in Instances : StartOK(j)'
  BY <1>0, <1>1, <1>2 DEF ControlInv, StartOK, Binding, Owning
<1>6. CapOK'
  BY <1>0 DEF ControlInv, CapOK
<1> QED BY <1>0, <1>2, <1>4, <1>5, <1>6, ControlTypes, StartKeeps

\* A start that had to move takes a token of its own for the port it got; another one
\* records the port it asked for.
LEMMA ClaimKeeps == ASSUME ControlInv, NEW i \in Instances, Claim(i) PROVE ControlInv'
<1> DEFINE token == IF Rotates(i) THEN FreshToken ELSE inst[i].cap.token
<1>0. /\ token \in Tokens /\ made' = (IF Rotates(i) THEN FreshToken ELSE made)
      /\ cap' = IF Rotates(i) \/ inst[i].cap.port # inst[i].port
                  THEN [token |-> token, port |-> inst[i].port] ELSE cap
      /\ UNCHANGED <<endpoint, served, foreign, collided, update, page, now>>
      /\ inst[i].pc = "bound"
  BY DEF Claim, Ported, surroundings
<1>1. PICK r : r = [inst[i] EXCEPT !.pc = "claimed", !.token = token]
  OBVIOUS
<1>2. inst[i] \in Starts /\ inst[i].port \in Ports /\ inst[i].cap.token # 0 /\ cap # NoCap /\ inst[i].cap \in Caps
  BY <1>0, ControlTypes DEF ControlInv, StartOK, Binding, Starts
<1>3. r \in Starts /\ r.pc = "claimed" /\ r.token = token /\ r.port = inst[i].port /\ r.moved = inst[i].moved
  <2> HIDE DEF token
  <2> QED BY <1>0, <1>1, <1>2 DEF Starts
<1>4. inst' \in [Instances -> Starts] /\ inst'[i] = r /\ \A j \in Instances : j # i => inst'[j] = inst[j]
  BY <1>1, <1>3, StartWrites DEF Claim
<1>5. Rotates(i) <=> inst[i].moved
  BY <1>0 DEF Rotates, ControlInv, StartOK, Binding
<1>6. made' \in 0..MaxTokens /\ cap' \in Caps
  <2>1. made' \in 0..MaxTokens
    <3>1. \A t \in Tokens : t \in 0..MaxTokens
      BY ControlNumbers DEF Tokens
    <3> QED BY <1>0, <3>1, ControlTypes
  <2>2. cap \in Caps
    BY ControlTypes
  <2> HIDE DEF token
  <2> QED BY <1>0, <1>2, <2>1, <2>2 DEF Caps
<1>7. cap'.port # 0 /\ cap' # NoCap /\ cap'.token # 0
  <2>1. CASE Rotates(i) \/ inst[i].cap.port # inst[i].port
    <3>1. cap' = [token |-> token, port |-> inst[i].port] /\ token \in Tokens
      BY <1>0, <2>1
    <3> HIDE DEF token
    <3> QED BY <1>2, <3>1, ControlNumbers DEF NoCap
  <2>2. CASE ~(Rotates(i) \/ inst[i].cap.port # inst[i].port)
    <3>1. cap' = cap /\ cap.port # 0
      BY <1>0, <1>2, <2>2, ControlNumbers DEF ControlInv, StartOK, Binding
    <3> QED BY <1>2, <3>1 DEF ControlInv, CapOK
  <2> QED BY <2>1, <2>2
<1>8. OriginsOK'
  <2>1. CASE inst[i].moved
    <3>1. made' = FreshToken /\ cap' = [token |-> FreshToken, port |-> inst[i].port] /\ r.token = FreshToken
      BY <1>0, <1>3, <1>5, <2>1
    <3>2. \A t \in Tokens, p \in Ports : Origin(t, p)' => Origin(t, p) \/ (t = FreshToken /\ p = inst[i].port)
      <4> SUFFICES ASSUME NEW t \in Tokens, NEW p \in Ports, Origin(t, p)'
                   PROVE  Origin(t, p) \/ (t = FreshToken /\ p = inst[i].port)
        OBVIOUS
      <4>1. CASE t = cap'.token /\ p = Requested(cap)'
        BY <4>1, <3>1, <1>2, ControlNumbers DEF Requested
      <4>2. CASE \E j \in Instances : Binding(j)' /\ ~inst'[j].moved /\ t = inst'[j].cap.token /\ p = inst'[j].port
        BY <4>2, <1>3, <1>4 DEF Origin, Binding
      <4>3. CASE \E j \in Instances : Owning(j)' /\ t = inst'[j].token /\ p = inst'[j].port
        BY <4>3, <1>3, <1>4, <3>1 DEF Origin, Owning
      <4> QED BY <1>0, <4>1, <4>2, <4>3 DEF Origin
    <3> QED BY <1>2, <3>1, <3>2, OriginIsFresh
  <2>2. CASE ~inst[i].moved
    <3>1. made' = made /\ r.token = inst[i].cap.token /\ (cap' = cap \/ cap' = [token |-> inst[i].cap.token, port |-> inst[i].port])
      BY <1>0, <1>3, <1>5, <2>2
    <3>2. \A t, p : t = inst[i].cap.token /\ p = inst[i].port => Origin(t, p)
      BY <1>0, <2>2 DEF Origin, Binding
    <3>3. \A t \in Tokens, p \in Ports : Origin(t, p)' => Origin(t, p)
      <4> SUFFICES ASSUME NEW t \in Tokens, NEW p \in Ports, Origin(t, p)' PROVE Origin(t, p)
        OBVIOUS
      <4>1. CASE t = cap'.token /\ p = Requested(cap)'
        <5>1. CASE cap' = cap
          BY <4>1, <5>1, <1>0, <1>2 DEF Origin, Requested
        <5>2. CASE cap' = [token |-> inst[i].cap.token, port |-> inst[i].port]
          BY <4>1, <5>2, <3>2, <1>2, ControlNumbers DEF Requested
        <5> QED BY <3>1, <5>1, <5>2
      <4>2. CASE \E j \in Instances : Binding(j)' /\ ~inst'[j].moved /\ t = inst'[j].cap.token /\ p = inst'[j].port
        BY <4>2, <1>3, <1>4 DEF Origin, Binding
      <4>3. CASE \E j \in Instances : Owning(j)' /\ t = inst'[j].token /\ p = inst'[j].port
        BY <4>3, <1>3, <1>4, <3>1, <3>2 DEF Origin, Owning
      <4> QED BY <1>0, <4>1, <4>2, <4>3 DEF Origin
    <3> QED BY <3>1, <3>3, OriginsStay
  <2> QED BY <2>1, <2>2
<1>9. \A j \in Instances : StartOK(j)'
  <2>1. \A j \in Instances : j # i => StartOK(j)'
    BY <1>4, <1>7 DEF ControlInv, StartOK, Binding, Owning
  <2>2. r.token # 0 /\ r.port # 0
    BY <1>0, <1>2, <1>3, ControlNumbers
  <2>3. StartOK(i)'
    BY <1>3, <1>4, <1>7, <2>2 DEF StartOK, Binding, Owning
  <2> QED BY <2>1, <2>3
<1>10. CapOK'
  <2>1. \A j \in Instances : inst'[j].moved = inst[j].moved
    BY <1>3, <1>4
  <2>2. made' # 0
    <3>1. FreshToken # 0
      BY ControlTypes, ControlNumbers DEF FreshToken
    <3> QED BY <1>0, <1>2, <3>1 DEF ControlInv, CapOK
  <2>3. ~collided => made' = made
    BY <1>0, <1>5 DEF ControlInv, CapOK
  <2> QED BY <1>0, <1>7, <2>1, <2>2, <2>3 DEF ControlInv, CapOK
<1> QED BY <1>0, <1>4, <1>6, <1>8, <1>9, <1>10, ControlTypes, StartKeeps

\* By then the credential has its port, so the endpoint cache no longer matters.
LEMMA ServeKeeps == ASSUME ControlInv, NEW i \in Instances, Serve(i) PROVE ControlInv'
<1>0. /\ UNCHANGED <<cap, made, foreign, collided, update, page, now>> /\ inst[i].pc = "claimed"
      /\ endpoint' \in {endpoint, inst[i].port} /\ served' = served \cup {<<inst[i].token, inst[i].port>>}
  BY DEF Serve, surroundings
<1>1. PICK r : r = [inst[i] EXCEPT !.pc = "serving", !.cap = NoCap, !.moved = FALSE, !.app = app]
  OBVIOUS
<1>2. inst[i] \in Starts /\ inst[i].port \in Ports /\ inst[i].token \in Tokens /\ cap.port # 0
  BY <1>0, ControlTypes DEF ControlInv, StartOK, Owning, Starts
<1>3. r \in Starts /\ r.pc = "serving" /\ r.token = inst[i].token /\ r.port = inst[i].port /\ ~r.moved
  <2>1. NoCap \in Caps /\ app \in Apps
    BY ControlTypes DEF NoCap, Caps
  <2> QED BY <1>1, <1>2, <2>1 DEF Starts
<1>4. inst' \in [Instances -> Starts] /\ inst'[i] = r /\ \A j \in Instances : j # i => inst'[j] = inst[j]
  BY <1>1, <1>3, StartWrites DEF Serve
<1>5. endpoint' \in Ports \cup {0} /\ served' \subseteq Tokens \X Ports
  BY <1>0, <1>2, ControlTypes
<1>6. OriginsOK'
  <2>1. \A t, p : <<t, p>> \in served' => Origin(t, p)
    BY <1>0 DEF Origin, Owning
  <2>2. Requested(cap)' = Requested(cap)
    BY <1>0, <1>2 DEF Requested
  <2>3. \A t \in Tokens, p \in Ports : Origin(t, p)' => Origin(t, p)
    <3> SUFFICES ASSUME NEW t \in Tokens, NEW p \in Ports, Origin(t, p)' PROVE Origin(t, p)
      OBVIOUS
    <3>1. CASE \E j \in Instances : Binding(j)' /\ ~inst'[j].moved /\ t = inst'[j].cap.token /\ p = inst'[j].port
      BY <3>1, <1>3, <1>4 DEF Origin, Binding
    <3>2. CASE \E j \in Instances : Owning(j)' /\ t = inst'[j].token /\ p = inst'[j].port
      BY <3>2, <1>0, <1>3, <1>4 DEF Origin, Owning
    <3> QED BY <1>0, <2>1, <2>2, <3>1, <3>2 DEF Origin
  <2> QED BY <1>0, <2>3, OriginsStay
<1>7. \A j \in Instances : StartOK(j)'
  <2>1. \A j \in Instances : j # i => StartOK(j)'
    BY <1>0, <1>4 DEF ControlInv, StartOK, Binding, Owning
  <2>2. StartOK(i)'
    BY <1>0, <1>2, <1>3, <1>4, ControlNumbers DEF StartOK, Binding, Owning
  <2> QED BY <2>1, <2>2
<1>8. CapOK'
  BY <1>0, <1>3, <1>4 DEF ControlInv, CapOK
<1> QED BY <1>0, <1>4, <1>5, <1>6, <1>7, <1>8, ControlTypes, StartKeeps

-----------------------------------------------------------------------------
(* The invariant and its theorems.                                             *)

LEMMA ControlStart == ControlInit => ControlInv
<1> SUFFICES ASSUME ControlInit PROVE ControlInv
  OBVIOUS
<1>1. Idle \in Starts /\ Idle.pc = "idle" /\ ~Idle.moved /\ NoAttempt \in Attempts
  BY ControlNumbers DEF Idle, Starts, NoCap, Caps, Apps, NoAttempt, Attempts
<1>2. NoPage \in Pages /\ NoPage.until = 0
  BY DEF NoPage, Pages
<1>3. /\ cap \in Caps /\ endpoint \in Ports \cup {0} /\ made \in {0, 1} /\ served \subseteq Tokens \X Ports
      /\ cap.token = made /\ cap.port = 0 /\ (made = 0 => served = {})
      /\ \A s \in served : s = <<1, Requested(cap)>>
  <2>1. CASE cap = NoCap /\ made = 0 /\ served = {} /\ endpoint = 0
    BY <2>1 DEF NoCap, Caps
  <2>2. CASE /\ cap = [token |-> 1, port |-> 0] /\ made = 1 /\ endpoint \in Ports \cup {0}
             /\ served = {<<1, IF endpoint = 0 THEN Preferred ELSE endpoint>>}
    BY <2>2, ControlNumbers DEF Caps, Requested
  <2> QED BY <2>1, <2>2 DEF ControlInit
<1>4. /\ inst \in [Instances -> Starts] /\ \A i \in Instances : inst[i] = Idle
  BY <1>1 DEF ControlInit
<1>5. ControlTypeOK /\ RecordsOK
  <2>1. /\ made \in Tokens \cup {0} /\ foreign \subseteq Ports /\ app \in Apps
        /\ attempt = NoAttempt /\ now \in 0..MaxTime /\ page = NoPage
    BY <1>3, ControlNumbers DEF ControlInit, Apps
  <2>2. \A i \in Instances :
          /\ inst[i].pc \in {"idle", "create", "bind", "bound", "claimed", "serving"}
          /\ inst[i].cap.token \in Tokens \cup {0} /\ inst[i].token \in Tokens \cup {0}
          /\ inst[i].port \in Ports \cup {0} /\ inst[i].app \in Apps
    BY <1>4 DEF Starts, Caps
  <2>3. attempt.at \in 0..MaxTime
    BY <1>1, <2>1 DEF Attempts
  <2>4. page.pc \in {"closed", "loading", "connected", "waiting", "lost", "refused"}
    BY <1>2, <2>1 DEF Pages
  <2> QED BY <1>1, <1>2, <1>3, <1>4, <2>1, <2>2, <2>3, <2>4 DEF ControlTypeOK, RecordsOK, Caps
<1>6. OriginsOK
  <2>1. \A t, p : Origin(t, p) => t = made /\ p = Requested(cap)
    BY <1>1, <1>3, <1>4 DEF Origin, Binding, Owning
  <2> QED BY <1>3, <2>1 DEF OriginsOK
<1>7. \A i \in Instances : StartOK(i)
  BY <1>1, <1>4 DEF StartOK, Binding, Owning
<1>8. CapOK
  BY <1>1, <1>3, <1>4 DEF ControlInit, CapOK, NoCap
<1> QED BY <1>5, <1>6, <1>7, <1>8 DEF ControlInv

LEMMA ControlStep == ControlInv /\ [ControlNext]_controlVars => ControlInv'
<1> SUFFICES ASSUME ControlInv, [ControlNext]_controlVars PROVE ControlInv'
  OBVIOUS
<1>1. ASSUME NEW i \in Instances, Start(i) PROVE ControlInv'
  BY <1>1, BeginKeeps, CreateKeeps, BindKeeps, FallbackKeeps, ClaimKeeps, ServeKeeps DEF Start
<1>2. ASSUME NEW i \in Instances, Ends(i) \/ OpenPage(i) \/ Apply(i) PROVE ControlInv'
  BY <1>2, EndsKeeps, TabKeeps, ApplyKeeps
<1>3. CASE UNCHANGED controlVars
  <2>1. UNCHANGED <<files, inst, served, collided>> /\ UNCHANGED <<foreign, update, page, now>>
    BY <1>3 DEF controlVars, surroundings
  <2>2. /\ foreign' \subseteq Ports /\ app' \in Apps /\ attempt' \in Attempts /\ now' \in 0..MaxTime
        /\ page' \in Pages /\ (page'.wait \/ page'.until = 0)
    BY <2>1, ControlTypes DEF update, ControlInv, RecordsOK
  <2> QED BY <2>1, <2>2, RestKeeps
<1> QED BY <1>1, <1>2, <1>3, ForeignKeeps, InstallsKeeps, RefreshKeeps, TabKeeps, TickKeeps DEF ControlNext

\* Whatever starts overlap, die or find their port taken, a capability is noted with
\* one port, and a start that must leave it makes another one (startLocalControl).
THEOREM ControlInvariant == ControlSpec => []ControlInv
BY ControlStart, ControlStep, PTL DEF ControlSpec

\* One capability is never accepted on two ports.
THEOREM TokenOneOriginHolds == ControlSpec => []TokenOneOrigin
<1>1. ControlInv => TokenOneOrigin
  <2> SUFFICES ASSUME ControlInv, NEW s \in served, NEW t \in served, s[1] = t[1] PROVE s[2] = t[2]
    BY DEF ControlInv, TokenOneOrigin
  <2>1. s[1] \in Tokens /\ s[2] \in Ports /\ s = <<s[1], s[2]>> /\ t[2] \in Ports /\ t = <<t[1], t[2]>>
    BY ControlTypes
  <2>2. Origin(s[1], s[2]) /\ Origin(s[1], t[2])
    BY <2>1 DEF Origin
  <2> QED BY <2>1, <2>2 DEF ControlInv, OriginsOK
<1> QED BY <1>1, ControlInvariant, PTL

\* What was accepted on a port is accepted there by every later Control Center, so that
\* an open page reconnects, unless some start had to leave its port.
THEOREM PageSurvivesHolds == ControlSpec => []PageSurvives
<1>1. ControlInv => PageSurvives
  <2> SUFFICES ASSUME ControlInv, ~collided, NEW i \in Instances, inst[i].pc = "serving",
                      NEW s \in served, s[2] = inst[i].port
               PROVE  s[1] = inst[i].token
    BY DEF PageSurvives
  <2>1. s[1] \in Tokens /\ s[2] \in Ports /\ s = <<s[1], s[2]>>
    BY ControlTypes
  <2>2. inst[i] \in Starts /\ inst[i].token \in Tokens /\ inst[i].port \in Ports
    BY ControlTypes DEF ControlInv, StartOK, Owning, Starts
  <2>3. Origin(s[1], s[2]) /\ Origin(inst[i].token, inst[i].port)
    BY <2>1 DEF Origin, Owning
  <2>4. s[1] <= 1 /\ inst[i].token <= 1
    <3>1. made <= 1 /\ made \in Nat
      BY ControlTypes, ControlNumbers DEF ControlInv, CapOK
    <3>2. s[1] <= made /\ inst[i].token <= made
      BY <2>1, <2>2, <2>3 DEF ControlInv, OriginsOK
    <3> QED BY <2>1, <2>2, <3>1, <3>2, ControlNumbers
  <2>5. \A t \in Tokens : t <= 1 => t = 1
    BY ControlNumbers DEF Tokens
  <2> QED BY <2>1, <2>2, <2>4, <2>5
<1> QED BY <1>1, ControlInvariant, PTL
=============================================================================
