----------------------------- MODULE InstallLock -----------------------------
(***************************************************************************)
(* The lock of the installers of one distribution (acquire_install_lock    *)
(* and cleanup in platform/unix/bootstrap.sh): a directory made by mkdir,  *)
(* with its owner's process id in it.  A lock whose owner was killed is    *)
(* reclaimed, which a directory inside it serialises; a lock without a     *)
(* process id stays.                                                       *)
(*                                                                         *)
(* An installer runs once and stands for its process id: none is used      *)
(* again for another process.                                              *)
(***************************************************************************)
EXTENDS Naturals

CONSTANTS
    Installers,  \* their process ids
    Nil

ASSUME LockAssumption == Nil \notin Installers

VARIABLES
    installLock,  \* install.lock: the directory, its file pid, its directory reclaim
    step,         \* where each installer is
    owner         \* owner_pid: the process id it read

lockVars == <<installLock, step, owner>>

NoLock == [made |-> FALSE, pid |-> Nil, reclaim |-> FALSE]
NewLock == [made |-> TRUE, pid |-> Nil, reclaim |-> FALSE]

LockInit ==
    /\ installLock = NoLock
    /\ step = [p \in Installers |-> "mkdir"]
    /\ owner = [p \in Installers |-> Nil]

Ended(p) == step[p] \in {"end", "dead"}
To(p, s) == step' = [step EXCEPT ![p] = s]

\* mkdir either makes the lock or finds it there.
Make(p, from, otherwise) ==
    /\ step[p] = from
    /\ IF installLock.made
         THEN To(p, otherwise) /\ UNCHANGED installLock
         ELSE To(p, "made") /\ installLock' = NewLock
    /\ UNCHANGED owner
WritePid(p) ==
    /\ step[p] = "made"
    /\ installLock' = [installLock EXCEPT !.pid = p]
    /\ To(p, "work") /\ UNCHANGED owner

\* A lock with no process id in it is left alone.
ReadOwner(p) ==
    /\ step[p] = "read"
    /\ owner' = [owner EXCEPT ![p] = installLock.pid]
    /\ To(p, IF installLock.pid = Nil THEN "end" ELSE "probe")
    /\ UNCHANGED installLock
ProbeOwner(p) ==
    /\ step[p] = "probe"
    /\ To(p, IF Ended(owner[p]) THEN "claim" ELSE "end")
    /\ UNCHANGED <<installLock, owner>>

MakeReclaim(p) ==
    /\ step[p] = "claim"
    /\ IF installLock.made /\ ~installLock.reclaim
         THEN To(p, "recheck") /\ installLock' = [installLock EXCEPT !.reclaim = TRUE]
         ELSE To(p, "end") /\ UNCHANGED installLock
    /\ UNCHANGED owner

\* Another reader may have replaced the lock since.
\* Mutant: not looked at again.
OwnerUnchecked(p) == TRUE
SameOwner(p) == installLock.pid = owner[p]
Recheck(p) ==
    /\ step[p] = "recheck"
    /\ To(p, IF SameOwner(p) THEN "move" ELSE "drop")
    /\ UNCHANGED <<installLock, owner>>
DropReclaim(p) ==
    /\ step[p] = "drop"
    /\ installLock' = [installLock EXCEPT !.reclaim = FALSE]
    /\ To(p, "end") /\ UNCHANGED owner
\* The lock is moved away whole and erased under its new name; or the move fails.
MoveAway(p) ==
    /\ step[p] = "move"
    /\ \/ installLock' = NoLock /\ To(p, "again")
       \/ To(p, "drop") /\ UNCHANGED installLock
    /\ UNCHANGED owner

\* The trap of every exit after the lock was taken.
RemovePid(p) ==
    /\ step[p] = "work"
    /\ IF installLock.pid = p
         THEN installLock' = [installLock EXCEPT !.pid = Nil] /\ To(p, "leave")
         ELSE To(p, "end") /\ UNCHANGED installLock
    /\ UNCHANGED owner
\* rmdir fails while a reader's reclaim is in it: that lock stays for good.
RemoveLock(p) ==
    /\ step[p] = "leave"
    /\ installLock' = IF installLock.reclaim THEN installLock ELSE NoLock
    /\ To(p, "end") /\ UNCHANGED owner

\* kill -9, a crash; or any signal before the trap is set.
Kill(p) ==
    /\ ~Ended(p)
    /\ To(p, "dead") /\ UNCHANGED <<installLock, owner>>

Acquire(p) ==
    \/ Make(p, "mkdir", "read") \/ WritePid(p)
    \/ ReadOwner(p) \/ ProbeOwner(p) \/ MakeReclaim(p)
    \/ Recheck(p) \/ DropReclaim(p) \/ MoveAway(p) \/ Make(p, "again", "end")
Cleanup(p) == RemovePid(p) \/ RemoveLock(p)

LockNext == \E p \in Installers : Acquire(p) \/ Cleanup(p) \/ Kill(p)
LockSpec == LockInit /\ [][LockNext]_lockVars

-----------------------------------------------------------------------------
Steps == {"mkdir", "made", "read", "probe", "claim", "recheck", "drop",
          "move", "again", "work", "leave", "end", "dead"}
LockTypeOK ==
    /\ installLock \in [made : BOOLEAN, pid : Installers \cup {Nil}, reclaim : BOOLEAN]
    /\ step \in [Installers -> Steps]
    /\ owner \in [Installers -> Installers \cup {Nil}]

\* "Serialize reclaim and recheck ownership before removing anything": however
\* many installers find the lock of a killed one, and whenever they or others are
\* killed, no two of them have the lock.
Owns(p) == step[p] \in {"made", "work", "leave"}
OneAtATime == \A p, q \in Installers : Owns(p) /\ Owns(q) => p = q
=============================================================================
