---------------------------- MODULE UpdatePolicy ----------------------------
(***************************************************************************)
(* The fleet update policy (gateway/update-policy.mjs, store.mjs): the     *)
(* policy row, the administrators who change it, the publishers who delete *)
(* old releases under a lease kept in the same row                         *)
(* (scripts/publish-downloads.mjs, download-server.sh), and the cache an   *)
(* isolate of the Worker answers policy reads from.                        *)
(*                                                                         *)
(* Each action is one awaited call: a D1 statement, a fetch from the       *)
(* download site, or a command on its server.                              *)
(***************************************************************************)
EXTENDS Naturals, FiniteSets

CONSTANTS
    Admins,       \* requests that save the policy
    Publishers,   \* publications of a release
    Readers,      \* policy reads that miss the cache
    Crews,        \* who acts: one of these sets in each behaviour
    Versions,     \* release numbers, a range of naturals starting at 1
    Lease,        \* life of a publication lease: 15 minutes
    Margin,       \* what must be left of it when a release is deleted: 2 minutes
    Fresh,        \* life of a cached policy: 60 seconds
    MaxRevision,  \* bound on the saves
    MaxTime,      \* bound on the clock
    Nobody

ASSUME PolicyAssumption ==
    /\ Versions = 1 .. Cardinality(Versions) /\ 1 \in Versions
    /\ {Lease, Margin, Fresh, MaxRevision, MaxTime} \subseteq Nat
    /\ Nobody \notin Publishers \cup Readers
    /\ \A c \in Crews : c \subseteq Admins \cup Publishers \cup Readers

VARIABLES
    row,       \* the policy row; version 0 stands for NULL
    releases,  \* versions the download server holds
    stable,    \* the version it serves as stable
    flock,     \* the publisher that holds the server's lock
    admin, pub, reader,
    entry,     \* the isolate's cache entry
    floor,     \* the last revision this isolate saved and invalidated the cache for
    now,
    crew       \* who acts in this behaviour

policyVars == <<crew, row, releases, stable, flock, admin, pub, reader, entry, floor, now>>
serverVars == <<crew, releases, stable, flock>>
cacheVars == <<reader, entry, floor>>

Chosen == Versions \cup {0}
NoPolicy == [revision |-> 0, auto |-> 0, minimum |-> 0]
AdminIdle == [pc |-> "idle", auto |-> 0, minimum |-> 0, policy |-> NoPolicy]
PubIdle == [pc |-> "idle", version |-> 0, initial |-> 0, keep |-> {}, expires |-> 0]
ReaderIdle == [pc |-> "idle", revision |-> 0]
NoEntry == [owner |-> Nobody, revision |-> 0, expires |-> 0]

PolicyInit ==
    /\ row = [auto |-> 0, minimum |-> 0, revision |-> 0, token |-> Nobody, until |-> 0]
    /\ releases = {1} /\ stable = 1 /\ flock = Nobody
    /\ admin = [a \in Admins |-> AdminIdle]
    /\ pub = [p \in Publishers |-> PubIdle]
    /\ reader = [r \in Readers |-> ReaderIdle]
    /\ entry = NoEntry /\ floor = 0
    /\ now = 0
    /\ crew \in Crews

\* validateUpdatePolicy.
Valid(auto, minimum, top) ==
    /\ auto <= top
    /\ minimum <= top
    /\ minimum # 0 => auto # 0 /\ minimum <= auto

Leased == row.until > now

-----------------------------------------------------------------------------
(* saveUpdatePolicy, and the form of the admin page that asks for it: the   *)
(* form shows a policy; saving reads the row, fetches stable, verifies the  *)
(* releases, then compares and sets.                                        *)

AdminStep(a, pc) == admin' = [admin EXCEPT ![a].pc = pc]
Shown(a, p) ==
    admin' = [admin EXCEPT ![a] = [AdminIdle EXCEPT !.pc = "shown", !.policy = p]]
\* No confirmed answer: the form keeps the policy it showed.
NotSaved(a) == Shown(a, admin[a].policy)

Policy == [revision |-> row.revision, auto |-> row.auto, minimum |-> row.minimum]

\* The page is loaded, or loaded again.
ShowPolicy(a) ==
    /\ admin[a].pc \in {"idle", "shown"}
    /\ Shown(a, Policy)
    /\ UNCHANGED <<row, serverVars, pub, cacheVars, now>>

\* refreshMinimumOptions: a minimum is offered up to the promoted version.
Selectable(auto, minimum) == minimum <= auto

\* The revision read here is compared with the form's once stable was fetched;
\* nothing is changed in between, so the comparison is made here.
SaveRead(a, auto, minimum) ==
    /\ admin[a].pc = "shown"
    /\ Selectable(auto, minimum)
    /\ IF ~Leased /\ row.revision = admin[a].policy.revision
         THEN admin' = [admin EXCEPT ![a] = [@ EXCEPT !.pc = "stable", !.auto = auto, !.minimum = minimum]]
         ELSE NotSaved(a)
    /\ UNCHANGED <<row, serverVars, pub, cacheVars, now>>

SaveStable(a) ==
    /\ admin[a].pc = "stable"
    /\ IF Valid(admin[a].auto, admin[a].minimum, stable) THEN AdminStep(a, "verify") ELSE NotSaved(a)
    /\ UNCHANGED <<row, serverVars, pub, cacheVars, now>>

SaveVerify(a) ==
    /\ admin[a].pc = "verify"
    /\ IF {admin[a].auto, admin[a].minimum} \subseteq releases \cup {0}
         THEN AdminStep(a, "save")
         ELSE NotSaved(a)
    /\ UNCHANGED <<row, serverVars, pub, cacheVars, now>>

\* Mutants: the lease is not looked at again, the revision is not counted up.
CanSaveLeased(a) == row.revision = admin[a].policy.revision
CanSave(a) == row.revision = admin[a].policy.revision /\ row.until <= now
SavedUncounted(a) == [row EXCEPT !.auto = admin[a].auto, !.minimum = admin[a].minimum]
Saved(a) == [row EXCEPT !.auto = admin[a].auto, !.minimum = admin[a].minimum, !.revision = @ + 1]
SaveCommit(a) ==
    /\ admin[a].pc = "save"
    /\ CanSave(a) => row.revision < MaxRevision
    /\ IF CanSave(a)
         THEN row' = Saved(a) /\ AdminStep(a, "clear")
         ELSE NotSaved(a) /\ UNCHANGED row
    /\ UNCHANGED <<serverVars, pub, cacheVars, now>>

\* clearUpdatePolicyCache, in the isolate that served the request; then the form
\* shows what was saved.
SavedPolicy(a) ==
    [revision |-> admin[a].policy.revision + 1, auto |-> admin[a].auto, minimum |-> admin[a].minimum]
SaveClear(a) ==
    /\ admin[a].pc = "clear"
    /\ LET r == SavedPolicy(a).revision IN
       \/ entry' = NoEntry /\ floor' = IF r > floor THEN r ELSE floor
       \/ UNCHANGED <<entry, floor>>
    /\ Shown(a, SavedPolicy(a))
    /\ UNCHANGED <<row, serverVars, pub, reader, now>>

\* The invocation dies, one of its fetches fails, or the answer is lost: the
\* form cannot tell, and offers to save again.
SaveFails(a) ==
    /\ admin[a].pc \in {"stable", "verify", "save", "clear"}
    /\ NotSaved(a)
    /\ UNCHANGED <<row, serverVars, pub, cacheVars, now>>

-----------------------------------------------------------------------------
(* A publication: upload, lease, activate, renew, prune, end.              *)

PubStep(p, pc) == pub' = [pub EXCEPT ![p].pc = pc]
PubEnd(p) == pub' = [pub EXCEPT ![p] = PubIdle]

\* `publish` adds an immutable release and leaves stable; --activate uses one
\* that is there.  The stable release was looked up before: what other publishers
\* do in between they may as well do after this step.
Publish(p, v) ==
    /\ pub[p] = PubIdle
    /\ flock = Nobody
    /\ releases' = releases \cup {v}
    /\ pub' = [pub EXCEPT ![p] = [PubIdle EXCEPT !.pc = "begin", !.version = v, !.initial = stable]]
    /\ UNCHANGED <<crew, row, stable, flock, admin, cacheVars, now>>

CanClaim(p) == row.until <= now \/ row.token = p
Claim(p) == row' = [row EXCEPT !.token = p, !.until = now + Lease]

\* Lease, and the policy must stay valid under the new stable.
BeginLease(p) ==
    /\ pub[p].pc = "begin"
    /\ IF CanClaim(p)
         THEN /\ Claim(p)
              /\ PubStep(p, IF Valid(row.auto, row.minimum, pub[p].version) THEN "activate" ELSE "end")
         ELSE PubStep(p, "end") /\ UNCHANGED row
    /\ UNCHANGED <<serverVars, admin, cacheVars, now>>

Activate(p) ==
    /\ pub[p].pc = "activate"
    /\ flock = Nobody
    /\ IF stable = pub[p].initial /\ pub[p].version \in releases
         THEN stable' = pub[p].version /\ PubStep(p, "renew")
         ELSE PubStep(p, "end") /\ UNCHANGED stable
    /\ UNCHANGED <<crew, row, releases, flock, admin, cacheVars, now>>

Retained(p) == {pub[p].version, row.auto, row.minimum} \ {0}
RenewLease(p) ==
    /\ pub[p].pc = "renew"
    /\ IF CanClaim(p)
         THEN /\ Claim(p)
              /\ pub' = [pub EXCEPT ![p] =
                    [@ EXCEPT !.pc = IF Valid(row.auto, row.minimum, pub[p].version) THEN "prune" ELSE "end",
                              !.keep = Retained(p), !.expires = now + Lease]]
         ELSE PubStep(p, "end") /\ UNCHANGED row
    /\ UNCHANGED <<serverVars, admin, cacheVars, now>>

LongEnough(p) == pub[p].expires > now + Margin

\* `prune` holds the server's lock from the comparison with stable to its end.
PruneStart(p) ==
    /\ pub[p].pc = "prune"
    /\ flock = Nobody
    /\ IF stable = pub[p].version /\ LongEnough(p) /\ pub[p].keep \subseteq releases
         THEN flock' = p /\ PubStep(p, "pruning")
         ELSE PubStep(p, "end") /\ UNCHANGED flock
    /\ UNCHANGED <<crew, row, releases, stable, admin, cacheVars, now>>
\* The release that was stable before is kept as well.
Prune(p, v) ==
    /\ pub[p].pc = "pruning"
    /\ v \in releases \ (pub[p].keep \cup {pub[p].initial})
    /\ LongEnough(p)
    /\ releases' = releases \ {v}
    /\ UNCHANGED <<crew, row, stable, flock, admin, pub, cacheVars, now>>
PruneEnd(p) ==
    /\ pub[p].pc = "pruning"
    /\ flock' = Nobody
    /\ PubStep(p, "end")
    /\ UNCHANGED <<crew, row, releases, stable, admin, cacheVars, now>>

\* finally: release the lease, unless the call is lost.
Released(p) == IF row.token = p THEN [row EXCEPT !.token = Nobody, !.until = 0] ELSE row
EndLease(p) ==
    /\ pub[p].pc \notin {"idle", "pruning"}
    /\ row' \in {Released(p), row}
    /\ PubEnd(p)
    /\ UNCHANGED <<serverVars, admin, cacheVars, now>>

-----------------------------------------------------------------------------
(* updateRules: a miss starts one read and shares it; the answer goes into *)
(* the entry the read was started for.                                     *)

ReadMiss(r) ==
    /\ reader[r] = ReaderIdle
    /\ entry.owner = Nobody /\ entry.expires <= now
    /\ entry' = [owner |-> r, revision |-> 0, expires |-> 0]
    /\ reader' = [reader EXCEPT ![r].pc = "query"]
    /\ UNCHANGED <<row, serverVars, admin, pub, floor, now>>
ReadRow(r) ==
    /\ reader[r].pc = "query"
    /\ reader' = [reader EXCEPT ![r] = [pc |-> "answer", revision |-> row.revision]]
    /\ UNCHANGED <<row, serverVars, admin, pub, entry, floor, now>>

\* Mutant: the answer is stored under the key, whatever is there now.
StoreByKey(r) == [owner |-> Nobody, revision |-> reader[r].revision, expires |-> now + Fresh]
StoreIn(r) ==
    IF entry.owner = r
      THEN [owner |-> Nobody, revision |-> reader[r].revision, expires |-> now + Fresh]
      ELSE entry
ReadAnswer(r) ==
    /\ reader[r].pc = "answer"
    /\ entry' = StoreIn(r)
    /\ reader' = [reader EXCEPT ![r] = ReaderIdle]
    /\ UNCHANGED <<row, serverVars, admin, pub, floor, now>>
ReadFails(r) ==
    /\ reader[r] # ReaderIdle
    /\ entry' = IF entry.owner = r THEN NoEntry ELSE entry
    /\ reader' = [reader EXCEPT ![r] = ReaderIdle]
    /\ UNCHANGED <<row, serverVars, admin, pub, floor, now>>

PolicyTick ==
    /\ now < MaxTime
    /\ now' = now + 1
    /\ UNCHANGED <<row, serverVars, admin, pub, cacheVars>>

PolicyNext ==
    \/ \E a \in Admins \cap crew :
         \/ ShowPolicy(a)
         \/ \E auto, minimum \in Chosen : SaveRead(a, auto, minimum)
         \/ SaveStable(a) \/ SaveVerify(a) \/ SaveCommit(a) \/ SaveClear(a) \/ SaveFails(a)
    \/ \E p \in Publishers \cap crew :
         \/ \E v \in Versions : Publish(p, v) \/ Prune(p, v)
         \/ BeginLease(p) \/ Activate(p) \/ RenewLease(p) \/ PruneStart(p) \/ PruneEnd(p) \/ EndLease(p)
    \/ \E r \in Readers \cap crew : ReadMiss(r) \/ ReadRow(r) \/ ReadAnswer(r) \/ ReadFails(r)
    \/ PolicyTick

PolicySpec == PolicyInit /\ [][PolicyNext]_policyVars

-----------------------------------------------------------------------------
(* Properties.                                                             *)

PolicyTypeOK ==
    /\ row \in [auto : Chosen, minimum : Chosen, revision : 0 .. MaxRevision,
                token : Publishers \cup {Nobody}, until : Nat]
    /\ releases \subseteq Versions /\ stable \in releases
    /\ flock \in Publishers \cup {Nobody}
    /\ admin \in [Admins -> [pc : {"idle", "shown", "stable", "verify", "save", "clear"},
                             auto : Chosen, minimum : Chosen,
                             policy : [revision : Nat, auto : Chosen, minimum : Chosen]]]
    /\ pub \in [Publishers -> [pc : {"idle", "begin", "activate", "renew", "prune", "pruning", "end"},
                               version : Chosen, initial : Chosen, keep : SUBSET Versions, expires : Nat]]
    /\ reader \in [Readers -> [pc : {"idle", "query", "answer"}, revision : Nat]]
    /\ entry \in [owner : Readers \cup {Nobody}, revision : Nat, expires : Nat]
    /\ floor \in Nat /\ now \in 0 .. MaxTime

\* A publisher deletes no release that is stable or that the policy names at
\* that moment, even when its lease was lost to another publisher, or the
\* policy was changed, since it began.
PruneSparesPolicy ==
    [][\A v \in releases \ releases' : v \notin {stable, row.auto, row.minimum}]_policyVars

\* "Prevent two administrators from overwriting each other's promotion
\* decision": a save replaces only the decision its administrator was shown.
NoBlindOverwrite ==
    [][\A a \in Admins : admin[a].pc = "save" /\ admin'[a].pc = "clear" =>
            admin[a].policy = Policy]_policyVars

\* A publisher that ends, gives up or lost its lease never shortens the lease
\* that another one holds.
LeaseIsOwn ==
    [][\A p, q \in Publishers : p # q /\ Leased /\ row.token = p /\ pub[q] # pub'[q] =>
            row'.until = row.until]_policyVars

\* The one row that decisions and leases share is written over nobody's head.
NobodyOverridden == NoBlindOverwrite /\ LeaseIsOwn

\* "A late response cannot repopulate the cache after invalidation": once an
\* isolate has acknowledged a save it never answers from an older policy.
CacheNotOlder ==
    /\ PolicyTypeOK
    /\ entry.owner = Nobody /\ entry.expires > now => entry.revision >= floor

\* scripts/publish-downloads.mjs: the lease prevents a promotion from racing the
\* deletion of the release it names.
PolicyNamesReleases == {row.auto, row.minimum} \subseteq releases \cup {0}
=============================================================================
