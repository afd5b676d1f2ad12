--------------------------- MODULE OperatorProofs ---------------------------
(***************************************************************************)
(* What operators share and may not break, for any number of               *)
(* administrators, publishers, cached reads and deployments: the policy    *)
(* row with its lease, and the account a deployment changes call by call.  *)
(***************************************************************************)
EXTENDS UpdatePolicy, Deployment, TLAPS

-----------------------------------------------------------------------------
(* The policy.                                                             *)

\* A policy that was read or saved earlier is the present one, if its revision is.
Agrees(p) == p.revision <= row.revision /\ (p.revision = row.revision => p = Policy)
FormsOK ==
    \A a \in Admins : /\ Agrees(admin[a].policy)
                      /\ admin[a].pc = "clear" => Agrees(SavedPolicy(a))

\* A publisher whose lease lasts still holds it, and the policy names what it
\* keeps; while it deletes, stable is its release.
PublisherOK(p) ==
    /\ pub[p].pc # "idle" => pub[p].version \in Versions
    /\ pub[p].pc = "pruning" => flock = p /\ stable = pub[p].version
    /\ pub[p].pc \in {"prune", "pruning"} =>
         /\ pub[p].version \in pub[p].keep
         /\ pub[p].expires > now => /\ row.token = p /\ row.until = pub[p].expires
                                    /\ {row.auto, row.minimum} \subseteq pub[p].keep \cup {0}
PublishersOK == \A p \in Publishers : PublisherOK(p)

\* A read whose answer will be stored began after the last invalidation.
ReadsOK ==
    /\ floor <= row.revision
    /\ \A r \in Readers : reader[r].pc = "answer" /\ entry.owner = r => reader[r].revision >= floor
    /\ entry.owner = Nobody /\ entry.expires > now => entry.revision >= floor

PolicyInv == PolicyTypeOK /\ FormsOK /\ PublishersOK /\ ReadsOK

LEMMA PolicyNumbers ==
    /\ Lease \in Nat /\ Margin \in Nat /\ Fresh \in Nat /\ MaxRevision \in Nat /\ MaxTime \in Nat
    /\ 1 \in Versions /\ Nobody \notin Publishers /\ Nobody \notin Readers
BY PolicyAssumption

LEMMA VersionsAreNotZero == 0 \notin Versions
<1>1. Versions = 1 .. Cardinality(Versions)
  BY PolicyAssumption
<1>2. \A n : 0 \notin 1 .. n
  OBVIOUS
<1> QED BY <1>1, <1>2

-----------------------------------------------------------------------------
(* What leaves a part of the invariant alone.                              *)

SameDecision == row'.revision = row.revision /\ row'.auto = row.auto /\ row'.minimum = row.minimum

LEMMA FormsStay ==
    ASSUME FormsOK, SameDecision, UNCHANGED admin
    PROVE  FormsOK'
BY DEF FormsOK, Agrees, SameDecision, Policy, SavedPolicy

\* Of the forms only a's has changed, and it shows p.
LEMMA FormShows ==
    ASSUME PolicyTypeOK, FormsOK, NEW a \in Admins, UNCHANGED row, NEW p, Shown(a, p), Agrees(p)
    PROVE  FormsOK'
<1>1. admin' = [admin EXCEPT ![a] = [AdminIdle EXCEPT !.pc = "shown", !.policy = p]]
  BY DEF Shown
<1>2. admin'[a].policy = p /\ admin'[a].pc = "shown"
  BY <1>1 DEF PolicyTypeOK, AdminIdle
<1>3. \A b \in Admins : b # a => admin'[b] = admin[b]
  BY <1>1 DEF PolicyTypeOK
<1> QED BY <1>2, <1>3 DEF FormsOK, Agrees, Policy, SavedPolicy

LEMMA FormTypes ==
    ASSUME PolicyTypeOK, NEW a \in Admins,
           NEW p \in [revision : Nat, auto : Chosen, minimum : Chosen], Shown(a, p)
    PROVE  admin' \in [Admins -> [pc : {"idle", "shown", "stable", "verify", "save", "clear"},
                             auto : Chosen, minimum : Chosen,
                             policy : [revision : Nat, auto : Chosen, minimum : Chosen]]]
<1>1. [AdminIdle EXCEPT !.pc = "shown", !.policy = p] \in
        [pc : {"idle", "shown", "stable", "verify", "save", "clear"}, auto : Chosen, minimum : Chosen,
         policy : [revision : Nat, auto : Chosen, minimum : Chosen]]
  BY DEF AdminIdle, Chosen
<1> QED BY <1>1 DEF Shown, PolicyTypeOK

LEMMA PublishersStay ==
    ASSUME PolicyTypeOK, PublishersOK, UNCHANGED <<row, pub, stable, flock>>, now' \in Nat, now <= now'
    PROVE  PublishersOK'
<1> SUFFICES ASSUME NEW p \in Publishers PROVE PublisherOK(p)'
  BY DEF PublishersOK
<1>1. PublisherOK(p) /\ now \in Nat /\ pub[p].expires \in Nat
  BY DEF PublishersOK, PolicyTypeOK
<1> QED BY <1>1 DEF PublisherOK

LEMMA ReadsStay ==
    ASSUME PolicyTypeOK, ReadsOK, UNCHANGED <<reader, entry, floor>>, row'.revision \in Nat,
           row.revision <= row'.revision, now' \in Nat, now <= now'
    PROVE  ReadsOK'
<1>1. floor \in Nat /\ row.revision \in Nat /\ now \in Nat /\ entry.expires \in Nat
  BY PolicyNumbers DEF PolicyTypeOK
<1> QED BY <1>1 DEF ReadsOK


LEMMA PolicyIsPolicy ==
    ASSUME PolicyTypeOK
    PROVE  Policy \in [revision : Nat, auto : Chosen, minimum : Chosen] /\ Agrees(Policy)
BY PolicyNumbers DEF PolicyTypeOK, Policy, Agrees

-----------------------------------------------------------------------------
(* Administrators.                                                         *)

\* A step that only changes a form, which goes on or shows what it knew.
LEMMA FormMoves ==
    ASSUME PolicyInv, UNCHANGED <<row, serverVars, pub, cacheVars, now>>, FormsOK',
           admin' \in [Admins -> [pc : {"idle", "shown", "stable", "verify", "save", "clear"},
                             auto : Chosen, minimum : Chosen,
                             policy : [revision : Nat, auto : Chosen, minimum : Chosen]]]
    PROVE  PolicyInv'
<1>1. PolicyTypeOK'
  BY DEF PolicyInv, PolicyTypeOK, serverVars, cacheVars
<1>2. now' \in Nat /\ now <= now' /\ row.revision \in Nat
  BY PolicyNumbers DEF PolicyInv, PolicyTypeOK
<1>3. PublishersOK' /\ ReadsOK'
  BY <1>2, PublishersStay, ReadsStay DEF PolicyInv, serverVars, cacheVars
<1> QED BY <1>1, <1>3 DEF PolicyInv

LEMMA FormShown ==
    ASSUME PolicyInv, NEW a \in Admins, NEW p \in [revision : Nat, auto : Chosen, minimum : Chosen],
           Shown(a, p), Agrees(p), UNCHANGED <<row, serverVars, pub, cacheVars, now>>
    PROVE  PolicyInv'
<1>1. FormsOK'
  BY FormShows DEF PolicyInv
<1> QED BY <1>1, FormTypes, FormMoves DEF PolicyInv

LEMMA NotSavedKeeps ==
    ASSUME PolicyInv, NEW a \in Admins, NotSaved(a), UNCHANGED <<row, serverVars, pub, cacheVars, now>>
    PROVE  PolicyInv'
<1>1. admin[a].policy \in [revision : Nat, auto : Chosen, minimum : Chosen]
  BY DEF PolicyInv, PolicyTypeOK
<1>2. Agrees(admin[a].policy)
  BY DEF PolicyInv, FormsOK
<1> QED BY <1>1, <1>2, FormShown DEF NotSaved

\* A form on its way to the commit keeps the policy it was shown.
LEMMA FormGoesOn ==
    ASSUME PolicyInv, NEW a \in Admins, UNCHANGED <<row, serverVars, pub, cacheVars, now>>,
           NEW pc \in {"stable", "verify", "save"}, NEW auto \in Chosen, NEW minimum \in Chosen,
           admin' = [admin EXCEPT ![a] = [admin[a] EXCEPT !.pc = pc, !.auto = auto, !.minimum = minimum]]
    PROVE  PolicyInv'
<1>0. PolicyTypeOK /\ FormsOK
  BY DEF PolicyInv
<1>1. admin'[a].policy = admin[a].policy /\ admin'[a].pc = pc /\ \A b \in Admins : b # a => admin'[b] = admin[b]
  BY <1>0 DEF PolicyTypeOK
<1>2. FormsOK'
  BY <1>0, <1>1 DEF FormsOK, Agrees, Policy, SavedPolicy
<1>3. [admin[a] EXCEPT !.pc = pc, !.auto = auto, !.minimum = minimum] \in
         [pc : {"idle", "shown", "stable", "verify", "save", "clear"}, auto : Chosen, minimum : Chosen,
          policy : [revision : Nat, auto : Chosen, minimum : Chosen]]
  <2>1. admin[a] \in [pc : {"idle", "shown", "stable", "verify", "save", "clear"}, auto : Chosen, minimum : Chosen,
          policy : [revision : Nat, auto : Chosen, minimum : Chosen]]
    BY <1>0 DEF PolicyTypeOK
  <2> QED BY <2>1
<1>4. admin' \in [Admins -> [pc : {"idle", "shown", "stable", "verify", "save", "clear"},
                             auto : Chosen, minimum : Chosen,
                             policy : [revision : Nat, auto : Chosen, minimum : Chosen]]]
  BY <1>0, <1>3 DEF PolicyTypeOK
<1> QED BY <1>2, <1>4, FormMoves

LEMMA ShowPolicyKeeps == ASSUME PolicyInv, NEW a \in Admins, ShowPolicy(a) PROVE PolicyInv'
BY PolicyIsPolicy, FormShown DEF ShowPolicy, PolicyInv

LEMMA SaveReadKeeps ==
    ASSUME PolicyInv, NEW a \in Admins, NEW auto \in Chosen, NEW minimum \in Chosen, SaveRead(a, auto, minimum)
    PROVE  PolicyInv'
<1>1. CASE NotSaved(a)
  BY <1>1, NotSavedKeeps DEF SaveRead
<1>2. CASE admin' = [admin EXCEPT ![a] = [admin[a] EXCEPT !.pc = "stable", !.auto = auto, !.minimum = minimum]]
  BY <1>2, FormGoesOn DEF SaveRead
<1> QED BY <1>1, <1>2 DEF SaveRead

LEMMA SaveChecksKeep == ASSUME PolicyInv, NEW a \in Admins, SaveStable(a) \/ SaveVerify(a) PROVE PolicyInv'
<1>1. CASE NotSaved(a)
  BY <1>1, NotSavedKeeps DEF SaveStable, SaveVerify
<1>2. ASSUME NEW pc \in {"verify", "save"}, AdminStep(a, pc) PROVE PolicyInv'
  <2>1. admin[a].auto \in Chosen /\ admin[a].minimum \in Chosen
    BY DEF PolicyInv, PolicyTypeOK
  <2>2. admin' = [admin EXCEPT ![a] = [admin[a] EXCEPT !.pc = pc, !.auto = admin[a].auto, !.minimum = admin[a].minimum]]
    BY <1>2 DEF AdminStep, PolicyInv, PolicyTypeOK
  <2> QED BY <2>1, <2>2, FormGoesOn DEF SaveStable, SaveVerify
<1> QED BY <1>1, <1>2 DEF SaveStable, SaveVerify

LEMMA SaveFailsKeeps == ASSUME PolicyInv, NEW a \in Admins, SaveFails(a) PROVE PolicyInv'
BY NotSavedKeeps DEF SaveFails

\* The commit: the revision it counts up is newer than any that was shown, so
\* only its own form may take the new decision for the present one.
LEMMA SaveCommitKeeps == ASSUME PolicyInv, NEW a \in Admins, SaveCommit(a) PROVE PolicyInv'
<1>0. PolicyTypeOK /\ FormsOK /\ PublishersOK /\ ReadsOK
  BY DEF PolicyInv
<1>1. CASE ~CanSave(a)
  BY <1>1, NotSavedKeeps DEF SaveCommit
<1>2. CASE CanSave(a)
  <2>1. /\ row' = [row EXCEPT !.auto = admin[a].auto, !.minimum = admin[a].minimum, !.revision = @ + 1]
        /\ admin' = [admin EXCEPT ![a].pc = "clear"]
        /\ row.revision < MaxRevision /\ row.revision = admin[a].policy.revision /\ row.until <= now
        /\ UNCHANGED <<serverVars, pub, cacheVars, now>>
    BY <1>2 DEF SaveCommit, Saved, AdminStep, CanSave
  <2>2. /\ row'.revision = row.revision + 1 /\ row'.token = row.token /\ row'.until = row.until
        /\ row'.auto = admin[a].auto /\ row'.minimum = admin[a].minimum
        /\ row.revision \in Nat /\ row.until \in Nat /\ now \in Nat
    BY <1>0, <2>1, PolicyNumbers DEF PolicyTypeOK
  <2>3. /\ admin'[a].policy = admin[a].policy /\ admin'[a].auto = admin[a].auto /\ admin'[a].minimum = admin[a].minimum
        /\ \A b \in Admins : b # a => admin'[b] = admin[b]
    BY <1>0, <2>1 DEF PolicyTypeOK
  <2>4. PolicyTypeOK'
    <3>1. row' \in [auto : Chosen, minimum : Chosen, revision : 0 .. MaxRevision,
                    token : Publishers \cup {Nobody}, until : Nat]
      <4>1. row.revision + 1 \in 0 .. MaxRevision
        BY <2>1, <2>2, PolicyNumbers
      <4>2. admin[a].auto \in Chosen /\ admin[a].minimum \in Chosen
        BY <1>0 DEF PolicyTypeOK
      <4> QED BY <1>0, <2>1, <4>1, <4>2 DEF PolicyTypeOK
    <3>2. admin' \in [Admins -> [pc : {"idle", "shown", "stable", "verify", "save", "clear"},
                             auto : Chosen, minimum : Chosen,
                             policy : [revision : Nat, auto : Chosen, minimum : Chosen]]]
      BY <1>0, <2>1 DEF PolicyTypeOK
    <3> QED BY <1>0, <2>1, <3>1, <3>2 DEF PolicyTypeOK, serverVars, cacheVars
  <2>5. FormsOK'
    <3>1. ASSUME NEW b \in Admins PROVE Agrees(admin[b].policy)' /\ (admin'[b].pc = "clear" => Agrees(SavedPolicy(b))')
      <4>1. admin[b].policy.revision <= row.revision /\ admin[b].policy.revision \in Nat
        BY <1>0 DEF FormsOK, Agrees, PolicyTypeOK
      <4>2. Agrees(admin[b].policy)'
        <5>1. admin'[b].policy = admin[b].policy
          BY <2>3
        <5> QED BY <2>2, <4>1, <5>1 DEF Agrees
      <4>3. CASE b = a
        <5>1. SavedPolicy(b)' = [revision |-> row.revision + 1, auto |-> admin[a].auto, minimum |-> admin[a].minimum]
          BY <2>1, <2>3, <4>3 DEF SavedPolicy
        <5> QED BY <2>2, <4>2, <5>1 DEF Agrees, Policy
      <4>4. CASE b # a
        <5>1. admin'[b] = admin[b] /\ SavedPolicy(b)' = SavedPolicy(b)
          BY <2>3, <4>4 DEF SavedPolicy
        <5>2. admin[b].pc = "clear" => SavedPolicy(b).revision <= row.revision /\ SavedPolicy(b).revision \in Nat
          BY <1>0, <4>1 DEF FormsOK, Agrees, SavedPolicy
        <5> QED BY <2>2, <4>2, <5>1, <5>2 DEF Agrees
      <4> QED BY <4>3, <4>4
    <3> QED BY <3>1 DEF FormsOK
  <2>6. PublishersOK'
    <3> SUFFICES ASSUME NEW p \in Publishers PROVE PublisherOK(p)'
      BY DEF PublishersOK
    <3>1. PublisherOK(p) /\ pub[p].expires \in Nat
      BY <1>0 DEF PublishersOK, PolicyTypeOK
    <3>2. pub' = pub /\ stable' = stable /\ flock' = flock /\ now' = now
      BY <2>1 DEF serverVars
    <3> QED BY <2>1, <2>2, <3>1, <3>2 DEF PublisherOK
  <2>7. ReadsOK'
    <3>1. row'.revision \in Nat /\ row.revision <= row'.revision /\ now' \in Nat /\ now <= now'
      BY <2>1, <2>2
    <3>2. UNCHANGED <<reader, entry, floor>>
      BY <2>1 DEF cacheVars
    <3> QED BY <1>0, <3>1, <3>2, ReadsStay
  <2> QED BY <2>4, <2>5, <2>6, <2>7 DEF PolicyInv
<1> QED BY <1>1, <1>2

LEMMA SaveClearKeeps == ASSUME PolicyInv, NEW a \in Admins, SaveClear(a) PROVE PolicyInv'
<1>0. PolicyTypeOK /\ FormsOK /\ PublishersOK /\ ReadsOK
  BY DEF PolicyInv
<1> DEFINE saved == SavedPolicy(a)
<1>1. saved \in [revision : Nat, auto : Chosen, minimum : Chosen] /\ Agrees(saved)
  BY <1>0 DEF SaveClear, FormsOK, PolicyTypeOK, SavedPolicy
<1>2. Shown(a, saved) /\ UNCHANGED <<row, crew, releases, stable, flock, pub, reader, now>>
  BY DEF SaveClear, serverVars
<1>3. \/ entry' = NoEntry /\ floor' = IF saved.revision > floor THEN saved.revision ELSE floor
      \/ UNCHANGED <<entry, floor>>
  BY DEF SaveClear
<1> HIDE DEF saved
<1>4. FormsOK'
  BY <1>0, <1>1, <1>2, FormShows
<1>5. saved.revision \in Nat /\ saved.revision <= row.revision /\ row.revision \in Nat /\ floor \in Nat /\ now \in Nat
  BY <1>0, <1>1, PolicyNumbers DEF Agrees, PolicyTypeOK
<1>6. PolicyTypeOK'
  <2>1. NoEntry \in [owner : Readers \cup {Nobody}, revision : Nat, expires : Nat]
    BY DEF NoEntry
  <2> QED BY <1>0, <1>1, <1>2, <1>3, <1>5, <2>1, FormTypes DEF PolicyTypeOK
<1>7. PublishersOK'
  BY <1>0, <1>2, <1>5, PublishersStay
<1>8. ReadsOK'
  <2>1. CASE UNCHANGED <<entry, floor>>
    BY <1>0, <1>2, <1>5, <2>1, ReadsStay
  <2>2. CASE entry' = NoEntry /\ floor' = IF saved.revision > floor THEN saved.revision ELSE floor
    <3>1. entry'.owner = Nobody /\ entry'.expires = 0
      BY <2>2 DEF NoEntry
    <3> QED BY <1>0, <1>2, <1>5, <2>2, <3>1, PolicyNumbers DEF ReadsOK
  <2> QED BY <1>3, <2>1, <2>2
<1> QED BY <1>4, <1>6, <1>7, <1>8 DEF PolicyInv

-----------------------------------------------------------------------------
(* Publishers.                                                             *)

PubRecord == [pc : {"idle", "begin", "activate", "renew", "prune", "pruning", "end"},
              version : Chosen, initial : Chosen, keep : SUBSET Versions, expires : Nat]

\* A step of p that leaves the forms and the reads alone takes nothing from
\* another publisher: not a lease that lasts, the lock, nor the stable release
\* under a lock.
LEMMA PublisherMoves ==
    ASSUME PolicyInv, NEW p \in Publishers, NEW rec \in PubRecord, pub' = [pub EXCEPT ![p] = rec],
           UNCHANGED <<admin, cacheVars, now>>, SameDecision,
           row' \in [auto : Chosen, minimum : Chosen, revision : 0 .. MaxRevision,
                     token : Publishers \cup {Nobody}, until : Nat],
           releases' \subseteq Versions, stable' \in releases', flock' \in Publishers \cup {Nobody},
           row.until > now /\ row.token # p => row'.token = row.token /\ row'.until = row.until,
           flock \in Publishers \ {p} => flock' = flock /\ stable' = stable,
           PublisherOK(p)'
    PROVE  PolicyInv'
<1>0. PolicyTypeOK /\ FormsOK /\ PublishersOK /\ ReadsOK
  BY DEF PolicyInv
<1>1. pub' \in [Publishers -> PubRecord]
  BY <1>0 DEF PolicyTypeOK, PubRecord
<1>2. PolicyTypeOK'
  BY <1>0, <1>1 DEF PolicyTypeOK, PubRecord, cacheVars
<1>3. FormsOK'
  BY <1>0, FormsStay
<1>4. PublishersOK'
  <2> SUFFICES ASSUME NEW q \in Publishers, q # p PROVE PublisherOK(q)'
    BY DEF PublishersOK
  <2>1. PublisherOK(q) /\ pub'[q] = pub[q] /\ pub[q].expires \in Nat /\ now \in Nat
    BY <1>0 DEF PublishersOK, PolicyTypeOK
  <2>2. pub[q].pc = "pruning" => flock' = q /\ stable' = pub[q].version
    BY <2>1 DEF PublisherOK
  <2>3. ASSUME pub[q].pc \in {"prune", "pruning"}, pub[q].expires > now
        PROVE  /\ row'.token = q /\ row'.until = pub[q].expires
               /\ {row'.auto, row'.minimum} \subseteq pub[q].keep \cup {0}
    BY <2>1, <2>3 DEF PublisherOK, SameDecision
  <2> QED BY <2>1, <2>2, <2>3 DEF PublisherOK
<1>5. ReadsOK'
  <2>1. row'.revision \in Nat /\ row.revision <= row'.revision /\ now' \in Nat /\ now <= now'
    BY <1>0, PolicyNumbers DEF PolicyTypeOK, SameDecision
  <2> QED BY <1>0, <2>1, ReadsStay DEF cacheVars
<1> QED BY <1>2, <1>3, <1>4, <1>5 DEF PolicyInv

LEMMA PublisherIsTyped ==
    ASSUME PolicyInv, NEW p \in Publishers
    PROVE  /\ pub[p] \in PubRecord /\ PublisherOK(p) /\ now \in Nat /\ row.until \in Nat /\ Lease \in Nat
           /\ releases \subseteq Versions /\ stable \in releases /\ flock \in Publishers \cup {Nobody}
           /\ row \in [auto : Chosen, minimum : Chosen, revision : 0 .. MaxRevision,
                       token : Publishers \cup {Nobody}, until : Nat]
BY PolicyNumbers DEF PolicyInv, PolicyTypeOK, PubRecord, PublishersOK

\* A publisher that only goes on to a step without duties, or ends.
LEMMA PublisherGoes ==
    ASSUME PolicyInv, NEW p \in Publishers, NEW pc \in {"activate", "renew", "end"}, PubStep(p, pc)
    PROVE  /\ [pub[p] EXCEPT !.pc = pc] \in PubRecord /\ pub' = [pub EXCEPT ![p] = [pub[p] EXCEPT !.pc = pc]]
           /\ pub[p].pc # "idle" => PublisherOK(p)'
<1>1. pub[p] \in PubRecord /\ PublisherOK(p)
  BY PublisherIsTyped
<1>2. pub' = [pub EXCEPT ![p] = [pub[p] EXCEPT !.pc = pc]] /\ pub \in [Publishers -> PubRecord]
  BY DEF PubStep, PolicyInv, PolicyTypeOK, PubRecord
<1>3. pub'[p].pc = pc /\ pub'[p].version = pub[p].version
  BY <1>1, <1>2 DEF PubRecord
<1> QED BY <1>1, <1>2, <1>3 DEF PublisherOK, PubRecord

LEMMA PublishKeeps == ASSUME PolicyInv, NEW p \in Publishers, NEW v \in Versions, Publish(p, v) PROVE PolicyInv'
<1> DEFINE rec == [PubIdle EXCEPT !.pc = "begin", !.version = v, !.initial = stable]
<1>1. rec \in PubRecord /\ rec.pc = "begin" /\ rec.version = v
  BY PublisherIsTyped DEF PubIdle, PubRecord, Chosen
<1>2. pub' = [pub EXCEPT ![p] = rec] /\ pub'[p] = rec
  BY DEF Publish, PolicyInv, PolicyTypeOK
<1> HIDE DEF rec
<1>3. PublisherOK(p)'
  BY <1>1, <1>2 DEF PublisherOK
<1> QED BY <1>1, <1>2, <1>3, PublisherIsTyped, PublisherMoves DEF Publish, SameDecision

\* A lease is claimed when nobody else holds one that lasts.
LEMMA ClaimTakesNothing ==
    ASSUME PolicyInv, NEW p \in Publishers, CanClaim(p), Claim(p)
    PROVE  /\ SameDecision /\ row'.token = p /\ row'.until = now + Lease
           /\ row' \in [auto : Chosen, minimum : Chosen, revision : 0 .. MaxRevision,
                        token : Publishers \cup {Nobody}, until : Nat]
           /\ row.until > now /\ row.token # p => row'.token = row.token /\ row'.until = row.until
<1> DEFINE until == now + Lease
<1>1. until \in Nat /\ now \in Nat /\ row.until \in Nat
  BY PublisherIsTyped
<1>2. row' = [row EXCEPT !.token = p, !.until = until]
  BY DEF Claim
<1>3. ~(row.until > now /\ row.token # p)
  BY <1>1 DEF CanClaim
<1> HIDE DEF until
<1>4. /\ SameDecision /\ row'.token = p /\ row'.until = until
      /\ row' \in [auto : Chosen, minimum : Chosen, revision : 0 .. MaxRevision,
                   token : Publishers \cup {Nobody}, until : Nat]
  BY <1>1, <1>2, PublisherIsTyped DEF SameDecision
<1> QED BY <1>3, <1>4 DEF until

LEMMA BeginLeaseKeeps == ASSUME PolicyInv, NEW p \in Publishers, BeginLease(p) PROVE PolicyInv'
<1>1. pub[p].pc = "begin" /\ UNCHANGED <<serverVars, admin, cacheVars, now>>
  BY DEF BeginLease
<1>2. PICK pc \in {"activate", "end"} : PubStep(p, pc)
  BY DEF BeginLease
<1>3. \/ CanClaim(p) /\ Claim(p)
      \/ UNCHANGED row
  BY DEF BeginLease
<1>4. CASE CanClaim(p) /\ Claim(p)
  BY <1>1, <1>2, <1>4, ClaimTakesNothing, PublisherGoes, PublisherIsTyped, PublisherMoves DEF serverVars
<1>5. CASE UNCHANGED row
  BY <1>1, <1>2, <1>5, PublisherGoes, PublisherIsTyped, PublisherMoves DEF serverVars, SameDecision
<1> QED BY <1>3, <1>4, <1>5

\* Stable moves only while nobody holds the server's lock.
LEMMA ActivateKeeps == ASSUME PolicyInv, NEW p \in Publishers, Activate(p) PROVE PolicyInv'
<1>1. /\ pub[p].pc = "activate" /\ flock = Nobody /\ Nobody \notin Publishers
      /\ UNCHANGED <<row, releases, flock, admin, cacheVars, now>>
  BY PolicyNumbers DEF Activate
<1>2. PICK pc \in {"renew", "end"} : PubStep(p, pc)
  BY DEF Activate
<1>3. stable' \in releases'
  BY <1>1, PublisherIsTyped DEF Activate
<1> QED BY <1>1, <1>2, <1>3, PublisherGoes, PublisherIsTyped, PublisherMoves DEF SameDecision

\* What is kept is read under the lease that the same statement takes.
LEMMA RenewLeaseKeeps == ASSUME PolicyInv, NEW p \in Publishers, RenewLease(p) PROVE PolicyInv'
<1>1. pub[p].pc = "renew" /\ UNCHANGED <<releases, stable, flock, admin, cacheVars, now>>
  BY DEF RenewLease, serverVars
<1>2. CASE CanClaim(p)
  <2>1. PICK pc \in {"prune", "end"} :
           pub' = [pub EXCEPT ![p] = [pub[p] EXCEPT !.pc = pc, !.keep = Retained(p), !.expires = now + Lease]]
    BY <1>2 DEF RenewLease, PolicyInv, PolicyTypeOK
  <2> DEFINE rec == [pub[p] EXCEPT !.pc = pc, !.keep = Retained(p), !.expires = now + Lease]
  <2>2. Claim(p)
    BY <1>2 DEF RenewLease
  <2>3. /\ SameDecision /\ row'.token = p /\ row'.until = now + Lease
        /\ row' \in [auto : Chosen, minimum : Chosen, revision : 0 .. MaxRevision,
                     token : Publishers \cup {Nobody}, until : Nat]
        /\ row.until > now /\ row.token # p => row'.token = row.token /\ row'.until = row.until
    BY <1>2, <2>2, ClaimTakesNothing
  <2>4. pub[p].version \in Versions /\ 0 \notin Versions /\ row.auto \in Chosen /\ row.minimum \in Chosen
    BY <1>1, PublisherIsTyped, VersionsAreNotZero DEF PublisherOK
  <2>5. Retained(p) \subseteq Versions /\ pub[p].version \in Retained(p)
        /\ {row.auto, row.minimum} \subseteq Retained(p) \cup {0}
    BY <2>4 DEF Retained, Chosen
  <2>6. rec \in PubRecord
    <3>1. now + Lease \in Nat /\ Retained(p) \in SUBSET Versions
      BY <2>5, PublisherIsTyped
    <3>2. pub[p] \in PubRecord
      BY PublisherIsTyped
    <3> QED BY <3>1, <3>2 DEF PubRecord
  <2>7. pub'[p] = rec
    BY <2>1, PublisherIsTyped DEF PolicyInv, PolicyTypeOK
  <2>8. /\ rec.pc = pc /\ rec.version = pub[p].version /\ rec.keep = Retained(p) /\ rec.expires = now + Lease
    BY PublisherIsTyped DEF PubRecord
  <2> HIDE DEF rec
  <2>9. PublisherOK(p)'
    BY <1>1, <2>3, <2>4, <2>5, <2>7, <2>8 DEF PublisherOK, SameDecision
  <2>10. pub' = [pub EXCEPT ![p] = rec]
    BY <2>1 DEF rec
  <2> QED BY <1>1, <2>3, <2>6, <2>9, <2>10, PublisherIsTyped, PublisherMoves
<1>3. CASE ~CanClaim(p)
  <2>1. PubStep(p, "end") /\ UNCHANGED row
    BY <1>3 DEF RenewLease
  <2> QED BY <1>1, <2>1, PublisherGoes, PublisherIsTyped, PublisherMoves DEF SameDecision
<1> QED BY <1>2, <1>3

LEMMA PruneStartKeeps == ASSUME PolicyInv, NEW p \in Publishers, PruneStart(p) PROVE PolicyInv'
<1>1. /\ pub[p].pc = "prune" /\ flock = Nobody /\ Nobody \notin Publishers
      /\ UNCHANGED <<row, releases, stable, admin, cacheVars, now>>
  BY PolicyNumbers DEF PruneStart
<1>2. CASE stable = pub[p].version /\ flock' = p /\ PubStep(p, "pruning")
  <2> DEFINE rec == [pub[p] EXCEPT !.pc = "pruning"]
  <2>1. pub' = [pub EXCEPT ![p] = rec] /\ pub'[p] = rec
    BY <1>2 DEF PubStep, PolicyInv, PolicyTypeOK
  <2>2. /\ rec \in PubRecord /\ rec.pc = "pruning" /\ rec.version = pub[p].version
        /\ rec.keep = pub[p].keep /\ rec.expires = pub[p].expires
    BY PublisherIsTyped DEF PubRecord
  <2> HIDE DEF rec
  <2>3. PublisherOK(p)'
    BY <1>1, <1>2, <2>1, <2>2, PublisherIsTyped DEF PublisherOK
  <2> QED BY <1>1, <1>2, <2>1, <2>2, <2>3, PublisherIsTyped, PublisherMoves DEF SameDecision
<1>3. CASE PubStep(p, "end") /\ UNCHANGED flock
  BY <1>1, <1>3, PublisherGoes, PublisherIsTyped, PublisherMoves DEF SameDecision
<1> QED BY <1>2, <1>3 DEF PruneStart

LEMMA PruneKeeps == ASSUME PolicyInv, NEW p \in Publishers, NEW v \in Versions, Prune(p, v) PROVE PolicyInv'
<1>1. stable = pub[p].version /\ pub[p].version \in pub[p].keep
  BY PublisherIsTyped DEF Prune, PublisherOK
<1>2. releases' \subseteq Versions /\ stable' \in releases'
  BY <1>1, PublisherIsTyped DEF Prune
<1>3. PolicyTypeOK'
  BY <1>2 DEF Prune, PolicyInv, PolicyTypeOK, cacheVars
<1>4. FormsOK' /\ ReadsOK' /\ PublishersOK'
  BY DEF Prune, PolicyInv, FormsOK, Agrees, Policy, SavedPolicy, ReadsOK, PublishersOK, PublisherOK, cacheVars
<1> QED BY <1>3, <1>4 DEF PolicyInv

LEMMA PruneEndKeeps == ASSUME PolicyInv, NEW p \in Publishers, PruneEnd(p) PROVE PolicyInv'
<1>1. /\ pub[p].pc = "pruning" /\ flock' = Nobody /\ PubStep(p, "end")
      /\ UNCHANGED <<row, releases, stable, admin, cacheVars, now>>
  BY DEF PruneEnd
<1>2. flock = p
  BY <1>1, PublisherIsTyped DEF PublisherOK
<1> QED BY <1>1, <1>2, PublisherGoes, PublisherIsTyped, PublisherMoves DEF SameDecision

\* Only the publisher's own token is given back.
LEMMA EndLeaseKeeps == ASSUME PolicyInv, NEW p \in Publishers, EndLease(p) PROVE PolicyInv'
<1>1. PubIdle \in PubRecord /\ PubIdle.pc = "idle"
  BY DEF PubIdle, PubRecord, Chosen
<1>2. pub' = [pub EXCEPT ![p] = PubIdle] /\ pub'[p] = PubIdle
  BY DEF EndLease, PubEnd, PolicyInv, PolicyTypeOK
<1>3. PublisherOK(p)'
  BY <1>1, <1>2 DEF PublisherOK
<1>4. /\ SameDecision
      /\ row' \in [auto : Chosen, minimum : Chosen, revision : 0 .. MaxRevision,
                   token : Publishers \cup {Nobody}, until : Nat]
      /\ row.until > now /\ row.token # p => row'.token = row.token /\ row'.until = row.until
  <2>1. CASE row' = row
    BY <2>1, PublisherIsTyped DEF SameDecision
  <2>2. CASE row.token = p /\ row' = [row EXCEPT !.token = Nobody, !.until = 0]
    <3>1. 0 \in Nat /\ row \in [auto : Chosen, minimum : Chosen, revision : 0 .. MaxRevision,
                                 token : Publishers \cup {Nobody}, until : Nat]
      BY PublisherIsTyped
    <3> QED BY <2>2, <3>1 DEF SameDecision
  <2> QED BY <2>1, <2>2 DEF EndLease, Released
<1>5. UNCHANGED <<releases, stable, flock, admin, cacheVars, now>>
  BY DEF EndLease, serverVars
<1> QED BY <1>1, <1>2, <1>3, <1>4, <1>5, PublisherIsTyped, PublisherMoves

-----------------------------------------------------------------------------
(* Cached reads.                                                           *)

LEMMA ReadMoves ==
    ASSUME PolicyInv, UNCHANGED <<row, serverVars, admin, pub, now>>, ReadsOK', floor' \in Nat,
           reader' \in [Readers -> [pc : {"idle", "query", "answer"}, revision : Nat]],
           entry' \in [owner : Readers \cup {Nobody}, revision : Nat, expires : Nat]
    PROVE  PolicyInv'
<1>1. PolicyTypeOK'
  BY DEF PolicyInv, PolicyTypeOK, serverVars
<1>2. FormsOK'
  BY FormsStay DEF PolicyInv, SameDecision
<1>3. now' \in Nat /\ now <= now'
  BY PolicyNumbers DEF PolicyInv, PolicyTypeOK
<1>4. PublishersOK'
  BY <1>3, PublishersStay DEF PolicyInv, serverVars
<1> QED BY <1>1, <1>2, <1>4 DEF PolicyInv

LEMMA ReadsAreTyped ==
    ASSUME PolicyInv
    PROVE  /\ reader \in [Readers -> [pc : {"idle", "query", "answer"}, revision : Nat]]
           /\ entry \in [owner : Readers \cup {Nobody}, revision : Nat, expires : Nat]
           /\ floor \in Nat /\ now \in Nat /\ row.revision \in Nat /\ Fresh \in Nat
           /\ Nobody \notin Readers /\ ReadsOK
BY PolicyNumbers DEF PolicyInv, PolicyTypeOK

LEMMA ReadMissKeeps == ASSUME PolicyInv, NEW r \in Readers, ReadMiss(r) PROVE PolicyInv'
<1>1. /\ entry' = [owner |-> r, revision |-> 0, expires |-> 0]
      /\ reader' = [reader EXCEPT ![r].pc = "query"]
      /\ UNCHANGED <<row, serverVars, admin, pub, floor, now>>
  BY DEF ReadMiss
<1>2. reader'[r].pc = "query" /\ entry'.owner = r /\ r # Nobody
  BY <1>1, ReadsAreTyped
<1>3. ReadsOK'
  BY <1>1, <1>2, ReadsAreTyped DEF ReadsOK
<1>4. entry' \in [owner : Readers \cup {Nobody}, revision : Nat, expires : Nat]
  BY <1>1
<1>5. reader' \in [Readers -> [pc : {"idle", "query", "answer"}, revision : Nat]]
  BY <1>1, ReadsAreTyped
<1> QED BY <1>1, <1>3, <1>4, <1>5, ReadsAreTyped, ReadMoves

\* Whatever the row says was decided no earlier than the last invalidation.
LEMMA ReadRowKeeps == ASSUME PolicyInv, NEW r \in Readers, ReadRow(r) PROVE PolicyInv'
<1> DEFINE rec == [pc |-> "answer", revision |-> row.revision]
<1>1. reader' = [reader EXCEPT ![r] = rec] /\ UNCHANGED <<row, serverVars, admin, pub, entry, floor, now>>
  BY DEF ReadRow
<1>2. rec \in [pc : {"idle", "query", "answer"}, revision : Nat] /\ rec.revision = row.revision
  BY ReadsAreTyped
<1> HIDE DEF rec
<1>3. \A q \in Readers : reader'[q] = IF q = r THEN rec ELSE reader[q]
  BY <1>1, ReadsAreTyped
<1>4. ReadsOK'
  BY <1>1, <1>2, <1>3, ReadsAreTyped DEF ReadsOK
<1> QED BY <1>1, <1>2, <1>4, ReadsAreTyped, ReadMoves

LEMMA ReadEndsKeeps == ASSUME PolicyInv, NEW r \in Readers, ReadAnswer(r) \/ ReadFails(r) PROVE PolicyInv'
<1>1. reader' = [reader EXCEPT ![r] = ReaderIdle] /\ UNCHANGED <<row, serverVars, admin, pub, floor, now>>
  BY DEF ReadAnswer, ReadFails
<1>2. ReaderIdle \in [pc : {"idle", "query", "answer"}, revision : Nat] /\ ReaderIdle.pc = "idle"
  BY DEF ReaderIdle
<1>3. \A q \in Readers : reader'[q] = IF q = r THEN ReaderIdle ELSE reader[q]
  BY <1>1, ReadsAreTyped
<1>4. \/ entry' = entry
      \/ entry' = NoEntry
      \/ /\ entry.owner = r /\ reader[r].pc = "answer"
         /\ entry' = [owner |-> Nobody, revision |-> reader[r].revision, expires |-> now + Fresh]
  BY DEF ReadAnswer, ReadFails, StoreIn
<1>5. entry' \in [owner : Readers \cup {Nobody}, revision : Nat, expires : Nat] /\ ReadsOK'
  <2>1. CASE entry' = entry
    BY <1>1, <1>2, <1>3, <2>1, ReadsAreTyped DEF ReadsOK
  <2>2. CASE entry' = NoEntry
    BY <1>1, <1>2, <1>3, <2>2, ReadsAreTyped DEF ReadsOK, NoEntry
  <2>3. CASE /\ entry.owner = r /\ reader[r].pc = "answer"
             /\ entry' = [owner |-> Nobody, revision |-> reader[r].revision, expires |-> now + Fresh]
    <3>1. entry'.owner = Nobody /\ entry'.revision = reader[r].revision
      BY <2>3
    <3>2. entry' \in [owner : Readers \cup {Nobody}, revision : Nat, expires : Nat]
      BY <2>3, ReadsAreTyped
    <3>3. reader[r].revision >= floor
      BY <2>3, ReadsAreTyped DEF ReadsOK
    <3> QED BY <1>1, <3>1, <3>2, <3>3, ReadsAreTyped DEF ReadsOK
  <2> QED BY <1>4, <2>1, <2>2, <2>3
<1>6. reader' \in [Readers -> [pc : {"idle", "query", "answer"}, revision : Nat]]
  BY <1>1, <1>2, ReadsAreTyped
<1> QED BY <1>1, <1>5, <1>6, ReadsAreTyped, ReadMoves

LEMMA PolicyTickKeeps == ASSUME PolicyInv, PolicyTick PROVE PolicyInv'
<1>1. now' \in 0 .. MaxTime /\ now' \in Nat /\ now <= now'
  BY PolicyNumbers DEF PolicyTick, PolicyInv, PolicyTypeOK
<1>2. PolicyTypeOK' /\ FormsOK'
  BY <1>1, FormsStay DEF PolicyInv, PolicyTypeOK, PolicyTick, serverVars, cacheVars, SameDecision
<1>3. PublishersOK' /\ ReadsOK'
  BY <1>1, PublishersStay, ReadsStay, ReadsAreTyped DEF PolicyInv, PolicyTick, serverVars, cacheVars
<1> QED BY <1>2, <1>3 DEF PolicyInv

-----------------------------------------------------------------------------
(* The policy's theorems.                                                  *)

LEMMA PolicyStart == PolicyInit => PolicyInv
<1> SUFFICES ASSUME PolicyInit PROVE PolicyInv
  OBVIOUS
<1>1. /\ AdminIdle \in [pc : {"idle", "shown", "stable", "verify", "save", "clear"},
                        auto : Chosen, minimum : Chosen,
                        policy : [revision : Nat, auto : Chosen, minimum : Chosen]]
      /\ PubIdle \in PubRecord /\ ReaderIdle \in [pc : {"idle", "query", "answer"}, revision : Nat]
      /\ NoEntry \in [owner : Readers \cup {Nobody}, revision : Nat, expires : Nat]
  BY DEF AdminIdle, NoPolicy, PubIdle, PubRecord, ReaderIdle, NoEntry, Chosen
<1>2. row \in [auto : Chosen, minimum : Chosen, revision : 0 .. MaxRevision,
              token : Publishers \cup {Nobody}, until : Nat]
  BY PolicyNumbers DEF PolicyInit, Chosen
<1>3. PolicyTypeOK
  BY <1>1, <1>2, PolicyNumbers DEF PolicyInit, PolicyTypeOK, PubRecord
<1>4. \A a \in Admins : admin[a].pc = "idle" /\ admin[a].policy = Policy
  BY DEF PolicyInit, AdminIdle, NoPolicy, Policy
<1>5. FormsOK
  BY <1>4, PolicyNumbers DEF PolicyInit, FormsOK, Agrees, Policy
<1>6. PublishersOK /\ ReadsOK
  BY PolicyNumbers DEF PolicyInit, PublishersOK, PublisherOK, PubIdle, ReadsOK, ReaderIdle, NoEntry
<1> QED BY <1>3, <1>5, <1>6 DEF PolicyInv

LEMMA PolicyStep == PolicyInv /\ [PolicyNext]_policyVars => PolicyInv'
<1> SUFFICES ASSUME PolicyInv, [PolicyNext]_policyVars PROVE PolicyInv'
  OBVIOUS
<1>1. ASSUME NEW a \in Admins,
             \/ ShowPolicy(a)
             \/ \E auto, minimum \in Chosen : SaveRead(a, auto, minimum)
             \/ SaveStable(a) \/ SaveVerify(a) \/ SaveCommit(a) \/ SaveClear(a) \/ SaveFails(a)
      PROVE  PolicyInv'
  BY <1>1, ShowPolicyKeeps, SaveReadKeeps, SaveChecksKeep, SaveCommitKeeps, SaveClearKeeps, SaveFailsKeeps
<1>2. ASSUME NEW p \in Publishers,
             \/ \E v \in Versions : Publish(p, v) \/ Prune(p, v)
             \/ BeginLease(p) \/ Activate(p) \/ RenewLease(p) \/ PruneStart(p) \/ PruneEnd(p) \/ EndLease(p)
      PROVE  PolicyInv'
  BY <1>2, PublishKeeps, PruneKeeps, BeginLeaseKeeps, ActivateKeeps, RenewLeaseKeeps, PruneStartKeeps,
     PruneEndKeeps, EndLeaseKeeps
<1>3. ASSUME NEW r \in Readers, ReadMiss(r) \/ ReadRow(r) \/ ReadAnswer(r) \/ ReadFails(r) PROVE PolicyInv'
  BY <1>3, ReadMissKeeps, ReadRowKeeps, ReadEndsKeeps
<1>4. CASE UNCHANGED policyVars
  BY <1>4 DEF policyVars, serverVars, cacheVars, PolicyInv, PolicyTypeOK, FormsOK, Agrees, Policy, SavedPolicy,
             PublishersOK, PublisherOK, ReadsOK
<1> QED BY <1>1, <1>2, <1>3, <1>4, PolicyTickKeeps DEF PolicyNext

\* The inductive invariant of the policy: forms show what the row says or said,
\* whoever deletes holds the lock, and its lease as long as it lasts.
THEOREM PolicyInvariant == PolicySpec => []PolicyInv
<1> QED BY PolicyStart, PolicyStep, PTL DEF PolicySpec

\* An isolate that has acknowledged a save never answers from an older policy.
THEOREM CacheNotOlderHolds == PolicySpec => []CacheNotOlder
<1>1. PolicyInv => CacheNotOlder
  BY DEF PolicyInv, ReadsOK, CacheNotOlder
<1> QED BY <1>1, PolicyInvariant, PTL

\* Only a publisher that deletes takes a release away.
LEMMA OnlyPruneDeletes ==
    ASSUME [PolicyNext]_policyVars, NEW v \in releases, v \notin releases'
    PROVE  \E p \in Publishers : Prune(p, v)
<1>1. ASSUME NEW a \in Admins,
             \/ ShowPolicy(a)
             \/ \E auto, minimum \in Chosen : SaveRead(a, auto, minimum)
             \/ SaveStable(a) \/ SaveVerify(a) \/ SaveCommit(a) \/ SaveClear(a) \/ SaveFails(a)
      PROVE  FALSE
  BY <1>1 DEF ShowPolicy, SaveRead, SaveStable, SaveVerify, SaveCommit, SaveClear, SaveFails, serverVars
<1>2. ASSUME NEW p \in Publishers, NEW w \in Versions, Publish(p, w) \/ (Prune(p, w) /\ w # v) PROVE FALSE
  BY <1>2 DEF Publish, Prune
<1>3. ASSUME NEW p \in Publishers,
             BeginLease(p) \/ Activate(p) \/ RenewLease(p) \/ PruneStart(p) \/ PruneEnd(p) \/ EndLease(p)
      PROVE  FALSE
  BY <1>3 DEF BeginLease, Activate, RenewLease, PruneStart, PruneEnd, EndLease, serverVars
<1>4. ASSUME NEW r \in Readers, ReadMiss(r) \/ ReadRow(r) \/ ReadAnswer(r) \/ ReadFails(r) PROVE FALSE
  BY <1>4 DEF ReadMiss, ReadRow, ReadAnswer, ReadFails, serverVars
<1>5. ~UNCHANGED policyVars /\ ~PolicyTick
  BY DEF policyVars, PolicyTick, serverVars
<1> QED BY <1>1, <1>2, <1>3, <1>4, <1>5 DEF PolicyNext

\* What is deleted is neither stable nor named by the policy at that moment,
\* although the lease may have gone to another publisher and the policy may have
\* been changed since the deletion began: the margin ends it before that.
THEOREM PruneSparesPolicyHolds == PolicySpec => PruneSparesPolicy
<1>1. ASSUME PolicyInv, [PolicyNext]_policyVars
      PROVE  \A v \in releases \ releases' : v \notin {stable, row.auto, row.minimum}
  <2> SUFFICES ASSUME NEW v \in releases \ releases' PROVE v \notin {stable, row.auto, row.minimum}
    OBVIOUS
  <2>1. PICK p \in Publishers : Prune(p, v)
    BY <1>1, OnlyPruneDeletes
  <2>2. pub[p].pc = "pruning" /\ v \notin pub[p].keep /\ pub[p].expires > now + Margin
    BY <2>1 DEF Prune, LongEnough
  <2>3. pub[p].expires \in Nat /\ now \in Nat /\ Margin \in Nat /\ v \in Versions /\ v # 0
    BY <1>1, PublisherIsTyped, PolicyNumbers, VersionsAreNotZero DEF PubRecord
  <2>4. pub[p].expires > now
    BY <2>2, <2>3
  <2>5. stable \in pub[p].keep /\ {row.auto, row.minimum} \subseteq pub[p].keep \cup {0}
    BY <1>1, <2>2, <2>4, PublisherIsTyped DEF PublisherOK
  <2> QED BY <2>2, <2>3, <2>5
<1> QED BY <1>1, PolicyInvariant, PTL DEF PolicySpec, PruneSparesPolicy

\* A form goes from its commit to the clearing of the cache only by writing.
LEMMA OnlyCommitSaves ==
    ASSUME PolicyTypeOK, [PolicyNext]_policyVars, NEW a \in Admins, admin[a].pc = "save", admin'[a].pc = "clear"
    PROVE  CanSave(a)
<1>1. ASSUME NEW b \in Admins, b # a,
             \/ ShowPolicy(b)
             \/ \E auto, minimum \in Chosen : SaveRead(b, auto, minimum)
             \/ SaveStable(b) \/ SaveVerify(b) \/ SaveCommit(b) \/ SaveClear(b) \/ SaveFails(b)
      PROVE  FALSE
  <2>1. admin'[a] = admin[a]
    BY <1>1 DEF PolicyTypeOK, ShowPolicy, SaveRead, SaveStable, SaveVerify, SaveCommit, SaveClear, SaveFails,
                Shown, NotSaved, AdminStep
  <2> QED BY <2>1
<1>2. ~(\/ ShowPolicy(a)
        \/ \E auto, minimum \in Chosen : SaveRead(a, auto, minimum)
        \/ SaveStable(a) \/ SaveVerify(a) \/ SaveClear(a))
  BY DEF ShowPolicy, SaveRead, SaveStable, SaveVerify, SaveClear
<1>3. ~NotSaved(a)
  <2>1. [AdminIdle EXCEPT !.pc = "shown", !.policy = admin[a].policy].pc = "shown"
    BY DEF AdminIdle
  <2>2. admin \in [Admins -> [pc : {"idle", "shown", "stable", "verify", "save", "clear"},
                             auto : Chosen, minimum : Chosen,
                             policy : [revision : Nat, auto : Chosen, minimum : Chosen]]]
    BY DEF PolicyTypeOK
  <2> QED BY <2>1, <2>2 DEF NotSaved, Shown
<1>4. SaveCommit(a) \/ SaveFails(a) => CanSave(a)
  BY <1>3 DEF SaveCommit, SaveFails
<1>5. ASSUME NEW p \in Publishers,
             \/ \E v \in Versions : Publish(p, v) \/ Prune(p, v)
             \/ BeginLease(p) \/ Activate(p) \/ RenewLease(p) \/ PruneStart(p) \/ PruneEnd(p) \/ EndLease(p)
      PROVE  FALSE
  BY <1>5 DEF Publish, Prune, BeginLease, Activate, RenewLease, PruneStart, PruneEnd, EndLease
<1>6. ASSUME NEW r \in Readers, ReadMiss(r) \/ ReadRow(r) \/ ReadAnswer(r) \/ ReadFails(r) PROVE FALSE
  BY <1>6 DEF ReadMiss, ReadRow, ReadAnswer, ReadFails
<1>7. ~UNCHANGED policyVars /\ ~PolicyTick
  BY DEF policyVars, PolicyTick
<1> QED BY <1>1, <1>2, <1>4, <1>5, <1>6, <1>7 DEF PolicyNext

\* While p holds a lease that lasts, no step of another publisher changes its end.
LEMMA LeaseStays ==
    ASSUME PolicyTypeOK, [PolicyNext]_policyVars, NEW p \in Publishers, NEW q \in Publishers, p # q,
           Leased, row.token = p, pub[q] # pub'[q]
    PROVE  row'.until = row.until
<1>1. row.until \in Nat /\ now \in Nat /\ ~(row.until <= now)
  BY DEF PolicyTypeOK, Leased
<1>2. ~CanClaim(q) /\ Released(q) = row
  BY <1>1 DEF CanClaim, Released
<1>3. ASSUME NEW x \in Publishers, x # q,
             \/ \E v \in Versions : Publish(x, v) \/ Prune(x, v)
             \/ BeginLease(x) \/ Activate(x) \/ RenewLease(x) \/ PruneStart(x) \/ PruneEnd(x) \/ EndLease(x)
      PROVE  FALSE
  BY <1>3 DEF PolicyTypeOK, Publish, Prune, BeginLease, Activate, RenewLease, PruneStart, PruneEnd, EndLease,
              PubStep, PubEnd
<1>4. ASSUME \/ \E v \in Versions : Publish(q, v) \/ Prune(q, v)
             \/ BeginLease(q) \/ Activate(q) \/ RenewLease(q) \/ PruneStart(q) \/ PruneEnd(q) \/ EndLease(q)
      PROVE  row' = row
  BY <1>2, <1>4 DEF Publish, Prune, BeginLease, Activate, RenewLease, PruneStart, PruneEnd, EndLease
<1>5. ASSUME NEW a \in Admins,
             \/ ShowPolicy(a)
             \/ \E auto, minimum \in Chosen : SaveRead(a, auto, minimum)
             \/ SaveStable(a) \/ SaveVerify(a) \/ SaveCommit(a) \/ SaveClear(a) \/ SaveFails(a)
      PROVE  FALSE
  BY <1>5 DEF ShowPolicy, SaveRead, SaveStable, SaveVerify, SaveCommit, SaveClear, SaveFails
<1>6. ASSUME NEW r \in Readers, ReadMiss(r) \/ ReadRow(r) \/ ReadAnswer(r) \/ ReadFails(r) PROVE FALSE
  BY <1>6 DEF ReadMiss, ReadRow, ReadAnswer, ReadFails
<1>7. ~UNCHANGED policyVars /\ ~PolicyTick
  BY DEF policyVars, PolicyTick
<1> QED BY <1>3, <1>4, <1>5, <1>6, <1>7 DEF PolicyNext

\* The one row that decisions and leases share is written over nobody's head: a
\* save replaces the decision its administrator was shown and no other one, and a
\* lease ends when its holder or its time says so.
THEOREM NobodyOverriddenHolds == PolicySpec => NobodyOverridden
<1>1. ASSUME PolicyInv, [PolicyNext]_policyVars
      PROVE  \A a \in Admins : admin[a].pc = "save" /\ admin'[a].pc = "clear" => admin[a].policy = Policy
  <2> SUFFICES ASSUME NEW a \in Admins, admin[a].pc = "save", admin'[a].pc = "clear" PROVE admin[a].policy = Policy
    OBVIOUS
  <2>1. row.revision = admin[a].policy.revision
    BY <1>1, OnlyCommitSaves DEF CanSave, PolicyInv
  <2> QED BY <1>1, <2>1 DEF PolicyInv, FormsOK, Agrees
<1>2. ASSUME PolicyInv, [PolicyNext]_policyVars
      PROVE  \A p, q \in Publishers : p # q /\ Leased /\ row.token = p /\ pub[q] # pub'[q] =>
                row'.until = row.until
  BY <1>2, LeaseStays DEF PolicyInv
<1>3. PolicySpec => NoBlindOverwrite
  BY <1>1, PolicyInvariant, PTL DEF PolicySpec, NoBlindOverwrite
<1>4. PolicySpec => LeaseIsOwn
  BY <1>2, PolicyInvariant, PTL DEF PolicySpec, LeaseIsOwn
<1> QED BY <1>3, <1>4 DEF NobodyOverridden

-----------------------------------------------------------------------------
(* The deployment.                                                         *)

Preparing == dep.pc \in {"database", "recordDatabase", "app", "recordApp", "policy", "snapshot"}
Rolling == dep.pc \in {"before", "migrate", "after", "upload", "probe", "dropRoute", "accept",
                      "restoreRoute", "restoreWorker"}
Syncing == dep.pc \in {"waf", "legacy", "confirm", "retire"}
Steps == {"database", "recordDatabase", "app", "recordApp", "policy", "snapshot",
          "before", "migrate", "after", "upload", "probe", "dropRoute", "accept", "restoreRoute", "restoreWorker",
          "waf", "legacy", "confirm", "retire",
          "none", "refused", "provisioned", "recovered", "unsynced", "done", "killed"}

DepTypeOK ==
    /\ dep \in [pc : Steps, kind : {"local", "ci", "provision"}, release : 0 .. Newest, previous : 0 .. Newest,
                route : BOOLEAN, before : 0 .. MaxRows + 1, uploaded : BOOLEAN, reported : BOOLEAN]
    /\ dep.pc # "none" => dep.release >= 2

\* What a deployment has made sure of before it goes on.
DepOrder ==
    /\ Preparing => worker <= dep.release
    /\ dep.pc \in {"recordApp", "policy", "snapshot"} \/ Rolling \/ Syncing => Protected
    /\ dep.pc \in {"after", "upload"} => dep.release <= schema
    /\ dep.pc = "dropRoute" \/ Syncing => worker = dep.release

\* The release before it can be put back until the new one is accepted.
CanGoBack ==
    /\ Rolling => /\ waf <= dep.previous /\ dep.previous <= dep.release /\ dep.previous <= schema
                  /\ ~dep.uploaded => worker = dep.previous
                  /\ dep.previous = 1 /\ ~disturbed => dep.route /\ assets
    /\ dep.pc = "restoreWorker" /\ dep.previous = 1 /\ ~disturbed => route = "ours"

DeploymentInv == DepTypeOK /\ DepOrder /\ CanGoBack /\ RolloutOrder /\ RecoveryKeepsServing

LEMMA DeploymentNumbers ==
    /\ Newest \in Nat /\ Newest > 1 /\ MaxRows \in Nat /\ MaxTroubles \in Nat /\ MaxDeployments \in Nat
BY DeploymentAssumption

\* A step to pc changes nothing else that the deployment knows.
LEMMA Goes ==
    ASSUME DepTypeOK, NEW pc \in Steps, Goto(pc), dep.pc # "none"
    PROVE  /\ DepTypeOK' /\ dep'.pc = pc /\ dep'.kind = dep.kind /\ dep'.release = dep.release
           /\ dep'.previous = dep.previous /\ dep'.route = dep.route /\ dep'.before = dep.before
           /\ dep'.uploaded = dep.uploaded /\ dep'.reported = dep.reported
BY DEF DepTypeOK, Goto

\* The counters of what goes wrong, in any call.
LEMMA TroublesAreBounded ==
    ASSUME DeploymentTypeOK, Trouble \/ UNCHANGED troubles
    PROVE  troubles' \in 0 .. MaxTroubles
BY DeploymentNumbers DEF DeploymentTypeOK, Trouble

LEMMA DepIsTyped ==
    ASSUME DeploymentInv
    PROVE  /\ DepTypeOK /\ DeploymentTypeOK
           /\ dep.release \in Nat /\ dep.previous \in Nat /\ worker \in Nat /\ schema \in Nat /\ waf \in Nat
           /\ rows \in Nat /\ database \in Nat
BY DeploymentNumbers DEF DeploymentInv, DepTypeOK, RolloutOrder, DeploymentTypeOK

-----------------------------------------------------------------------------
(* Preparation.                                                            *)

LEMMA DeployKeeps ==
    ASSUME DeploymentInv, NEW v \in 2 .. Newest, NEW kind \in {"local", "ci", "provision"}, Deploy(v, kind)
    PROVE  DeploymentInv'
<1> DEFINE new == [NoDeployment EXCEPT !.pc = "database", !.kind = kind, !.release = v]
<1>1. /\ dep' = new /\ v >= worker /\ begun' = begun + 1 /\ begun < MaxDeployments
      /\ UNCHANGED <<worker, schema, rows, route, assets, waf, legacy, database, app, recorded, troubles, disturbed>>
  BY DEF Deploy, gatewayVars, edgeVars, ownedVars
<1>2. new.pc = "database" /\ new.release = v /\ v >= 2
  BY DEF NoDeployment
<1>3. new \in [pc : Steps, kind : {"local", "ci", "provision"}, release : 0 .. Newest, previous : 0 .. Newest,
               route : BOOLEAN, before : 0 .. MaxRows + 1, uploaded : BOOLEAN, reported : BOOLEAN]
  <2>1. NoDeployment \in [pc : Steps, kind : {"local", "ci", "provision"}, release : 0 .. Newest,
                         previous : 0 .. Newest, route : BOOLEAN, before : 0 .. MaxRows + 1,
                         uploaded : BOOLEAN, reported : BOOLEAN]
    BY DeploymentNumbers DEF NoDeployment, Steps
  <2>2. v \in 0 .. Newest /\ "database" \in Steps
    BY DeploymentNumbers DEF Steps
  <2> QED BY <2>1, <2>2
<1>4. {new.route, new.uploaded, new.reported} \subseteq BOOLEAN
  BY DEF NoDeployment
<1> HIDE DEF new
<1>5. DepTypeOK' /\ dep'.pc = "database" /\ dep'.release = v
  BY <1>1, <1>2, <1>3 DEF DepTypeOK
<1>6. DeploymentTypeOK'
  BY <1>1, <1>4, DepIsTyped, DeploymentNumbers DEF DeploymentTypeOK
<1>7. DepOrder' /\ CanGoBack'
  BY <1>1, <1>5, DepIsTyped DEF DepOrder, CanGoBack, Preparing, Rolling, Syncing
<1>8. RolloutOrder' /\ RecoveryKeepsServing'
  BY <1>1, <1>5, <1>6 DEF DeploymentInv, RolloutOrder, RecoveryKeepsServing, Protected
<1> QED BY <1>5, <1>7, <1>8 DEF DeploymentInv

\* A call that prepares the deployment leaves the Gateway and its Edge alone; it
\* adds at most the first database, and never takes the Access Application away.
LEMMA PreparationMoves ==
    ASSUME DeploymentInv, Preparing, NEW pc \in Steps, Goto(pc), Trouble \/ UNCHANGED troubles,
           UNCHANGED <<gatewayVars, edgeVars, historyOfZone>>,
           pc \in {"database", "recordDatabase", "app", "recordApp", "policy", "snapshot", "refused", "provisioned"},
           recorded' \in [database : BOOLEAN, app : BOOLEAN],
           database' \in {0, 1}, app' \in {"none", "open", "closed", "shared"},
           app # "none" => app' # "none",
           pc \in {"recordApp", "policy", "snapshot"} => app' # "none"
    PROVE  DeploymentInv'
<1>1. UNCHANGED <<worker, schema, rows, route, assets, waf, legacy, begun, disturbed>>
  BY DEF gatewayVars, edgeVars, historyOfZone
<1>2. dep.pc # "none"
  BY DEF Preparing
<1>3. /\ DepTypeOK' /\ dep'.pc = pc /\ dep'.release = dep.release
      /\ dep'.route = dep.route /\ dep'.uploaded = dep.uploaded /\ dep'.reported = dep.reported
  BY <1>2, DepIsTyped, Goes
<1>4. DeploymentTypeOK'
  BY <1>1, <1>3, DepIsTyped, TroublesAreBounded DEF DeploymentTypeOK
<1>5. DepOrder' /\ CanGoBack'
  BY <1>1, <1>3 DEF DeploymentInv, DepOrder, CanGoBack, Preparing, Rolling, Syncing, Protected
<1>6. RolloutOrder' /\ RecoveryKeepsServing'
  BY <1>1, <1>3, <1>4 DEF DeploymentInv, RolloutOrder, RecoveryKeepsServing, Protected
<1> QED BY <1>3, <1>5, <1>6 DEF DeploymentInv

LEMMA PreparationKeeps ==
    ASSUME DeploymentInv, UseDatabase \/ RecordDatabase \/ UseApp \/ RecordApp \/ UsePolicy
    PROVE  DeploymentInv'
<1>0. /\ recorded \in [database : BOOLEAN, app : BOOLEAN] /\ database \in {0, 1}
      /\ app \in {"none", "open", "closed", "shared"}
      /\ dep.pc \in {"recordApp", "policy"} => app # "none"
  BY DepIsTyped DEF DeploymentInv, DeploymentTypeOK, RolloutOrder, DepOrder, Protected
<1>1. Preparing
  BY DEF UseDatabase, RecordDatabase, UseApp, RecordApp, UsePolicy, Preparing, Doing
<1>2. CASE UseDatabase
  <2>1. PICK pc \in {"app", "recordDatabase", "refused"} : Goto(pc)
    BY <1>2 DEF UseDatabase, Check, Call
  <2>2. database' \in {0, 1} /\ (Trouble \/ UNCHANGED troubles)
    BY <1>0, <1>2 DEF UseDatabase, Check, Call, FreeName
  <2> QED BY <1>0, <1>1, <1>2, <2>1, <2>2, PreparationMoves DEF UseDatabase, Steps
<1>3. CASE RecordDatabase
  <2>1. recorded' \in [database : BOOLEAN, app : BOOLEAN]
    BY <1>0, <1>3 DEF RecordDatabase
  <2> QED BY <1>0, <1>1, <1>3, <2>1, PreparationMoves DEF RecordDatabase, Steps
<1>4. CASE UseApp
  <2>1. PICK pc \in {"policy", "recordApp", "refused"} :
          /\ Goto(pc) /\ app' \in {app, "open"} /\ (pc # "refused" => app' # "none")
    BY <1>4 DEF UseApp, Check, Call
  <2>2. Trouble \/ UNCHANGED troubles
    BY <1>4 DEF UseApp, Check, Call
  <2> QED BY <1>0, <1>1, <1>4, <2>1, <2>2, PreparationMoves DEF UseApp, Steps
<1>5. CASE RecordApp
  <2>1. recorded' \in [database : BOOLEAN, app : BOOLEAN]
    BY <1>0, <1>5 DEF RecordApp
  <2> QED BY <1>0, <1>1, <1>5, <2>1, PreparationMoves DEF RecordApp, Doing, Steps
<1>6. CASE UsePolicy
  <2>1. PICK pc \in {"provisioned", "snapshot", "refused"} : Goto(pc) /\ app' \in {app, "closed"}
    BY <1>6 DEF UsePolicy, Call
  <2>2. Trouble \/ UNCHANGED troubles
    BY <1>6 DEF UsePolicy, Call
  <2> QED BY <1>0, <1>1, <1>6, <2>1, <2>2, PreparationMoves DEF UsePolicy, Doing, Steps
<1> QED BY <1>2, <1>3, <1>4, <1>5, <1>6

\* The snapshot: what is put back later is what serves now.
LEMMA SnapshotKeeps == ASSUME DeploymentInv, Snapshot PROVE DeploymentInv'
<1>0. UNCHANGED <<worker, schema, rows, route, assets, waf, legacy, database, app, recorded, begun, disturbed>>
  BY DEF Snapshot, gatewayVars, edgeVars, ownedVars, historyOfZone
<1>1. dep.pc = "snapshot" /\ Preparing
  BY DEF Snapshot, Doing, Preparing
<1>2. CASE Goto("refused")
  <2>1. /\ recorded \in [database : BOOLEAN, app : BOOLEAN] /\ database \in {0, 1}
        /\ app \in {"none", "open", "closed", "shared"} /\ (Trouble \/ UNCHANGED troubles)
    BY DepIsTyped DEF DeploymentInv, DeploymentTypeOK, RolloutOrder, Snapshot
  <2> QED BY <1>0, <1>1, <1>2, <2>1, PreparationMoves DEF Steps, gatewayVars, edgeVars, historyOfZone
<1>3. CASE dep' = [dep EXCEPT !.pc = "before", !.previous = worker, !.route = (route = "ours")] /\ UNCHANGED troubles
  <2>1. /\ dep'.pc = "before" /\ dep'.release = dep.release /\ dep'.previous = worker
        /\ dep'.route = (route = "ours") /\ dep'.uploaded = dep.uploaded /\ dep'.reported = dep.reported
    BY <1>3, DepIsTyped DEF DepTypeOK
  <2>2. DepTypeOK'
    <3>1. worker \in 0 .. Newest /\ (route = "ours") \in BOOLEAN /\ dep.release >= 2 /\ "before" \in Steps
      BY <1>1, DepIsTyped DEF DeploymentTypeOK, DepTypeOK, Steps
    <3> QED BY <1>3, <2>1, <3>1, DepIsTyped DEF DepTypeOK
  <2>3. DeploymentTypeOK'
    BY <1>0, <1>3, <2>1, DepIsTyped DEF DeploymentTypeOK
  <2>4. worker <= dep.release /\ app # "none" /\ waf <= worker /\ worker <= schema
        /\ (worker = 1 /\ ~disturbed => route = "ours" /\ assets)
    BY <1>1 DEF DeploymentInv, DepOrder, Protected, RolloutOrder, RecoveryKeepsServing
  <2>5. DepOrder' /\ CanGoBack'
    BY <1>0, <2>1, <2>4 DEF DepOrder, CanGoBack, Preparing, Rolling, Syncing, Protected
  <2>6. RolloutOrder' /\ RecoveryKeepsServing'
    BY <1>0, <2>1, <2>3 DEF DeploymentInv, RolloutOrder, RecoveryKeepsServing, Protected
  <2> QED BY <2>2, <2>5, <2>6 DEF DeploymentInv
<1> QED BY <1>2, <1>3 DEF Snapshot

-----------------------------------------------------------------------------
(* The migration, the upload and the recovery.                             *)

\* A step of the rollout that leaves the Gateway and what it needs to go back.
LEMMA RolloutMoves ==
    ASSUME DeploymentInv, Rolling, DepTypeOK', Trouble \/ UNCHANGED troubles,
           UNCHANGED <<worker, rows, assets, waf, legacy, ownedVars, begun>>,
           schema' \in schema .. Newest, route' \in {"none", "ours", "foreign"},
           disturbed' \in BOOLEAN, disturbed => disturbed',
           dep'.release = dep.release, dep'.previous = dep.previous, dep'.route = dep.route,
           dep'.uploaded = dep.uploaded,
           dep'.pc \in {"migrate", "after", "upload", "probe", "dropRoute", "accept", "restoreRoute", "restoreWorker", "waf"},
           dep'.pc \in {"after", "upload"} => dep.release <= schema',
           dep'.pc \in {"dropRoute", "waf"} => worker = dep.release,
           worker = 1 /\ ~disturbed' => route' = "ours",
           dep'.pc = "restoreWorker" /\ dep.previous = 1 /\ ~disturbed' => route' = "ours"
    PROVE  DeploymentInv'
<1>1. UNCHANGED <<database, app, recorded>>
  BY DEF ownedVars
<1>2. schema' \in Nat /\ schema <= schema' /\ schema' \in 0 .. Newest
  BY DepIsTyped, DeploymentNumbers
<1>3. {dep'.route, dep'.uploaded, dep'.reported} \subseteq BOOLEAN
  BY DEF DepTypeOK
<1>4. DeploymentTypeOK'
  BY <1>1, <1>2, <1>3, DepIsTyped, TroublesAreBounded DEF DeploymentTypeOK
<1>5. /\ waf <= dep.previous /\ dep.previous <= dep.release /\ dep.previous <= schema /\ app # "none"
      /\ (~dep.uploaded => worker = dep.previous)
      /\ (dep.previous = 1 /\ ~disturbed => dep.route /\ assets)
      /\ waf <= worker /\ worker <= schema
  BY DEF DeploymentInv, DepOrder, CanGoBack, RolloutOrder, Protected
<1>6. dep.previous <= schema' /\ worker <= schema'
  BY <1>2, <1>5, DepIsTyped
<1>7. DepOrder'
  BY <1>1, <1>5 DEF DepOrder, Preparing, Rolling, Syncing, Protected
<1>8. CanGoBack'
  BY <1>5, <1>6 DEF CanGoBack, Rolling
<1>9. RolloutOrder'
  BY <1>1, <1>4, <1>5, <1>6 DEF DeploymentInv, RolloutOrder, Protected
<1>10. RecoveryKeepsServing'
  BY DEF DeploymentInv, RecoveryKeepsServing
<1> QED BY <1>7, <1>8, <1>9, <1>10 DEF DeploymentInv

LEMMA RolledIsTyped ==
    ASSUME DeploymentInv
    PROVE  /\ schema \in schema .. Newest /\ route \in {"none", "ours", "foreign"} /\ disturbed \in BOOLEAN
           /\ worker = 1 /\ ~disturbed => route = "ours"
           /\ dep.pc # "none" => dep.release \in 2 .. Newest
BY DepIsTyped, DeploymentNumbers DEF DeploymentTypeOK, DepTypeOK, DeploymentInv, RecoveryKeepsServing

\* The checks of the rollout and the reading of the rows change only the deployment.
LEMMA ChecksKeep ==
    ASSUME DeploymentInv, RowsBefore \/ RowsAfter \/ Probe \/ Accept
    PROVE  DeploymentInv'
<1>1. Rolling /\ dep.pc # "none"
  BY DEF RowsBefore, RowsAfter, Probe, Accept, Rolling, Doing
<1>2. UNCHANGED <<worker, schema, rows, route, assets, waf, legacy, ownedVars, begun, disturbed>>
  BY DEF RowsBefore, RowsAfter, Probe, Accept, gatewayVars, edgeVars, historyOfZone
<1>3. Trouble \/ UNCHANGED troubles
  BY DEF RowsBefore, RowsAfter, Probe, Accept, Check
<1>4. ASSUME NEW pc \in {"upload", "dropRoute", "accept", "waf", "restoreRoute"}, Goto(pc),
             pc = "upload" => dep.release <= schema,
             pc \in {"dropRoute", "waf"} => worker = dep.release
      PROVE  DeploymentInv'
  <2>1. /\ DepTypeOK' /\ dep'.pc = pc /\ dep'.release = dep.release /\ dep'.previous = dep.previous
        /\ dep'.route = dep.route /\ dep'.uploaded = dep.uploaded
    BY <1>1, <1>4, DepIsTyped, Goes DEF Steps
  <2> QED BY <1>1, <1>2, <1>3, <1>4, <2>1, RolledIsTyped, RolloutMoves
<1>5. CASE RowsBefore
  <2>1. CASE dep' = [dep EXCEPT !.pc = "migrate", !.before = IF schema = 0 THEN 0 ELSE rows]
    <3>1. rows \in 0 .. MaxRows + 1 /\ 0 \in 0 .. MaxRows + 1
      BY DepIsTyped, DeploymentNumbers DEF DeploymentTypeOK
    <3> DEFINE before == IF schema = 0 THEN 0 ELSE rows
    <3>2. before \in 0 .. MaxRows + 1
      BY <3>1
    <3> HIDE DEF before
    <3>3. dep' = [dep EXCEPT !.pc = "migrate", !.before = before]
      BY <2>1 DEF before
    <3>4. /\ dep'.pc = "migrate" /\ dep'.release = dep.release /\ dep'.previous = dep.previous
          /\ dep'.route = dep.route /\ dep'.uploaded = dep.uploaded
      BY <3>3, DepIsTyped DEF DepTypeOK
    <3>5. DepTypeOK'
      BY <1>1, <3>2, <3>3, <3>4, DepIsTyped DEF DepTypeOK, Steps
    <3> QED BY <1>1, <1>2, <1>3, <3>4, <3>5, RolledIsTyped, RolloutMoves
  <2>2. CASE Goto("restoreRoute")
    BY <1>4, <2>2
  <2> QED BY <1>5, <2>1, <2>2 DEF RowsBefore
<1>6. CASE RowsAfter
  <2>1. dep.release <= schema
    BY <1>6 DEF RowsAfter, Doing, DeploymentInv, DepOrder
  <2> QED BY <1>4, <1>6, <2>1 DEF RowsAfter, Check
<1>7. CASE Probe
  BY <1>4, <1>7 DEF Probe, Check, Healthy
<1>8. CASE Accept
  BY <1>4, <1>8 DEF Accept, Check, Healthy
<1> QED BY <1>5, <1>6, <1>7, <1>8

\* The database goes forward, to what the new release needs.
LEMMA MigrateKeeps == ASSUME DeploymentInv, Migrate PROVE DeploymentInv'
<1>1. /\ Rolling /\ dep.pc # "none" /\ (Trouble \/ UNCHANGED troubles)
      /\ UNCHANGED <<worker, rows, route, assets, waf, legacy, ownedVars, begun, disturbed>>
  BY DEF Migrate, Rolling, Doing, Call, edgeVars, historyOfZone
<1>2. PICK pc \in {"after", "restoreRoute"} :
         /\ Goto(pc)
         /\ \/ schema' = IF dep.release > schema THEN dep.release ELSE schema
            \/ schema' = schema /\ pc = "restoreRoute"
  BY DEF Migrate, Call
<1>3. schema' \in schema .. Newest /\ (pc = "after" => dep.release <= schema')
  BY <1>1, <1>2, DepIsTyped, RolledIsTyped
<1>4. /\ DepTypeOK' /\ dep'.pc = pc /\ dep'.release = dep.release /\ dep'.previous = dep.previous
      /\ dep'.route = dep.route /\ dep'.uploaded = dep.uploaded
  BY <1>1, <1>2, DepIsTyped, Goes DEF Steps
<1> QED BY <1>1, <1>3, <1>4, RolledIsTyped, RolloutMoves

\* An upload counts as attempted before its answer: what it may have replaced is
\* put back.
LEMMA UploadKeeps == ASSUME DeploymentInv, Upload PROVE DeploymentInv'
<1>1. /\ dep.pc = "upload" /\ Rolling
      /\ UNCHANGED <<schema, rows, route, assets, waf, legacy, database, app, recorded, begun, disturbed>>
      /\ Trouble \/ UNCHANGED troubles
  BY DEF Upload, Doing, Rolling, edgeVars, ownedVars, historyOfZone
<1>2. PICK pc \in {"probe", "restoreRoute"} :
         dep' = [dep EXCEPT !.pc = pc, !.uploaded = TRUE] /\ worker' \in {worker, dep.release}
  BY DEF Upload, Attempted
<1>3. /\ dep'.pc = pc /\ dep'.release = dep.release /\ dep'.previous = dep.previous
      /\ dep'.route = dep.route /\ dep'.uploaded = TRUE /\ dep'.reported = dep.reported
  BY <1>2, DepIsTyped DEF DepTypeOK
<1>4. DepTypeOK'
  BY <1>1, <1>2, <1>3, DepIsTyped DEF DepTypeOK, Steps
<1>5. /\ waf <= dep.previous /\ dep.previous <= dep.release /\ dep.previous <= schema /\ dep.release <= schema
      /\ app # "none" /\ waf <= worker /\ worker <= schema
      /\ (dep.previous = 1 /\ ~disturbed => dep.route /\ assets)
      /\ (worker = 1 /\ ~disturbed => route = "ours" /\ assets)
      /\ dep.release >= 2
  BY <1>1 DEF DeploymentInv, DepTypeOK, DepOrder, CanGoBack, RolloutOrder, RecoveryKeepsServing, Protected
<1>6. waf <= worker' /\ worker' <= schema /\ worker' \in 0 .. Newest /\ (worker' = 1 => worker = 1)
  BY <1>1, <1>2, <1>5, DepIsTyped, RolledIsTyped DEF DeploymentTypeOK
<1>7. DeploymentTypeOK'
  BY <1>1, <1>3, <1>6, DepIsTyped, TroublesAreBounded DEF DeploymentTypeOK
<1>8. DepOrder' /\ CanGoBack'
  BY <1>1, <1>3, <1>5 DEF DepOrder, CanGoBack, Preparing, Rolling, Syncing, Protected
<1>9. RolloutOrder' /\ RecoveryKeepsServing'
  BY <1>1, <1>3, <1>5, <1>6, <1>7 DEF DeploymentInv, RolloutOrder, RecoveryKeepsServing, Protected
<1> QED BY <1>4, <1>8, <1>9 DEF DeploymentInv

\* The route goes when the new release serves, not before.
LEMMA DropRouteKeeps == ASSUME DeploymentInv, DropRoute PROVE DeploymentInv'
<1>1. /\ dep.pc = "dropRoute" /\ Rolling /\ (Trouble \/ UNCHANGED troubles)
      /\ UNCHANGED <<worker, schema, rows, assets, waf, legacy, ownedVars, begun, disturbed>>
  BY DEF DropRoute, Doing, Rolling, Call, gatewayVars, historyOfZone
<1>2. PICK pc \in {"accept", "restoreRoute"} : Goto(pc) /\ route' \in {route, "none"}
  BY DEF DropRoute, Call
<1>3. worker = dep.release /\ worker # 1
  BY <1>1, RolledIsTyped, DepIsTyped DEF DeploymentInv, DepOrder
<1>4. /\ DepTypeOK' /\ dep'.pc = pc /\ dep'.release = dep.release /\ dep'.previous = dep.previous
      /\ dep'.route = dep.route /\ dep'.uploaded = dep.uploaded
  BY <1>1, <1>2, DepIsTyped, Goes DEF Steps
<1> QED BY <1>1, <1>2, <1>3, <1>4, RolledIsTyped, RolloutMoves

\* Reported failures are on record in the deployment and in the history.
LEMMA ReportsIs ==
    ASSUME DepTypeOK, NEW pc \in Steps, Reports(pc), dep.pc # "none"
    PROVE  /\ DepTypeOK' /\ dep'.pc = pc /\ dep'.release = dep.release /\ dep'.previous = dep.previous
           /\ dep'.route = dep.route /\ dep'.uploaded = dep.uploaded /\ dep'.reported = TRUE /\ disturbed' = TRUE
BY DEF DepTypeOK, Reports

LEMMA RestoreRouteKeeps == ASSUME DeploymentInv, RestoreRoute PROVE DeploymentInv'
<1>1. /\ dep.pc = "restoreRoute" /\ Rolling /\ (Trouble \/ UNCHANGED troubles)
      /\ UNCHANGED <<worker, schema, rows, assets, waf, legacy, ownedVars, begun>>
  BY DEF RestoreRoute, Doing, Rolling, gatewayVars
<1>2. CASE /\ route' = IF dep.route THEN "ours" ELSE route
           /\ Goto("restoreWorker") /\ UNCHANGED disturbed
  <2>1. /\ DepTypeOK' /\ dep'.pc = "restoreWorker" /\ dep'.release = dep.release /\ dep'.previous = dep.previous
        /\ dep'.route = dep.route /\ dep'.uploaded = dep.uploaded
    BY <1>1, <1>2, DepIsTyped, Goes DEF Steps
  <2>2. dep.previous = 1 /\ ~disturbed => dep.route
    BY <1>1 DEF DeploymentInv, CanGoBack
  <2>3. /\ route' \in {"none", "ours", "foreign"} /\ (worker = 1 /\ ~disturbed' => route' = "ours")
        /\ (dep.previous = 1 /\ ~disturbed' => route' = "ours")
    BY <1>2, <2>2, RolledIsTyped
  <2> QED BY <1>1, <1>2, <2>1, <2>3, RolledIsTyped, RolloutMoves
<1>3. CASE Reports("restoreWorker") /\ route' \in {route, "ours"}
  <2>1. /\ DepTypeOK' /\ dep'.pc = "restoreWorker" /\ dep'.release = dep.release /\ dep'.previous = dep.previous
        /\ dep'.route = dep.route /\ dep'.uploaded = dep.uploaded /\ disturbed' = TRUE
    BY <1>1, <1>3, DepIsTyped, ReportsIs DEF Steps
  <2> QED BY <1>1, <1>3, <2>1, RolledIsTyped, RolloutMoves
<1> QED BY <1>2, <1>3 DEF RestoreRoute

LEMMA RestoreWorkerKeeps == ASSUME DeploymentInv, RestoreWorker PROVE DeploymentInv'
<1>1. /\ dep.pc = "restoreWorker" /\ Rolling /\ (Trouble \/ UNCHANGED troubles)
      /\ UNCHANGED <<schema, rows, route, assets, waf, legacy, database, app, recorded, begun>>
  BY DEF RestoreWorker, Doing, Rolling, edgeVars, ownedVars
<1>2. worker' \in {worker, dep.previous}
  BY DEF RestoreWorker
<1>3. /\ DepTypeOK' /\ dep'.pc = "recovered" /\ dep'.release = dep.release /\ dep'.previous = dep.previous
      /\ dep'.route = dep.route /\ dep'.uploaded = dep.uploaded
  BY <1>1, DepIsTyped, Goes, ReportsIs DEF RestoreWorker, Steps
<1>4. \/ disturbed' = disturbed /\ worker' = IF RestoresWorker THEN dep.previous ELSE worker
      \/ disturbed' = TRUE /\ dep'.reported = TRUE
  BY <1>1, DepIsTyped, ReportsIs DEF RestoreWorker, Steps
<1>5. /\ waf <= dep.previous /\ dep.previous <= schema /\ app # "none"
      /\ (~dep.uploaded => worker = dep.previous)
      /\ (dep.previous = 1 /\ ~disturbed => route = "ours" /\ assets)
      /\ (worker = 1 /\ ~disturbed => route = "ours" /\ assets)
      /\ waf <= worker /\ worker <= schema /\ disturbed \in BOOLEAN
  BY <1>1, RolledIsTyped DEF DeploymentInv, DepOrder, CanGoBack, RolloutOrder, RecoveryKeepsServing, Protected
<1>6. waf <= worker' /\ worker' <= schema /\ worker' \in 0 .. Newest
  BY <1>2, <1>5, DepIsTyped DEF DeploymentTypeOK, DepTypeOK
<1>7. DeploymentTypeOK'
  <2>1. {dep'.route, dep'.uploaded, dep'.reported, disturbed'} \subseteq BOOLEAN
    BY <1>3, <1>4, <1>5 DEF DepTypeOK
  <2> QED BY <1>1, <1>6, <2>1, DepIsTyped, TroublesAreBounded DEF DeploymentTypeOK
<1>8. DepOrder' /\ CanGoBack'
  BY <1>3 DEF DepOrder, CanGoBack, Preparing, Rolling, Syncing
<1>9. RolloutOrder'
  BY <1>1, <1>5, <1>6, <1>7 DEF DeploymentInv, RolloutOrder, Protected
<1>10. RecoveryKeepsServing'
  <2>1. dep.previous # 0 /\ ~dep'.reported => worker' = dep.previous
    BY <1>4, <1>5 DEF RestoresWorker
  <2>2. worker' = 1 /\ ~disturbed' => route = "ours" /\ assets
    BY <1>2, <1>4, <1>5
  <2> QED BY <1>1, <1>3, <2>1, <2>2 DEF RecoveryKeepsServing
<1> QED BY <1>3, <1>8, <1>9, <1>10 DEF DeploymentInv

-----------------------------------------------------------------------------
(* The Edge contract.                                                      *)

\* A step after acceptance: the contract in force stays or becomes the new
\* release's, and the old rule is retired under it.
LEMMA SyncMoves ==
    ASSUME DeploymentInv, Syncing, NEW pc \in {"legacy", "confirm", "retire", "unsynced", "done"}, Goto(pc),
           Trouble \/ UNCHANGED troubles, UNCHANGED <<gatewayVars, route, ownedVars, historyOfZone>>,
           assets' \in BOOLEAN, waf' \in {waf, dep.release},
           legacy' \in {"none", "there", "retired"}, legacy' = "retired" => legacy = "retired" \/ waf = dep.release
    PROVE  DeploymentInv'
<1>1. UNCHANGED <<worker, schema, rows, route, database, app, recorded, begun, disturbed>>
  BY DEF gatewayVars, ownedVars, historyOfZone
<1>2. dep.pc # "none"
  BY DEF Syncing
<1>3. /\ DepTypeOK' /\ dep'.pc = pc /\ dep'.release = dep.release
      /\ dep'.route = dep.route /\ dep'.uploaded = dep.uploaded /\ dep'.reported = dep.reported
  BY <1>2, DepIsTyped, Goes DEF Steps
<1>4. worker = dep.release /\ dep.release \in 2 .. Newest /\ app # "none" /\ waf <= worker
  BY <1>2, RolledIsTyped DEF DeploymentInv, DepOrder, Protected, RolloutOrder
<1>5. waf' \in 0 .. Newest /\ waf' <= worker /\ (waf = dep.release => waf' # 0) /\ (waf # 0 => waf' # 0) /\ worker # 1
  BY <1>4, DepIsTyped DEF DeploymentTypeOK
<1>6. DeploymentTypeOK'
  BY <1>1, <1>3, <1>5, DepIsTyped, TroublesAreBounded DEF DeploymentTypeOK
<1>7. DepOrder' /\ CanGoBack'
  BY <1>1, <1>3, <1>4 DEF DepOrder, CanGoBack, Preparing, Rolling, Syncing, Protected
<1>8. RolloutOrder'
  BY <1>1, <1>5, <1>6 DEF DeploymentInv, RolloutOrder, Protected
<1>9. RecoveryKeepsServing'
  BY <1>1, <1>3, <1>5 DEF RecoveryKeepsServing
<1> QED BY <1>3, <1>7, <1>8, <1>9 DEF DeploymentInv

LEMMA SyncKeeps ==
    ASSUME DeploymentInv, SyncWaf \/ RetireLegacy \/ Confirm \/ RetireAssets
    PROVE  DeploymentInv'
<1>0. Syncing /\ assets \in BOOLEAN /\ legacy \in {"none", "there", "retired"}
  BY DepIsTyped DEF SyncWaf, RetireLegacy, Confirm, RetireAssets, Syncing, Doing, DeploymentTypeOK
<1>1. PICK pc \in {"legacy", "confirm", "retire", "unsynced", "done"} : Goto(pc)
  BY DEF SyncWaf, RetireLegacy, Confirm, RetireAssets, Call, Check, WhenUnsynced
<1>2. Trouble \/ UNCHANGED troubles
  BY DEF SyncWaf, RetireLegacy, Confirm, RetireAssets, Call, Check
<1>3. UNCHANGED <<gatewayVars, route, ownedVars, historyOfZone>>
  BY DEF SyncWaf, RetireLegacy, Confirm, RetireAssets, edgeVars
<1>4. /\ assets' \in BOOLEAN /\ waf' \in {waf, dep.release} /\ legacy' \in {"none", "there", "retired"}
      /\ legacy' = "retired" => legacy = "retired" \/ waf = dep.release
  BY <1>0 DEF SyncWaf, RetireLegacy, Confirm, RetireAssets, Call, edgeVars
<1> QED BY <1>0, <1>1, <1>2, <1>3, <1>4, SyncMoves

-----------------------------------------------------------------------------
(* Everybody else.                                                         *)

\* A deployment that is killed has promised nothing about itself.
LEMMA KillKeeps == ASSUME DeploymentInv, Kill PROVE DeploymentInv'
<1>1. /\ dep.pc # "none" /\ Trouble /\ Goto("killed")
      /\ UNCHANGED <<worker, schema, rows, route, assets, waf, legacy, database, app, recorded, begun, disturbed>>
  BY DEF Kill, Resting, gatewayVars, edgeVars, ownedVars, historyOfZone
<1>2. /\ DepTypeOK' /\ dep'.pc = "killed"
      /\ dep'.route = dep.route /\ dep'.uploaded = dep.uploaded /\ dep'.reported = dep.reported
  BY <1>1, DepIsTyped, Goes DEF Steps
<1>3. DeploymentTypeOK'
  BY <1>1, <1>2, DepIsTyped, TroublesAreBounded DEF DeploymentTypeOK
<1>4. DepOrder' /\ CanGoBack'
  BY <1>2 DEF DepOrder, CanGoBack, Preparing, Rolling, Syncing
<1> QED BY <1>1, <1>2, <1>3, <1>4 DEF DeploymentInv, RolloutOrder, RecoveryKeepsServing, Protected

\* The others change the rows, the record, the route or the Application's policy.
LEMMA OthersKeep ==
    ASSUME DeploymentInv, UNCHANGED <<worker, schema, assets, waf, legacy, database, dep, begun>>,
           Trouble \/ UNCHANGED troubles, rows' \in 1 .. MaxRows + 1, recorded' \in [database : BOOLEAN, app : BOOLEAN],
           route' \in {"none", "ours", "foreign"}, app' \in {"none", "open", "closed", "shared"},
           app # "none" => app' # "none",
           \/ disturbed' = TRUE
           \/ UNCHANGED <<route, disturbed>>
    PROVE  DeploymentInv'
<1>1. DepTypeOK'
  BY DepIsTyped DEF DepTypeOK
<1>2. disturbed' \in BOOLEAN /\ (disturbed => disturbed')
  <2>1. disturbed \in BOOLEAN
    BY DepIsTyped DEF DeploymentTypeOK
  <2>2. CASE disturbed' = TRUE
    BY <2>2
  <2>3. CASE UNCHANGED <<route, disturbed>>
    BY <2>1, <2>3
  <2> QED BY <2>2, <2>3
<1>3. DeploymentTypeOK'
  BY <1>2, DepIsTyped, TroublesAreBounded DEF DeploymentTypeOK
<1>4. DepOrder' /\ CanGoBack'
  BY <1>2 DEF DeploymentInv, DepOrder, CanGoBack, Preparing, Rolling, Syncing, Protected
<1> QED BY <1>1, <1>2, <1>3, <1>4 DEF DeploymentInv, RolloutOrder, RecoveryKeepsServing, Protected

LEMMA DevicesChangeKeeps == ASSUME DeploymentInv, DevicesChange PROVE DeploymentInv'
<1>1. rows' \in 1 .. MaxRows + 1
  BY DepIsTyped, DeploymentNumbers DEF DevicesChange, DeploymentTypeOK
<1> QED BY <1>1, DepIsTyped, OthersKeep DEF DevicesChange, DeploymentTypeOK, edgeVars, ownedVars, historyOfZone

LEMMA LoseRecordKeeps == ASSUME DeploymentInv, LoseRecord PROVE DeploymentInv'
<1>1. recorded' \in [database : BOOLEAN, app : BOOLEAN]
  BY DEF LoseRecord
<1> QED BY <1>1, DepIsTyped, OthersKeep DEF LoseRecord, DeploymentTypeOK, gatewayVars, edgeVars, historyOfZone

LEMMA RouteChangesKeeps == ASSUME DeploymentInv, NEW to \in {"none", "foreign"}, RouteChanges(to) PROVE DeploymentInv'
BY DepIsTyped, OthersKeep DEF RouteChanges, DeploymentTypeOK, gatewayVars, ownedVars

LEMMA PolicyAddedKeeps == ASSUME DeploymentInv, PolicyAdded PROVE DeploymentInv'
BY DepIsTyped, OthersKeep DEF PolicyAdded, DeploymentTypeOK, gatewayVars, edgeVars, historyOfZone

-----------------------------------------------------------------------------
(* The deployment's theorems.                                              *)

LEMMA DeploymentStart == DeploymentInit => DeploymentInv
<1> SUFFICES ASSUME DeploymentInit PROVE DeploymentInv
  OBVIOUS
<1>1. dep.pc = "none" /\ dep.route = FALSE /\ dep.uploaded = FALSE /\ dep.reported = FALSE
  BY DEF DeploymentInit, NoDeployment
<1>2. DepTypeOK
  BY DeploymentNumbers DEF DeploymentInit, NoDeployment, DepTypeOK, Steps
<1>3. PICK old \in {0, 1} :
         /\ worker = old /\ schema = old /\ database = old
         /\ route = IF old = 1 THEN "ours" ELSE "none"
         /\ assets = (old = 1) /\ legacy = IF old = 1 THEN "there" ELSE "none"
         /\ app = IF old = 1 THEN "closed" ELSE "none"
         /\ recorded = [database |-> old = 1, app |-> old = 1]
  BY DEF DeploymentInit
<1>4. DeploymentTypeOK
  <2>1. {worker, schema, waf} \subseteq 0 .. Newest /\ rows \in 1 .. MaxRows + 1 /\ database \in Nat
    BY <1>3, DeploymentNumbers DEF DeploymentInit
  <2>2. recorded \in [database : BOOLEAN, app : BOOLEAN] /\ assets \in BOOLEAN
    BY <1>3
  <2>3. disturbed = FALSE /\ begun = 0 /\ troubles = 0
    BY DEF DeploymentInit
  <2>4. {assets, disturbed, dep.route, dep.uploaded, dep.reported} \subseteq BOOLEAN
    BY <1>1, <2>2, <2>3
  <2>5. begun \in 0 .. MaxDeployments /\ troubles \in 0 .. MaxTroubles
    BY <2>3, DeploymentNumbers
  <2>6. /\ route \in {"none", "ours", "foreign"} /\ app \in {"none", "open", "closed", "shared"}
        /\ legacy \in {"none", "there", "retired"}
    BY <1>3
  <2> QED BY <2>1, <2>2, <2>4, <2>5, <2>6 DEF DeploymentTypeOK
<1>5. DepOrder /\ CanGoBack
  BY <1>1 DEF DepOrder, CanGoBack, Preparing, Rolling, Syncing
<1>6. RolloutOrder /\ RecoveryKeepsServing
  <2>1. waf = 0
    BY DEF DeploymentInit
  <2>2. CASE worker = 0
    BY <1>1, <1>3, <1>4, <2>1, <2>2 DEF RolloutOrder, RecoveryKeepsServing
  <2>3. CASE worker = 1
    <3>1. route = "ours" /\ assets = TRUE /\ legacy = "there" /\ app = "closed" /\ schema = 1 /\ database = 1
      BY <1>3, <2>3
    <3> QED BY <1>1, <1>4, <2>1, <2>3, <3>1 DEF RolloutOrder, RecoveryKeepsServing, Protected
  <2> QED BY <1>3, <2>2, <2>3
<1> QED BY <1>2, <1>5, <1>6 DEF DeploymentInv

LEMMA DeploymentStep == DeploymentInv /\ [DeploymentNext]_deploymentVars => DeploymentInv'
<1> SUFFICES ASSUME DeploymentInv, [DeploymentNext]_deploymentVars PROVE DeploymentInv'
  OBVIOUS
<1>1. CASE UNCHANGED deploymentVars
  BY <1>1, DepIsTyped, OthersKeep DEF deploymentVars, gatewayVars, edgeVars, ownedVars, historyOfZone, DeploymentTypeOK
<1> QED BY <1>1, DeployKeeps, PreparationKeeps, SnapshotKeeps, ChecksKeep, MigrateKeeps, UploadKeeps,
           DropRouteKeeps, RestoreRouteKeeps, RestoreWorkerKeeps, SyncKeeps, KillKeeps, LoseRecordKeeps,
           DevicesChangeKeeps, PolicyAddedKeeps, RouteChangesKeeps DEF DeploymentNext

\* The inductive invariant of the deployment: what each phase has made sure of,
\* and that the release before can be put back until the new one is accepted.
THEOREM DeploymentInvariant == DeploymentSpec => []DeploymentInv
<1> QED BY DeploymentStart, DeploymentStep, PTL DEF DeploymentSpec

\* Whatever fails, is lost or killed: the database is never behind the Worker nor
\* the Worker behind the Edge contract, /admin is never served unprotected, no
\* second database is created, no rule is retired before its replacement is in
\* force; and a failed deployment puts its predecessor back or says that it did not.
THEOREM RolloutHoldsAlways == DeploymentSpec => []RolloutHolds
<1>1. DeploymentInv => RolloutHolds
  BY DEF DeploymentInv, RolloutHolds
<1> QED BY <1>1, DeploymentInvariant, PTL

=============================================================================
