-------------------------- MODULE AdminPageProofs ---------------------------
(***************************************************************************)
(* An administrator's tab beside the store, for any number of keys and     *)
(* devices, any timeouts, retries and reloads: all it does to the table is *)
(* a statement of the store, the only credential of a key is not lost, and *)
(* nothing is reported that was not done.                                  *)
(*                                                                         *)
(* A request outlives the page that sent it.  The argument is that of the  *)
(* key being created: while a first request is out no other one of its key *)
(* is, so that a refused name proves that the key will not come to exist.  *)
(***************************************************************************)
EXTENDS AdminPage, KeyStoreProofs

\* What the page holds in memory is what its tab's storage holds, and a credential there
\* is one this tab drew.
TabOK ==
    /\ page.pc = "none" => mine = {}
    /\ tab.key = page.pending.key /\ (tab.confirmed <=> page.pending.confirmed)
    /\ tab.key # None \/ tab.confirmed => tab.key \in mine

\* While a request is out its key is pending; a first request is the only one of its key.
PostOK ==
    /\ post.stage = "none" <=> page.busy = "no"
    /\ post.stage # "none" => post.key \in mine /\ tab.key = post.key /\ ~tab.confirmed
    /\ post.stage = "created" => Holds(post.key)
    /\ page.busy = "create" => post.key \notin late /\ (post.stage = "conflict" => ~Exists(post.key))

\* Reported, or about to be, is what is on record.
ActionOK ==
    /\ action.stage # "none" => action.key \in Keys
    /\ action.stage = "cleanup" => action.op \in {"revoke", "reset"}
    /\ action.stage \in {"cleanup", "done", "flash"} /\ action.op \in DOMAIN Recorded =>
           <<action.key, Recorded[action.op]>> \in events

AdminInv == StoreInv /\ CredentialKept /\ TabOK /\ PostOK /\ ActionOK

Credentials == [key : Keys \cup {None}, confirmed : BOOLEAN]
TabPages == [pc : {"none", "open", "closed"}, busy : {"no", "create", "retry"}, pending : Credentials]
Posts == [key : Keys \cup {None}, stage : {"none", "sent", "written", "created", "conflict", "deleted"}]
Actions == [key : Keys \cup {None}, binding : Bindings \cup {None},
            op : {"none", "reset", "revoke", "delete", "purge"},
            stage : {"none", "asked", "sent", "cleanup", "done", "refused", "flash"}]

LEMMA AdminTypes ==
    ASSUME AdminTypeOK
    PROVE  /\ label \in [Keys -> Labels] /\ mine \subseteq Keys /\ late \subseteq mine
           /\ saved \subseteq mine /\ dropped \subseteq mine /\ tab \in Credentials /\ page \in TabPages
           /\ page.pending \in Credentials /\ post \in Posts /\ action \in Actions
<1>1. tab \in Credentials /\ page \in TabPages /\ post \in Posts /\ action \in Actions
  BY DEF AdminTypeOK, Credentials, TabPages, Posts, Actions
<1>2. page.pending \in Credentials
  BY <1>1 DEF TabPages
<1> QED BY <1>1, <1>2 DEF AdminTypeOK

LEMMA AdminTypesAgain ==
    ASSUME label' \in [Keys -> Labels], mine' \subseteq Keys, late' \subseteq mine',
           saved' \subseteq mine', dropped' \subseteq mine', tab' \in Credentials, page' \in TabPages,
           post' \in Posts, action' \in Actions
    PROVE  AdminTypeOK'
BY DEF AdminTypeOK, Credentials, TabPages, Posts, Actions

LEMMA AdminConstants ==
    /\ NoPending \in Credentials /\ NoPending.key = None /\ ~NoPending.confirmed
    /\ NoPost \in Posts /\ NoPost.stage = "none"
    /\ NoAction \in Actions /\ NoAction.stage = "none"
    /\ \A pc \in {"none", "open", "closed"} :
           /\ Page(pc) \in TabPages /\ Page(pc).pc = pc /\ Page(pc).busy = "no"
           /\ Page(pc).pending = NoPending
<1>1. NoPending \in Credentials /\ NoPending.key = None /\ ~NoPending.confirmed
  BY DEF NoPending, Credentials
<1>2. NoPost \in Posts /\ NoPost.stage = "none" /\ NoAction \in Actions /\ NoAction.stage = "none"
  BY DEF NoPost, Posts, NoAction, Actions
<1> QED BY <1>1, <1>2 DEF Page, TabPages

-----------------------------------------------------------------------------
(* What the page's requests, and others, do to the table.                     *)

LEMMA AdminStoreStep ==
    ASSUME AdminInv, [AdminNext]_adminVars
    PROVE  [StoreNext]_storeVars
<1>0. action \in Actions /\ post \in Posts /\ mine \subseteq Keys /\ late \subseteq mine /\ rows \in [Keys -> Row]
  BY AdminTypes DEF AdminInv, CredentialKept, StoreInv, StoreTypeOK
<1>1. ASSUME NEW k \in Keys, IssueOrIgnore(k) PROVE [StoreNext]_storeVars
  BY <1>1 DEF IssueOrIgnore, StoreNext
<1>2. CASE IssueWrite
  <2>1. post.key \in Keys
    BY <1>0, <1>2 DEF IssueWrite, AdminInv, PostOK
  <2> QED BY <2>1, <1>1, <1>2 DEF IssueWrite
<1>3. ASSUME NEW k \in Keys, LateIssue(k) PROVE [StoreNext]_storeVars
  BY <1>1, <1>3 DEF LateIssue
<1>4. CASE Others
  <2>1. PICK k \in Keys :
          \/ k \notin mine /\ LabelFree(k) /\ Issue(k)
          \/ DeleteRevoked(k)
          \/ \E d \in Devices, b \in Bindings : (\A c \in Bindings : minted[c] = None) /\ Bind(k, d, b)
          \/ \E b \in Bindings : Activate(k, b)
          \/ \E op \in {"revoke", "reset"} : Disable(k, op, None)
          \/ FinishReset(k, rows[k].binding) \/ FinishRevoke(k, rows[k].binding)
    BY <1>4 DEF Others
  <2>2. rows[k].binding \in Bindings \cup {None} /\ None \in Bindings \cup {None}
    BY <1>0 DEF Row
  <2> QED BY <2>1, <2>2, Zenon DEF StoreNext
<1>5. CASE ServeDeny \/ ServeCleanup \/ ServeDelete \/ ServePurge
  <2>1. action.stage \in {"sent", "cleanup"}
    BY <1>5 DEF ServeDeny, ServeCleanup, ServeDelete, ServePurge
  <2>2. action.key \in Keys /\ action.binding \in Bindings \cup {None}
    BY <1>0, <2>1 DEF AdminInv, ActionOK, Actions
  <2>3. CASE ServeDeny
    <3>1. \/ action.op \in {"revoke", "reset"} /\ Disable(action.key, action.op, None)
          \/ UNCHANGED storeVars
      BY <2>3 DEF ServeDeny
    <3> QED BY <2>2, <3>1 DEF StoreNext
  <2>4. CASE ServeCleanup
    <3>1. \/ FinishRevoke(action.key, action.binding) \/ FinishReset(action.key, action.binding)
          \/ UNCHANGED storeVars
      BY <2>4 DEF ServeCleanup
    <3> QED BY <2>2, <3>1 DEF StoreNext
  <2>5. CASE ServeDelete
    <3>1. DeleteRevoked(action.key) \/ UNCHANGED storeVars
      BY <2>5 DEF ServeDelete
    <3> QED BY <2>2, <3>1 DEF StoreNext
  <2>6. CASE ServePurge
    BY <2>6 DEF ServePurge, StoreNext
  <2> QED BY <1>5, <2>3, <2>4, <2>5, <2>6
<1>6. ASSUME NEW k \in Keys, Submit(k) PROVE UNCHANGED storeVars
  BY <1>6 DEF Submit
<1>7. ASSUME NEW k \in Keys, NEW op \in {"reset", "revoke", "delete", "purge"}, Ask(k, op) PROVE UNCHANGED storeVars
  BY <1>7 DEF Ask
<1>8. CASE Retry \/ IssueRead \/ PageAnswer \/ Unanswered \/ Dismiss \/ Reload \/ CloseTab
  BY <1>8 DEF Retry, IssueRead, PageAnswer, Unanswered, Dismiss, Reload, CloseTab, Leave
<1>9. CASE Confirm \/ ActionAnswer \/ ActionUnanswered \/ CloseDialog
  BY <1>9 DEF Confirm, ActionAnswer, ActionUnanswered, CloseDialog
<1>10. CASE Store
  BY <1>10 DEF Store
<1>11. CASE UNCHANGED adminVars
  BY <1>11 DEF adminVars
<1> QED BY <1>2, <1>3, <1>4, <1>5, <1>6, <1>7, <1>8, <1>9, <1>10, <1>11 DEF AdminNext

\* Nothing is taken off the record.
LEMMA TrailGrows ==
    ASSUME StoreInv, [StoreNext]_storeVars
    PROVE  events \subseteq events'
<1>1. ASSUME NEW k \in Keys, StoreStep(k) PROVE events \subseteq events'
  BY <1>1, StepMoves DEF Moves, MovesTrail
<1>2. ASSUME NEW K \in SUBSET {k \in Keys : CanDelete(k)}, Purge(K) PROVE events \subseteq events'
  BY <1>2 DEF Purge
<1>3. CASE Tick \/ UNCHANGED storeVars
  BY <1>3 DEF Tick, storeVars
<1> QED BY <1>1, <1>2, <1>3, StoreCases

\* Only an issue makes a key exist.
LEMMA NothingIssued ==
    ASSUME StoreInv, NEW k \in Keys,
           \/ DeleteRevoked(k) \/ DeleteAllRevoked
           \/ \E d \in Devices, b \in Bindings : Bind(k, d, b)
           \/ \E b \in Bindings : Activate(k, b)
           \/ \E op \in {"revoke", "reset"} : Disable(k, op, None)
           \/ \E b \in Bindings \cup {None} : FinishReset(k, b) \/ FinishRevoke(k, b)
    PROVE  \A j \in Keys : Exists(j)' => Exists(j)
<1>1. ASSUME NEW K, Purge(K) PROVE \A j \in Keys : Exists(j)' => Exists(j)
  BY <1>1 DEF Purge, Exists, NoRow, BlankRow
<1>2. CASE DeleteRevoked(k) \/ DeleteAllRevoked
  BY <1>1, <1>2 DEF DeleteRevoked, DeleteAllRevoked
<1>3. ASSUME NEW r, rows' = [rows EXCEPT ![k] = r], Exists(k) PROVE \A j \in Keys : Exists(j)' => Exists(j)
  BY <1>3 DEF Exists, StoreInv, StoreTypeOK
<1>4. ASSUME NEW d \in Devices, NEW b \in Bindings, Bind(k, d, b) PROVE \A j \in Keys : Exists(j)' => Exists(j)
  BY <1>3, <1>4 DEF Bind, CanBind, Exists
<1>5. ASSUME NEW b \in Bindings, Activate(k, b) PROVE \A j \in Keys : Exists(j)' => Exists(j)
  BY <1>3, <1>5 DEF Activate, CanActivate, Exists, Enabled
<1>6. ASSUME NEW op \in {"revoke", "reset"}, Disable(k, op, None) PROVE \A j \in Keys : Exists(j)' => Exists(j)
  BY <1>3, <1>6 DEF Disable, CanDisable
<1>7. ASSUME NEW b \in Bindings \cup {None}, FinishReset(k, b) \/ FinishRevoke(k, b)
      PROVE  \A j \in Keys : Exists(j)' => Exists(j)
  BY <1>3, <1>7 DEF FinishReset, CanFinishReset, FinishRevoke, CanFinishRevoke, Exists
<1> QED BY <1>2, <1>4, <1>5, <1>6, <1>7

\* A step of the store that issues none of the tab's keys and leaves the tab alone.
LEMMA TabUntouched ==
    ASSUME AdminInv, StoreInv', events \subseteq events', \A k \in mine : Exists(k)' => Exists(k),
           UNCHANGED <<label, tabVars>>, action' \in Actions, ActionOK'
    PROVE  AdminInv'
<1>0. UNCHANGED <<label, mine, page, tab, post, late, saved, dropped>>
  BY DEF tabVars
<1>1. AdminTypeOK'
  BY <1>0, AdminTypes, AdminTypesAgain DEF AdminInv, CredentialKept
<1>2. CredentialKept'
  <2>1. /\ \A k \in mine : \/ Exists(k) \/ k \in late \/ (post.key = k /\ post.stage \in {"sent", "written"})
                           => k \in {tab.key} \cup saved \cup dropped
        /\ \A k \in saved \cup (IF tab.confirmed THEN {tab.key} ELSE {}) : Holds(k)
    BY DEF AdminInv, CredentialKept
  <2> QED BY <1>0, <1>1, <2>1 DEF CredentialKept, Holds
<1>3. TabOK' /\ PostOK'
  BY <1>0 DEF AdminInv, TabOK, PostOK, Holds
<1> QED BY <1>1, <1>2, <1>3 DEF AdminInv

LEMMA OthersKeep == ASSUME AdminInv, (page.pc # "none" /\ Others) \/ Store PROVE AdminInv'
<1>0. UNCHANGED <<label, tabVars, action>> /\ mine \subseteq Keys /\ action \in Actions /\ rows \in [Keys -> Row]
  BY AdminTypes DEF Others, Store, AdminInv, CredentialKept, StoreInv, StoreTypeOK
<1>1. [StoreNext]_storeVars
  BY AdminStoreStep DEF AdminNext, Store
<1>2. StoreInv' /\ events \subseteq events'
  BY <1>1, StoreInvStep, TrailGrows DEF AdminInv
<1>3. \A k \in mine : Exists(k)' => Exists(k)
  <2>1. CASE Others
    <3>1. PICK k \in Keys :
            \/ k \notin mine /\ LabelFree(k) /\ Issue(k)
            \/ DeleteRevoked(k)
            \/ \E d \in Devices, b \in Bindings : (\A c \in Bindings : minted[c] = None) /\ Bind(k, d, b)
            \/ \E b \in Bindings : Activate(k, b)
            \/ \E op \in {"revoke", "reset"} : Disable(k, op, None)
            \/ FinishReset(k, rows[k].binding) \/ FinishRevoke(k, rows[k].binding)
      BY <2>1 DEF Others
    <3>2. CASE k \notin mine /\ Issue(k)
      BY <1>0, <3>2 DEF Issue, Exists
    <3>3. CASE \/ DeleteRevoked(k) \/ DeleteAllRevoked
               \/ \E d \in Devices, b \in Bindings : Bind(k, d, b)
               \/ \E b \in Bindings : Activate(k, b)
               \/ \E op \in {"revoke", "reset"} : Disable(k, op, None)
               \/ \E b \in Bindings \cup {None} : FinishReset(k, b) \/ FinishRevoke(k, b)
      <4>1. StoreInv
        BY DEF AdminInv
      <4>2. \A j \in Keys : Exists(j)' => Exists(j)
        BY <3>3, <4>1, NothingIssued
      <4> QED BY <1>0, <4>2
    <3>4. rows[k].binding \in Bindings \cup {None}
      BY <1>0 DEF Row
    <3> QED BY <3>1, <3>2, <3>3, <3>4
  <2>2. CASE Store
    BY <2>2 DEF Store, AdminInv, TabOK
  <2> QED BY <2>1, <2>2
<1>4. ActionOK'
  BY <1>0, <1>2 DEF AdminInv, ActionOK
<1> QED BY <1>0, <1>2, <1>3, <1>4, TabUntouched

-----------------------------------------------------------------------------
(* The list's buttons.                                                        *)

\* A dialog goes on; what it will report is on record.
LEMMA ActionGoes ==
    ASSUME NEW stage \in {"asked", "sent", "cleanup", "done", "refused", "flash"}, action \in Actions, ActionStep(stage)
    PROVE  action' \in Actions /\ action'.stage = stage /\ action'.key = action.key /\ action'.op = action.op
           /\ action'.binding = action.binding
<1>1. PICK a : a = [action EXCEPT !.stage = stage]
  OBVIOUS
<1>2. a \in Actions /\ a.stage = stage /\ a.key = action.key /\ a.op = action.op /\ a.binding = action.binding
  BY <1>1 DEF Actions
<1> QED BY <1>1, <1>2 DEF ActionStep

LEMMA DialogKeeps ==
    ASSUME AdminInv, \/ \E k \in Keys, op \in {"reset", "revoke", "delete", "purge"} : Ask(k, op)
                     \/ Confirm \/ ActionAnswer \/ ActionUnanswered \/ CloseDialog
    PROVE  AdminInv'
<1>0. UNCHANGED <<storeVars, label, tabVars>>
  BY DEF Ask, Confirm, ActionAnswer, ActionUnanswered, CloseDialog
<1>1. [StoreNext]_storeVars /\ UNCHANGED <<rows, events>> /\ action \in Actions
  BY <1>0, AdminTypes DEF storeVars, AdminInv, CredentialKept
<1>2. StoreInv' /\ events \subseteq events'
  BY <1>1, StoreInvStep DEF AdminInv
<1>3. \A k \in mine : Exists(k)' => Exists(k)
  BY <1>1 DEF Exists
<1>4. action' \in Actions /\ ActionOK'
  <2>1. ASSUME NEW k \in Keys, NEW op \in {"reset", "revoke", "delete", "purge"}, Ask(k, op)
        PROVE  action' \in Actions /\ ActionOK'
    <3>1. PICK a : a = [key |-> k, op |-> op, binding |-> None, stage |-> "asked"]
      OBVIOUS
    <3>2. action' = a /\ a \in Actions /\ a.stage = "asked" /\ a.key = k
      BY <2>1, <3>1 DEF Ask, Actions
    <3> QED BY <3>2 DEF ActionOK
  <2>2. CASE Confirm \/ ActionUnanswered
    BY <1>1, <2>2, ActionGoes DEF Confirm, ActionUnanswered, AdminInv, ActionOK
  <2>3. CASE ActionAnswer
    <3>1. CASE action.stage = "done"
      BY <1>1, <2>3, <3>1, ActionGoes DEF ActionAnswer, Succeeds, AdminInv, ActionOK
    <3>2. CASE action.stage # "done"
      BY <1>1, <2>3, <3>2, ActionGoes DEF ActionAnswer, Succeeds, AdminInv, ActionOK
    <3> QED BY <3>1, <3>2
  <2>4. CASE CloseDialog
    BY <2>4, AdminConstants DEF CloseDialog, ActionOK
  <2> QED BY <2>1, <2>2, <2>3, <2>4
<1> QED BY <1>0, <1>2, <1>3, <1>4, TabUntouched

LEMMA ServeKeeps == ASSUME AdminInv, page.pc # "none", ServeDeny \/ ServeCleanup \/ ServeDelete \/ ServePurge PROVE AdminInv'
<1>0. UNCHANGED <<label, tabVars>> /\ mine \subseteq Keys /\ action \in Actions /\ rows \in [Keys -> Row]
  BY AdminTypes DEF ServeDeny, ServeCleanup, ServeDelete, ServePurge, AdminInv, CredentialKept, StoreInv, StoreTypeOK
<1>1. [StoreNext]_storeVars
  BY AdminStoreStep DEF AdminNext
<1>2. StoreInv' /\ events \subseteq events' /\ StoreInv
  BY <1>1, StoreInvStep, TrailGrows DEF AdminInv
<1>3. action.stage \in {"sent", "cleanup"} /\ action.key \in Keys /\ action.binding \in Bindings \cup {None}
  <2>1. action.stage \in {"sent", "cleanup"}
    BY DEF ServeDeny, ServeCleanup, ServeDelete, ServePurge
  <2> QED BY <1>0, <2>1 DEF AdminInv, ActionOK, Actions
<1>4. ASSUME UNCHANGED storeVars PROVE \A k \in mine : Exists(k)' => Exists(k)
  BY <1>4 DEF Exists, storeVars
<1>5. CASE ServeDeny
  <2>1. CASE CanDisable(action.key, action.op, None)
    <3>1. /\ Disable(action.key, action.op, None) /\ action.op \in {"revoke", "reset"}
          /\ action' = [action EXCEPT !.stage = "cleanup", !.binding = rows[action.key].binding]
      BY <1>5, <2>1 DEF ServeDeny
    <3>2. \A j \in Keys : Exists(j)' => Exists(j)
      BY <1>2, <1>3, <3>1, NothingIssued
    <3>3. PICK a : a = [action EXCEPT !.stage = "cleanup", !.binding = rows[action.key].binding]
      OBVIOUS
    <3>4. rows[action.key].binding \in Bindings \cup {None}
      BY <1>0, <1>3 DEF Row
    <3>5. action' = a /\ a \in Actions /\ a.stage = "cleanup" /\ a.key = action.key /\ a.op = action.op
      BY <1>0, <3>1, <3>3, <3>4 DEF Actions
    <3>6. ActionOK'
      <4>1. <<action.key, IF action.op = "revoke" THEN "revoked" ELSE "reset">> \in events'
        BY <3>1 DEF Disable
      <4>2. <<action.key, Recorded[action.op]>> \in events'
        BY <3>1, <4>1 DEF Recorded
      <4> QED BY <1>3, <3>1, <3>5, <4>2 DEF ActionOK
    <3> QED BY <1>0, <1>2, <3>2, <3>5, <3>6, TabUntouched
  <2>2. CASE ~CanDisable(action.key, action.op, None)
    <3>1. ActionStep("refused") /\ UNCHANGED storeVars
      BY <1>5, <2>2 DEF ServeDeny
    <3>2. action' \in Actions /\ ActionOK'
      BY <1>0, <1>3, <3>1, ActionGoes DEF ActionOK
    <3> QED BY <1>0, <1>2, <1>4, <3>1, <3>2, TabUntouched
  <2> QED BY <2>1, <2>2
<1>6. CASE ServeCleanup
  <2>1. \A k \in mine : Exists(k)' => Exists(k)
    <3>1. \/ FinishRevoke(action.key, action.binding) \/ FinishReset(action.key, action.binding)
          \/ UNCHANGED storeVars
      BY <1>6 DEF ServeCleanup
    <3>2. CASE FinishRevoke(action.key, action.binding) \/ FinishReset(action.key, action.binding)
      <4>1. \A j \in Keys : Exists(j)' => Exists(j)
        BY <1>2, <1>3, <3>2, NothingIssued
      <4> QED BY <1>0, <4>1
    <3> QED BY <1>4, <3>1, <3>2
  <2>2. action' \in Actions /\ ActionOK'
    <3>1. action.stage = "cleanup" /\ (ActionStep("done") \/ ActionStep("refused"))
      BY <1>6 DEF ServeCleanup
    <3> QED BY <1>0, <1>2, <1>3, <3>1, ActionGoes DEF AdminInv, ActionOK
  <2> QED BY <1>0, <1>2, <2>1, <2>2, TabUntouched
<1>7. CASE ServeDelete
  <2>1. CASE DeleteRevoked(action.key) /\ ActionStep("done")
    <3>1. \A j \in Keys : Exists(j)' => Exists(j)
      BY <1>2, <1>3, <2>1, NothingIssued
    <3>2. action' \in Actions /\ ActionOK'
      <4>1. <<action.key, "deleted">> \in events' /\ action.op = "delete"
        BY <1>7, <2>1 DEF DeleteRevoked, Purge, ServeDelete
      <4> QED BY <1>0, <1>3, <2>1, <4>1, ActionGoes DEF ActionOK, Recorded
    <3> QED BY <1>0, <1>2, <3>1, <3>2, TabUntouched
  <2>2. CASE ActionStep("refused") /\ UNCHANGED storeVars
    <3>2. action' \in Actions /\ ActionOK'
      BY <1>0, <1>3, <2>2, ActionGoes DEF ActionOK
    <3> QED BY <1>0, <1>2, <1>4, <2>2, <3>2, TabUntouched
  <2> QED BY <1>7, <2>1, <2>2 DEF ServeDelete
<1>8. CASE ServePurge
  <2>1. DeleteAllRevoked /\ ActionStep("done") /\ action.op = "purge"
    BY <1>8 DEF ServePurge
  <2>2. \A j \in Keys : Exists(j)' => Exists(j)
    BY <1>2, <1>3, <2>1, NothingIssued
  <2>3. action' \in Actions /\ ActionOK'
    BY <1>0, <1>3, <2>1, ActionGoes DEF ActionOK, Recorded
  <2> QED BY <1>0, <1>2, <2>2, <2>3, TabUntouched
<1> QED BY <1>5, <1>6, <1>7, <1>8

-----------------------------------------------------------------------------
(* Requests that issue a key.                                                 *)

LEMMA KeptNow ==
    ASSUME AdminInv
    PROVE  /\ \A k \in mine : \/ Exists(k) \/ k \in late \/ (post.key = k /\ post.stage \in {"sent", "written"})
                              => k \in {tab.key} \cup saved \cup dropped
           /\ \A k \in saved : Holds(k)
           /\ tab.confirmed => Holds(tab.key)
           /\ mine \subseteq Keys /\ late \subseteq mine /\ saved \subseteq mine /\ dropped \subseteq mine
           /\ tab \in Credentials /\ page \in TabPages /\ page.pending \in Credentials
           /\ post \in Posts /\ action \in Actions /\ label \in [Keys -> Labels]
<1>1. AdminTypeOK
  BY DEF AdminInv, CredentialKept
<1>2. /\ \A k \in mine : \/ Exists(k) \/ k \in late \/ (post.key = k /\ post.stage \in {"sent", "written"})
                         => k \in {tab.key} \cup saved \cup dropped
      /\ \A k \in saved : Holds(k)
      /\ tab.confirmed => Holds(tab.key)
  BY DEF AdminInv, CredentialKept
<1> QED BY <1>1, <1>2, AdminTypes

\* Issuing a key writes no other row; a key whose request arrives is one kept already.
LEMMA IssueKeeps ==
    ASSUME AdminInv, NEW k \in Keys, IssueOrIgnore(k), k \in {tab.key} \cup saved \cup dropped,
           page.pc # "none", IssueWrite \/ LateIssue(k), IssueWrite => k = post.key
    PROVE  AdminInv'
<1>0. UNCHANGED <<label, mine, page, tab, saved, dropped, action>>
  BY DEF IssueWrite, LateIssue
<1>1. StoreInv' /\ events \subseteq events'
  <2>1. [StoreNext]_storeVars
    BY AdminStoreStep DEF AdminNext
  <2> QED BY <2>1, StoreInvStep, TrailGrows DEF AdminInv
<1>2. \A j \in Keys : j # k => (Exists(j)' <=> Exists(j))
  <2>1. Issue(k) \/ UNCHANGED storeVars
    BY DEF IssueOrIgnore
  <2> QED BY <2>1 DEF Issue, Exists, storeVars, AdminInv, StoreInv, StoreTypeOK
<1>3. post' \in Posts /\ post'.key = post.key /\ (post'.stage # post.stage => post.stage = "sent" /\ post'.stage = "written")
  <2>1. CASE IssueWrite
    <3>1. PICK p : p = [post EXCEPT !.stage = "written"]
      OBVIOUS
    <3>2. p \in Posts /\ p.stage = "written" /\ p.key = post.key
      BY <3>1, KeptNow DEF Posts
    <3> QED BY <2>1, <3>1, <3>2 DEF IssueWrite
  <2>2. CASE LateIssue(k)
    BY <2>2, KeptNow DEF LateIssue
  <2> QED BY <2>1, <2>2
<1>4. late' \subseteq late /\ (LateIssue(k) => k \in late)
  BY DEF IssueWrite, LateIssue
<1>5. AdminTypeOK'
  BY <1>0, <1>3, <1>4, KeptNow, AdminTypesAgain
<1>6. CredentialKept'
  <2>1. \A j \in mine : \/ Exists(j)' \/ j \in late' \/ (post'.key = j /\ post'.stage \in {"sent", "written"})
                        => j \in {tab.key} \cup saved \cup dropped
    <3> SUFFICES ASSUME NEW j \in mine, j # k,
                        Exists(j)' \/ j \in late' \/ (post'.key = j /\ post'.stage \in {"sent", "written"})
                 PROVE  j \in {tab.key} \cup saved \cup dropped
      OBVIOUS
    <3>1. Exists(j) \/ j \in late \/ (post.key = j /\ post.stage \in {"sent", "written"})
      BY <1>2, <1>3, <1>4, KeptNow
    <3> QED BY <3>1, KeptNow
  <2>2. \A j \in saved \cup (IF tab.confirmed THEN {tab.key} ELSE {}) : Holds(j)'
    BY <1>1, KeptNow DEF Holds
  <2> QED BY <1>0, <1>5, <2>1, <2>2 DEF CredentialKept, Holds
<1>7. PostOK'
  <2>1. post.stage # "none" => post.key \in mine /\ tab.key = post.key /\ ~tab.confirmed
    BY DEF AdminInv, PostOK
  <2>2. post'.stage = "created" => Holds(post.key)'
    BY <1>1, <1>3 DEF AdminInv, PostOK, Holds
  <2>3. post'.stage = "none" <=> page.busy = "no"
    BY <1>3 DEF AdminInv, PostOK
  <2>4. page.busy = "create" => post.key \notin late' /\ (post'.stage = "conflict" => ~Exists(post.key)')
    <3> SUFFICES ASSUME page.busy = "create"
                 PROVE  post.key \notin late' /\ (post'.stage = "conflict" => ~Exists(post.key)')
      OBVIOUS
    <3>1. post.key \notin late /\ (post.stage = "conflict" => ~Exists(post.key)) /\ post.stage # "none"
      BY DEF AdminInv, PostOK
    <3>2. post'.stage = "conflict" => post.stage = "conflict" /\ ~IssueWrite
      BY <1>3 DEF IssueWrite
    <3>3. post.key \in Keys
      BY <2>1, <3>1, KeptNow
    <3>4. ASSUME post'.stage = "conflict" PROVE ~Exists(post.key)'
      <4>1. k \in late
        BY <1>4, <3>2, <3>4
      <4> QED BY <1>2, <1>3, <3>1, <3>2, <3>3, <3>4, <4>1 DEF Exists
    <3> QED BY <1>4, <3>1, <3>4
  <2>5. post'.stage # "none" => post.stage # "none"
    BY <1>3
  <2> QED BY <1>0, <1>3, <2>1, <2>2, <2>3, <2>4, <2>5 DEF PostOK, Holds, Exists
<1>8. TabOK' /\ ActionOK'
  BY <1>0, <1>1 DEF AdminInv, TabOK, ActionOK
<1> QED BY <1>1, <1>6, <1>7, <1>8 DEF AdminInv

LEMMA IssuesKeep == ASSUME AdminInv, page.pc # "none", IssueWrite \/ \E k \in Keys : LateIssue(k) PROVE AdminInv'
<1>1. CASE IssueWrite
  <2>1. post.stage = "sent" /\ IssueOrIgnore(post.key) /\ post.key \in mine
    BY <1>1 DEF IssueWrite, AdminInv, PostOK
  <2>2. post.key \in Keys /\ post.key \in {tab.key} \cup saved \cup dropped
    BY <2>1, KeptNow
  <2> QED BY <1>1, <2>1, <2>2, IssueKeeps
<1>2. ASSUME NEW k \in Keys, LateIssue(k) PROVE AdminInv'
  <2>1. k \in late /\ IssueOrIgnore(k) /\ k \in mine
    BY <1>2, KeptNow DEF LateIssue
  <2>2. k \in {tab.key} \cup saved \cup dropped
    BY <2>1, KeptNow
  <2>3. CASE IssueWrite
    BY <1>1, <2>3
  <2> QED BY <1>2, <2>1, <2>2, <2>3, IssueKeeps
<1> QED BY <1>1, <1>2

-----------------------------------------------------------------------------
(* The page.                                                                  *)

\* A step of the page: the table and the dialog's action, unless it ends, are as before.
LEMMA PageStep ==
    ASSUME AdminInv, UNCHANGED <<storeVars, label>>, action' \in {action, NoAction}, AdminTypeOK',
           TabOK', PostOK',
           \A k \in mine' : Exists(k) \/ k \in late' \/ (post'.key = k /\ post'.stage \in {"sent", "written"})
                            => k \in {tab'.key} \cup saved' \cup dropped',
           \A k \in saved' : Holds(k), tab'.confirmed => Holds(tab'.key)
    PROVE  AdminInv'
<1>0. UNCHANGED <<rows, events, minted, now>>
  BY DEF storeVars
<1>1. StoreInv'
  <2>1. [StoreNext]_storeVars
    OBVIOUS
  <2> QED BY <2>1, StoreInvStep DEF AdminInv
<1>2. CredentialKept'
  BY <1>0 DEF CredentialKept, Exists, Holds
<1>3. ActionOK'
  <2>1. CASE action' = action
    BY <1>0, <2>1 DEF AdminInv, ActionOK
  <2>2. CASE action' = NoAction
    BY <2>2, AdminConstants DEF ActionOK
  <2> QED BY <2>1, <2>2
<1> QED BY <1>1, <1>2, <1>3 DEF AdminInv

\* What a request starts with.
LEMMA Sends ==
    ASSUME AdminInv, NEW k \in Keys, NEW busy \in {"create", "retry"}, Send(k, busy)
    PROVE  /\ post' \in Posts /\ post'.key = k /\ post'.stage = "sent"
           /\ page' \in TabPages /\ page'.busy = busy /\ page'.pc = page.pc
           /\ page'.pending.key = k /\ ~page'.pending.confirmed
<1>1. PICK p : p = [key |-> k, stage |-> "sent"]
  OBVIOUS
<1>2. PICK c : c = [key |-> k, confirmed |-> FALSE]
  OBVIOUS
<1>3. c \in Credentials /\ c.key = k /\ ~c.confirmed
  BY <1>2 DEF Credentials
<1>4. PICK q : q = [page EXCEPT !.busy = busy, !.pending = c]
  OBVIOUS
<1>5. q \in TabPages /\ q.busy = busy /\ q.pc = page.pc /\ q.pending = c
  BY <1>3, <1>4, KeptNow DEF TabPages
<1>6. p \in Posts /\ p.key = k /\ p.stage = "sent"
  BY <1>1 DEF Posts
<1> QED BY <1>1, <1>2, <1>3, <1>4, <1>5, <1>6 DEF Send

LEMMA IdleNow ==
    ASSUME AdminInv, Idle
    PROVE  page.pc = "open" /\ post.stage = "none"
BY DEF Idle, AdminInv, PostOK

LEMMA SubmitKeeps == ASSUME AdminInv, NEW k \in Keys, Submit(k) PROVE AdminInv'
<1>0. /\ UNCHANGED <<storeVars, label, late, saved, dropped, action>> /\ mine' = mine \cup {k} /\ k \notin mine /\ ~Holds(k)
      /\ Send(k, "create") /\ tab' = [key |-> k, confirmed |-> FALSE] /\ Idle /\ page.pending = NoPending
  BY DEF Submit, Fresh
<1>1. PICK c : c = [key |-> k, confirmed |-> FALSE]
  OBVIOUS
<1>2. tab' = c /\ c \in Credentials /\ c.key = k /\ ~c.confirmed
  BY <1>0, <1>1 DEF Credentials
<1>3. /\ post' \in Posts /\ post'.key = k /\ post'.stage = "sent"
      /\ page' \in TabPages /\ page'.busy = "create" /\ page'.pc = "open"
      /\ page'.pending.key = k /\ ~page'.pending.confirmed
  BY <1>0, Sends, IdleNow
<1>4. tab.key = None
  BY <1>0, AdminConstants DEF AdminInv, TabOK
<1>5. AdminTypeOK'
  BY <1>0, <1>2, <1>3, KeptNow, AdminTypesAgain
<1>6. TabOK' /\ PostOK'
  <2>1. k \notin late' /\ k \in mine'
    BY <1>0, KeptNow
  <2>2. TabOK'
    BY <1>2, <1>3, <2>1 DEF TabOK
  <2>3. PostOK'
    BY <1>2, <1>3, <2>1 DEF PostOK
  <2> QED BY <2>2, <2>3
<1>7. \A j \in mine' : Exists(j) \/ j \in late' \/ (post'.key = j /\ post'.stage \in {"sent", "written"})
                       => j \in {tab'.key} \cup saved' \cup dropped'
  <2> SUFFICES ASSUME NEW j \in mine, Exists(j) \/ j \in late, j # k
               PROVE  j \in saved \cup dropped
    BY <1>0, <1>2, <1>3, KeptNow
  <2> QED BY <1>4, KeptNow, KeyAssumption
<1> QED BY <1>0, <1>2, <1>5, <1>6, <1>7, KeptNow, PageStep

LEMMA RetryKeeps == ASSUME AdminInv, Retry PROVE AdminInv'
<1>0. /\ UNCHANGED <<storeVars, label, mine, tab, late, saved, dropped, action>>
      /\ Send(page.pending.key, "retry") /\ Idle /\ page.pending.key # None /\ ~page.pending.confirmed
  BY DEF Retry
<1>1. page.pending.key \in Keys /\ tab.key = page.pending.key /\ ~tab.confirmed /\ tab.key \in mine
  BY <1>0, KeptNow DEF AdminInv, TabOK, Credentials
<1>2. /\ post' \in Posts /\ post'.key = tab.key /\ post'.stage = "sent"
      /\ page' \in TabPages /\ page'.busy = "retry" /\ page'.pc = "open"
      /\ page'.pending.key = tab.key /\ ~page'.pending.confirmed
  BY <1>0, <1>1, Sends, IdleNow
<1>3. AdminTypeOK'
  BY <1>0, <1>2, KeptNow, AdminTypesAgain
<1>4. TabOK' /\ PostOK'
  <2>1. TabOK'
    BY <1>0, <1>1, <1>2 DEF TabOK
  <2>2. PostOK'
    BY <1>0, <1>1, <1>2 DEF PostOK
  <2> QED BY <2>1, <2>2
<1> QED BY <1>0, <1>1, <1>2, <1>3, <1>4, KeptNow, PageStep

\* The read that makes the answer finds the key, or has found that it does not exist.
LEMMA IssueReadKeeps == ASSUME AdminInv, IssueRead PROVE AdminInv'
<1>0. /\ UNCHANGED <<storeVars, label, mine, page, tab, late, saved, dropped, action>>
      /\ post.stage = "written" /\ post' = [post EXCEPT !.stage = IssueAnswer]
  BY DEF IssueRead
<1>1. /\ IssueAnswer \in {"created", "deleted", "conflict"}
      /\ IssueAnswer = "created" <=> Exists(post.key)
  <2>1. post.key \in Keys
    BY <1>0, KeptNow DEF AdminInv, PostOK
  <2>2. Exists(post.key) => <<post.key, "deleted">> \notin events
    BY <2>1, KnownRow DEF AdminInv
  <2>3. CASE Exists(post.key)
    BY <2>2, <2>3 DEF IssueAnswer
  <2>4. CASE ~Exists(post.key) /\ <<post.key, "deleted">> \in events
    BY <2>4 DEF IssueAnswer
  <2>5. CASE ~Exists(post.key) /\ <<post.key, "deleted">> \notin events
    BY <2>5 DEF IssueAnswer
  <2> QED BY <2>3, <2>4, <2>5
<1>2. PICK p : p = [post EXCEPT !.stage = IssueAnswer]
  OBVIOUS
<1>3. post' = p /\ p \in Posts /\ p.key = post.key /\ p.stage = IssueAnswer
  BY <1>0, <1>1, <1>2, KeptNow DEF Posts
<1>4. AdminTypeOK'
  BY <1>0, <1>3, KeptNow, AdminTypesAgain
<1>5. /\ post.key \in mine /\ tab.key = post.key /\ ~tab.confirmed /\ page.busy # "no" /\ post.key \in Keys
      /\ page.busy = "create" => post.key \notin late
  BY <1>0, KeptNow DEF AdminInv, PostOK
<1>6. PostOK'
  <2>1. Exists(post.key) => Holds(post.key)
    BY <1>5, KnownRow DEF AdminInv, Holds
  <2>2. UNCHANGED <<rows, events>>
    BY <1>0 DEF storeVars
  <2> QED BY <1>0, <1>1, <1>3, <1>5, <2>1, <2>2 DEF PostOK, Exists, Holds
<1>7. TabOK'
  BY <1>0 DEF AdminInv, TabOK
<1> QED BY <1>0, <1>3, <1>4, <1>5, <1>6, <1>7, KeptNow, PageStep

LEMMA UnansweredKeeps == ASSUME AdminInv, Unanswered PROVE AdminInv'
<1>0. /\ UNCHANGED <<storeVars, label, mine, tab, saved, dropped, action>>
      /\ post' = NoPost /\ late' = Abandoned /\ page' = [page EXCEPT !.busy = "no"]
      /\ post.stage \in {"sent", "written"}
  BY DEF Unanswered
<1>1. PICK q : q = [page EXCEPT !.busy = "no"]
  OBVIOUS
<1>2. page' = q /\ q \in TabPages /\ q.busy = "no" /\ q.pc = page.pc /\ q.pending = page.pending
  BY <1>0, <1>1, KeptNow DEF TabPages
<1>3. late' \subseteq late \cup (IF post.stage = "sent" THEN {post.key} ELSE {}) /\ post.key \in mine
  BY <1>0 DEF Abandoned, AdminInv, PostOK
<1>4. AdminTypeOK'
  BY <1>0, <1>2, <1>3, KeptNow, AdminConstants, AdminTypesAgain
<1>5. TabOK' /\ PostOK'
  BY <1>0, <1>2, AdminConstants DEF AdminInv, TabOK, PostOK
<1> QED BY <1>0, <1>3, <1>4, <1>5, KeptNow, AdminConstants, PageStep

\* A credential is forgotten after a first request that found the name taken: nothing of
\* its key was written, and no request for it is still on its way.
LEMMA PageAnswerKeeps == ASSUME AdminInv, PageAnswer PROVE AdminInv'
<1>0. /\ UNCHANGED <<storeVars, label, mine, late, saved, dropped, action>>
      /\ post' = NoPost /\ post.stage \in {"created", "conflict", "deleted"}
  BY DEF PageAnswer
<1>1. PICK p : /\ p = CASE post.stage = "created" -> [page.pending EXCEPT !.confirmed = TRUE]
                       [] post.stage = "conflict" /\ Forgets -> NoPending
                       [] OTHER -> page.pending
               /\ page' = [page EXCEPT !.busy = "no", !.pending = p] /\ tab' = p
  BY DEF PageAnswer
<1>2. /\ post.key \in mine /\ tab.key = post.key /\ ~tab.confirmed /\ post.key \in Keys
      /\ page.pending.key = post.key /\ ~page.pending.confirmed
  BY <1>0, KeptNow DEF AdminInv, PostOK, TabOK
<1>3. /\ p \in Credentials
      /\ \/ p.key = post.key /\ ~p.confirmed
         \/ p.key = post.key /\ p.confirmed /\ post.stage = "created"
         \/ p.key = None /\ ~p.confirmed /\ post.stage = "conflict" /\ page.busy = "create"
  <2>1. CASE post.stage = "created"
    <3>1. p = [page.pending EXCEPT !.confirmed = TRUE]
      BY <1>1, <2>1
    <3>2. p \in Credentials /\ p.key = page.pending.key /\ p.confirmed
      BY <3>1, KeptNow DEF Credentials
    <3> QED BY <1>2, <2>1, <3>2
  <2>2. CASE post.stage = "conflict" /\ Forgets
    <3>1. p = NoPending
      BY <1>1, <2>2
    <3> QED BY <2>2, <3>1, AdminConstants DEF Forgets
  <2>3. CASE post.stage # "created" /\ ~(post.stage = "conflict" /\ Forgets)
    <3>1. p = page.pending
      BY <1>1, <2>3
    <3> QED BY <1>2, <3>1, KeptNow
  <2> QED BY <2>1, <2>2, <2>3
<1>4. PICK q : q = [page EXCEPT !.busy = "no", !.pending = p]
  OBVIOUS
<1>5. page' = q /\ q \in TabPages /\ q.busy = "no" /\ q.pc = page.pc /\ q.pending = p
  BY <1>1, <1>3, <1>4, KeptNow DEF TabPages
<1>6. AdminTypeOK'
  BY <1>0, <1>1, <1>3, <1>5, KeptNow, AdminConstants, AdminTypesAgain
<1>7. TabOK' /\ PostOK'
  BY <1>0, <1>1, <1>2, <1>3, <1>5, AdminConstants DEF AdminInv, TabOK, PostOK
<1>8. \A j \in mine' : Exists(j) \/ j \in late' \/ (post'.key = j /\ post'.stage \in {"sent", "written"})
                       => j \in {tab'.key} \cup saved' \cup dropped'
  <2> SUFFICES ASSUME NEW j \in mine, Exists(j) \/ j \in late
               PROVE  j \in {p.key} \cup saved \cup dropped
    BY <1>0, <1>1, AdminConstants
  <2>1. j \in {post.key} \cup saved \cup dropped
    BY <1>2, KeptNow
  <2>2. p.key # post.key => j # post.key
    BY <1>3 DEF AdminInv, PostOK
  <2> QED BY <2>1, <2>2
<1>9. tab'.confirmed => Holds(tab'.key)
  BY <1>1, <1>3 DEF AdminInv, PostOK
<1> QED BY <1>0, <1>6, <1>7, <1>8, <1>9, KeptNow, PageStep

LEMMA DismissKeeps == ASSUME AdminInv, Dismiss PROVE AdminInv'
<1>0. /\ UNCHANGED <<storeVars, label, mine, post, late, dropped, action>> /\ page.pending.confirmed /\ Idle
      /\ saved' = saved \cup {page.pending.key} /\ tab' = NoPending /\ page' = Page("open")
  BY DEF Dismiss
<1>1. tab.key = page.pending.key /\ tab.confirmed /\ tab.key \in mine /\ post.stage = "none"
  BY <1>0, IdleNow DEF AdminInv, TabOK
<1>2. AdminTypeOK'
  BY <1>0, <1>1, KeptNow, AdminConstants, AdminTypesAgain
<1>3. TabOK' /\ PostOK'
  BY <1>0, <1>1, AdminConstants DEF TabOK, PostOK
<1> QED BY <1>0, <1>1, <1>2, <1>3, KeptNow, AdminConstants, PageStep

\* A tab that is reloaded keeps its storage; one that is closed does not.
LEMMA LeaveKeeps == ASSUME AdminInv, Reload \/ CloseTab PROVE AdminInv'
<1>0. /\ UNCHANGED <<storeVars, label, mine, saved>> /\ action' = NoAction /\ post' = NoPost /\ late' = Abandoned
      /\ page.pc = "open"
  BY DEF Reload, CloseTab, Leave
<1>1. PICK pc \in {"open", "closed"}, c \in {tab, NoPending} :
        /\ page' = [Page(pc) EXCEPT !.pending = c] /\ tab' = c
        /\ c = NoPending => c = tab \/ dropped' = dropped \cup ({tab.key} \ {None})
        /\ c = tab => dropped' = dropped \/ dropped' = dropped \cup ({tab.key} \ {None})
        /\ dropped \subseteq dropped' /\ dropped' \subseteq dropped \cup ({tab.key} \ {None})
  BY DEF Reload, CloseTab, Leave
<1>2. PICK q : q = [Page(pc) EXCEPT !.pending = c]
  OBVIOUS
<1>3. c \in Credentials /\ (c = NoPending => c.key = None /\ ~c.confirmed)
  BY <1>1, KeptNow, AdminConstants
<1>4. page' = q /\ q \in TabPages /\ q.busy = "no" /\ q.pc = pc /\ q.pending = c
  BY <1>1, <1>2, <1>3, AdminConstants DEF TabPages
<1>5. /\ late' \subseteq late \cup (IF post.stage = "sent" THEN {post.key} ELSE {})
      /\ post.stage = "sent" => post.key \in mine /\ tab.key = post.key
      /\ tab.key # None \/ tab.confirmed => tab.key \in mine
  BY <1>0 DEF Abandoned, AdminInv, PostOK, TabOK
<1>6. dropped' \subseteq mine
  BY <1>1, <1>5, KeptNow
<1>7. AdminTypeOK'
  BY <1>0, <1>1, <1>3, <1>4, <1>5, <1>6, KeptNow, AdminConstants, AdminTypesAgain
<1>8. TabOK' /\ PostOK'
  BY <1>0, <1>1, <1>3, <1>4, <1>5, AdminConstants DEF TabOK, PostOK
<1>9. \A j \in mine' : Exists(j) \/ j \in late' \/ (post'.key = j /\ post'.stage \in {"sent", "written"})
                       => j \in {tab'.key} \cup saved' \cup dropped'
  <2> SUFFICES ASSUME NEW j \in mine, Exists(j) \/ j \in late'
               PROVE  j \in {tab'.key} \cup saved \cup dropped'
    BY <1>0, AdminConstants
  <2>1. j \in {tab.key} \cup saved \cup dropped /\ j # None
    BY <1>5, KeptNow, KeyAssumption
  <2> QED BY <1>1, <2>1
<1> QED BY <1>0, <1>1, <1>3, <1>7, <1>8, <1>9, KeptNow, PageStep

-----------------------------------------------------------------------------
(* The invariant, and what it gives.                                          *)

LEMMA AdminStart == AdminInit => AdminInv
<1> SUFFICES ASSUME AdminInit PROVE AdminInv
  OBVIOUS
<1>1. /\ StoreInit /\ page \in {Page("none"), Page("open")} /\ label \in [Keys -> Labels]
      /\ mine = {} /\ tab = NoPending /\ post = NoPost /\ late = {} /\ saved = {} /\ dropped = {} /\ action = NoAction
  BY DEF AdminInit
<1>2. StoreInv
  BY <1>1, StoreInvInit
<1>3. page \in TabPages /\ page.busy = "no" /\ page.pending = NoPending
  BY <1>1, AdminConstants
<1>4. AdminTypeOK
  BY <1>1, <1>3, AdminConstants DEF AdminTypeOK, Credentials, TabPages, Posts, Actions
<1>5. CredentialKept
  BY <1>1, <1>4, AdminConstants DEF CredentialKept
<1>6. TabOK /\ PostOK /\ ActionOK
  BY <1>1, <1>3, AdminConstants DEF TabOK, PostOK, ActionOK
<1> QED BY <1>2, <1>5, <1>6 DEF AdminInv

LEMMA AdminStep == ASSUME AdminInv, [AdminNext]_adminVars PROVE AdminInv'
<1>1. CASE UNCHANGED adminVars
  <2>1. UNCHANGED <<storeVars, label, tabVars, action>> /\ action \in Actions
    BY <1>1, KeptNow DEF adminVars
  <2>2. UNCHANGED <<rows, events>>
    BY <2>1 DEF storeVars
  <2>3. StoreInv'
    BY <2>1, StoreInvStep DEF AdminInv
  <2>4. ActionOK'
    BY <2>1, <2>2 DEF AdminInv, ActionOK
  <2>5. \A k \in mine : Exists(k)' => Exists(k)
    BY <2>2 DEF Exists
  <2> QED BY <2>1, <2>2, <2>3, <2>4, <2>5, TabUntouched
<1>2. CASE Store
  BY <1>2, OthersKeep
<1>3. CASE page.pc # "none" /\ (Others \/ IssueWrite \/ \E k \in Keys : LateIssue(k))
  BY <1>3, OthersKeep, IssuesKeep
<1>4. ASSUME NEW k \in Keys, Submit(k) PROVE AdminInv'
  BY <1>4, SubmitKeeps
<1>5. CASE Retry \/ IssueRead \/ PageAnswer \/ Unanswered \/ Dismiss \/ Reload \/ CloseTab
  BY <1>5, RetryKeeps, IssueReadKeeps, PageAnswerKeeps, UnansweredKeeps, DismissKeeps, LeaveKeeps
<1>6. CASE \/ \E k \in Keys, op \in {"reset", "revoke", "delete", "purge"} : Ask(k, op)
           \/ Confirm \/ ActionAnswer \/ ActionUnanswered \/ CloseDialog
  BY <1>6, DialogKeeps
<1>7. CASE page.pc # "none" /\ (ServeDeny \/ ServeCleanup \/ ServeDelete \/ ServePurge)
  BY <1>7, ServeKeeps
<1> QED BY <1>1, <1>2, <1>3, <1>4, <1>5, <1>6, <1>7 DEF AdminNext

\* The page's tab and the Gateway keep their invariant (assets/admin/admin.js beside
\* gateway/admin-web.mjs and admin-service.mjs).
THEOREM AdminInvariant == AdminSpec => []AdminInv
<1>1. AdminInit => AdminInv
  BY AdminStart
<1>2. ASSUME AdminInv, [AdminNext]_adminVars PROVE AdminInv'
  BY <1>2, AdminStep
<1> QED BY <1>1, <1>2, PTL DEF AdminSpec

\* Whatever the page, its requests, late or not, and other administrators do to the
\* table of keys is a statement of the store with its guards (gateway/store.mjs), so
\* that all that is proved of the store holds beside the page.
THEOREM AdminImplementsStore == AdminSpec => StoreSpec
<1>1. AdminInit => StoreInit
  BY DEF AdminInit
<1>2. ASSUME AdminInv, [AdminNext]_adminVars PROVE [StoreNext]_storeVars
  BY <1>2, AdminStoreStep
<1> QED BY <1>1, <1>2, AdminInvariant, PTL DEF AdminSpec, StoreSpec

\* The page never loses the only credential of a key that exists or may yet come to
\* exist, and hands out none that was not created (assets/admin/admin.js).
THEOREM CredentialKeptHolds == AdminSpec => []CredentialKept
<1>1. AdminInv => CredentialKept
  BY DEF AdminInv
<1> QED BY <1>1, AdminInvariant, PTL

\* An operation the page reports as done is on record, however old the list was
\* (assets/admin/admin.js, gateway/admin-service.mjs).
THEOREM FlashIsTrueHolds == AdminSpec => []FlashIsTrue
<1>1. AdminInv => FlashIsTrue
  BY DEF AdminInv, ActionOK, FlashIsTrue
<1> QED BY <1>1, AdminInvariant, PTL

\* So beside the page, too, a key has one owner at a time under a fresh binding, is
\* denied before it is let go, and never returns from the dead.
THEOREM AdminImplementsLifecycle == AdminSpec => ImplementsLifecycle
BY AdminImplementsStore, StoreImplementsLifecycle

\* And the table stays consistent with its audit trail (gateway/store.mjs).
THEOREM AdminStoreIsSound == AdminSpec => []StoreIsSound
BY AdminImplementsStore, StoreIsSoundHolds
=============================================================================
