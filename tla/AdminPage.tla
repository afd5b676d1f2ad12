------------------------------ MODULE AdminPage ------------------------------
(* An administrator's tab on the key page (assets/admin/admin.js), and the     *)
(* handlers its requests reach (gateway/admin-web.mjs, admin-service.mjs).     *)
(*                                                                             *)
(* The page itself draws a key's id and secret, and the Gateway only ever      *)
(* sees the secret's hash: the one copy of a credential is the tab's, until    *)
(* the administrator has saved it.  A key stands for id, secret and hash.      *)
EXTENDS KeyStore

CONSTANT Labels    \* names of keys; each existing key has its own

ASSUME KeyAssumption == None \notin Keys

VARIABLES
    label,    \* the name each key is, or would be, issued with
    mine,     \* the keys this tab drew
    page,     \* what the page holds in memory
    tab,      \* the pending credential in the tab's sessionStorage
    post,     \* the POST /admin/keys the page awaits
    late,     \* such requests nobody awaits any more, but which may arrive
    saved,    \* credentials the administrator confirmed to have saved
    dropped,  \* credentials lost with the tab, which the administrator closed
    action    \* the confirmation dialog of the list's buttons and its request

tabVars == <<mine, page, tab, post, late, saved, dropped>>
adminVars == <<storeVars, label, tabVars, action>>

NoPending == [key |-> None, confirmed |-> FALSE]
NoPost == [key |-> None, stage |-> "none"]
NoAction == [key |-> None, op |-> "none", binding |-> None, stage |-> "none"]
\* Without a page the devices use the store; with one, the tab and others.
Page(pc) == [pc |-> pc, busy |-> "no", pending |-> NoPending]

AdminInit ==
    /\ StoreInit
    /\ page \in {Page("none"), Page("open")}
    /\ label \in [Keys -> Labels]
    /\ page.pc = "none" => \A j, k \in Keys : j # k => label[j] # label[k]
    /\ mine = {} /\ tab = NoPending /\ post = NoPost
    /\ late = {} /\ saved = {} /\ dropped = {}
    /\ action = NoAction

Holds(k) == <<k, "created">> \in events   \* the key was issued once

-----------------------------------------------------------------------------
(* AdminService.issueKey: the batch, then the read that makes the answer.     *)

LabelFree(k) == \A j \in Keys \ {k} : Exists(j) => label[j] # label[k]
IssueOrIgnore(k) ==
    IF CanIssue(k) /\ LabelFree(k) THEN Issue(k) ELSE UNCHANGED storeVars

IssueWrite ==
    /\ post.stage = "sent"
    /\ IssueOrIgnore(post.key)
    /\ post' = [post EXCEPT !.stage = "written"]
    /\ UNCHANGED <<label, mine, page, tab, late, saved, dropped, action>>

IssueAnswer ==
    CASE Exists(post.key) -> "created"
      [] <<post.key, "deleted">> \in events -> "deleted"
      [] OTHER -> "conflict"
IssueRead ==
    /\ post.stage = "written"
    /\ post' = [post EXCEPT !.stage = IssueAnswer]
    /\ UNCHANGED <<storeVars, label, mine, page, tab, late, saved, dropped, action>>

LateIssue(k) ==
    /\ k \in late
    /\ late' = late \ {k}
    /\ IssueOrIgnore(k)
    /\ UNCHANGED <<label, mine, page, tab, post, saved, dropped, action>>

-----------------------------------------------------------------------------
(* Creating a key.                                                            *)

Idle == page.pc = "open" /\ page.busy = "no" /\ action = NoAction
Fresh(k) == k \notin mine /\ ~Holds(k)

Send(k, busy) ==
    /\ post' = [key |-> k, stage |-> "sent"]
    /\ page' = [page EXCEPT !.busy = busy, !.pending = [key |-> k, confirmed |-> FALSE]]

\* The credential is in the storage before its hash leaves the page.
Submit(k) ==
    /\ Idle /\ page.pending = NoPending
    /\ Fresh(k)
    /\ mine' = mine \cup {k}
    /\ tab' = [key |-> k, confirmed |-> FALSE]
    /\ Send(k, "create")
    /\ UNCHANGED <<storeVars, label, late, saved, dropped, action>>

Retry ==
    /\ Idle /\ page.pending.key # None /\ ~page.pending.confirmed
    /\ Send(page.pending.key, "retry")
    /\ UNCHANGED <<storeVars, label, mine, tab, late, saved, dropped, action>>

\* A first request that is refused for its name is forgotten with its key; a
\* retry is not, for an earlier request may still arrive.
\* Mutant: after a retry as well.
ForgetsAnyConflict == TRUE
Forgets == page.busy = "create"
PageAnswer ==
    /\ post.stage \in {"created", "conflict", "deleted"}
    /\ LET p == CASE post.stage = "created" -> [page.pending EXCEPT !.confirmed = TRUE]
                  [] post.stage = "conflict" /\ Forgets -> NoPending
                  [] OTHER -> page.pending
       IN  /\ page' = [page EXCEPT !.busy = "no", !.pending = p]
           /\ tab' = p
    /\ post' = NoPost
    /\ UNCHANGED <<storeVars, label, mine, late, saved, dropped, action>>

\* The request, as far as it has not been served, goes on without the page.
Abandoned == IF post.stage = "sent" THEN late \cup {post.key} ELSE late
\* A timeout, a lost connection, an expired login, 503.
Unanswered ==
    /\ post.stage \in {"sent", "written"}
    /\ post' = NoPost
    /\ late' = Abandoned
    /\ page' = [page EXCEPT !.busy = "no"]
    /\ UNCHANGED <<storeVars, label, mine, tab, saved, dropped, action>>

\* "I have saved it": offered for a confirmed credential only.
Dismiss ==
    /\ Idle /\ page.pending.confirmed
    /\ saved' = saved \cup {page.pending.key}
    /\ tab' = NoPending
    /\ page' = Page("open")
    /\ UNCHANGED <<storeVars, label, mine, post, late, dropped, action>>

Leave(pc, stored) ==
    /\ page' = [Page(pc) EXCEPT !.pending = stored]
    /\ tab' = stored
    /\ post' = NoPost
    /\ late' = Abandoned
    /\ action' = NoAction
    /\ UNCHANGED <<storeVars, label, mine, saved>>
Reload ==
    /\ page.pc = "open"
    /\ Leave("open", tab)
    /\ UNCHANGED dropped
CloseTab ==
    /\ page.pc = "open"
    /\ Leave("closed", NoPending)
    /\ dropped' = dropped \cup ({tab.key} \ {None})

-----------------------------------------------------------------------------
(* The list's buttons.  The list is as old as the dialog: its buttons are     *)
(* those of the rows at the time it was loaded.                               *)

Offered(r, op) ==
    \/ op = "reset" /\ r.state \in {"active", "suspended"}
    \/ op = "revoke" /\ r.state \in Enabled \cup {"issued"}
    \/ op \in {"delete", "purge"} /\ r.state = "revoked" /\ ~r.cleanup

ActionStep(stage) == action' = [action EXCEPT !.stage = stage]

Ask(k, op) ==
    /\ Idle
    /\ Offered(rows[k], op)
    /\ action' = [key |-> k, op |-> op, binding |-> None, stage |-> "asked"]
    /\ UNCHANGED <<storeVars, label, tabVars>>
Confirm ==
    /\ action.stage = "asked"
    /\ ActionStep("sent")
    /\ UNCHANGED <<storeVars, label, tabVars>>

\* changeLifecycle denies first; the cleanup that follows may find the row
\* changed, or Cloudflare out of reach, and is then left to the scan.
ServeDeny ==
    /\ action.stage = "sent" /\ action.op \in {"revoke", "reset"}
    /\ IF CanDisable(action.key, action.op, None)
         THEN /\ Disable(action.key, action.op, None)
              /\ action' = [action EXCEPT !.stage = "cleanup", !.binding = rows[action.key].binding]
         ELSE ActionStep("refused") /\ UNCHANGED storeVars
    /\ UNCHANGED <<label, tabVars>>
CanFinish == IF action.op = "revoke" THEN CanFinishRevoke(action.key, action.binding)
                                     ELSE CanFinishReset(action.key, action.binding)
ServeCleanup ==
    /\ action.stage = "cleanup"
    /\ \/ ActionStep("done") /\ UNCHANGED storeVars      \* 503, retryable
       \/ /\ CanFinish
          /\ \/ action.op = "revoke" /\ FinishRevoke(action.key, action.binding)
             \/ action.op = "reset" /\ FinishReset(action.key, action.binding)
          /\ ActionStep("done")
       \/ ~CanFinish /\ ActionStep("refused") /\ UNCHANGED storeVars
    /\ UNCHANGED <<label, tabVars>>
ServeDelete ==
    /\ action.stage = "sent" /\ action.op = "delete"
    /\ IF CanDelete(action.key)
         THEN DeleteRevoked(action.key) /\ ActionStep("done")
         ELSE ActionStep("refused") /\ UNCHANGED storeVars
    /\ UNCHANGED <<label, tabVars>>
ServePurge ==
    /\ action.stage = "sent" /\ action.op = "purge"
    /\ DeleteAllRevoked
    /\ ActionStep("done")
    /\ UNCHANGED <<label, tabVars>>

\* Success leaves a message for the page that is reloaded; anything else leaves
\* the dialog open.
\* Mutant: any answer is a success.
SucceedsAlways == TRUE
Succeeds == action.stage = "done"
ActionAnswer ==
    /\ action.stage \in {"done", "refused"}
    /\ ActionStep(IF Succeeds THEN "flash" ELSE "asked")
    /\ UNCHANGED <<storeVars, label, tabVars>>
\* No answer.  What the request does when it arrives late, others may do as well.
ActionUnanswered ==
    /\ action.stage \in {"sent", "cleanup"}
    /\ ActionStep("asked")
    /\ UNCHANGED <<storeVars, label, tabVars>>
CloseDialog ==
    /\ action.stage = "asked"
    /\ action' = NoAction
    /\ UNCHANGED <<storeVars, label, tabVars>>

-----------------------------------------------------------------------------
(* The rest of the Gateway; bound of the model: beside a page one device      *)
(* enrols, once.                                                              *)

Others ==
    /\ \E k \in Keys :
        \/ k \notin mine /\ LabelFree(k) /\ Issue(k)
        \/ DeleteRevoked(k)
        \/ \E d \in Devices, b \in Bindings : (\A c \in Bindings : minted[c] = None) /\ Bind(k, d, b)
        \/ \E b \in Bindings : Activate(k, b)
        \/ \E op \in {"revoke", "reset"} : Disable(k, op, None)
        \/ FinishReset(k, rows[k].binding) \/ FinishRevoke(k, rows[k].binding)
    /\ UNCHANGED <<label, tabVars, action>>

Store == page.pc = "none" /\ StoreNext /\ UNCHANGED <<label, tabVars, action>>

AdminNext ==
    \/ Store
    \/ /\ page.pc # "none"
       /\ \/ Others
          \/ \E k \in Keys : Submit(k) \/ LateIssue(k)
          \/ Retry \/ IssueWrite \/ IssueRead \/ PageAnswer \/ Unanswered
          \/ Dismiss \/ Reload \/ CloseTab
          \/ \E k \in Keys, op \in {"reset", "revoke", "delete", "purge"} : Ask(k, op)
          \/ Confirm \/ ServeDeny \/ ServeCleanup \/ ServeDelete \/ ServePurge
          \/ ActionAnswer \/ ActionUnanswered \/ CloseDialog

AdminSpec == AdminInit /\ [][AdminNext]_adminVars

-----------------------------------------------------------------------------
(* Properties.                                                                *)

AdminTypeOK ==
    /\ label \in [Keys -> Labels]
    /\ mine \subseteq Keys /\ late \subseteq mine
    /\ saved \subseteq mine /\ dropped \subseteq mine
    /\ tab \in [key : Keys \cup {None}, confirmed : BOOLEAN]
    /\ page \in [pc : {"none", "open", "closed"}, busy : {"no", "create", "retry"},
                 pending : [key : Keys \cup {None}, confirmed : BOOLEAN]]
    /\ post \in [key : Keys \cup {None},
                 stage : {"none", "sent", "written", "created", "conflict", "deleted"}]
    /\ action \in [key : Keys \cup {None}, binding : Bindings \cup {None},
                   op : {"none", "reset", "revoke", "delete", "purge"},
                   stage : {"none", "asked", "sent", "cleanup", "done", "refused", "flash"}]

\* No key without a holder: a key that this tab drew, and that exists or whose
\* request may yet arrive, has its only credential in the tab's storage or with
\* the administrator, through timeouts, retries and reloads; and what is handed
\* out as a created key has been created.
CredentialKept ==
    /\ AdminTypeOK
    /\ \A k \in mine :
        \/ Exists(k) \/ k \in late \/ (post.key = k /\ post.stage \in {"sent", "written"})
        => k \in {tab.key} \cup saved \cup dropped
    /\ \A k \in saved \cup (IF tab.confirmed THEN {tab.key} ELSE {}) : Holds(k)

\* The page never reports an operation that was not carried out, whatever
\* happened to the row since its list was loaded.  (A purge reports a number.)
Recorded == [reset |-> "reset", revoke |-> "revoked", delete |-> "deleted"]
FlashIsTrue ==
    action.stage = "flash" /\ action.op \in DOMAIN Recorded =>
        <<action.key, Recorded[action.op]>> \in events
=============================================================================
