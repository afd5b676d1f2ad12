--------------------------- MODULE KeyStoreProofs ---------------------------
(***************************************************************************)
(* The key store's invariants and action properties for any number of      *)
(* keys, devices, bindings and tunnels and any clock bound.                *)
(*                                                                         *)
(* Every statement of the store but the deletions writes one row.  What    *)
(* such a statement may do to the row, to the audit trail and to the       *)
(* minted binding ids is collected in Moves, proved once per statement in  *)
(* StepMoves; the theorems follow from Moves, Purge and Tick alone.  The   *)
(* last part shows that the store implements KeyLifecycle.                 *)
(***************************************************************************)
EXTENDS KeyStore, TLAPS

StoreStep(k) ==
    \/ Issue(k)
    \/ \E d \in Devices, b \in Bindings : Bind(k, d, b)
    \/ \E b \in Bindings, t \in Tunnels : SaveTunnel(k, b, t)
    \/ \E b \in Bindings : Activate(k, b)
    \/ \E b \in Bindings : Suspend(k, b)
    \/ \E b \in Bindings : Resume(k, b)
    \/ \E b \in Bindings, v \in Versions : ReportVersion(k, b, v)
    \/ \E op \in {"revoke", "reset"}, b \in Bindings \cup {None} : Disable(k, op, b)
    \/ \E b \in Bindings, at \in 0 .. MaxTime : ExpireProvisioning(k, b, at)
    \/ \E b \in Bindings \cup {None} : FinishReset(k, b)
    \/ \E b \in Bindings \cup {None} : FinishRevoke(k, b)

\* The conjuncts are inductive together: that a row may be bound needs RowShape
\* (an issued row names no device), that its binding id is its own needs
\* BindingOwner for the other rows.
StoreInv == StoreTypeOK /\ RowShape /\ BindingOwner /\ AuditTrail

\* Row r keeps the binding of q and its device, or drops it after a reset.
KeepsBinding(q, r) ==
    \/ r.binding = q.binding /\ r.device = q.device
    \/ r.binding = None /\ q.state = "resetting"

\* Writing r over the row of k: the binding is kept, dropped after a reset, or
\* freshly minted; the trail only grows, by entries of k, and records what the
\* new state needs; a revoked row stays revoked.
MovesBinding(k, r) ==
    \/ KeepsBinding(rows[k], r) /\ UNCHANGED minted
    \/ \E b \in Bindings, d \in Devices :
          /\ rows[k].binding = None /\ minted[b] = None
          /\ r.binding = b /\ r.device = d
          /\ minted' = [minted EXCEPT ![b] = <<k, d>>]
MovesTrail(k, r) ==
    /\ <<k, "deleted">> \notin events
    /\ \/ UNCHANGED events
       \/ \E e \in EventKinds \ {"deleted"} : events' = events \cup {<<k, e>>}
    /\ <<k, "created">> \in events'
    /\ r.state = "revoked" => <<k, "revoked">> \in events'
    /\ r.state = "revoked" /\ ~r.cleanup => <<k, "revoked_cleanup_completed">> \in events'
MovesState(k, r) ==
    /\ r.state # "absent"
    /\ rows[k].state = "revoked" => r.state = "revoked"
Moves(k, r) ==
    /\ rows' = [rows EXCEPT ![k] = r]
    /\ UNCHANGED now
    /\ Consistent(r)
    /\ MovesBinding(k, r)
    /\ MovesTrail(k, r)
    /\ MovesState(k, r)

-----------------------------------------------------------------------------
(* Facts about rows.                                                       *)

LEMMA BlankRowType ==
    ASSUME NEW s \in States, NEW t \in 0 .. MaxTime
    PROVE  BlankRow(s, t) \in Row
BY DEF BlankRow, Row, States

LEMMA NoRowType == NoRow \in Row /\ Consistent(NoRow)
<1>1. 0 \in 0 .. MaxTime
  BY ClockAssumption
<1>2. "absent" \in States
  BY DEF States
<1>3. Consistent(BlankRow("absent", 0))
  BY DEF Consistent, BlankRow, Enabled
<1> QED BY <1>1, <1>2, <1>3, BlankRowType DEF NoRow

\* Writing one row of a well-typed table.
LEMMA WriteRow ==
    ASSUME rows \in [Keys -> Row], NEW k \in Keys, NEW r \in Row,
           rows' = [rows EXCEPT ![k] = r]
    PROVE  /\ rows' \in [Keys -> Row]
           /\ rows'[k] = r
           /\ \A j \in Keys : j # k => rows'[j] = rows[j]
OBVIOUS

\* What is known of row k and of the trail before a statement runs.
LEMMA KnownRow ==
    ASSUME StoreInv, NEW k \in Keys
    PROVE  /\ rows[k] \in Row
           /\ Consistent(rows[k])
           /\ now \in 0 .. MaxTime
           /\ Exists(k) => /\ <<k, "created">> \in events
                           /\ <<k, "deleted">> \notin events
           /\ rows[k].state = "revoked" => <<k, "revoked">> \in events
           /\ rows[k].state = "revoked" /\ ~rows[k].cleanup =>
                 <<k, "revoked_cleanup_completed">> \in events
BY DEF StoreInv, StoreTypeOK, RowShape, AuditTrail, Exists, CanDelete

-----------------------------------------------------------------------------
(* Each statement of the store moves its row as Moves says.                *)

LEMMA StepMoves ==
    ASSUME StoreInv, NEW k \in Keys, StoreStep(k)
    PROVE  \E r \in Row : Moves(k, r)
<1>0. /\ rows[k] \in Row /\ Consistent(rows[k]) /\ now \in 0 .. MaxTime
      /\ Exists(k) => <<k, "created">> \in events /\ <<k, "deleted">> \notin events
      /\ rows[k].state = "revoked" => <<k, "revoked">> \in events
      /\ rows[k].state = "revoked" /\ ~rows[k].cleanup =>
            <<k, "revoked_cleanup_completed">> \in events
  BY KnownRow
<1>1. ASSUME Issue(k)
      PROVE  \E r \in Row : Moves(k, r)
  <2> DEFINE r == BlankRow("issued", now)
  <2>1. r \in Row
    BY <1>0, BlankRowType DEF States
  <2>2. rows' = [rows EXCEPT ![k] = r] /\ UNCHANGED now
    BY <1>0, <1>1 DEF Issue
  <2>3. Consistent(r)
    BY <1>0, <1>1, NoneAssumption DEF Row, States, Enabled, Consistent, Issue, CanIssue, BlankRow
  <2>4. MovesBinding(k, r)
    <3>1. rows[k] = BlankRow("absent", rows[k].at)
      BY <1>0, <1>1 DEF Consistent, Issue, CanIssue, Exists
    <3>2. rows[k].binding = None /\ rows[k].device = None
      BY <3>1 DEF BlankRow
    <3> QED BY <1>1, <3>2 DEF MovesBinding, KeepsBinding, Issue, BlankRow
  <2>5. MovesTrail(k, r)
    BY <1>0, <1>1, NoneAssumption DEF Row, Consistent, MovesTrail, EventKinds, Issue, CanIssue, BlankRow, Exists, Enabled
  <2>6. MovesState(k, r)
    BY <1>0, <1>1, NoneAssumption DEF Row, Consistent, MovesState, Issue, CanIssue, BlankRow, Exists, Enabled
  <2> QED BY <2>1, <2>2, <2>3, <2>4, <2>5, <2>6 DEF Moves
<1>2. ASSUME NEW d \in Devices, NEW b \in Bindings, Bind(k, d, b)
      PROVE  \E r \in Row : Moves(k, r)
  <2> DEFINE r == [rows[k] EXCEPT !.state = "provisioning", !.device = d,
                                    !.binding = b, !.at = now]
  <2>1. r \in Row
    BY <1>0 DEF Row, States
  <2>2. rows' = [rows EXCEPT ![k] = r] /\ UNCHANGED now
    BY <1>0, <1>2 DEF Bind
  <2>3. Consistent(r)
    BY <1>0, <1>2, NoneAssumption DEF Row, States, Enabled, Consistent, Bind, CanBind, BlankRow
  <2>4. MovesBinding(k, r)
    BY <1>0, <1>2 DEF Row, MovesBinding, KeepsBinding, Bind, CanBind, BlankRow
  <2>5. MovesTrail(k, r)
    BY <1>0, <1>2, NoneAssumption DEF Row, Consistent, MovesTrail, EventKinds, Bind, CanBind, BlankRow, Exists, Enabled
  <2>6. MovesState(k, r)
    BY <1>0, <1>2, NoneAssumption DEF Row, Consistent, MovesState, Bind, CanBind, BlankRow, Exists, Enabled
  <2> QED BY <2>1, <2>2, <2>3, <2>4, <2>5, <2>6 DEF Moves
<1>3. ASSUME NEW b \in Bindings, NEW t \in Tunnels, SaveTunnel(k, b, t)
      PROVE  \E r \in Row : Moves(k, r)
  <2> DEFINE r == [rows[k] EXCEPT !.tunnel = t, !.at = now]
  <2>1. r \in Row
    BY <1>0 DEF Row, States
  <2>2. rows' = [rows EXCEPT ![k] = r] /\ UNCHANGED now
    BY <1>0, <1>3 DEF SaveTunnel
  <2>3. Consistent(r)
    BY <1>0, <1>3, NoneAssumption DEF Row, States, Enabled, Consistent, SaveTunnel, CanSaveTunnel
  <2>4. MovesBinding(k, r)
    BY <1>0, <1>3 DEF Row, MovesBinding, KeepsBinding, SaveTunnel, CanSaveTunnel
  <2>5. MovesTrail(k, r)
    BY <1>0, <1>3, NoneAssumption DEF Row, Consistent, MovesTrail, EventKinds, SaveTunnel, CanSaveTunnel, Exists, Enabled
  <2>6. MovesState(k, r)
    BY <1>0, <1>3, NoneAssumption DEF Row, Consistent, MovesState, SaveTunnel, CanSaveTunnel, Exists, Enabled
  <2> QED BY <2>1, <2>2, <2>3, <2>4, <2>5, <2>6 DEF Moves
<1>4. ASSUME NEW b \in Bindings, Activate(k, b)
      PROVE  \E r \in Row : Moves(k, r)
  <2> DEFINE r == [rows[k] EXCEPT
                     !.state = IF rows[k].state = "suspended" THEN "suspended" ELSE "active",
                     !.cleanup = FALSE, !.at = now]
  <2>1. r \in Row
    BY <1>0 DEF Row, States
  <2>2. rows' = [rows EXCEPT ![k] = r] /\ UNCHANGED now
    BY <1>0, <1>4 DEF Activate
  <2>3. Consistent(r)
    BY <1>0, <1>4, NoneAssumption DEF Row, States, Enabled, Consistent, Activate, CanActivate
  <2>4. MovesBinding(k, r)
    BY <1>0, <1>4 DEF Row, MovesBinding, KeepsBinding, Activate, CanActivate
  <2>5. MovesTrail(k, r)
    BY <1>0, <1>4, NoneAssumption DEF Row, Consistent, MovesTrail, EventKinds, Activate, CanActivate, Exists, Enabled
  <2>6. MovesState(k, r)
    BY <1>0, <1>4, NoneAssumption DEF Row, Consistent, MovesState, Activate, CanActivate, Exists, Enabled
  <2> QED BY <2>1, <2>2, <2>3, <2>4, <2>5, <2>6 DEF Moves
<1>5. ASSUME NEW b \in Bindings, NEW s \in {"active", "suspended"}, SetAccess(k, b, s)
      PROVE  \E r \in Row : Moves(k, r)
  <2> DEFINE r == [rows[k] EXCEPT !.state = s, !.at = now]
  <2>1. r \in Row
    BY <1>0 DEF Row, States
  <2>2. rows' = [rows EXCEPT ![k] = r] /\ UNCHANGED now
    BY <1>0, <1>5 DEF SetAccess
  <2>3. Consistent(r)
    BY <1>0, <1>5, NoneAssumption DEF Row, States, Enabled, Consistent, SetAccess, CanPause
  <2>4. MovesBinding(k, r)
    BY <1>0, <1>5 DEF Row, MovesBinding, KeepsBinding, SetAccess, CanPause
  <2>5. MovesTrail(k, r)
    BY <1>0, <1>5, NoneAssumption DEF Row, Consistent, MovesTrail, EventKinds, SetAccess, CanPause, Exists, Enabled
  <2>6. MovesState(k, r)
    BY <1>0, <1>5, NoneAssumption DEF Row, Consistent, MovesState, SetAccess, CanPause, Exists, Enabled
  <2> QED BY <2>1, <2>2, <2>3, <2>4, <2>5, <2>6 DEF Moves
<1>6. ASSUME NEW b \in Bindings, NEW v \in Versions, ReportVersion(k, b, v)
      PROVE  \E r \in Row : Moves(k, r)
  <2> DEFINE r == [rows[k] EXCEPT !.version = v]
  <2>1. r \in Row
    BY <1>0 DEF Row, States
  <2>2. rows' = [rows EXCEPT ![k] = r] /\ UNCHANGED now
    BY <1>0, <1>6 DEF ReportVersion
  <2>3. Consistent(r)
    BY <1>0, <1>6, NoneAssumption DEF Row, States, Enabled, Consistent, ReportVersion, CanPause
  <2>4. MovesBinding(k, r)
    BY <1>0, <1>6 DEF Row, MovesBinding, KeepsBinding, ReportVersion, CanPause
  <2>5. MovesTrail(k, r)
    BY <1>0, <1>6, NoneAssumption DEF Row, Consistent, MovesTrail, EventKinds, ReportVersion, CanPause, Exists, Enabled
  <2>6. MovesState(k, r)
    BY <1>0, <1>6, NoneAssumption DEF Row, Consistent, MovesState, ReportVersion, CanPause, Exists, Enabled
  <2> QED BY <2>1, <2>2, <2>3, <2>4, <2>5, <2>6 DEF Moves
<1>7. ASSUME NEW op \in {"revoke", "reset"}, NEW b \in Bindings \cup {None}, Disable(k, op, b)
      PROVE  \E r \in Row : Moves(k, r)
  <2> DEFINE r == Disabled(k, op)
  <2>1. r \in Row
    BY <1>0 DEF Row, States, Disabled
  <2>2. rows' = [rows EXCEPT ![k] = r] /\ UNCHANGED now
    BY <1>0, <1>7 DEF Disable
  <2>3. Consistent(r)
    BY <1>0, <1>7, NoneAssumption DEF Row, States, Enabled, Consistent, Disable, CanDisable, Disabled
  <2>4. MovesBinding(k, r)
    BY <1>0, <1>7 DEF Row, MovesBinding, KeepsBinding, Disable, CanDisable, Disabled
  <2>5. MovesTrail(k, r)
    BY <1>0, <1>7, NoneAssumption DEF Row, Consistent, MovesTrail, EventKinds, Disable, CanDisable, Disabled, Exists, Enabled
  <2>6. MovesState(k, r)
    BY <1>0, <1>7, NoneAssumption DEF Row, Consistent, MovesState, Disable, CanDisable, Disabled, Exists, Enabled
  <2> QED BY <2>1, <2>2, <2>3, <2>4, <2>5, <2>6 DEF Moves
<1>8. ASSUME NEW b \in Bindings, NEW at \in 0 .. MaxTime, ExpireProvisioning(k, b, at)
      PROVE  \E r \in Row : Moves(k, r)
  <2> DEFINE r == Disabled(k, "reset")
  <2>1. r \in Row
    BY <1>0 DEF Row, States, Disabled
  <2>2. rows' = [rows EXCEPT ![k] = r] /\ UNCHANGED now
    BY <1>0, <1>8 DEF ExpireProvisioning
  <2>3. Consistent(r)
    BY <1>0, <1>8, NoneAssumption DEF Row, States, Enabled, Consistent, ExpireProvisioning, CanExpire, Disabled
  <2>4. MovesBinding(k, r)
    BY <1>0, <1>8 DEF Row, MovesBinding, KeepsBinding, ExpireProvisioning, CanExpire, Disabled
  <2>5. MovesTrail(k, r)
    BY <1>0, <1>8, NoneAssumption DEF Row, Consistent, MovesTrail, EventKinds, ExpireProvisioning, CanExpire, Disabled, Exists, Enabled
  <2>6. MovesState(k, r)
    BY <1>0, <1>8, NoneAssumption DEF Row, Consistent, MovesState, ExpireProvisioning, CanExpire, Disabled, Exists, Enabled
  <2> QED BY <2>1, <2>2, <2>3, <2>4, <2>5, <2>6 DEF Moves
<1>9. ASSUME NEW b \in Bindings \cup {None}, FinishReset(k, b)
      PROVE  \E r \in Row : Moves(k, r)
  <2> DEFINE r == BlankRow("issued", now)
  <2>1. r \in Row
    BY <1>0, BlankRowType DEF States
  <2>2. rows' = [rows EXCEPT ![k] = r] /\ UNCHANGED now
    BY <1>0, <1>9 DEF FinishReset
  <2>3. Consistent(r)
    BY <1>0, <1>9, NoneAssumption DEF Row, States, Enabled, Consistent, FinishReset, CanFinishReset, BlankRow
  <2>4. MovesBinding(k, r)
    BY <1>0, <1>9 DEF Row, MovesBinding, KeepsBinding, FinishReset, CanFinishReset, BlankRow
  <2>5. MovesTrail(k, r)
    BY <1>0, <1>9, NoneAssumption DEF Row, Consistent, MovesTrail, EventKinds, FinishReset, CanFinishReset, BlankRow, Exists, Enabled
  <2>6. MovesState(k, r)
    BY <1>0, <1>9, NoneAssumption DEF Row, Consistent, MovesState, FinishReset, CanFinishReset, BlankRow, Exists, Enabled
  <2> QED BY <2>1, <2>2, <2>3, <2>4, <2>5, <2>6 DEF Moves
<1>10. ASSUME NEW b \in Bindings \cup {None}, FinishRevoke(k, b)
      PROVE  \E r \in Row : Moves(k, r)
  <2> DEFINE r == [rows[k] EXCEPT !.cleanup = FALSE, !.at = now]
  <2>1. r \in Row
    BY <1>0 DEF Row, States
  <2>2. rows' = [rows EXCEPT ![k] = r] /\ UNCHANGED now
    BY <1>0, <1>10 DEF FinishRevoke
  <2>3. Consistent(r)
    BY <1>0, <1>10, NoneAssumption DEF Row, States, Enabled, Consistent, FinishRevoke, CanFinishRevoke
  <2>4. MovesBinding(k, r)
    BY <1>0, <1>10 DEF Row, MovesBinding, KeepsBinding, FinishRevoke, CanFinishRevoke
  <2>5. MovesTrail(k, r)
    BY <1>0, <1>10, NoneAssumption DEF Row, Consistent, MovesTrail, EventKinds, FinishRevoke, CanFinishRevoke, Exists, Enabled
  <2>6. MovesState(k, r)
    BY <1>0, <1>10, NoneAssumption DEF Row, Consistent, MovesState, FinishRevoke, CanFinishRevoke, Exists, Enabled
  <2> QED BY <2>1, <2>2, <2>3, <2>4, <2>5, <2>6 DEF Moves
<1> QED
  BY <1>1, <1>2, <1>3, <1>4, <1>5, <1>6, <1>7, <1>8, <1>9, <1>10
     DEF StoreStep, Suspend, Resume

\* The cases of a step of the store.
LEMMA StoreCases ==
    ASSUME StoreNext
    PROVE  \/ \E k \in Keys : StoreStep(k)
           \/ \E K \in SUBSET {k \in Keys : CanDelete(k)} : Purge(K)
           \/ Tick
<1>1. ASSUME NEW k \in Keys, DeleteRevoked(k)
      PROVE  \E K \in SUBSET {j \in Keys : CanDelete(j)} : Purge(K)
  <2>1. {k} \in SUBSET {j \in Keys : CanDelete(j)}
    BY <1>1 DEF DeleteRevoked
  <2> QED BY <2>1, <1>1 DEF DeleteRevoked
<1>2. ASSUME DeleteAllRevoked
      PROVE  \E K \in SUBSET {j \in Keys : CanDelete(j)} : Purge(K)
  BY <1>2 DEF DeleteAllRevoked
<1>3. \/ \E k \in Keys : StoreStep(k) \/ DeleteRevoked(k)
      \/ DeleteAllRevoked
      \/ Tick
  BY Zenon DEF StoreNext, StoreStep
<1> QED BY <1>1, <1>2, <1>3

-----------------------------------------------------------------------------
(* The invariants are inductive.                                           *)

LEMMA MovesInv ==
    ASSUME StoreInv, NEW k \in Keys, NEW r \in Row, Moves(k, r)
    PROVE  StoreInv'
<1>0. /\ rows' \in [Keys -> Row] /\ rows'[k] = r
      /\ \A j \in Keys : j # k => rows'[j] = rows[j]
  BY WriteRow DEF Moves, StoreInv, StoreTypeOK
<1>1. StoreTypeOK'
  <2>1. events' \in SUBSET (Keys \X EventKinds)
    BY DEF Moves, MovesTrail, StoreInv, StoreTypeOK
  <2>2. minted' \in [Bindings -> (Keys \X Devices) \cup {None}]
    BY DEF Moves, MovesBinding, StoreInv, StoreTypeOK
  <2>3. now' \in 0 .. MaxTime
    BY DEF Moves, StoreInv, StoreTypeOK
  <2> QED BY <1>0, <2>1, <2>2, <2>3 DEF StoreTypeOK
<1>2. RowShape'
  BY <1>0 DEF Moves, StoreInv, RowShape, Consistent
<1>3. BindingOwner'
  <2> SUFFICES ASSUME NEW j \in Keys, rows'[j].binding # None
               PROVE  minted'[rows'[j].binding] = <<j, rows'[j].device>>
    BY DEF BindingOwner
  <2>0. rows \in [Keys -> Row]
    BY DEF StoreInv, StoreTypeOK
  <2>1. CASE KeepsBinding(rows[k], r) /\ UNCHANGED minted
    BY <1>0, <2>1 DEF KeepsBinding, StoreInv, BindingOwner
  <2>2. ASSUME NEW b \in Bindings, NEW d \in Devices, minted[b] = None,
               r.binding = b, r.device = d, minted' = [minted EXCEPT ![b] = <<k, d>>]
        PROVE  minted'[rows'[j].binding] = <<j, rows'[j].device>>
    <3>1. minted \in [Bindings -> (Keys \X Devices) \cup {None}]
      BY DEF StoreInv, StoreTypeOK
    <3>2. CASE j = k
      BY <1>0, <2>2, <3>1, <3>2
    <3>3. CASE j # k
      <4>1. /\ rows[j] \in Row /\ rows'[j] = rows[j]
            /\ rows[j].binding # None
            /\ minted[rows[j].binding] = <<j, rows[j].device>>
        BY <1>0, <3>3 DEF StoreInv, StoreTypeOK, BindingOwner
      <4>2. Consistent(rows[j])
        BY DEF StoreInv, RowShape
      <4>3. <<j, rows[j].device>> # None
        BY <2>0, <4>1, <4>2, NoneAssumption DEF Row, Consistent
      <4> QED BY <2>2, <3>1, <4>1, <4>3 DEF Row
    <3> QED BY <3>2, <3>3
  <2> QED BY <2>1, <2>2 DEF Moves, MovesBinding
<1>4. AuditTrail'
  <2> SUFFICES ASSUME NEW j \in Keys
               PROVE  /\ Exists(j)' => <<j, "created">> \in events'
                      /\ rows'[j].state = "revoked" => <<j, "revoked">> \in events'
                      /\ CanDelete(j)' => <<j, "revoked_cleanup_completed">> \in events'
                      /\ <<j, "deleted">> \in events' =>
                            ~Exists(j)' /\ <<j, "revoked_cleanup_completed">> \in events'
    BY DEF AuditTrail
  <2>1. CASE j = k
    BY <1>0, <2>1 DEF Moves, MovesTrail, MovesState, Exists, CanDelete
  <2>2. CASE j # k
    BY <1>0, <2>2 DEF Moves, MovesTrail, Exists, CanDelete, StoreInv, AuditTrail
  <2> QED BY <2>1, <2>2
<1> QED BY <1>1, <1>2, <1>3, <1>4 DEF StoreInv

LEMMA PurgeInv ==
    ASSUME StoreInv, NEW K \in SUBSET {k \in Keys : CanDelete(k)}, Purge(K)
    PROVE  StoreInv'
<1>0. \A j \in Keys : rows'[j] = IF j \in K THEN NoRow ELSE rows[j]
  BY DEF Purge
<1>1. StoreTypeOK'
  BY NoRowType DEF Purge, StoreInv, StoreTypeOK, EventKinds
<1>2. RowShape'
  BY <1>0, NoRowType DEF StoreInv, RowShape, Consistent
<1>3. BindingOwner'
  BY <1>0 DEF Purge, StoreInv, BindingOwner, NoRow, BlankRow
<1>4. AuditTrail'
  BY <1>0 DEF Purge, StoreInv, AuditTrail, Exists, CanDelete, NoRow, BlankRow
<1> QED BY <1>1, <1>2, <1>3, <1>4 DEF StoreInv

LEMMA StoreInvInit == StoreInit => StoreInv
<1> SUFFICES ASSUME StoreInit PROVE StoreInv
  OBVIOUS
<1>1. StoreTypeOK
  BY NoRowType, ClockAssumption DEF StoreInit, StoreTypeOK
<1>2. RowShape
  BY NoRowType DEF StoreInit, RowShape
<1>3. BindingOwner /\ AuditTrail
  BY DEF StoreInit, BindingOwner, AuditTrail, Exists, CanDelete, NoRow, BlankRow
<1> QED BY <1>1, <1>2, <1>3 DEF StoreInv

LEMMA StoreInvStep == StoreInv /\ [StoreNext]_storeVars => StoreInv'
<1> SUFFICES ASSUME StoreInv, [StoreNext]_storeVars PROVE StoreInv'
  OBVIOUS
<1>1. ASSUME NEW k \in Keys, StoreStep(k) PROVE StoreInv'
  BY <1>1, StepMoves, MovesInv
<1>2. ASSUME NEW K \in SUBSET {k \in Keys : CanDelete(k)}, Purge(K) PROVE StoreInv'
  BY <1>2, PurgeInv
<1>3. CASE Tick
  <2>1. now' \in 0 .. MaxTime
    BY <1>3, ClockAssumption DEF Tick, StoreInv, StoreTypeOK
  <2>2. UNCHANGED <<rows, events, minted>>
    BY <1>3 DEF Tick
  <2> QED BY <2>1, <2>2 DEF StoreInv, StoreTypeOK, RowShape, Consistent, BindingOwner, AuditTrail,
     Exists, CanDelete
<1>4. CASE UNCHANGED storeVars
  BY <1>4 DEF storeVars, StoreInv, StoreTypeOK, RowShape, Consistent, BindingOwner, AuditTrail,
     Exists, CanDelete
<1> QED BY <1>1, <1>2, <1>3, <1>4, StoreCases

\* The key table and its audit trail are consistent after every sequence of the
\* statements of gateway/store.mjs, for any number of keys and devices.
THEOREM StoreInvariant == StoreSpec => []StoreInv
BY StoreInvInit, StoreInvStep, PTL DEF StoreSpec

\* Every column of every row, the audit trail and the clock keep their types.
THEOREM StoreTypeCorrect == StoreSpec => []StoreTypeOK
<1>1. StoreInv => StoreTypeOK
  BY DEF StoreInv
<1> QED BY <1>1, StoreInvariant, PTL

\* A key that can be bound carries nothing of an earlier device, and a key in
\* use has no cleanup outstanding.
THEOREM RowShapeHolds == StoreSpec => []RowShape
<1>1. StoreInv => RowShape
  BY DEF StoreInv
<1> QED BY <1>1, StoreInvariant, PTL

\* One Access Key, one Device: no two rows share a binding id.
THEOREM BindingOwnerHolds == StoreSpec => []BindingOwner
<1>1. StoreInv => BindingOwner
  BY DEF StoreInv
<1> QED BY <1>1, StoreInvariant, PTL

\* The audit trail is never behind the table.
THEOREM AuditTrailHolds == StoreSpec => []AuditTrail
<1>1. StoreInv => AuditTrail
  BY DEF StoreInv
<1> QED BY <1>1, StoreInvariant, PTL

\* All of it: the table is sound for every number of keys and devices, and what
\* happened to a row is on record.
THEOREM StoreIsSoundHolds == StoreSpec => []StoreIsSound
<1>1. StoreInv => StoreIsSound
  BY DEF StoreInv, StoreIsSound
<1> QED BY <1>1, StoreInvariant, PTL

-----------------------------------------------------------------------------
(* The action properties.                                                  *)

\* A revoked key never works again, and a deleted id is never used again.
THEOREM RevokedForGoodHolds == StoreSpec => RevokedForGood
<1> DEFINE Kept == \A k \in Keys :
        /\ rows[k].state = "revoked" => rows'[k].state \in {"revoked", "absent"}
        /\ <<k, "deleted">> \in events => rows'[k].state = "absent"
<1>1. ASSUME StoreInv, StoreNext PROVE Kept
  <2> SUFFICES ASSUME NEW j \in Keys
               PROVE  /\ rows[j].state = "revoked" => rows'[j].state \in {"revoked", "absent"}
                      /\ <<j, "deleted">> \in events => rows'[j].state = "absent"
    OBVIOUS
  <2>0. rows \in [Keys -> Row] /\ (<<j, "deleted">> \in events => rows[j].state = "absent")
    BY <1>1 DEF StoreInv, StoreTypeOK, AuditTrail, Exists
  <2>1. ASSUME NEW k \in Keys, NEW r \in Row, Moves(k, r)
        PROVE  /\ rows[j].state = "revoked" => rows'[j].state \in {"revoked", "absent"}
               /\ <<j, "deleted">> \in events => rows'[j].state = "absent"
    BY <2>0, <2>1, WriteRow DEF Moves, MovesState, MovesTrail
  <2>2. ASSUME NEW K \in SUBSET {k \in Keys : CanDelete(k)}, Purge(K)
        PROVE  /\ rows[j].state = "revoked" => rows'[j].state \in {"revoked", "absent"}
               /\ <<j, "deleted">> \in events => rows'[j].state = "absent"
    BY <2>0, <2>2 DEF Purge, NoRow, BlankRow
  <2>3. CASE Tick
    BY <2>0, <2>3 DEF Tick
  <2> QED BY <1>1, <2>1, <2>2, <2>3, StoreCases, StepMoves
<1>2. StoreInv /\ [StoreNext]_storeVars => [Kept]_storeVars
  BY <1>1
<1> QED BY <1>2, StoreInvariant, PTL DEF StoreSpec, RevokedForGood

\* A binding ends only through the cleanup of a disabled key.
THEOREM BindingEndsInCleanupHolds == StoreSpec => BindingEndsInCleanup
<1> DEFINE Kept(k) == rows[k].binding # None =>
        \/ rows'[k].binding = rows[k].binding /\ rows'[k].device = rows[k].device
        \/ /\ rows'[k].binding = None
           /\ rows[k].state \in {"resetting", "revoked"}
<1>1. ASSUME StoreInv, StoreNext, NEW j \in Keys PROVE Kept(j)
  <2>0. rows \in [Keys -> Row]
    BY <1>1 DEF StoreInv, StoreTypeOK
  <2>1. ASSUME NEW k \in Keys, NEW r \in Row, Moves(k, r) PROVE Kept(j)
    BY <2>0, <2>1, WriteRow DEF Moves, MovesBinding, KeepsBinding
  <2>2. ASSUME NEW K \in SUBSET {k \in Keys : CanDelete(k)}, Purge(K) PROVE Kept(j)
    BY <2>0, <2>2 DEF Purge, CanDelete, NoRow, BlankRow
  <2>3. CASE Tick
    BY <2>0, <2>3 DEF Tick
  <2> QED BY <1>1, <2>1, <2>2, <2>3, StoreCases, StepMoves
<1>2. StoreInv /\ [StoreNext]_storeVars => [\A k \in Keys : Kept(k)]_storeVars
  BY <1>1
<1> QED BY <1>2, StoreInvariant, PTL DEF StoreSpec, BindingEndsInCleanup

-----------------------------------------------------------------------------
(* The key store implements KeyLifecycle, for any number of keys, devices  *)
(* and bindings.  A statement that writes row r over the row of k moves    *)
(* the key's phase as Turn says (StepTurns); each turn is a step of the    *)
(* lifecycle (TurnImplements), as are the deletions (PurgeImplements).     *)

SameOwner(q, r) == r.device = q.device /\ r.binding = q.binding

\* What a statement may make of row q in one step: keep the phase, create,
\* own under a binding never written, deny, let go, or kill.
Turn(q, r) ==
    \/ /\ q.state # "absent" /\ r.state # "absent"
       /\ PhaseOf[r.state] = PhaseOf[q.state]
       /\ SameOwner(q, r) /\ UNCHANGED minted
    \/ /\ q.state = "absent" /\ r.state = "issued"
       /\ SameOwner(q, r) /\ UNCHANGED minted
    \/ /\ q.state = "issued" /\ r.state = "provisioning" /\ q.binding = None
       /\ \E k \in Keys, d \in Devices, b \in Bindings :
            /\ minted[b] = None /\ r.device = d /\ r.binding = b
            /\ minted' = [minted EXCEPT ![b] = <<k, d>>]
    \/ /\ q.state \notin {"absent", "revoked"} /\ r.state = "resetting"
       /\ SameOwner(q, r) /\ UNCHANGED minted
    \/ /\ q.state = "resetting" /\ r.state = "issued"
       /\ r.binding = None /\ UNCHANGED minted
    \/ /\ q.state # "absent" /\ r.state = "revoked"
       /\ SameOwner(q, r) /\ UNCHANGED minted

\* Each statement of the store turns its row.
LEMMA StepTurns ==
    ASSUME StoreInv, NEW k \in Keys, StoreStep(k)
    PROVE  Turn(rows[k], rows'[k])
<1>0. rows \in [Keys -> Row] /\ rows[k] \in Row /\ Consistent(rows[k])
  BY DEF StoreInv, StoreTypeOK, RowShape
<1>1. ASSUME Issue(k) PROVE Turn(rows[k], rows'[k])
  <2>1. rows[k].state = "absent" /\ rows'[k] = BlankRow("issued", now) /\ UNCHANGED minted
    BY <1>0, <1>1 DEF Issue, CanIssue, Exists
  <2>2. rows[k] = BlankRow("absent", rows[k].at)
    BY <1>0, <2>1 DEF Consistent
  <2>3. rows[k].device = None /\ rows[k].binding = None
    BY <2>2 DEF BlankRow
  <2> QED BY <2>1, <2>3 DEF Turn, SameOwner, BlankRow
<1>2. ASSUME NEW d \in Devices, NEW b \in Bindings, Bind(k, d, b)
      PROVE  Turn(rows[k], rows'[k])
  BY <1>0, <1>2 DEF Bind, CanBind, Turn, Row
<1>3. ASSUME NEW b \in Bindings, NEW t \in Tunnels, SaveTunnel(k, b, t)
      PROVE  Turn(rows[k], rows'[k])
  BY <1>0, <1>3 DEF SaveTunnel, CanSaveTunnel, Turn, SameOwner, Enabled, Row
<1>4. ASSUME NEW b \in Bindings, Activate(k, b) PROVE Turn(rows[k], rows'[k])
  BY <1>0, <1>4 DEF Activate, CanActivate, Turn, SameOwner, Enabled, PhaseOf, Row
<1>5. ASSUME NEW b \in Bindings, NEW s \in {"active", "suspended"}, SetAccess(k, b, s)
      PROVE  Turn(rows[k], rows'[k])
  BY <1>0, <1>5 DEF SetAccess, CanPause, Turn, SameOwner, PhaseOf, Row
<1>6. ASSUME NEW b \in Bindings, NEW v \in Versions, ReportVersion(k, b, v)
      PROVE  Turn(rows[k], rows'[k])
  BY <1>0, <1>6 DEF ReportVersion, CanPause, Turn, SameOwner, Row
<1>7. ASSUME NEW op \in {"revoke", "reset"}, NEW b \in Bindings \cup {None}, Disable(k, op, b)
      PROVE  Turn(rows[k], rows'[k])
  BY <1>0, <1>7 DEF Disable, CanDisable, Disabled, Exists, Turn, SameOwner, Row
<1>8. ASSUME NEW b \in Bindings, NEW at \in 0 .. MaxTime, ExpireProvisioning(k, b, at)
      PROVE  Turn(rows[k], rows'[k])
  BY <1>0, <1>8 DEF ExpireProvisioning, CanExpire, Disabled, Turn, SameOwner, Row
<1>9. ASSUME NEW b \in Bindings \cup {None}, FinishReset(k, b)
      PROVE  Turn(rows[k], rows'[k])
  BY <1>0, <1>9 DEF FinishReset, CanFinishReset, BlankRow, Turn, Row
<1>10. ASSUME NEW b \in Bindings \cup {None}, FinishRevoke(k, b)
      PROVE  Turn(rows[k], rows'[k])
  BY <1>0, <1>10 DEF FinishRevoke, CanFinishRevoke, Turn, SameOwner, Row
<1> QED
  BY <1>1, <1>2, <1>3, <1>4, <1>5, <1>6, <1>7, <1>8, <1>9, <1>10
     DEF StoreStep, Suspend, Resume

\* Writing a row that exists leaves the phase and owner of every other key.
LEMMA OtherKeys ==
    ASSUME StoreInv, NEW k \in Keys, NEW r \in Row, Moves(k, r), NEW j \in Keys
    PROVE  /\ Phase(j)' = IF j = k THEN PhaseOf[r.state] ELSE Phase(j)
           /\ Owner(j)' = IF j # k THEN Owner(j)
                          ELSE IF r.binding = None THEN None ELSE <<r.device, r.binding>>
<1>1. rows \in [Keys -> Row]
  BY DEF StoreInv, StoreTypeOK
<1>2. rows'[k] = r /\ (j # k => rows'[j] = rows[j])
  BY <1>1, WriteRow DEF Moves
<1>3. <<j, "deleted">> \in events' <=> <<j, "deleted">> \in events
  BY DEF Moves, MovesTrail
<1>4. r.state # "absent"
  BY DEF Moves, MovesState
<1>5. Phase(j)' = IF j = k THEN PhaseOf[r.state] ELSE Phase(j)
  BY <1>2, <1>3, <1>4 DEF Phase, Exists
<1> QED BY <1>2, <1>5 DEF Owner

\* A turn is a step of the lifecycle, or none.
LEMMA TurnImplements ==
    ASSUME StoreInv, NEW k \in Keys, NEW r \in Row, Moves(k, r), Turn(rows[k], r)
    PROVE  Lifecycle!LifecycleNext \/ UNCHANGED Lifecycle!lifecycleVars
<1> DEFINE phase == [j \in Keys |-> Phase(j)]
           owner == [j \in Keys |-> Owner(j)]
           used == {b \in Bindings : minted[b] # None}
<1>0. /\ rows[k] \in Row /\ Consistent(rows[k])
      /\ minted \in [Bindings -> (Keys \X Devices) \cup {None}]
      /\ <<k, "deleted">> \notin events
  BY DEF StoreInv, StoreTypeOK, RowShape, Moves, MovesTrail
<1>1. phase' = [phase EXCEPT ![k] = PhaseOf[r.state]]
  BY OtherKeys
<1>2. owner' = [owner EXCEPT ![k] =
                  IF r.binding = None THEN None ELSE <<r.device, r.binding>>]
  BY OtherKeys
<1>3. SameOwner(rows[k], r) => owner' = owner
  BY <1>2 DEF Owner, SameOwner
<1>4. UNCHANGED minted => used' = used
  OBVIOUS
<1>5. phase[k] = IF rows[k].state = "absent" THEN "unused" ELSE PhaseOf[rows[k].state]
  BY <1>0 DEF Phase, Exists
<1>6. CASE /\ rows[k].state # "absent" /\ r.state # "absent"
           /\ PhaseOf[r.state] = PhaseOf[rows[k].state]
           /\ SameOwner(rows[k], r) /\ UNCHANGED minted
  <2>1. phase' = phase
    BY <1>1, <1>5, <1>6
  <2> QED BY <2>1, <1>3, <1>4, <1>6 DEF Lifecycle!lifecycleVars
<1>7. CASE /\ rows[k].state = "absent" /\ r.state = "issued"
           /\ SameOwner(rows[k], r) /\ UNCHANGED minted
  <2>1. Lifecycle!Create(k)
    BY <1>1, <1>3, <1>4, <1>5, <1>7 DEF Lifecycle!Create, PhaseOf
  <2> QED BY <2>1 DEF Lifecycle!LifecycleNext
<1>8. ASSUME rows[k].state = "issued", r.state = "provisioning", rows[k].binding = None,
             NEW i \in Keys, NEW d \in Devices, NEW b \in Bindings,
             minted[b] = None, r.device = d, r.binding = b,
             minted' = [minted EXCEPT ![b] = <<i, d>>]
      PROVE  Lifecycle!LifecycleNext
  <2>1. b \notin used /\ b # None /\ <<i, d>> # None
    BY <1>8, NoneAssumption
  <2>2. used' = used \cup {b}
    BY <1>0, <1>8, <2>1
  <2>3. owner' = [owner EXCEPT ![k] = <<d, b>>]
    BY <1>2, <1>8, <2>1
  <2>4. Lifecycle!Own(k, d, b)
    BY <1>1, <1>5, <1>8, <2>1, <2>2, <2>3 DEF Lifecycle!Own, PhaseOf
  <2> QED BY <2>4 DEF Lifecycle!LifecycleNext
<1>9. CASE /\ rows[k].state \notin {"absent", "revoked"} /\ r.state = "resetting"
           /\ SameOwner(rows[k], r) /\ UNCHANGED minted
  <2>1. PhaseOf[rows[k].state] \in {"free", "owned", "denied"}
    BY <1>0, <1>9 DEF Row, States, PhaseOf
  <2>2. Lifecycle!Deny(k)
    BY <1>1, <1>3, <1>4, <1>5, <1>9, <2>1 DEF Lifecycle!Deny, PhaseOf
  <2> QED BY <2>2 DEF Lifecycle!LifecycleNext
<1>10. CASE /\ rows[k].state = "resetting" /\ r.state = "issued"
            /\ r.binding = None /\ UNCHANGED minted
  <2>1. Lifecycle!LetGo(k)
    BY <1>1, <1>2, <1>4, <1>5, <1>10 DEF Lifecycle!LetGo, PhaseOf
  <2> QED BY <2>1 DEF Lifecycle!LifecycleNext
<1>11. CASE /\ rows[k].state # "absent" /\ r.state = "revoked"
            /\ SameOwner(rows[k], r) /\ UNCHANGED minted
  <2>1. PhaseOf[rows[k].state] \notin {"unused", "gone"}
    BY <1>0, <1>11 DEF Row, States, PhaseOf
  <2>2. Lifecycle!Kill(k)
    BY <1>1, <1>3, <1>4, <1>5, <1>11, <2>1 DEF Lifecycle!Kill, PhaseOf
  <2> QED BY <2>2 DEF Lifecycle!LifecycleNext
<1> QED BY <1>6, <1>7, <1>8, <1>9, <1>10, <1>11 DEF Turn

\* So is deleting the records of revoked keys.
LEMMA PurgeImplements ==
    ASSUME StoreInv, NEW K \in SUBSET {k \in Keys : CanDelete(k)}, Purge(K)
    PROVE  Lifecycle!LifecycleNext
<1> DEFINE phase == [j \in Keys |-> Phase(j)]
           owner == [j \in Keys |-> Owner(j)]
           used == {b \in Bindings : minted[b] # None}
<1>1. \A j \in Keys : /\ rows'[j] = IF j \in K THEN NoRow ELSE rows[j]
                      /\ <<j, "deleted">> \in events' <=> j \in K \/ <<j, "deleted">> \in events
  BY DEF Purge
<1>2. \A j \in K : phase[j] = "dead"
  BY DEF CanDelete, Phase, Exists, PhaseOf
<1>3. phase' = [j \in Keys |-> IF j \in K THEN "gone" ELSE phase[j]]
  BY <1>1 DEF Phase, Exists, NoRow, BlankRow
<1>4. owner' = [j \in Keys |-> IF j \in K THEN None ELSE owner[j]]
  <2>1. NoRow.binding = None
    BY DEF NoRow, BlankRow
  <2>2. \A j \in Keys : Owner(j)' = IF j \in K THEN None ELSE Owner(j)
    BY <1>1, <2>1 DEF Owner
  <2> QED BY <2>2
<1>5. used' = used
  BY DEF Purge
<1>6. Lifecycle!Bury(K)
  BY <1>2, <1>3, <1>4, <1>5 DEF Lifecycle!Bury
<1> QED BY <1>6 DEF Lifecycle!LifecycleNext

LEMMA LifecycleStep ==
    StoreInv /\ [StoreNext]_storeVars => [Lifecycle!LifecycleNext]_(Lifecycle!lifecycleVars)
<1> SUFFICES ASSUME StoreInv, [StoreNext]_storeVars
             PROVE  Lifecycle!LifecycleNext \/ UNCHANGED Lifecycle!lifecycleVars
  OBVIOUS
<1>1. ASSUME NEW k \in Keys, StoreStep(k)
      PROVE  Lifecycle!LifecycleNext \/ UNCHANGED Lifecycle!lifecycleVars
  <2>1. PICK r \in Row : Moves(k, r)
    BY <1>1, StepMoves
  <2>2. rows'[k] = r
    BY <2>1, WriteRow DEF Moves, StoreInv, StoreTypeOK
  <2>3. Turn(rows[k], r)
    BY <1>1, <2>2, StepTurns
  <2> QED BY <2>1, <2>3, TurnImplements
<1>2. ASSUME NEW K \in SUBSET {k \in Keys : CanDelete(k)}, Purge(K)
      PROVE  Lifecycle!LifecycleNext
  BY <1>2, PurgeImplements
<1>3. CASE UNCHANGED <<rows, events, minted>>
  BY <1>3 DEF Lifecycle!lifecycleVars, Phase, Owner, Exists
<1> QED BY <1>1, <1>2, <1>3, StoreCases DEF Tick, storeVars

LEMMA LifecycleStart == StoreInit => Lifecycle!LifecycleInit
BY NoneAssumption DEF StoreInit, Lifecycle!LifecycleInit, Phase, Owner, Exists, NoRow, BlankRow

\* Whatever the order of the store's statements, an access key has one owner at
\* a time under a fresh binding, is denied before it is let go, and never
\* returns from the dead.
THEOREM StoreImplementsLifecycle == StoreSpec => ImplementsLifecycle
BY LifecycleStart, LifecycleStep, StoreInvariant, PTL
   DEF StoreSpec, ImplementsLifecycle, Lifecycle!LifecycleSpec
=============================================================================
