---------------------------- MODULE ClientProofs ----------------------------
(***************************************************************************)
(* Three programs of a device that run for long and meet others.           *)
(*                                                                         *)
(* LocalOAuth: one flight, good tokens and no needless grant, for any      *)
(* number of calls and Gateways, any life of a token and any faults.  The  *)
(* argument is about two clocks: what DevSpace issued ends Life after it   *)
(* was issued, what the Bridge noted Life after the answer came, at most   *)
(* Timeout later; the margin it keeps is at least as wide.                 *)
(*                                                                         *)
(* Scheduler: no check and no attempt before its time, for any number of   *)
(* releases and mishaps and any delays.  What is owed is on record, and    *)
(* restarts, installers and requests by hand leave the records their due.  *)
(*                                                                         *)
(* Standalone: one keeper at a time whose workers the record leads to,     *)
(* pauses that hold and strangers left alone, for any number of processes, *)
(* launches and kills.  A birth time outlives every process id, and what   *)
(* a keeper or its caller has read stays true as long as it is acted upon. *)
(***************************************************************************)
EXTENDS LocalOAuth, Scheduler, Standalone, SequenceTheorems, FiniteSetTheorems, TLAPS

Pair == [resource: Resources, until: Life .. MaxTime + Life, honoured: BOOLEAN]

Flow == [pc: {"none", "begin", "refresh", "register", "authorize", "exchange", "answer", "write"},
         got: 0 .. Len(pairs)]

\* What is noted of a pair agrees with what was issued.
CredOK(cred) ==
    /\ cred.pair = 0 => cred.expires = 0
    /\ cred.pair # 0 => /\ pairs[cred.pair].resource = cred.resource
                        /\ cred.expires <= pairs[cred.pair].until + Timeout
CredsOK ==
    /\ CredOK(file)
    /\ mem # None => CredOK(mem) /\ (mem.pair # 0 => mem.resource = resource)

\* Where a flow is, says what it has in hand.
FlowOK(f) ==
    /\ flow[f].pc \notin {"answer", "write"} => flow[f].got = 0
    /\ flow[f].pc \in {"refresh", "write"} => mem # None /\ mem.pair # 0
    /\ flow[f].pc = "answer" => /\ flow[f].got # 0
                                /\ pairs[flow[f].got].resource = resource
                                /\ now <= pairs[flow[f].got].until - Life + Timeout
    /\ flow[f].pc = "write" => pairs[mem.pair].until > now

WaitsForSome == \A c \in Calls : calls[c].pc = "waits" => calls[c].on # None
OAuthInv == OneFlight /\ WaitsForSome /\ CredsOK /\ \A f \in Calls : FlowOK(f)

LEMMA Widths == Life \in Nat /\ Margin \in Nat /\ Timeout \in Nat /\ MaxTime \in Nat /\ MaxFaults \in Nat
BY OAuthAssumption

LEMMA NoneIsNoRecord ==
    ASSUME OAuthTypeOK
    PROVE  None \notin Credentials
<1>1. Len(pairs) \in Nat
  BY LenProperties DEF OAuthTypeOK
<1>2. Credentials \subseteq [resource: Resources \cup {None}, pair: Nat, expires: Nat]
  BY <1>1, Widths DEF Credentials
<1> QED BY <1>2, OAuthAssumption

-----------------------------------------------------------------------------
(* What DevSpace issues, and ends.                                         *)

\* Its pairs, with one more or with another state of a refresh token, are still
\* what they were.
Grown(q) ==
    /\ q \in Seq(Pair) /\ Len(pairs) <= Len(q)
    /\ \A i \in 1 .. Len(pairs) : q[i].resource = pairs[i].resource /\ q[i].until = pairs[i].until

LEMMA Ended ==
    ASSUME OAuthTypeOK, NEW n \in 1 .. Len(pairs), NEW b \in BOOLEAN
    PROVE  Grown([pairs EXCEPT ![n].honoured = b]) /\ Len([pairs EXCEPT ![n].honoured = b]) = Len(pairs)
<1>1. pairs \in Seq(Pair) /\ pairs[n] \in Pair
  BY ElementOfSeq DEF OAuthTypeOK, Pair
<1> DEFINE e == [pairs[n] EXCEPT !.honoured = b]
<1>2. e \in Pair /\ e.resource = pairs[n].resource /\ e.until = pairs[n].until
  BY <1>1 DEF Pair
<1> HIDE DEF e
<1>3. [pairs EXCEPT ![n].honoured = b] = [pairs EXCEPT ![n] = e]
  BY <1>1 DEF e
<1>4. /\ [pairs EXCEPT ![n] = e] \in Seq(Pair) /\ Len([pairs EXCEPT ![n] = e]) = Len(pairs)
      /\ \A i \in 1 .. Len(pairs) : [pairs EXCEPT ![n] = e][i] = IF i = n THEN e ELSE pairs[i]
  BY <1>1, <1>2, ExceptSeq
<1>5. Len(pairs) \in Nat
  BY <1>1, LenProperties
<1> QED BY <1>2, <1>3, <1>4, <1>5 DEF Grown

LEMMA Issued ==
    ASSUME OAuthTypeOK, NEW q, Grown(q), Len(q) = Len(pairs), NEW f \in Calls, Issue(f, q)
    PROVE  /\ Grown(pairs') /\ Len(pairs') = Len(pairs) + 1
           /\ flow' = [flow EXCEPT ![f] = [pc |-> "answer", got |-> Len(pairs')]]
           /\ pairs'[Len(pairs')].resource = resource /\ pairs'[Len(pairs')].until = now + Life
<1> DEFINE e == [resource |-> resource, until |-> now + Life, honoured |-> TRUE]
<1>1. e \in Pair
  BY OAuthAssumption DEF OAuthTypeOK, Pair
<1>2. q \in Seq(Pair) /\ Len(q) \in Nat /\ pairs' = Append(q, e)
  BY LenProperties DEF Grown, Issue
<1>3. e.resource = resource /\ e.until = now + Life
  OBVIOUS
<1> HIDE DEF e
<1>4. /\ Append(q, e) \in Seq(Pair) /\ Len(Append(q, e)) = Len(q) + 1
      /\ \A i \in 1 .. Len(q) : Append(q, e)[i] = q[i]
      /\ Append(q, e)[Len(q) + 1] = e
  BY <1>1, <1>2, AppendProperties
<1>5. Len(pairs') = Len(q) + 1 /\ \A i \in 1 .. Len(q) : pairs'[i] = q[i]
  BY <1>2, <1>4
<1>6. Grown(pairs')
  <2>1. Len(pairs) <= Len(pairs') /\ pairs' \in Seq(Pair)
    BY <1>2, <1>4, <1>5
  <2> QED BY <1>5, <2>1 DEF Grown
<1>7. flow' = [flow EXCEPT ![f] = [pc |-> "answer", got |-> Len(q) + 1]]
  BY DEF Issue
<1> QED BY <1>2, <1>3, <1>4, <1>5, <1>6, <1>7

\* So what was noted of a pair still agrees with it.
LEMMA StillOK ==
    ASSUME OAuthTypeOK, Grown(pairs'), NEW cred \in Credentials
    PROVE  cred \in Credentials' /\ (CredOK(cred) => CredOK(cred)')
<1>1. Len(pairs) \in Nat /\ Len(pairs') \in Nat /\ Len(pairs) <= Len(pairs')
  BY LenProperties DEF OAuthTypeOK, Grown
<1>2. cred.pair \in 0 .. Len(pairs) /\ cred.pair \in 0 .. Len(pairs')
  BY <1>1 DEF Credentials
<1>3. cred \in Credentials'
  BY <1>2 DEF Credentials
<1>4. cred.pair # 0 => /\ pairs'[cred.pair].resource = pairs[cred.pair].resource
                       /\ pairs'[cred.pair].until = pairs[cred.pair].until
  BY <1>1, <1>2 DEF Grown
<1> QED BY <1>3, <1>4 DEF CredOK

-----------------------------------------------------------------------------
(* One lemma for each action.                                              *)

\* The flow of f ends, whatever the calls that wait for it are told.
LEMMA Settles ==
    ASSUME OAuthInv, NEW f \in Calls, NEW o \in [pc: {"has", "failed"}, on: {None}, pair: 0 .. Len(pairs)],
           Settle(f, o), UNCHANGED <<resource, pairs, now>>, faults' \in 0 .. MaxFaults,
           mem' \in Credentials \cup {None}, file' \in Credentials, CredsOK', pending = f
    PROVE  OAuthInv'
<1>1. flow' = [flow EXCEPT ![f] = NoFlow] /\ pending' = None /\ flow \in [Calls -> Flow]
  BY DEF Settle, OAuthInv, OneFlight, OAuthTypeOK, Flow
<1>2. \A g \in Calls : flow'[g].pc = "none" /\ flow'[g].got = 0
  BY <1>1 DEF OAuthInv, OneFlight, FlowOK, NoFlow
<1>3. OAuthTypeOK'
  <2>1. Len(pairs) \in Nat
    BY LenProperties DEF OAuthInv, OneFlight, OAuthTypeOK
  <2>2. NoFlow \in Flow
    BY <2>1 DEF NoFlow, Flow
  <2>3. calls' \in [Calls -> [pc: {"idle", "waits", "has", "failed"}, on: Calls \cup {None}, pair: 0 .. Len(pairs)]]
    BY DEF Settle, OAuthInv, OneFlight, OAuthTypeOK
  <2> QED BY <1>1, <2>2, <2>3 DEF OAuthInv, OneFlight, OAuthTypeOK, Credentials, Flow
<1>4. OneFlight'
  <2>1. \A g \in Calls : flow'[g].pc # "none" <=> pending' = g
    BY <1>1, <1>2, OAuthAssumption
  <2>2. \A c \in Calls : calls'[c].pc # "waits"
    BY DEF Settle, OAuthInv, OneFlight
  <2> QED BY <1>3, <2>1, <2>2 DEF OneFlight
<1>5. \A g \in Calls : FlowOK(g)'
  BY <1>2 DEF FlowOK
<1>6. WaitsForSome'
  BY DEF Settle, OAuthInv, OneFlight, WaitsForSome
<1> QED BY <1>4, <1>5, <1>6 DEF OAuthInv
LEMMA Asks == ASSUME OAuthInv, NEW c \in Calls, Ask(c) PROVE OAuthInv'
<1>0. Len(pairs) \in Nat
  BY LenProperties DEF OAuthInv, OneFlight, OAuthTypeOK
<1>1. CASE mem # None /\ Fresh(mem)
  <2>1. calls' = [calls EXCEPT ![c] = [pc |-> "has", on |-> None, pair |-> mem.pair]]
        /\ UNCHANGED <<mem, file, resource, pending, flow, pairs, now, faults>>
    BY <1>1 DEF Ask
  <2>2. mem \in Credentials
    BY <1>1 DEF OAuthInv, OneFlight, OAuthTypeOK
  <2>3. OneFlight' /\ WaitsForSome'
    BY <1>0, <2>1, <2>2 DEF OAuthInv, OneFlight, OAuthTypeOK, Credentials, WaitsForSome
  <2> QED BY <2>1, <2>3 DEF OAuthInv, CredsOK, CredOK, FlowOK
<1>2. CASE ~(mem # None /\ Fresh(mem)) /\ pending # None
  <2>1. calls' = [calls EXCEPT ![c] = [pc |-> "waits", on |-> pending, pair |-> 0]]
        /\ UNCHANGED <<mem, file, resource, pending, flow, pairs, now, faults>>
    BY <1>2 DEF Ask, Join
  <2>2. OneFlight' /\ WaitsForSome'
    BY <1>0, <1>2, <2>1 DEF OAuthInv, OneFlight, OAuthTypeOK, Credentials, WaitsForSome
  <2> QED BY <2>1, <2>2 DEF OAuthInv, CredsOK, CredOK, FlowOK
<1>3. CASE ~(mem # None /\ Fresh(mem)) /\ pending = None
  <2>1. pending' = c /\ flow' = [flow EXCEPT ![c] = [pc |-> "begin", got |-> 0]]
    BY <1>3 DEF Ask, Join, NoFlow
  <2>2. calls' = [calls EXCEPT ![c] = [pc |-> "waits", on |-> c, pair |-> 0]]
    BY <1>3, <2>1 DEF Ask
  <2>3. UNCHANGED <<mem, file, resource, pairs, now, faults>>
    BY DEF Ask
  <2>4. \A d \in Calls : calls[d].pc # "waits" \/ calls[d].on = None
    BY <1>3 DEF OAuthInv, OneFlight
  <2>5. \A d \in Calls : calls[d].pc = "waits" => calls[d].on # None
    BY DEF OAuthInv, WaitsForSome
  <2>6. OAuthTypeOK'
    BY <1>0, <2>1, <2>2, <2>3 DEF OAuthInv, OneFlight, OAuthTypeOK, Credentials
  <2>7. OneFlight'
    BY <1>3, <2>1, <2>2, <2>4, <2>5, <2>6, OAuthAssumption DEF OAuthInv, OneFlight, OAuthTypeOK
  <2>8. \A f \in Calls : FlowOK(f)'
    BY <2>1, <2>3 DEF OAuthInv, OneFlight, OAuthTypeOK, FlowOK
  <2> QED BY <2>2, <2>3, <2>5, <2>7, <2>8, OAuthAssumption
          DEF OAuthInv, WaitsForSome, CredsOK, CredOK, OneFlight, OAuthTypeOK
<1> QED BY <1>1, <1>2, <1>3 DEF Ask

LEMMA Leaves == ASSUME OAuthInv, NEW c \in Calls, Leave(c) PROVE OAuthInv'
<1>0. Len(pairs) \in Nat
  BY LenProperties DEF OAuthInv, OneFlight, OAuthTypeOK
<1> QED BY <1>0 DEF Leave, Open, OAuthInv, WaitsForSome, OneFlight, OAuthTypeOK, Credentials, CredsOK, CredOK, FlowOK

\* A flow goes on within itself.
LEMMA GoesOn ==
    ASSUME OAuthInv, NEW f \in Calls, flow[f].pc # "none",
           NEW pc \in {"refresh", "register", "authorize", "exchange"}, Proceed(f, pc),
           flow[f].pc \notin {"answer", "write"},
           UNCHANGED <<file, resource, pairs, now, faults>>,
           mem' \in Credentials \cup {None}, CredsOK',
           pc = "refresh" => mem' # None /\ mem'.pair # 0
    PROVE  OAuthInv'
<1>1. flow' = [flow EXCEPT ![f].pc = pc] /\ UNCHANGED <<pending, calls>> /\ flow \in [Calls -> Flow]
  BY DEF Proceed, OAuthInv, OneFlight, OAuthTypeOK, Flow
<1>2. \A g \in Calls : g # f => flow'[g].pc = "none" /\ flow'[g].got = 0
  BY <1>1 DEF OAuthInv, OneFlight, FlowOK
<1>3. flow' \in [Calls -> Flow] /\ flow'[f].pc = pc /\ flow'[f].got = 0
  BY <1>1 DEF OAuthInv, FlowOK, Flow
<1>4. OneFlight'
  BY <1>1, <1>3 DEF OAuthInv, OneFlight, OAuthTypeOK, Flow, Credentials
<1>5. \A g \in Calls : FlowOK(g)'
  BY <1>2, <1>3 DEF FlowOK
<1> QED BY <1>1, <1>4, <1>5 DEF OAuthInv, WaitsForSome

LEMMA Begins == ASSUME OAuthInv, NEW f \in Calls, Obtain(f) PROVE OAuthInv'
<1> DEFINE known == IF mem = None THEN file ELSE mem
<1>0. Len(pairs) \in Nat /\ pending = f /\ flow[f].pc = "begin"
  BY LenProperties DEF OAuthInv, OneFlight, OAuthTypeOK, Obtain
<1>1. known \in Credentials /\ CredOK(known) /\ known # None
  BY NoneIsNoRecord DEF OAuthInv, OneFlight, OAuthTypeOK, CredsOK
<1>2. Blank \in Credentials /\ CredOK(Blank) /\ Blank # None
  BY <1>0, Widths, NoneIsNoRecord DEF Blank, Credentials, CredOK, OAuthInv, OneFlight, OAuthTypeOK
<1>3. mem' = (IF known.resource = resource THEN known ELSE Blank)
  BY DEF Obtain
<1>4. UNCHANGED <<file, resource, pairs, now, faults>>
  BY DEF Obtain
<1>5. mem' \in Credentials /\ CredsOK' /\ mem' # None
  <2>1. mem' \in Credentials /\ mem' # None /\ (mem'.pair # 0 => mem'.resource = resource)
    BY <1>1, <1>2, <1>3 DEF Blank
  <2>2. CredOK(mem)'
    <3> HIDE DEF known
    <3>1. CASE mem' = known
      BY <1>1, <1>4, <3>1 DEF CredOK
    <3>2. CASE mem' = Blank
      BY <1>2, <1>4, <3>2 DEF CredOK
    <3> QED BY <1>3, <3>1, <3>2
  <2> QED BY <1>4, <2>1, <2>2 DEF OAuthInv, CredsOK, CredOK
<1>6. CASE Resolve(f, mem'.pair)
  <2>1. [pc |-> "has", on |-> None, pair |-> mem'.pair] \in [pc: {"has", "failed"}, on: {None}, pair: 0 .. Len(pairs)]
    BY <1>5 DEF Credentials
  <2>2. file' \in Credentials /\ faults' \in 0 .. MaxFaults
    BY <1>4 DEF OAuthInv, OneFlight, OAuthTypeOK
  <2> QED BY <1>0, <1>4, <1>5, <1>6, <2>1, <2>2, Settles DEF Resolve
<1>7. CASE Proceed(f, IF mem'.pair # 0 THEN "refresh" ELSE "register")
  BY <1>0, <1>4, <1>5, <1>7, GoesOn
<1> QED BY <1>6, <1>7 DEF Obtain

\* DevSpace issues a pair for a flow.
LEMMA Issues ==
    ASSUME OAuthInv, NEW f \in Calls, flow[f].pc # "none", NEW q, Grown(q), Len(q) = Len(pairs), Issue(f, q),
           UNCHANGED <<mem, file, resource, now, faults>>
    PROVE  OAuthInv'
<1>0. Len(pairs) \in Nat /\ OAuthTypeOK /\ pending = f
  BY LenProperties DEF OAuthInv, OneFlight, OAuthTypeOK
<1> DEFINE n == Len(pairs')
<1>1. /\ Grown(pairs') /\ n = Len(pairs) + 1
      /\ flow' = [flow EXCEPT ![f] = [pc |-> "answer", got |-> n]]
      /\ pairs'[n].resource = resource /\ pairs'[n].until = now + Life
  BY <1>0, Issued
<1>2. UNCHANGED <<pending, calls>>
  BY DEF Issue
<1> HIDE DEF n
<1>3. flow \in [Calls -> Flow] /\ \A g \in Calls : g # f => flow[g].pc = "none" /\ flow[g].got = 0
  BY <1>0 DEF OAuthInv, OneFlight, OAuthTypeOK, Flow, FlowOK
<1>4. /\ mem \in Credentials \cup {None} => mem' \in Credentials' \cup {None}
      /\ file' \in Credentials' /\ CredsOK'
  <2>1. file' \in Credentials' /\ CredOK(file)'
    <3>1. PICK y \in Credentials : y = file
      BY <1>0 DEF OAuthTypeOK
    <3>2. y \in Credentials' /\ CredOK(y)'
      BY <1>0, <1>1, <3>1, StillOK DEF OAuthInv, CredsOK
    <3> QED BY <3>1, <3>2 DEF CredOK
  <2>2. ASSUME mem # None PROVE mem' \in Credentials' /\ CredOK(mem)'
    <3>1. PICK y \in Credentials : y = mem
      BY <1>0, <2>2 DEF OAuthTypeOK
    <3>2. y \in Credentials' /\ CredOK(y)'
      BY <1>0, <1>1, <2>2, <3>1, StillOK DEF OAuthInv, CredsOK
    <3> QED BY <3>1, <3>2 DEF CredOK
  <2> QED BY <2>1, <2>2 DEF OAuthInv, CredsOK
<1>5. OAuthTypeOK'
  <2>1. flow' \in [Calls -> [pc: {"none", "begin", "refresh", "register", "authorize", "exchange", "answer", "write"},
                             got: 0 .. Len(pairs')]]
    BY <1>0, <1>1, <1>3 DEF Flow, n
  <2>2. calls' \in [Calls -> [pc: {"idle", "waits", "has", "failed"}, on: Calls \cup {None}, pair: 0 .. Len(pairs')]]
    BY <1>0, <1>1, <1>2 DEF OAuthTypeOK, n
  <2>3. pairs' \in Seq([resource: Resources, until: Life .. MaxTime + Life, honoured: BOOLEAN])
    BY <1>1 DEF Grown, Pair
  <2> QED BY <1>0, <1>2, <1>4, <2>1, <2>2, <2>3 DEF OAuthTypeOK
<1>6. OneFlight' /\ WaitsForSome'
  BY <1>0, <1>1, <1>2, <1>3, <1>5 DEF OAuthInv, OneFlight, WaitsForSome
<1>7. \A g \in Calls : FlowOK(g)'
  <2>1. FlowOK(f)'
    BY <1>0, <1>1, <1>3, OAuthAssumption DEF FlowOK, OAuthTypeOK
  <2>2. ASSUME NEW g \in Calls, g # f PROVE FlowOK(g)'
    BY <1>1, <1>3, <2>2 DEF FlowOK
  <2> QED BY <2>1, <2>2
<1> QED BY <1>4, <1>6, <1>7 DEF OAuthInv

LEMMA Refreshes == ASSUME OAuthInv, NEW f \in Calls, Refresh(f) PROVE OAuthInv'
<1>0. /\ OAuthTypeOK /\ flow[f].pc = "refresh" /\ mem \in Credentials /\ mem.pair \in 1 .. Len(pairs)
      /\ UNCHANGED <<mem, file, resource, now, faults>>
  BY LenProperties DEF OAuthInv, OneFlight, OAuthTypeOK, FlowOK, Refresh, Credentials
<1>1. ASSUME NEW r \in BOOLEAN, Issue(f, [pairs EXCEPT ![mem.pair].honoured = r]) PROVE OAuthInv'
  <2>2. /\ Grown([pairs EXCEPT ![mem.pair].honoured = r])
        /\ Len([pairs EXCEPT ![mem.pair].honoured = r]) = Len(pairs)
    BY <1>0, Ended
  <2> QED BY <1>0, <1>1, <2>2, Issues
<1>2. CASE Proceed(f, "register") /\ UNCHANGED pairs
  BY <1>0, <1>2, GoesOn DEF OAuthInv, CredsOK, CredOK
<1> QED BY <1>1, <1>2 DEF Refresh

LEMMA Grants == ASSUME OAuthInv, NEW f \in Calls, Grant(f) PROVE OAuthInv'
<1>0. OAuthTypeOK /\ mem \in Credentials \cup {None} /\ UNCHANGED <<mem, file, resource, now, faults>>
  BY DEF OAuthInv, OneFlight, OAuthTypeOK, Grant
<1>1. CASE Issue(f, pairs) /\ flow[f].pc = "exchange"
  <2>1. Grown(pairs)
    BY <1>0, LenProperties DEF Grown, OAuthTypeOK, Pair
  <2> QED BY <1>0, <1>1, <2>1, Issues
<1>2. CASE flow[f].pc = "register" /\ Proceed(f, "authorize") /\ UNCHANGED pairs
  BY <1>0, <1>2, GoesOn DEF OAuthInv, CredsOK, CredOK
<1>3. CASE flow[f].pc = "authorize" /\ Proceed(f, "exchange") /\ UNCHANGED pairs
  BY <1>0, <1>3, GoesOn DEF OAuthInv, CredsOK, CredOK
<1> QED BY <1>1, <1>2, <1>3 DEF Grant

LEMMA Saves == ASSUME OAuthInv, NEW f \in Calls, Save(f) PROVE OAuthInv'
<1>0. /\ OAuthTypeOK /\ flow \in [Calls -> Flow] /\ pending = f /\ Len(pairs) \in Nat
      /\ \A g \in Calls : g # f => flow[g].pc = "none"
  BY LenProperties DEF OAuthInv, OneFlight, OAuthTypeOK, Flow, Save
<1> DEFINE n == flow[f].got
<1>1. /\ n \in 1 .. Len(pairs) /\ pairs[n].resource = resource /\ now <= pairs[n].until - Life + Timeout
      /\ pairs[n] \in Pair
  <2>1. n \in 1 .. Len(pairs) /\ pairs[n].resource = resource /\ now <= pairs[n].until - Life + Timeout
    BY <1>0 DEF OAuthInv, FlowOK, Save, Flow
  <2> QED BY <1>0, <2>1, ElementOfSeq DEF OAuthTypeOK, Pair
<1>2. /\ mem' = [resource |-> resource, pair |-> n, expires |-> now + Life]
      /\ flow' = [flow EXCEPT ![f].pc = "write"]
      /\ UNCHANGED <<pending, calls, file, resource, pairs, now, faults>>
  BY DEF Save, Proceed
<1> HIDE DEF n
<1>3. n # 0 /\ now + Life <= pairs[n].until + Timeout /\ pairs[n].until > now /\ now + Life \in 0 .. MaxTime + Life
  <2>1. pairs[n].until \in Nat /\ now \in Nat /\ now <= MaxTime /\ n \in Nat /\ n # 0
    BY <1>0, <1>1, Widths DEF OAuthTypeOK, Pair
  <2>2. PICK until \in Nat : until = pairs[n].until
    BY <2>1
  <2>3. Timeout < Life /\ Life \in Nat /\ Timeout \in Nat /\ MaxTime \in Nat
    BY Widths, OAuthAssumption
  <2>4. now <= until - Life + Timeout
    BY <1>1, <2>2
  <2>5. now + Life <= until + Timeout /\ until > now /\ now + Life \in 0 .. MaxTime + Life
    BY <2>1, <2>3, <2>4
  <2> QED BY <2>1, <2>2, <2>5
<1>4. mem' \in Credentials /\ mem' # None /\ mem'.pair = n /\ mem'.resource = resource /\ mem'.expires = now + Life
  <2>1. mem' \in Credentials
    BY <1>0, <1>1, <1>2, <1>3 DEF Credentials, OAuthTypeOK
  <2> QED BY <1>0, <1>2, <2>1, NoneIsNoRecord
<1>5. CredsOK'
  BY <1>1, <1>2, <1>3, <1>4 DEF CredsOK, CredOK, OAuthInv
<1>6. OneFlight' /\ WaitsForSome'
  <2>1. flow' \in [Calls -> Flow] /\ \A g \in Calls : flow'[g].pc # "none" <=> flow[g].pc # "none"
    BY <1>0, <1>2 DEF Save, Flow
  <2>2. OAuthTypeOK'
    BY <1>0, <1>2, <1>4, <2>1 DEF OAuthTypeOK, Credentials, Flow
  <2> QED BY <1>2, <2>1, <2>2 DEF OAuthInv, OneFlight, WaitsForSome
<1>7. \A g \in Calls : FlowOK(g)'
  BY <1>0, <1>1, <1>2, <1>3, <1>4 DEF FlowOK, OAuthInv, Flow
<1> QED BY <1>5, <1>6, <1>7 DEF OAuthInv

LEMMA Writes == ASSUME OAuthInv, NEW f \in Calls, Write(f) PROVE OAuthInv'
<1>1. /\ mem \in Credentials /\ mem # None /\ pending = f /\ faults \in 0 .. MaxFaults
      /\ UNCHANGED <<mem, resource, pairs, now, faults>> /\ file' = mem
  BY DEF OAuthInv, OneFlight, OAuthTypeOK, FlowOK, Write
<1>2. CredsOK'
  BY <1>1 DEF OAuthInv, CredsOK, CredOK
<1>3. [pc |-> "has", on |-> None, pair |-> mem.pair] \in [pc: {"has", "failed"}, on: {None}, pair: 0 .. Len(pairs)]
  BY <1>1 DEF Credentials
<1> QED BY <1>1, <1>2, <1>3, Settles DEF Write, Resolve

LEMMA Loses == ASSUME OAuthInv, NEW f \in Calls, Lose(f) PROVE OAuthInv'
<1>1. /\ mem' \in Credentials \cup {None} /\ file' \in Credentials /\ pending = f
      /\ UNCHANGED <<resource, pairs, now>> /\ Len(pairs) \in Nat
  BY LenProperties DEF OAuthInv, OneFlight, OAuthTypeOK, Lose
<1>2. faults' \in 0 .. MaxFaults
  BY OAuthAssumption DEF OAuthInv, OneFlight, OAuthTypeOK, Lose, Strike
<1>3. CredsOK'
  BY DEF OAuthInv, CredsOK, CredOK, Lose
<1>4. [pc |-> "failed", on |-> None, pair |-> 0] \in [pc: {"has", "failed"}, on: {None}, pair: 0 .. Len(pairs)]
  BY <1>1
<1> QED BY <1>1, <1>2, <1>3, <1>4, Settles DEF Lose, Reject

LEMMA Restarts == ASSUME OAuthInv, NEW r \in Resources, Restart(r) PROVE OAuthInv'
<1>0. Len(pairs) \in Nat
  BY LenProperties DEF OAuthInv, OneFlight, OAuthTypeOK
<1>1. OAuthTypeOK'
  BY <1>0, OAuthAssumption DEF Restart, Strike, OAuthInv, OneFlight, OAuthTypeOK, NoFlow, Open, Credentials
<1>2. OneFlight' /\ WaitsForSome'
  BY <1>1, OAuthAssumption DEF Restart, OneFlight, WaitsForSome, NoFlow, Open
<1>3. CredsOK' /\ \A f \in Calls : FlowOK(f)'
  BY DEF Restart, OAuthInv, CredsOK, CredOK, FlowOK, NoFlow
<1> QED BY <1>2, <1>3 DEF OAuthInv

LEMMA Expires == ASSUME OAuthInv, NEW n \in 1 .. Len(pairs), Expire(n) PROVE OAuthInv'
<1>0. OAuthTypeOK /\ Len(pairs) \in Nat
  BY LenProperties DEF OAuthInv, OneFlight, OAuthTypeOK
<1>1. Grown(pairs') /\ Len(pairs') = Len(pairs) /\ UNCHANGED <<mem, file, resource, pending, flow, calls, now>>
  BY <1>0, Ended DEF Expire
<1>2. faults' \in 0 .. MaxFaults
  BY OAuthAssumption DEF Expire, Strike, OAuthInv, OneFlight, OAuthTypeOK
<1>3. OneFlight' /\ WaitsForSome'
  BY <1>1, <1>2 DEF OAuthInv, OneFlight, OAuthTypeOK, WaitsForSome, Credentials, Grown, Pair
<1>4. \A i \in 1 .. Len(pairs) : pairs'[i].resource = pairs[i].resource /\ pairs'[i].until = pairs[i].until
  BY <1>1 DEF Grown
<1>5. CredsOK'
  BY <1>0, <1>1, <1>4 DEF OAuthInv, CredsOK, CredOK, OAuthTypeOK, Credentials
<1>6. \A f \in Calls : FlowOK(f)'
  <2>1. ASSUME NEW f \in Calls PROVE FlowOK(f)'
    <3>1. flow[f].got \in 0 .. Len(pairs) /\ (mem # None => mem.pair \in 0 .. Len(pairs))
      BY <1>0 DEF OAuthTypeOK, Credentials
    <3>2. CASE flow[f].pc = "answer"
      BY <1>0, <1>1, <1>4, <3>1, <3>2 DEF OAuthInv, FlowOK
    <3>3. CASE flow[f].pc = "write"
      BY <1>0, <1>1, <1>4, <3>1, <3>3 DEF OAuthInv, FlowOK
    <3>4. CASE flow[f].pc \notin {"answer", "write"}
      BY <1>1, <3>4 DEF OAuthInv, FlowOK
    <3> QED BY <3>2, <3>3, <3>4
  <2> QED BY <2>1
<1> QED BY <1>3, <1>5, <1>6 DEF OAuthInv

LEMMA Ticks == ASSUME OAuthInv, Tick PROVE OAuthInv'
<1>0. OAuthTypeOK /\ Len(pairs) \in Nat
  BY LenProperties DEF OAuthInv, OneFlight, OAuthTypeOK
<1>1. now' = now + 1 /\ UNCHANGED <<mem, file, resource, pending, flow, calls, pairs, faults>> /\ now < MaxTime
  BY DEF Tick
<1>2. OneFlight' /\ WaitsForSome' /\ CredsOK'
  BY <1>0, <1>1, OAuthAssumption DEF OAuthInv, OneFlight, OAuthTypeOK, WaitsForSome, Credentials, CredsOK, CredOK
<1>3. ASSUME NEW f \in Calls PROVE FlowOK(f)'
  <2>1. CASE flow[f].pc = "answer"
    <3>1. flow[f].got \in 1 .. Len(pairs)
      BY <1>0, <2>1 DEF OAuthInv, FlowOK, OAuthTypeOK
    <3>2. pairs[flow[f].got].until \in Int
      <4>1. pairs[flow[f].got] \in Pair
        BY <1>0, <3>1, ElementOfSeq DEF OAuthTypeOK, Pair
      <4> QED BY <4>1, Widths DEF Pair
    <3>3. now < pairs[flow[f].got].until - Life + Timeout /\ now \in Nat
      BY <1>0, <2>1 DEF Tick, OAuthTypeOK
    <3>4. now + 1 <= pairs[flow[f].got].until - Life + Timeout
      BY <3>2, <3>3, Widths
    <3>5. flow[f].got # 0 /\ pairs[flow[f].got].resource = resource
      BY <1>0, <2>1 DEF OAuthInv, FlowOK
    <3> QED BY <1>1, <2>1, <3>4, <3>5 DEF FlowOK
  <2>2. CASE flow[f].pc # "answer"
    BY <1>1, <2>2 DEF OAuthInv, FlowOK, Tick
  <2> QED BY <2>1, <2>2
<1> QED BY <1>2, <1>3 DEF OAuthInv

LEMMA OAuthInvInit == OAuthInit => OAuthInv
<1> SUFFICES ASSUME OAuthInit PROVE OAuthInv
  OBVIOUS
<1>1. pairs = <<>> /\ Len(pairs) = 0
  BY EmptySeq DEF OAuthInit
<1>2. OAuthTypeOK
  BY <1>1, Widths, EmptySeq DEF OAuthInit, OAuthTypeOK, Credentials, Blank, NoFlow, Open
<1> QED BY <1>2, OAuthAssumption
        DEF OAuthInit, OAuthInv, OneFlight, WaitsForSome, CredsOK, CredOK, FlowOK, Blank, NoFlow, Open

LEMMA OAuthInvStep == OAuthInv /\ [OAuthNext]_oauthVars => OAuthInv'
<1> SUFFICES ASSUME OAuthInv, [OAuthNext]_oauthVars PROVE OAuthInv'
  OBVIOUS
<1>1. ASSUME NEW c \in Calls, Ask(c) \/ Leave(c) \/ FlowStep(c) \/ Lose(c) PROVE OAuthInv'
  BY <1>1, Asks, Leaves, Begins, Refreshes, Grants, Saves, Writes, Loses DEF FlowStep
<1>2. CASE UNCHANGED oauthVars
  <2>1. UNCHANGED <<mem, file, resource, pending, flow, calls, pairs, now, faults>>
    BY <1>2 DEF oauthVars
  <2>2. OneFlight' /\ WaitsForSome'
    BY <2>1 DEF OAuthInv, OneFlight, OAuthTypeOK, WaitsForSome, Credentials
  <2>3. CredsOK' /\ \A f \in Calls : FlowOK(f)'
    BY <2>1 DEF OAuthInv, CredsOK, CredOK, FlowOK
  <2> QED BY <2>2, <2>3 DEF OAuthInv
<1> QED BY <1>1, <1>2, Restarts, Expires, Ticks DEF OAuthNext

\* The inductive invariant: one flight, what the Bridge noted of a pair against
\* what DevSpace issued, and what each flow has in hand.
THEOREM OAuthInvariant == OAuthSpec => []OAuthInv
BY OAuthInvInit, OAuthInvStep, PTL DEF OAuthSpec

-----------------------------------------------------------------------------
(* The theorems.                                                           *)

\* Any number of concurrent calls share one grant or refresh.
THEOREM OneFlightHolds == OAuthSpec => []OneFlight
<1>1. OAuthInv => OneFlight
  BY DEF OAuthInv
<1> QED BY <1>1, OAuthInvariant, PTL

\* What looks fresh to the Bridge is good at DevSpace.
LEMMA FreshIsGood ==
    ASSUME OAuthTypeOK, NEW cred \in Credentials, CredOK(cred), Fresh(cred)
    PROVE  cred.pair # 0 /\ pairs[cred.pair].until > now /\ pairs[cred.pair].resource = cred.resource
<1>1. cred.pair # 0 /\ Len(pairs) \in Nat
  BY Widths, LenProperties DEF CredOK, Fresh, OAuthTypeOK
<1>2. pairs[cred.pair] \in Pair
  <2>1. pairs \in Seq(Pair)
    BY DEF OAuthTypeOK, Pair
  <2>2. cred.pair \in 1 .. Len(pairs)
    <3>1. cred.pair \in 0 .. Len(pairs)
      BY DEF Credentials
    <3> QED BY <1>1, <3>1
  <2> QED BY <2>1, <2>2, ElementOfSeq
<1>3. Timeout <= Margin
  BY OAuthAssumption
<1> QED BY <1>1, <1>2, <1>3, Widths DEF CredOK, Fresh, Credentials, OAuthTypeOK, Pair

\* The token a call is forwarded with is one DevSpace still takes, for this
\* Gateway.
THEOREM TokenIsGoodHolds == OAuthSpec => TokenIsGood
<1> DEFINE Good == \A c \in Calls : calls'[c].pc = "has" /\ calls[c].pc # "has" =>
        LET p == pairs[calls'[c].pair] IN p.until > now /\ p.resource = resource
<1>1. ASSUME OAuthInv, OAuthNext PROVE Good
  <2> SUFFICES ASSUME NEW c \in Calls, calls'[c].pc = "has", calls[c].pc # "has"
               PROVE  pairs[calls'[c].pair].until > now /\ pairs[calls'[c].pair].resource = resource
    OBVIOUS
  <2>0. OAuthTypeOK
    BY <1>1 DEF OAuthInv, OneFlight
  <2>1. ASSUME NEW d \in Calls, Ask(d)
        PROVE  pairs[calls'[c].pair].until > now /\ pairs[calls'[c].pair].resource = resource
    <3>1. c = d /\ mem # None /\ Fresh(mem) /\ calls'[c].pair = mem.pair
      BY <2>0, <2>1 DEF Ask, OAuthTypeOK
    <3>2. mem \in Credentials /\ CredOK(mem) /\ (mem.pair # 0 => mem.resource = resource)
      BY <1>1, <2>0, <3>1 DEF OAuthInv, CredsOK, OAuthTypeOK
    <3> QED BY <2>0, <3>1, <3>2, FreshIsGood
  <2>2. ASSUME NEW f \in Calls, NEW n, Resolve(f, n) PROVE calls'[c].pair = n
    BY <2>2 DEF Resolve, Settle
  <2>3. ASSUME NEW f \in Calls, Obtain(f)
        PROVE  pairs[calls'[c].pair].until > now /\ pairs[calls'[c].pair].resource = resource
    <3> DEFINE known == IF mem = None THEN file ELSE mem
    <3>1. Fresh(mem') /\ calls'[c].pair = mem'.pair
      BY <2>2, <2>3 DEF Obtain, Proceed
    <3>2. mem' = (IF known.resource = resource THEN known ELSE Blank)
      BY <2>3 DEF Obtain
    <3>3. ~Fresh(Blank)
      BY <2>0, Widths DEF Fresh, Blank, OAuthTypeOK
    <3>4. known \in Credentials /\ CredOK(known)
      BY <1>1, <2>0 DEF OAuthInv, CredsOK, OAuthTypeOK
    <3> HIDE DEF known
    <3>5. mem' = known /\ known.resource = resource /\ Fresh(known)
      BY <3>1, <3>2, <3>3 DEF Fresh
    <3> QED BY <2>0, <3>1, <3>4, <3>5, FreshIsGood
  <2>4. ASSUME NEW f \in Calls, Write(f)
        PROVE  pairs[calls'[c].pair].until > now /\ pairs[calls'[c].pair].resource = resource
    <3>1. calls'[c].pair = mem.pair /\ mem # None /\ mem.pair # 0 /\ pairs[mem.pair].until > now
      BY <1>1, <2>2, <2>4 DEF Write, OAuthInv, FlowOK
    <3> QED BY <1>1, <3>1 DEF OAuthInv, CredsOK, CredOK
  <2>5. ASSUME NEW f \in Calls, Leave(f) \/ Refresh(f) \/ Grant(f) \/ Save(f) \/ Lose(f) PROVE FALSE
    <3>1. CASE Leave(f)
      BY <2>0, <3>1 DEF Leave, Open, OAuthTypeOK
    <3>2. CASE Lose(f)
      BY <3>2 DEF Lose, Reject, Settle
    <3>3. CASE Refresh(f)
      <4>1. Reject(f) \/ UNCHANGED calls
        BY <3>3 DEF Refresh, Proceed, Issue
      <4> QED BY <4>1 DEF Reject, Settle
    <3>4. CASE Grant(f)
      BY <3>4 DEF Grant, Proceed, Issue
    <3>5. CASE Save(f)
      BY <3>5 DEF Save, Proceed
    <3> QED BY <2>5, <3>1, <3>2, <3>3, <3>4, <3>5
  <2>6. ASSUME (\E r \in Resources : Restart(r)) \/ (\E n \in 1 .. Len(pairs) : Expire(n)) \/ Tick PROVE FALSE
    BY <2>6 DEF Restart, Expire, Tick, Open
  <2> QED BY <1>1, <2>1, <2>3, <2>4, <2>5, <2>6 DEF OAuthNext, FlowStep
<1>2. OAuthInv /\ [OAuthNext]_oauthVars => [Good]_oauthVars
  BY <1>1
<1> QED BY <1>2, OAuthInvariant, PTL DEF OAuthSpec, TokenIsGood

\* A grant begins only when what the process has is refused.
THEOREM NoNeedlessGrantHolds == OAuthSpec => NoNeedlessGrant
<1> DEFINE Needed == \A f \in Calls : flow'[f].pc = "register" /\ flow[f].pc # "register" =>
        \A n \in Known \ {0} : ~(pairs[n].honoured /\ pairs[n].resource = resource)
<1>1. ASSUME OAuthInv, OAuthNext PROVE Needed
  <2> SUFFICES ASSUME NEW f \in Calls, flow'[f].pc = "register", flow[f].pc # "register",
                      NEW n \in Known, n # 0, pairs[n].honoured, pairs[n].resource = resource
               PROVE  FALSE
    OBVIOUS
  <2>0. OAuthTypeOK /\ flow \in [Calls -> Flow]
    BY <1>1 DEF OAuthInv, OneFlight, OAuthTypeOK, Flow
  <2>1. Obtain(f) \/ Refresh(f)
    <3>1. ASSUME NEW g \in Calls, Ask(g) \/ Leave(g) \/ Lose(g) \/ Grant(g) \/ Save(g) \/ Write(g) PROVE FALSE
      BY <2>0, <3>1 DEF Ask, Join, Leave, Lose, Grant, Save, Write, Proceed, Issue, Resolve, Reject, Settle, NoFlow, Flow
    <3>2. ASSUME (\E r \in Resources : Restart(r)) \/ (\E i \in 1 .. Len(pairs) : Expire(i)) \/ Tick PROVE FALSE
      BY <3>2 DEF Restart, Expire, Tick, NoFlow
    <3>3. ASSUME NEW g \in Calls, Obtain(g) \/ Refresh(g) PROVE g = f
      BY <2>0, <3>3 DEF Obtain, Refresh, Proceed, Issue, Resolve, Settle, NoFlow, Flow
    <3> QED BY <1>1, <3>1, <3>2, <3>3 DEF OAuthNext, FlowStep
  <2>2. flow[f].pc \in {"begin", "refresh"}
    BY <2>1 DEF Obtain, Refresh
  <2>3. \A g \in Calls : flow[g].got = 0
    <3>1. flow[f].got = 0
      BY <1>1, <2>2 DEF OAuthInv, FlowOK
    <3>2. \A g \in Calls : g # f => flow[g].pc = "none"
      BY <1>1, <2>2 DEF OAuthInv, OneFlight
    <3> QED BY <1>1, <3>1, <3>2 DEF OAuthInv, FlowOK
  <2> DEFINE known == IF mem = None THEN file ELSE mem
  <2>4. n = known.pair /\ known.pair # 0
    BY <2>3 DEF Known
  <2>5. CredOK(known)
    BY <1>1 DEF OAuthInv, CredsOK
  <2>6. known.resource = resource
    <3> HIDE DEF known
    <3> QED BY <2>4, <2>5 DEF CredOK
  <2>7. CASE Obtain(f)
    <3>1. mem' = known /\ flow'[f].pc # "register"
      <4>1. mem' = known
        BY <2>6, <2>7 DEF Obtain
      <4>2. known.pair # 0
        BY <2>4
      <4> HIDE DEF known
      <4>3. CASE Resolve(f, mem'.pair)
        BY <2>0, <4>1, <4>3 DEF Resolve, Settle, NoFlow, Flow
      <4>4. CASE Proceed(f, IF mem'.pair # 0 THEN "refresh" ELSE "register")
        <5>1. Proceed(f, "refresh")
          BY <4>1, <4>2, <4>4
        <5> QED BY <2>0, <4>1, <5>1 DEF Proceed, Flow
      <4> QED BY <2>7, <4>1, <4>3, <4>4 DEF Obtain
    <3> QED BY <3>1
  <2>8. CASE Refresh(f)
    <3>1. mem # None
      BY <1>1, <2>8 DEF OAuthInv, FlowOK, Refresh
    <3>2. pairs[mem.pair].honoured
      BY <2>4, <3>1
    <3>3. PICK kept \in BOOLEAN : Issue(f, [pairs EXCEPT ![mem.pair].honoured = kept])
      BY <2>8, <3>2 DEF Refresh
    <3>4. flow'[f].pc = "answer"
      BY <2>0, <3>3 DEF Issue, Flow
    <3> QED BY <3>4
  <2> QED BY <2>1, <2>7, <2>8
<1>2. OAuthInv /\ [OAuthNext]_oauthVars => [Needed]_oauthVars
  BY <1>1
<1> QED BY <1>2, OAuthInvariant, PTL DEF OAuthSpec, NoNeedlessGrant

\* The three together.
THEOREM SoundTokensHolds == OAuthSpec => SoundTokens
BY OneFlightHolds, TokenIsGoodHolds, NoNeedlessGrantHolds, PTL DEF SoundTokens

-----------------------------------------------------------------------------
(* When a device checks for updates and tries to install them.             *)

Outcomes == [version : Releases \cup {0}, code : {"none", "failed", "ready", "local", "remote"}, wait : Nat]

RecordsTypeOK ==
    /\ saved \in [app : Releases \cup {0}, due : Nat, ago : Int, auto : Releases \cup {0}, error : BOOLEAN]
    /\ outcome \in Outcomes
    /\ installer \in [version : Releases \cup {0}, left : Nat]
    /\ sched \in [pc : {"off", "sleep", "fetch", "apply"}, timer : Nat, due : Nat, auto : Releases \cup {0}]
    /\ calm \in [version : Releases \cup {0}, wait : Nat]
    /\ byHand \in BOOLEAN

\* What is owed since the last check is on record, as a check of this release.
RestOnRecord ==
    /\ rest = 0 \/ (saved.due = rest /\ saved.app = release /\ saved.ago >= 0)
    /\ sched.pc = "fetch" => rest = 0 /\ ~byHand

\* What is owed since the last attempt is on record, as that of its release.
CalmOnRecord ==
    /\ calm.wait = 0 \/ (outcome.version = calm.version /\ outcome.wait = calm.wait)
    /\ sched.pc = "apply" /\ calm.version = sched.auto => calm.wait = 0

SchedulerInv == SchedulerTypeOK /\ RecordsTypeOK /\ RestOnRecord /\ CalmOnRecord

\* The delays are positive numbers.
LEMMA DelaysAreNumbers ==
    /\ BusyDelay \in Nat /\ FailureDelay \in Nat /\ CheckDelay \in Nat /\ LongestDelay \in Nat
    /\ Newest \in Nat /\ MaxMishaps \in Nat
BY SchedulerAssumption

\* The first of one or two deadlines is one of them.
LEMMA LeastIsNumber ==
    ASSUME NEW due \in Nat, NEW waits, waits = {} \/ \E wait \in Nat : waits = {wait}
    PROVE  Least({due} \cup waits) \in Nat
<1>1. \E x \in {due} \cup waits : \A y \in {due} \cup waits : x <= y
  <2>1. CASE waits = {}
    BY <2>1
  <2>2. CASE \E wait \in Nat : waits = {wait}
    <3>1. PICK wait \in Nat : waits = {wait}
      BY <2>2
    <3>2. due <= wait \/ wait <= due
      OBVIOUS
    <3> QED BY <3>1, <3>2
  <2> QED BY <2>1, <2>2
<1>2. Least({due} \cup waits) \in {due} \cup waits
  BY <1>1 DEF Least
<1> QED BY <1>2

\* The scheduler goes to sleep.
LEMMA SleepsWell ==
    ASSUME NEW due \in Nat, NEW waits, waits = {} \/ \E wait \in Nat : waits = {wait}, Sleeps(due, waits)
    PROVE  /\ sched' \in [pc : {"sleep"}, timer : Nat, due : Nat, auto : {0}]
           /\ sched'.pc = "sleep"
<1>1. PICK first : first = Least({due} \cup waits)
  OBVIOUS
<1>2. first \in Nat
  BY <1>1, LeastIsNumber
<1> QED BY <1>1, <1>2 DEF Sleeps, NotRunning

\* An attempt that did not come about is on record with what is owed for it.
LEMMA PostponedOK ==
    ASSUME NEW due \in Nat, NEW o \in Outcomes, Postponed(due, o)
    PROVE  /\ sched'.pc = "sleep" /\ sched' \in [pc : {"sleep"}, timer : Nat, due : Nat, auto : {0}]
           /\ outcome' = o /\ calm' \in [version : Releases \cup {0}, wait : Nat]
           /\ CalmOnRecord'
<1>1. Sleeps(due, Waits(o)) /\ outcome' = o /\ calm' = [version |-> o.version, wait |-> o.wait]
  BY DEF Postponed
<1>2. o.wait \in Nat /\ o.version \in Releases \cup {0}
  BY DEF Outcomes
<1>3. PICK waits : waits = Waits(o)
  OBVIOUS
<1>4. sched'.pc = "sleep" /\ sched' \in [pc : {"sleep"}, timer : Nat, due : Nat, auto : {0}]
  BY <1>1, <1>2, <1>3, SleepsWell DEF Waits
<1> QED BY <1>1, <1>2, <1>4 DEF CalmOnRecord

\* Nothing is owed for an attempt that is not wanted any more.
LEMMA WithdrawnOK ==
    ASSUME NEW due \in Nat, Withdrawn(due)
    PROVE  /\ sched'.pc = "sleep" /\ sched' \in [pc : {"sleep"}, timer : Nat, due : Nat, auto : {0}]
           /\ outcome' = NoOutcome /\ calm' = Calm /\ CalmOnRecord'
<1>1. Sleeps(due, {}) /\ outcome' = NoOutcome /\ calm' = Calm
  BY DEF Withdrawn
<1>2. PICK waits : waits = {}
  OBVIOUS
<1>3. sched'.pc = "sleep" /\ sched' \in [pc : {"sleep"}, timer : Nat, due : Nat, auto : {0}]
  BY <1>1, <1>2, SleepsWell
<1> QED BY <1>1, <1>3 DEF CalmOnRecord, Calm

\* What follows from a status: an attempt only of a release nothing is owed for.
LEMMA DecideOK ==
    ASSUME SchedulerInv, NEW s, Decide(s),
           s \in [app : Releases \cup {0}, due : Nat, ago : Int, auto : Releases \cup {0}, error : BOOLEAN]
    PROVE  /\ sched' \in [pc : {"sleep", "apply"}, timer : Nat, due : Nat, auto : Releases \cup {0}]
           /\ outcome' \in Outcomes /\ calm' \in [version : Releases \cup {0}, wait : Nat]
           /\ CalmOnRecord'
<1>0. /\ outcome \in Outcomes /\ calm \in [version : Releases \cup {0}, wait : Nat] /\ CalmOnRecord
      /\ NoOutcome \in Outcomes /\ Calm \in [version : Releases \cup {0}, wait : Nat]
      /\ s.due \in Nat /\ s.auto \in Releases \cup {0}
  BY DEF SchedulerInv, RecordsTypeOK, Outcomes, NoOutcome, Calm
<1>1. PICK o \in Outcomes : o = OutcomeOf(s)
  BY <1>0 DEF OutcomeOf
<1>2. CASE Withdrawn(s.due)
  BY <1>0, <1>2, WithdrawnOK
<1>3. CASE StillBlocked(s, o)
  <2>1. PICK r : /\ r = [version |-> s.auto,
                         code |-> IF occupied = "silent" THEN "failed" ELSE o.code,
                         wait |-> IF occupied = "silent" THEN FailureDelay ELSE BusyDelay]
                 /\ Postponed(s.due, r)
    BY <1>3 DEF StillBlocked
  <2>2. r \in Outcomes
    BY <1>0, <2>1, DelaysAreNumbers DEF Outcomes
  <2> QED BY <1>0, <2>1, <2>2, PostponedOK
<1>4. CASE Attempts(s) /\ o.wait = 0
  <2>1. /\ sched' = [pc |-> "apply", timer |-> 0, due |-> s.due, auto |-> s.auto]
        /\ UNCHANGED <<outcome, calm>>
    BY <1>4 DEF Attempts
  <2>2. calm.version = s.auto => calm.wait = 0
    BY <1>0, <1>1, <1>4 DEF CalmOnRecord, OutcomeOf
  <2> QED BY <1>0, <2>1, <2>2 DEF CalmOnRecord
<1>5. CASE Rests(s, o)
  <2>1. PICK waits : waits = IF s.error \/ ~device.consent THEN {} ELSE Waits(o)
    OBVIOUS
  <2>2. waits = {} \/ \E wait \in Nat : waits = {wait}
    BY <1>1, <2>1 DEF Waits, Outcomes
  <2>3. Sleeps(s.due, waits) /\ UNCHANGED <<outcome, calm>>
    BY <1>5, <2>1 DEF Rests
  <2>4. sched'.pc = "sleep" /\ sched' \in [pc : {"sleep"}, timer : Nat, due : Nat, auto : {0}]
    BY <1>0, <2>2, <2>3, SleepsWell
  <2> QED BY <1>0, <2>3, <2>4 DEF CalmOnRecord
<1> QED BY <1>1, <1>2, <1>3, <1>4, <1>5 DEF Decide

\* It holds at first.
LEMMA SchedulerInvInit == SchedulerInit => SchedulerInv
<1> SUFFICES ASSUME SchedulerInit PROVE SchedulerInv
  OBVIOUS
<1>0. Newest \in Nat /\ MaxMishaps \in Nat /\ CheckDelay \in Nat /\ 1 \in Releases
  BY SchedulerAssumption, DelaysAreNumbers DEF Releases
<1>1. 2 .. Newest \subseteq Releases
  BY <1>0 DEF Releases
<1>2. RecordsTypeOK
  <2>1. saved \in [app : Releases \cup {0}, due : Nat, ago : Int, auto : Releases \cup {0}, error : BOOLEAN]
    <3>1. NoCheckYet \in [app : Releases \cup {0}, due : Nat, ago : Int, auto : Releases \cup {0}, error : BOOLEAN]
      BY DEF NoCheckYet
    <3>2. CheckInFuture \in [app : Releases \cup {0}, due : Nat, ago : Int, auto : Releases \cup {0}, error : BOOLEAN]
      BY <1>0 DEF CheckInFuture
    <3> QED BY <3>1, <3>2 DEF SchedulerInit
  <2>2. outcome \in Outcomes
    BY DEF SchedulerInit, Outcomes, NoOutcome
  <2>3. installer \in [version : Releases \cup {0}, left : Nat] /\ calm \in [version : Releases \cup {0}, wait : Nat]
    BY DEF SchedulerInit, NoInstaller, Calm
  <2>4. sched \in [pc : {"off", "sleep", "fetch", "apply"}, timer : Nat, due : Nat, auto : Releases \cup {0}]
    <3>1. NotRunning \in [pc : {"off", "sleep", "fetch", "apply"}, timer : Nat, due : Nat, auto : Releases \cup {0}]
      BY DEF NotRunning
    <3>2. JustStarted \in [pc : {"off", "sleep", "fetch", "apply"}, timer : Nat, due : Nat, auto : Releases \cup {0}]
      BY <3>1 DEF JustStarted
    <3> QED BY <3>1, <3>2 DEF SchedulerInit
  <2>5. byHand \in BOOLEAN
    BY DEF SchedulerInit
  <2> QED BY <2>1, <2>2, <2>3, <2>4, <2>5 DEF RecordsTypeOK
<1>3. SchedulerTypeOK
  <2>1. gateway \in [up : BOOLEAN, auto : {0} \cup Releases]
    BY <1>1 DEF SchedulerInit
  <2>2. sched.pc \in {"off", "sleep", "fetch", "apply"} /\ sched.timer \in Nat
    BY <1>2 DEF RecordsTypeOK
  <2>3. saved.app \in Releases \cup {0} /\ {saved.due, outcome.wait, calm.wait} \subseteq Nat
    BY <1>2 DEF RecordsTypeOK, Outcomes
  <2>4. mishaps \in 0 .. MaxMishaps /\ rest = 0 /\ release \in Releases
    BY <1>0 DEF SchedulerInit
  <2> QED BY <2>1, <2>2, <2>3, <2>4 DEF SchedulerTypeOK, SchedulerInit
<1>4. RestOnRecord /\ CalmOnRecord
  BY DEF SchedulerInit, RestOnRecord, CalmOnRecord, NotRunning, JustStarted, Calm
<1> QED BY <1>2, <1>3, <1>4 DEF SchedulerInv

\* The types of what is asked for below follow from those of the records.
LEMMA SchedulerTypes ==
    ASSUME RecordsTypeOK', device' \in [native : BOOLEAN, consent : BOOLEAN],
           gateway' \in [up : BOOLEAN, auto : {0} \cup Releases], occupied' \in Obstacles',
           release' \in Releases, rest' \in Nat, mishaps' \in 0 .. MaxMishaps
    PROVE  SchedulerTypeOK'
BY DEF RecordsTypeOK, SchedulerTypeOK, Outcomes

\* The scheduler wakes: it decides, or checks when that is due.
LEMMA WakeInv ==
    ASSUME SchedulerInv, Wake
    PROVE  SchedulerInv'
<1> USE DEF SchedulerInv
<1>0. UNCHANGED <<around, release, saved, installer, byHand, mishaps, rest>>
  BY DEF Wake
<1>1. CASE Decide(saved)
  <2>1. PICK s : s = saved
    OBVIOUS
  <2>2. /\ sched' \in [pc : {"sleep", "apply"}, timer : Nat, due : Nat, auto : Releases \cup {0}]
        /\ outcome' \in Outcomes /\ calm' \in [version : Releases \cup {0}, wait : Nat]
        /\ CalmOnRecord'
    BY <1>1, <2>1, DecideOK DEF RecordsTypeOK
  <2>3. RecordsTypeOK'
    BY <1>0, <2>2 DEF RecordsTypeOK
  <2>4. SchedulerTypeOK'
    BY <1>0, <2>3, SchedulerTypes DEF SchedulerTypeOK, around, Obstacles
  <2>5. RestOnRecord'
    BY <1>0, <2>2 DEF RestOnRecord
  <2> QED BY <2>2, <2>3, <2>4, <2>5
<1>2. CASE ~byHand /\ ~NotDue /\ sched' = [sched EXCEPT !.pc = "fetch"] /\ UNCHANGED <<outcome, calm>>
  <2>1. RecordsTypeOK' /\ sched'.pc = "fetch"
    BY <1>0, <1>2 DEF RecordsTypeOK
  <2>2. SchedulerTypeOK'
    BY <1>0, <2>1, SchedulerTypes DEF SchedulerTypeOK, around, Obstacles
  <2>3. rest = 0
    BY <1>2 DEF RestOnRecord, NotDue, RecordsTypeOK
  <2> QED BY <1>0, <1>2, <2>1, <2>2, <2>3 DEF RestOnRecord, CalmOnRecord
<1> QED BY <1>1, <1>2 DEF Wake

\* What a check brings is owed from now on.
LEMMA FetchedOK ==
    ASSUME SchedulerInv, NEW s \in Fetched
    PROVE  /\ s \in [app : Releases \cup {0}, due : Nat, ago : Int, auto : Releases \cup {0}, error : BOOLEAN]
           /\ s.app = release /\ s.ago = 0
<1> DEFINE Checks == [app : Releases \cup {0}, due : Nat, ago : Int, auto : Releases \cup {0}, error : BOOLEAN]
<1>0. saved \in Checks /\ release \in Releases \cup {0} /\ gateway.auto \in Releases \cup {0}
  BY DEF SchedulerInv, SchedulerTypeOK, RecordsTypeOK
<1>1. CASE gateway.up
  <2>1. s = [app |-> release, due |-> CheckDelay, ago |-> 0, auto |-> gateway.auto, error |-> FALSE]
    BY <1>1 DEF Fetched
  <2> QED BY <1>0, <2>1, DelaysAreNumbers
<1>2. CASE ~gateway.up
  <2>1. PICK delay \in Nat : s = [saved EXCEPT !.app = release, !.due = delay, !.ago = 0, !.error = TRUE]
    BY <1>2, DelaysAreNumbers DEF Fetched, Failed
  <2>2. s \in Checks
    <3>1. PICK t \in Checks : t = [saved EXCEPT !.app = release, !.due = delay]
      BY <1>0
    <3>0. PICK ago \in Int : ago = 0
      OBVIOUS
    <3>2. PICK u \in Checks : u = [t EXCEPT !.ago = ago]
      BY <3>1
    <3>3. s = [u EXCEPT !.error = TRUE]
      BY <2>1, <3>0, <3>1, <3>2
    <3>4. [u EXCEPT !.error = TRUE] \in Checks
      BY <3>2, ZenonT(30)
    <3> QED BY <3>3, <3>4
  <2> QED BY <1>0, <2>1, <2>2
<1> QED BY <1>1, <1>2

\* A check ends, also one that was asked for by hand.
LEMMA CheckInv ==
    ASSUME SchedulerInv, CheckEnds \/ ByHandEnds
    PROVE  SchedulerInv'
<1> USE DEF SchedulerInv
<1>0. UNCHANGED <<around, release, installer, mishaps>> /\ saved' \in Fetched /\ rest' = saved'.due
      /\ byHand' \in BOOLEAN
  BY DEF CheckEnds, ByHandEnds, RecordsTypeOK
<1>1. PICK s : s = saved'
  OBVIOUS
<1>2. /\ s \in [app : Releases \cup {0}, due : Nat, ago : Int, auto : Releases \cup {0}, error : BOOLEAN]
      /\ s.app = release /\ s.ago = 0
  BY <1>0, <1>1, FetchedOK
<1>3. /\ sched' \in [pc : {"off", "sleep", "apply"}, timer : Nat, due : Nat, auto : Releases \cup {0}]
      /\ outcome' \in Outcomes /\ calm' \in [version : Releases \cup {0}, wait : Nat]
      /\ CalmOnRecord'
  <2>1. CASE CheckEnds
    <3>1. Decide(s)
      BY <1>1, <2>1 DEF CheckEnds
    <3> QED BY <1>2, <3>1, DecideOK
  <2>2. CASE ByHandEnds
    BY <2>2 DEF ByHandEnds, RecordsTypeOK, RestOnRecord, CalmOnRecord
  <2> QED BY <2>1, <2>2
<1>4. RecordsTypeOK'
  BY <1>0, <1>1, <1>2, <1>3 DEF RecordsTypeOK
<1>5. SchedulerTypeOK'
  BY <1>0, <1>1, <1>2, <1>4, SchedulerTypes DEF SchedulerTypeOK, around, Obstacles
<1>6. RestOnRecord'
  BY <1>0, <1>1, <1>2, <1>3 DEF RestOnRecord
<1> QED BY <1>3, <1>4, <1>5, <1>6

\* A check that cannot be recorded is made up for after the usual delay.
LEMMA ThrowsInv ==
    ASSUME SchedulerInv, CheckThrows
    PROVE  SchedulerInv'
<1> USE DEF SchedulerInv
<1>0. UNCHANGED <<around, release, saved, installer, byHand, rest>> /\ Mishap
  BY DEF CheckThrows
<1>1. PICK due \in Nat, waits \in SUBSET Nat : due = FailureDelay /\ waits = {}
  BY DelaysAreNumbers
<1>2. sched' \in [pc : {"sleep"}, timer : Nat, due : Nat, auto : {0}] /\ sched'.pc = "sleep"
  BY <1>1, SleepsWell DEF CheckThrows
<1>3. \/ outcome' = [NoOutcome EXCEPT !.code = "failed", !.wait = FailureDelay] /\ calm' = Calm
      \/ UNCHANGED <<outcome, calm>>
  BY DEF CheckThrows
<1>4. RecordsTypeOK'
  <2>1. [NoOutcome EXCEPT !.code = "failed", !.wait = FailureDelay] \in Outcomes
    BY DelaysAreNumbers DEF Outcomes, NoOutcome
  <2>2. outcome' \in Outcomes /\ calm' \in [version : Releases \cup {0}, wait : Nat]
    BY <1>3, <2>1 DEF RecordsTypeOK, Calm
  <2> QED BY <1>0, <1>2, <2>2 DEF RecordsTypeOK
<1>5. mishaps' \in 0 .. MaxMishaps
  BY <1>0, DelaysAreNumbers DEF Mishap, SchedulerTypeOK
<1>6. SchedulerTypeOK'
  BY <1>0, <1>4, <1>5, SchedulerTypes DEF SchedulerTypeOK, around, Obstacles
<1>7. RestOnRecord' /\ CalmOnRecord'
  BY <1>0, <1>2, <1>3 DEF RestOnRecord, CalmOnRecord, Calm
<1> QED BY <1>4, <1>6, <1>7

\* An installer is only started for a release that is newer.
LEMMA StartedOK ==
    ASSUME SchedulerInv, ~NothingToApply, HandsOver
    PROVE  Started \in [version : Releases \cup {0}, left : Nat]
BY DelaysAreNumbers DEF SchedulerInv, SchedulerTypeOK, Started

\* What can be in the way of an attempt.
LEMMA HindrancesOK ==
    ASSUME SchedulerInv, NEW o \in Hindrances
    PROVE  o \in Outcomes
<1>0. /\ gateway.auto \in Releases \cup {0} /\ installer.version \in Releases \cup {0}
      /\ sched.auto \in Releases \cup {0}
  BY DEF SchedulerInv, SchedulerTypeOK, RecordsTypeOK
<1>1. CASE installer.left > 0
  BY <1>0, <1>1, DelaysAreNumbers DEF Hindrances, Outcomes
<1>2. CASE ~(installer.left > 0)
  BY <1>0, <1>2, DelaysAreNumbers DEF Hindrances, Outcomes
<1> QED BY <1>1, <1>2

\* An attempt ends.
LEMMA ApplyInv ==
    ASSUME SchedulerInv, ApplyEnds
    PROVE  SchedulerInv'
<1> USE DEF SchedulerInv
<1>0. UNCHANGED <<around, release, saved, byHand, mishaps, rest>> /\ sched.due \in Nat
  BY DEF ApplyEnds, RecordsTypeOK
<1>1. PICK due \in Nat : due = sched.due
  BY <1>0
<1>2. installer' \in [version : Releases \cup {0}, left : Nat]
  BY StartedOK DEF ApplyEnds, RecordsTypeOK
<1>3. /\ sched' \in [pc : {"sleep"}, timer : Nat, due : Nat, auto : {0}] /\ sched'.pc = "sleep"
      /\ outcome' \in Outcomes /\ calm' \in [version : Releases \cup {0}, wait : Nat] /\ CalmOnRecord'
  <2>1. CASE Withdrawn(due)
    BY <2>1, WithdrawnOK DEF NoOutcome, Outcomes, Calm
  <2>2. CASE \E o \in Hindrances : Postponed(due, o)
    BY <2>2, HindrancesOK, PostponedOK
  <2> QED BY <1>1, <2>1, <2>2 DEF ApplyEnds
<1>4. RecordsTypeOK'
  BY <1>0, <1>2, <1>3 DEF RecordsTypeOK
<1>5. SchedulerTypeOK'
  BY <1>0, <1>4, SchedulerTypes DEF SchedulerTypeOK, around, Obstacles
<1>6. RestOnRecord'
  BY <1>0, <1>3 DEF RestOnRecord
<1> QED BY <1>3, <1>4, <1>5, <1>6

\* An attempt whose outcome cannot be recorded.
LEMMA LostInv ==
    ASSUME SchedulerInv, OutcomeLost
    PROVE  SchedulerInv'
<1> USE DEF SchedulerInv
<1>0. UNCHANGED <<around, release, saved, outcome, byHand, rest>> /\ Mishap /\ calm' = Calm /\ sched.due \in Nat
  BY DEF OutcomeLost, RecordsTypeOK
<1>1. PICK due \in Nat, waits \in SUBSET Nat : due = sched.due /\ Sleeps(due, waits) /\ \E wait \in Nat : waits = {wait}
  BY <1>0, DelaysAreNumbers DEF OutcomeLost
<1>2. sched' \in [pc : {"sleep"}, timer : Nat, due : Nat, auto : {0}] /\ sched'.pc = "sleep"
  BY <1>1, SleepsWell
<1>3. installer' \in [version : Releases \cup {0}, left : Nat]
  BY StartedOK DEF OutcomeLost, RecordsTypeOK
<1>4. RecordsTypeOK'
  BY <1>0, <1>2, <1>3 DEF RecordsTypeOK, Calm
<1>5. mishaps' \in 0 .. MaxMishaps
  BY <1>0, DelaysAreNumbers DEF Mishap, SchedulerTypeOK
<1>6. SchedulerTypeOK'
  BY <1>0, <1>4, <1>5, SchedulerTypes DEF SchedulerTypeOK, around, Obstacles
<1>7. RestOnRecord' /\ CalmOnRecord'
  BY <1>0, <1>2 DEF RestOnRecord, CalmOnRecord, Calm
<1> QED BY <1>4, <1>6, <1>7

\* Installers, restarts, requests by hand and the surroundings.
LEMMA AroundInv ==
    ASSUME SchedulerInv, Installed \/ Restarted \/ ByHandBegins \/ Surroundings
    PROVE  SchedulerInv'
<1> USE DEF SchedulerInv
<1>0. JustStarted \in [pc : {"sleep"}, timer : Nat, due : Nat, auto : {0}] /\ JustStarted.pc = "sleep"
  BY DEF JustStarted, NotRunning
<1>1. CASE Installed
  <2>1. /\ UNCHANGED <<around, saved, outcome, byHand, mishaps, calm>> /\ installer' = NoInstaller
        /\ \/ release' = installer.version /\ installer.version > release /\ sched' = JustStarted /\ rest' = 0
           \/ UNCHANGED <<release, sched, rest>>
    BY <1>1 DEF Installed
  <2>2. RecordsTypeOK'
    BY <1>0, <2>1 DEF RecordsTypeOK, NoInstaller
  <2>3. release' \in Releases /\ rest' \in Nat
    <3>1. installer.version \in Releases \cup {0} /\ release \in 1 .. Newest /\ Newest \in Nat /\ rest \in Nat
      BY DelaysAreNumbers DEF RecordsTypeOK, SchedulerTypeOK, Releases
    <3> QED BY <2>1, <3>1 DEF Releases
  <2>4. SchedulerTypeOK'
    BY <2>1, <2>2, <2>3, SchedulerTypes DEF SchedulerTypeOK, around, Obstacles
  <2> QED BY <1>0, <2>1, <2>2, <2>4 DEF RestOnRecord, CalmOnRecord
<1>2. CASE Restarted
  <2>1. UNCHANGED <<around, release, saved, outcome, installer, byHand, rest, calm>> /\ Mishap /\ sched' = JustStarted
    BY <1>2 DEF Restarted, records, histories
  <2>2. RecordsTypeOK'
    BY <1>0, <2>1 DEF RecordsTypeOK
  <2>3. mishaps' \in 0 .. MaxMishaps
    BY <2>1, DelaysAreNumbers DEF Mishap, SchedulerTypeOK
  <2>4. SchedulerTypeOK'
    BY <2>1, <2>2, <2>3, SchedulerTypes DEF SchedulerTypeOK, around, Obstacles
  <2> QED BY <1>0, <2>1, <2>2, <2>4 DEF RestOnRecord, CalmOnRecord
<1>3. CASE ByHandBegins
  <2>1. UNCHANGED <<around, release, saved, outcome, installer, sched, mishaps, rest, calm>> /\ byHand' = TRUE
        /\ sched.pc # "fetch"
    BY <1>3 DEF ByHandBegins, records, histories
  <2>2. RecordsTypeOK'
    BY <2>1 DEF RecordsTypeOK
  <2>3. SchedulerTypeOK'
    BY <2>1, <2>2, SchedulerTypes DEF SchedulerTypeOK, around, Obstacles
  <2> QED BY <2>1, <2>2, <2>3 DEF RestOnRecord, CalmOnRecord
<1>4. CASE Surroundings
  <2>1. UNCHANGED <<release, saved, outcome, installer, byHand, sched, mishaps, rest, calm>>
    BY <1>4 DEF Surroundings, records, histories
  <2>2. RecordsTypeOK'
    BY <2>1 DEF RecordsTypeOK
  <2>3. 2 .. Newest \subseteq Releases
    BY DelaysAreNumbers DEF Releases
  <2>4. gateway' \in [up : BOOLEAN, auto : {0} \cup Releases]
    BY <1>4, <2>3 DEF Surroundings, SchedulerTypeOK
  <2>5. device' \in [native : BOOLEAN, consent : BOOLEAN] /\ device'.native = device.native
    BY <1>4 DEF Surroundings, SchedulerTypeOK
  <2>6. occupied' \in Obstacles'
    BY <1>4, <2>5 DEF Surroundings, SchedulerTypeOK, Obstacles
  <2>7. SchedulerTypeOK'
    BY <2>1, <2>2, <2>4, <2>5, <2>6, SchedulerTypes DEF SchedulerTypeOK
  <2> QED BY <2>1, <2>2, <2>7 DEF RestOnRecord, CalmOnRecord
<1> QED BY <1>1, <1>2, <1>3, <1>4

\* Time passes for everything that is owed alike.
LEMMA TimeInv ==
    ASSUME SchedulerInv, Time
    PROVE  SchedulerInv'
<1> USE DEF SchedulerInv
<1>0. \A n \in Nat : Less(n) \in Nat
  BY DEF Less
<1>1. /\ UNCHANGED <<around, release, byHand, mishaps>>
      /\ sched' = [sched EXCEPT !.timer = Less(@), !.due = Less(@)]
      /\ saved' = [saved EXCEPT !.due = Less(@), !.ago = IF @ < 1 THEN @ + 1 ELSE 1]
      /\ outcome' = [outcome EXCEPT !.wait = Less(@)]
      /\ installer' = IF installer.left > 1 THEN [installer EXCEPT !.left = @ - 1] ELSE NoInstaller
      /\ rest' = Less(rest) /\ calm' = [calm EXCEPT !.wait = Less(@)]
  BY DEF Time
<1>2. /\ sched' \in [pc : {"off", "sleep", "fetch", "apply"}, timer : Nat, due : Nat, auto : Releases \cup {0}]
      /\ sched'.pc = sched.pc /\ sched'.auto = sched.auto
  BY <1>0, <1>1 DEF RecordsTypeOK
<1>3. /\ saved' \in [app : Releases \cup {0}, due : Nat, ago : Int, auto : Releases \cup {0}, error : BOOLEAN]
      /\ saved'.due = Less(saved.due) /\ saved'.app = saved.app /\ (saved.ago >= 0 => saved'.ago >= 0)
  <2>1. saved \in [app : Releases \cup {0}, due : Nat, ago : Int, auto : Releases \cup {0}, error : BOOLEAN]
    BY DEF RecordsTypeOK
  <2>2. PICK due \in Nat, ago \in Int : due = Less(saved.due) /\ ago = IF saved.ago < 1 THEN saved.ago + 1 ELSE 1
    BY <1>0, <2>1
  <2>3. saved' = [saved EXCEPT !.due = due, !.ago = ago] /\ (saved.ago >= 0 => ago >= 0)
    BY <1>1, <2>1, <2>2
  <2>4. saved' \in [app : Releases \cup {0}, due : Nat, ago : Int, auto : Releases \cup {0}, error : BOOLEAN]
    BY <2>1, <2>2, <2>3
  <2>5. saved'.due = due /\ saved'.app = saved.app /\ saved'.ago = ago
    BY <2>1, <2>3
  <2> QED BY <2>2, <2>3, <2>4, <2>5
<1>4. outcome' \in Outcomes /\ outcome'.version = outcome.version /\ outcome'.wait = Less(outcome.wait)
  BY <1>0, <1>1 DEF RecordsTypeOK, Outcomes
<1>5. installer' \in [version : Releases \cup {0}, left : Nat]
  BY <1>1 DEF RecordsTypeOK, NoInstaller
<1>6. /\ calm' \in [version : Releases \cup {0}, wait : Nat] /\ calm'.version = calm.version
      /\ calm'.wait = Less(calm.wait)
  <2>1. calm \in [version : Releases \cup {0}, wait : Nat] /\ Less(calm.wait) \in Nat
    BY <1>0 DEF RecordsTypeOK
  <2>2. calm' = [calm EXCEPT !.wait = Less(calm.wait)]
    BY <1>1
  <2> QED BY <2>1, <2>2
<1>7. RecordsTypeOK'
  BY <1>1, <1>2, <1>3, <1>4, <1>5, <1>6 DEF RecordsTypeOK
<1>8. SchedulerTypeOK'
  <2>1. rest' \in Nat
    BY <1>0, <1>1 DEF SchedulerTypeOK
  <2> QED BY <1>1, <1>7, <2>1, SchedulerTypes DEF SchedulerTypeOK, around, Obstacles
<1>9. Less(0) = 0
  BY DEF Less
<1>10. RestOnRecord'
  BY <1>1, <1>2, <1>3, <1>9 DEF RestOnRecord
<1>11. CalmOnRecord'
  BY <1>2, <1>4, <1>6, <1>9 DEF CalmOnRecord
<1> QED BY <1>7, <1>8, <1>10, <1>11

\* Every step keeps it.
LEMMA SchedulerInvStep == SchedulerInv /\ [SchedulerNext]_schedulerVars => SchedulerInv'
<1> SUFFICES ASSUME SchedulerInv, [SchedulerNext]_schedulerVars PROVE SchedulerInv'
  OBVIOUS
<1>1. CASE UNCHANGED schedulerVars
  BY <1>1 DEF schedulerVars, around, records, histories, SchedulerInv, SchedulerTypeOK, RecordsTypeOK, Obstacles,
              RestOnRecord, CalmOnRecord
<1> QED BY <1>1, WakeInv, CheckInv, ThrowsInv, ApplyInv, LostInv, AroundInv, TimeInv DEF SchedulerNext, SchedulerStep

\* The invariant holds in every reachable state of the update scheduler.
THEOREM SchedulerInvariant == SchedulerSpec => []SchedulerInv
BY SchedulerInvInit, SchedulerInvStep, PTL DEF SchedulerSpec

\* updates.mjs:362-426: the delay the last check or attempt ended with is kept,
\* whatever is restarted, asked for by hand or installed in between.
THEOREM BackOffHoldsAlways == SchedulerSpec => []BackOffHolds
<1>1. SchedulerInv => BackOffHolds
  BY DEF SchedulerInv, RestOnRecord, CalmOnRecord, BackOffHolds
<1> QED BY <1>1, SchedulerInvariant, PTL

-----------------------------------------------------------------------------
(* Standalone: the Linux supervisor, its callers and its workers.              *)

\* A keeper that has been launched and has not ended; it comes to own the record
\* on its way from Early to Late.
Alive(n) == keeper[n].pc \notin {"none", "gone"}
Early == {"launched", "locked"}
Late == {"loop", "spawn", "started", "poll", "clearing", "finishing"}

Procs == [Pids -> [start : 0..MaxBirths, nonce : 0..MaxLaunches,
            role : {"none", "keeper", "worker", "stranger"}, sig : {"none", "term", "kill"}]]
Keepers == [pc : {"none", "gone"} \cup Early \cup Late, id : Identities, stopping : BOOLEAN,
            failures : Nat, child : Identities]
Callers == [pc : {"idle", "start", "stop", "probe", "probed", "term", "dying", "killing", "clear", "rm",
                  "spawn", "wait"},
            after : {"done", "remove", "spawn", "fail"}, nonce : 0..MaxLaunches, owner : Identities]
Clears == [phase : {"idle", "term", "kill", "clear", "failed"}, seen : SUBSET Identities]

MoreTypesOK ==
  /\ StandaloneTypeOK
  /\ keeper \in [Nonces -> Keepers] /\ caller \in Callers /\ clr \in [Actors -> Clears]

\* A process that lives was born, and no two were born at the same time.
ProcsOK ==
  /\ \A p \in Pids : proc[p].role = "none" <=> proc[p].start = 0
  /\ \A p \in Pids : proc[p].start <= births
  /\ \A p, q \in Pids : proc[p].start = proc[q].start /\ proc[p].start # 0 => p = q

\* A keeper is one of the processes as long as it has not ended, and the only one
\* with its nonce; what it has not taken up yet is nobody's record.
KeeperOK(n) ==
  /\ ~Alive(n) => keeper[n].id.start = 0
  /\ Alive(n) =>
    LET p == keeper[n].id.pid IN
    /\ p \in Pids /\ keeper[n].id.start # 0 /\ proc[p].start = keeper[n].id.start
    /\ proc[p].role = "keeper" /\ proc[p].nonce = n
    /\ keeper[n].pc \in Early => record = NoRecord /\ (loose \/ (caller.pc = "wait" /\ caller.nonce = n))
    /\ keeper[n].pc \in Late => record.nonce = n /\ record.owner = keeper[n].id

KeepersOK ==
  /\ \E l \in 0..MaxLaunches : \A n \in Nonces : keeper[n].pc # "none" <=> n <= l
  /\ \A n \in Nonces : KeeperOK(n)
  /\ \A n, m \in Nonces : Alive(n) /\ Alive(m) => n = m
  /\ \A p \in Pids : proc[p].role = "keeper" => \E n \in Nonces : Alive(n) /\ keeper[n].id.pid = p

\* The record is that of a keeper that took it up.
RecordOK ==
  /\ record.nonce = 0 => record = NoRecord
  /\ record.nonce # 0 =>
       /\ record.owner.start # 0 /\ record.owner.start <= births /\ record.owner.pid \in Pids
       /\ keeper[record.nonce].pc \in Late \cup {"gone"}
       /\ isSameProcess(record.owner) => proc[record.owner.pid].role = "keeper"
       /\ \A p \in Pids : proc[p].role = "worker" => proc[p].start >= record.owner.start

WorkersOK == \A p \in Pids : proc[p].role = "worker" => proc[p].nonce # 0 /\ proc[p].nonce = record.nonce

NoWorkers == \A p \in Pids : proc[p].role # "worker"
\* Nothing runs, and no keeper is about to start anything.
Still == NoWorkers /\ \A n \in Nonces : keeper[n].pc \notin {"spawn", "started", "poll", "clearing"}

\* What the operation may rely on.
CallerOK ==
  /\ caller.pc \in {"spawn", "wait"} \/ caller.after = "spawn" => ~suspended
  /\ caller.pc \in {"probe", "probed", "spawn"} => loose \/ record = NoRecord
  /\ caller.pc = "wait" => caller.nonce # 0
  /\ caller.pc \in {"term", "dying", "killing", "clear", "rm"} =>
       caller.nonce # 0 /\ record.nonce = caller.nonce /\ record.owner = caller.owner
  /\ caller.pc \in {"clear", "rm"} => \A n \in Nonces : ~Alive(n)
  /\ caller.pc = "rm" \/ (caller.pc = "clear" /\ clr[0].phase = "clear") => NoWorkers
  /\ clr[0].phase # "idle" => caller.pc = "clear"
  /\ suspended /\ caller.pc \in {"probe", "probed"} => Still
  /\ quiet => suspended /\ Still

\* What is to be signalled was a worker, and its id has no other owner of that age.
SeenOK ==
  \A a \in Actors : \A id \in clr[a].seen :
    /\ id.start \in 1..births /\ id.pid \in Pids
    /\ isSameProcess(id) => proc[id.pid].role = "worker"

StandaloneInv ==
  MoreTypesOK /\ ProcsOK /\ KeepersOK /\ RecordOK /\ WorkersOK /\ CallerOK /\ SeenOK /\ StrangersUnharmed

\* What a step does to the process table, seen from those who were there before.
Persist == \A q \in Pids : proc'[q].start # 0 /\ proc'[q].start <= births =>
                             proc[q].start = proc'[q].start /\ proc[q].role = proc'[q].role
SameProcs == \A q \in Pids : /\ proc'[q].start = proc[q].start /\ proc'[q].role = proc[q].role
                             /\ proc'[q].nonce = proc[q].nonce
ProcOK == [start : 0..MaxBirths, nonce : 0..MaxLaunches,
           role : {"none", "keeper", "worker", "stranger"}, sig : {"none", "term", "kill"}]

LEMMA BoundsAreNumbers ==
  /\ MaxPids \in Nat /\ MaxBirths \in Nat /\ MaxLaunches \in Nat /\ MaxFailures \in Nat /\ MaxCrashes \in Nat
  /\ \A n \in Nonces : n \in Nat /\ n # 0 /\ n \in 0..MaxLaunches /\ n \in Actors /\ n # Probing
  /\ \A p \in Pids : p \in Nat /\ p \in 0..MaxPids
  /\ 0 \in Actors
BY StandaloneAssumption DEF Nonces, Pids, Actors, Probing

\* A process ends.
LEMMA TableDies ==
  ASSUME StandaloneTypeOK, ProcsOK, NEW p \in Pids,
         proc' = [proc EXCEPT ![p] = NoProcess], births' = births
  PROVE  /\ proc' \in [Pids -> ProcOK] /\ births' \in 0..MaxBirths /\ ProcsOK' /\ Persist
         /\ \A q \in Pids : q # p => proc'[q] = proc[q]
         /\ proc'[p].role = "none" /\ proc'[p].start = 0
         /\ StrangersUnharmed => StrangersUnharmed'
<1>1. proc \in [Pids -> ProcOK] /\ births \in 0..MaxBirths
  BY DEF StandaloneTypeOK, ProcOK
<1>2. NoProcess \in ProcOK /\ NoProcess.start = 0 /\ NoProcess.role = "none"
  BY BoundsAreNumbers DEF NoProcess, ProcOK
<1>3. proc' \in [Pids -> ProcOK] /\ proc'[p] = NoProcess /\ \A q \in Pids : q # p => proc'[q] = proc[q]
  BY <1>1, <1>2
<1>4. ProcsOK'
  BY <1>1, <1>2, <1>3, BoundsAreNumbers DEF ProcsOK, ProcOK
<1> QED BY <1>1, <1>2, <1>3, <1>4 DEF Persist, StrangersUnharmed

\* A process is signalled, or heeds a signal.
LEMMA TableSignal ==
  ASSUME StandaloneTypeOK, ProcsOK, NEW p \in Pids, NEW sig \in {"none", "term", "kill"},
         proc' = [proc EXCEPT ![p].sig = sig], births' = births
  PROVE  /\ proc' \in [Pids -> ProcOK] /\ births' \in 0..MaxBirths /\ ProcsOK' /\ Persist /\ SameProcs
         /\ proc[p].role # "stranger" /\ StrangersUnharmed => StrangersUnharmed'
<1>1. proc \in [Pids -> ProcOK] /\ births \in 0..MaxBirths
  BY DEF StandaloneTypeOK, ProcOK
<1>2. PICK r \in ProcOK : /\ r = [proc[p] EXCEPT !.sig = sig] /\ r.start = proc[p].start /\ r.role = proc[p].role
                          /\ r.nonce = proc[p].nonce
  BY <1>1 DEF ProcOK
<1>3. proc' \in [Pids -> ProcOK] /\ proc'[p] = r /\ \A q \in Pids : q # p => proc'[q] = proc[q]
  BY <1>1, <1>2
<1>4. SameProcs
  BY <1>2, <1>3 DEF SameProcs
<1>5. ProcsOK' /\ Persist
  BY <1>4 DEF ProcsOK, SameProcs, Persist
<1> QED BY <1>1, <1>2, <1>3, <1>4, <1>5 DEF StrangersUnharmed

LEMMA TableSame ==
  ASSUME StandaloneTypeOK, ProcsOK, UNCHANGED table
  PROVE  /\ proc' \in [Pids -> ProcOK] /\ births' \in 0..MaxBirths /\ ProcsOK' /\ Persist /\ SameProcs
         /\ StrangersUnharmed => StrangersUnharmed'
BY DEF table, StandaloneTypeOK, ProcOK, ProcsOK, Persist, SameProcs, StrangersUnharmed

\* Only a process that is known is signalled, and it is no stranger.
LEMMA TableSignalled ==
  ASSUME StandaloneTypeOK, ProcsOK, StrangersUnharmed, NEW id, id.start # 0 => id.pid \in Pids,
         NEW signal \in {"term", "kill"},
         isSameProcess(id) => proc[id.pid].role # "stranger",
         proc' = Signalled(id, signal), births' = births
  PROVE  /\ proc' \in [Pids -> ProcOK] /\ births' \in 0..MaxBirths /\ ProcsOK' /\ Persist /\ SameProcs
         /\ StrangersUnharmed'
<1>1. CASE isSameProcess(id) /\ ~(signal = "term" /\ proc[id.pid].role = "worker")
  <2>1. PICK p \in Pids : p = id.pid
    BY <1>1 DEF isSameProcess
  <2>2. proc' = [proc EXCEPT ![p].sig = signal] /\ proc[p].role # "stranger"
    BY <1>1, <2>1 DEF Signalled
  <2>3. PICK sig \in {"none", "term", "kill"} : sig = signal
    OBVIOUS
  <2> QED BY <2>2, <2>3, TableSignal
<1>2. CASE ~(isSameProcess(id) /\ ~(signal = "term" /\ proc[id.pid].role = "worker"))
  BY <1>2, TableSame DEF Signalled, table
<1> QED BY <1>1, <1>2

\* A process is born: the youngest, under an id nobody has.
LEMMA TableBorn ==
  ASSUME StandaloneTypeOK, ProcsOK, NEW p \in Pids, NEW role \in {"keeper", "worker", "stranger"},
         NEW nonce \in 0..MaxLaunches, Born(p, role, nonce)
  PROVE  /\ proc' \in [Pids -> ProcOK] /\ births' \in 0..MaxBirths /\ ProcsOK' /\ Persist
         /\ \A q \in Pids : q # p => proc'[q] = proc[q]
         /\ proc[p].role = "none" /\ proc'[p].role = role /\ proc'[p].nonce = nonce
         /\ proc'[p].start = births + 1 /\ births' = births + 1
         /\ StrangersUnharmed => StrangersUnharmed'
<1>1. proc \in [Pids -> ProcOK] /\ births \in 0..MaxBirths
  BY DEF StandaloneTypeOK, ProcOK
<1>2. births < MaxBirths /\ births' = births + 1 /\ proc[p].role = "none"
  BY DEF Born, Live
<1>3. PICK r \in ProcOK : /\ r = [start |-> births + 1, role |-> role, nonce |-> nonce, sig |-> "none"]
                          /\ r.start = births + 1 /\ r.role = role /\ r.nonce = nonce /\ r.sig = "none"
  <2>1. births + 1 \in 0..MaxBirths
    BY <1>1, <1>2, BoundsAreNumbers
  <2>2. [start |-> births + 1, role |-> role, nonce |-> nonce, sig |-> "none"] \in ProcOK
    BY <2>1 DEF ProcOK
  <2> QED BY <2>2
<1>4. proc' \in [Pids -> ProcOK] /\ proc'[p] = r /\ \A q \in Pids : q # p => proc'[q] = proc[q]
  BY <1>1, <1>3 DEF Born
<1>5. births' \in 0..MaxBirths
  BY <1>1, <1>2, BoundsAreNumbers
<1>6. ProcsOK'
  BY <1>1, <1>2, <1>3, <1>4, BoundsAreNumbers DEF ProcsOK, ProcOK
<1>7. Persist
  BY <1>1, <1>3, <1>4 DEF Persist
<1> QED BY <1>2, <1>3, <1>4, <1>5, <1>6, <1>7 DEF StrangersUnharmed

\* An identity that matches has matched before, and is of the same role.
LEMMA StillTheSame ==
  ASSUME ProcsOK, Persist, NEW id, id.start # 0, id.start <= births, id.pid \in Pids, isSameProcess(id)'
  PROVE  isSameProcess(id) /\ proc'[id.pid].role = proc[id.pid].role
BY DEF Persist, isSameProcess

\* What is seen by a look at the owned workers are workers, each of its age.
OfWorker(id) == id.pid \in Pids /\ proc[id.pid].role = "worker" /\ id.start = proc[id.pid].start

LEMMA OwnedAreWorkers ==
  ASSUME StandaloneTypeOK, NEW owner, NEW nonce
  PROVE  /\ ownedWorkers(owner, nonce) \in SUBSET Identities
         /\ \A id \in ownedWorkers(owner, nonce) : OfWorker(id)
<1> SUFFICES ASSUME NEW id \in ownedWorkers(owner, nonce) PROVE id \in Identities /\ OfWorker(id)
  OBVIOUS
<1>1. PICK p \in Pids : id = [pid |-> p, start |-> proc[p].start] /\ proc[p].role = "worker"
  BY DEF ownedWorkers
<1>2. proc[p].start \in 0..MaxBirths /\ p \in 0..MaxPids
  BY BoundsAreNumbers DEF StandaloneTypeOK
<1> QED BY <1>1, <1>2 DEF OfWorker, Identities

\* What is to be signalled remains a worker or nothing.
LEMMA SeenKept ==
  ASSUME StandaloneTypeOK, ProcsOK, SeenOK, Persist, births' \in Nat, births <= births',
         \A a \in Actors : \A id \in clr'[a].seen : id \in clr[a].seen \/ OfWorker(id)
  PROVE  SeenOK'
<1> SUFFICES ASSUME NEW a \in Actors, NEW id \in clr'[a].seen
             PROVE  /\ id.start \in 1..births' /\ id.pid \in Pids
                    /\ isSameProcess(id)' => proc'[id.pid].role = "worker"
  BY DEF SeenOK
<1>0. births \in Nat
  BY BoundsAreNumbers DEF StandaloneTypeOK
<1>1. CASE id \in clr[a].seen
  <2>1. /\ id.start \in 1..births /\ id.start # 0 /\ id.start <= births /\ id.pid \in Pids
        /\ isSameProcess(id) => proc[id.pid].role = "worker"
    BY <1>0, <1>1 DEF SeenOK
  <2>2. id.start \in 1..births'
    BY <2>1, <1>0
  <2> QED BY <2>1, <2>2, StillTheSame
<1>2. CASE OfWorker(id)
  <2>1. /\ id.start # 0 /\ id.start <= births /\ id.pid \in Pids /\ proc[id.pid].role = "worker"
        /\ id.start \in Nat
    BY <1>2, BoundsAreNumbers DEF OfWorker, ProcsOK, StandaloneTypeOK
  <2>2. id.start \in 1..births'
    BY <2>1, <1>0
  <2> QED BY <2>1, <2>2, StillTheSame
<1> QED BY <1>1, <1>2

\* The record keeps what it says while its keeper does and no worker is older than it.
LEMMA RecordKept ==
  ASSUME StandaloneTypeOK, ProcsOK, RecordOK, Persist, births' \in Nat, births <= births',
         record'.nonce = record.nonce, record'.owner = record.owner, record.nonce = 0 => record' = record,
         record \in Records,
         \A n \in Nonces : keeper[n].pc \in Late \cup {"gone"} => keeper'[n].pc \in Late \cup {"gone"},
         \A p \in Pids : proc'[p].role = "worker" => proc'[p].start \in Nat /\
                           ((proc[p].role = "worker" /\ proc'[p].start = proc[p].start) \/ proc'[p].start > births)
  PROVE  RecordOK'
<1>0. births \in Nat /\ record.owner.start \in Nat /\ record.nonce \in 0..MaxLaunches
  BY BoundsAreNumbers DEF StandaloneTypeOK, Records, Identities
<1>1. CASE record.nonce = 0
  BY <1>1 DEF RecordOK
<1>2. CASE record.nonce # 0
  <2>1. /\ record.owner.start # 0 /\ record.owner.start <= births /\ record.owner.pid \in Pids
        /\ keeper[record.nonce].pc \in Late \cup {"gone"} /\ record.nonce \in Nonces
        /\ isSameProcess(record.owner) => proc[record.owner.pid].role = "keeper"
        /\ \A p \in Pids : proc[p].role = "worker" => proc[p].start >= record.owner.start
    BY <1>0, <1>2, BoundsAreNumbers DEF RecordOK, Nonces
  <2>2. record.owner.start <= births' /\ keeper'[record.nonce].pc \in Late \cup {"gone"}
    BY <1>0, <2>1
  <2>3. isSameProcess(record.owner)' => proc'[record.owner.pid].role = "keeper"
    BY <2>1 DEF Persist, isSameProcess
  <2>4. \A p \in Pids : proc'[p].role = "worker" => proc'[p].start >= record.owner.start
    BY <1>0, <2>1
  <2> QED BY <1>2, <2>1, <2>2, <2>3, <2>4 DEF RecordOK
<1> QED BY <1>1, <1>2

\* Keepers that are left alone, with their processes.
LEMMA KeepersKept ==
  ASSUME KeepersOK, UNCHANGED <<keeper, record>>,
         \A p \in Pids : proc[p].role = "keeper" \/ proc'[p].role = "keeper" =>
            proc'[p].start = proc[p].start /\ proc'[p].role = proc[p].role /\ proc'[p].nonce = proc[p].nonce,
         \A n \in Nonces : keeper[n].pc \in Early /\ (loose \/ (caller.pc = "wait" /\ caller.nonce = n)) =>
            loose' \/ (caller'.pc = "wait" /\ caller'.nonce = n)
  PROVE  KeepersOK'
<1>1. \A n \in Nonces : Alive(n)' <=> Alive(n)
  BY DEF Alive
<1>2. ASSUME NEW n \in Nonces PROVE KeeperOK(n)'
  BY <1>1, <1>2 DEF KeepersOK, KeeperOK
<1>3. \A p \in Pids : proc'[p].role = "keeper" => \E n \in Nonces : Alive(n)' /\ keeper'[n].id.pid = p
  BY <1>1 DEF KeepersOK
<1> QED BY <1>1, <1>2, <1>3 DEF KeepersOK

-----------------------------------------------------------------------------
(* Callers. *)

LEMMA StillKept == ASSUME Still, SameProcs, UNCHANGED keeper PROVE Still'
BY DEF Still, NoWorkers, SameProcs

\* A step of the caller leaves the keepers and the record to themselves.
LEMMA CallerMoves ==
  ASSUME StandaloneInv, UNCHANGED <<keeper, record, births>>,
         SameProcs, Persist, ProcsOK', StrangersUnharmed', MoreTypesOK',
         \A n \in Nonces : keeper[n].pc \in Early /\ (loose \/ (caller.pc = "wait" /\ caller.nonce = n)) =>
            loose' \/ (caller'.pc = "wait" /\ caller'.nonce = n),
         \A a \in Actors : \A id \in clr'[a].seen : id \in clr[a].seen \/ OfWorker(id),
         CallerOK'
  PROVE  StandaloneInv'
<1> USE DEF StandaloneInv
<1>0. births \in Nat /\ births' \in Nat /\ births <= births' /\ StandaloneTypeOK /\ record \in Records
  BY BoundsAreNumbers DEF MoreTypesOK, StandaloneTypeOK
<1>1. KeepersOK'
  BY KeepersKept DEF SameProcs
<1>2. \A p \in Pids : proc[p].start \in Nat
  BY <1>0, BoundsAreNumbers DEF StandaloneTypeOK
<1>3. RecordOK'
  BY <1>0, <1>2, RecordKept DEF SameProcs
<1>4. WorkersOK'
  BY DEF WorkersOK, SameProcs
<1>5. SeenOK'
  BY <1>0, SeenKept
<1> QED BY <1>1, <1>3, <1>4, <1>5

LEMMA NoClearOK ==
  ASSUME clr \in [Actors -> Clears], NEW a \in Actors, clr' = [clr EXCEPT ![a] = NoClear]
  PROVE  /\ clr' \in [Actors -> Clears] /\ clr'[a].phase = "idle" /\ clr'[a].seen = {}
         /\ \A b \in Actors : b # a => clr'[b] = clr[b]
<1>1. NoClear \in Clears /\ NoClear.phase = "idle" /\ NoClear.seen = {}
  BY DEF NoClear, Clears
<1> QED BY <1>1

LEMMA ClearStartOK ==
  ASSUME StandaloneTypeOK, clr \in [Actors -> Clears], NEW a \in Actors, NEW owner, NEW nonce,
         clearStart(a, owner, nonce)
  PROVE  /\ clr' \in [Actors -> Clears] /\ clr'[a].phase = "term"
         /\ \A b \in Actors : b # a => clr'[b] = clr[b]
         /\ \A b \in Actors : \A id \in clr'[b].seen : id \in clr[b].seen \/ OfWorker(id)
<1>1. PICK seen \in SUBSET Identities : seen = ownedWorkers(owner, nonce) /\ \A id \in seen : OfWorker(id)
  BY OwnedAreWorkers
<1>2. PICK c \in Clears : c = [phase |-> "term", seen |-> seen] /\ c.phase = "term" /\ c.seen = seen
  <2>1. [phase |-> "term", seen |-> seen] \in Clears
    BY DEF Clears
  <2> QED BY <2>1
<1>3. clr' = [clr EXCEPT ![a] = c]
  BY <1>1, <1>2 DEF clearStart
<1> QED BY <1>1, <1>2, <1>3

\* The operation returns: nothing is relied on any more but what was confirmed.
LEMMA ReturnOK ==
  ASSUME StandaloneInv, NEW ok \in BOOLEAN, Return(ok), SameProcs, UNCHANGED <<suspended, keeper>>,
         ok /\ suspended /\ caller.pc # "start" => Still
  PROVE  /\ caller' \in Callers /\ clr' \in [Actors -> Clears] /\ quiet' \in BOOLEAN /\ caller'.pc = "idle"
         /\ \A a \in Actors : \A id \in clr'[a].seen : id \in clr[a].seen \/ OfWorker(id)
         /\ CallerOK'
<1> USE DEF StandaloneInv
<1>0. caller' = IdleCaller /\ clr' = [clr EXCEPT ![0] = NoClear]
      /\ quiet' = (quiet \/ (ok /\ suspended /\ caller.pc # "start"))
  BY DEF Return
<1>1. caller' \in Callers /\ caller'.pc = "idle" /\ caller'.after = "done"
  <2>1. NoIdentity \in Identities
    BY BoundsAreNumbers DEF NoIdentity, Identities
  <2>2. IdleCaller \in Callers /\ IdleCaller.pc = "idle" /\ IdleCaller.after = "done"
    BY <2>1, BoundsAreNumbers DEF IdleCaller, Callers
  <2> QED BY <1>0, <2>2
<1>2. /\ clr' \in [Actors -> Clears] /\ clr'[0].phase = "idle" /\ clr'[0].seen = {}
      /\ \A b \in Actors : b # 0 => clr'[b] = clr[b]
  BY <1>0, BoundsAreNumbers, NoClearOK DEF MoreTypesOK
<1>3. quiet' \in BOOLEAN
  BY <1>0 DEF MoreTypesOK, StandaloneTypeOK
<1>4. quiet' => suspended' /\ Still'
  BY <1>0, StillKept DEF CallerOK
<1>5. CallerOK'
  BY <1>1, <1>2, <1>4 DEF CallerOK
<1> QED BY <1>1, <1>2, <1>3, <1>5

\* Whatever is left of a caller's step leaves the types alone.
LEMMA CallerTypes ==
  ASSUME StandaloneInv, caller' \in Callers, clr' \in [Actors -> Clears], UNCHANGED <<keeper, record>>,
         {suspended', installed', quiet', loose'} \subseteq BOOLEAN,
         lock' \in Nonces \cup {Free, Probing}, proc' \in [Pids -> ProcOK], births' \in 0..MaxBirths,
         crashes' \in 0..MaxCrashes
  PROVE  MoreTypesOK'
BY DEF StandaloneInv, MoreTypesOK, StandaloneTypeOK, ProcOK

LEMMA BeginInv == ASSUME StandaloneInv, NEW op, Begin(op) PROVE StandaloneInv'
<1> USE DEF StandaloneInv
<1>0. StandaloneTypeOK /\ UNCHANGED <<record, lock, proc, births, keeper, clr, crashes, loose>>
  BY DEF Begin, disk, table, MoreTypesOK
<1>1. /\ caller.pc = "idle" /\ suspended' \in BOOLEAN /\ installed' \in BOOLEAN
      /\ quiet' = (quiet /\ suspended')
  BY <1>0 DEF Begin, StandaloneTypeOK
<1>2. caller' \in Callers /\ caller'.pc \in {"stop", "start"} /\ caller'.after \in {"remove", "done"}
  <2>1. NoIdentity \in Identities
    BY BoundsAreNumbers DEF NoIdentity, Identities
  <2>2. IdleCaller \in Callers
    BY <2>1, BoundsAreNumbers DEF IdleCaller, Callers
  <2>3. PICK pc \in {"stop", "start"}, after \in {"remove", "done"} :
           caller' = [IdleCaller EXCEPT !.after = after, !.pc = pc]
    BY DEF Begin
  <2> QED BY <2>2, <2>3 DEF Callers
<1>3. /\ proc' \in [Pids -> ProcOK] /\ births' \in 0..MaxBirths /\ ProcsOK' /\ Persist /\ SameProcs
      /\ StrangersUnharmed'
  BY <1>0, TableSame DEF table
<1>4. MoreTypesOK'
  BY <1>0, <1>1, <1>2, <1>3, CallerTypes DEF MoreTypesOK, StandaloneTypeOK
<1>5. CallerOK'
  <2>1. quiet' => suspended' /\ Still'
    BY <1>0, <1>1, <1>3, StillKept DEF CallerOK
  <2>2. clr'[0].phase = "idle"
    BY <1>0, <1>1, BoundsAreNumbers DEF CallerOK
  <2> QED BY <1>2, <2>1, <2>2 DEF CallerOK
<1> QED BY <1>0, <1>1, <1>3, <1>4, <1>5, CallerMoves

\* Without a keeper alive, and with nobody on record, nothing runs.
LEMMA NobodyIsStill ==
  ASSUME StandaloneInv, record = NoRecord
  PROVE  Still
<1>1. record.nonce = 0
  BY DEF NoRecord
<1>2. NoWorkers
  BY <1>1 DEF StandaloneInv, WorkersOK, NoWorkers
<1>3. ASSUME NEW n \in Nonces, keeper[n].pc \in Late PROVE FALSE
  BY <1>1, <1>3, BoundsAreNumbers DEF StandaloneInv, KeepersOK, KeeperOK, Alive, Late
<1> QED BY <1>2, <1>3 DEF Still, Late

\* A keeper that is not alive by its record is not alive.
LEMMA NotAlive ==
  ASSUME StandaloneInv, record # NoRecord, ~keeperAlive(record)
  PROVE  \A n \in Nonces : ~Alive(n)
<1> SUFFICES ASSUME NEW n \in Nonces, Alive(n) PROVE FALSE
  OBVIOUS
<1>1. KeeperOK(n) /\ keeper \in [Nonces -> Keepers] /\ keeper[n].pc \in {"none", "gone"} \cup Early \cup Late
  BY DEF StandaloneInv, KeepersOK, MoreTypesOK, Keepers
<1>2. keeper[n].pc \in Early \cup Late
  BY <1>1 DEF Alive
<1>3. keeper[n].pc \in Late
  BY <1>1, <1>2 DEF KeeperOK
<1> QED BY <1>1, <1>3 DEF KeeperOK, keeperAlive, isSameProcess

\* Without a worker of its session there is none at all.
LEMMA NoneLeft ==
  ASSUME StandaloneInv, record.nonce # 0, ownedWorkers(record.owner, record.nonce) = {}
  PROVE  NoWorkers
<1> SUFFICES ASSUME NEW p \in Pids, proc[p].role = "worker" PROVE FALSE
  BY DEF NoWorkers
<1>1. proc[p].nonce = record.nonce /\ proc[p].start >= record.owner.start
  BY DEF StandaloneInv, WorkersOK, RecordOK
<1>2. [pid |-> p, start |-> proc[p].start] \in ownedWorkers(record.owner, record.nonce)
  BY <1>1 DEF ownedWorkers
<1> QED BY <1>2

LEMMA CallerPc ==
  ASSUME caller \in Callers,
         NEW pc \in {"idle", "start", "stop", "probe", "probed", "term", "dying", "killing", "clear", "rm", "spawn", "wait"},
         caller' = [caller EXCEPT !.pc = pc]
  PROVE  caller' \in Callers /\ caller'.pc = pc /\ caller'.after = caller.after /\ caller'.nonce = caller.nonce
         /\ caller'.owner = caller.owner
BY DEF Callers

LEMMA Returns ==
  ASSUME StandaloneInv, NEW ok \in BOOLEAN, Return(ok),
         UNCHANGED <<suspended, record, proc, births, keeper, crashes, loose>>,
         installed' \in BOOLEAN, lock' \in Nonces \cup {Free, Probing},
         ok /\ suspended /\ caller.pc # "start" => Still,
         caller.pc = "wait" => record.nonce # 0
  PROVE  StandaloneInv'
<1> USE DEF StandaloneInv
<1>0. StandaloneTypeOK
  BY DEF MoreTypesOK
<1>1. /\ proc' \in [Pids -> ProcOK] /\ births' \in 0..MaxBirths /\ ProcsOK' /\ Persist /\ SameProcs
      /\ StrangersUnharmed'
  BY <1>0, TableSame DEF table
<1>2. /\ caller' \in Callers /\ clr' \in [Actors -> Clears] /\ quiet' \in BOOLEAN
      /\ \A a \in Actors : \A id \in clr'[a].seen : id \in clr[a].seen \/ OfWorker(id)
      /\ CallerOK'
  BY <1>1, ReturnOK
<1>3. MoreTypesOK'
  BY <1>0, <1>1, <1>2, CallerTypes DEF StandaloneTypeOK
<1>4. ASSUME NEW n \in Nonces, keeper[n].pc \in Early, loose \/ (caller.pc = "wait" /\ caller.nonce = n)
      PROVE  loose'
  BY <1>4 DEF KeepersOK, KeeperOK, Alive, Early, NoRecord
<1> QED BY <1>1, <1>2, <1>3, <1>4, CallerMoves

LEMMA StartOneInv == ASSUME StandaloneInv, startOne PROVE StandaloneInv'
<1> USE DEF StandaloneInv
<1>0. /\ StandaloneTypeOK /\ UNCHANGED <<suspended, installed, record, lock, proc, births, keeper, crashes, loose>>
      /\ caller.pc = "start" /\ caller \in Callers /\ clr \in [Actors -> Clears] /\ record \in Records
  BY DEF startOne, intent, disk, table, MoreTypesOK, StandaloneTypeOK
<1>1. /\ proc' \in [Pids -> ProcOK] /\ births' \in 0..MaxBirths /\ ProcsOK' /\ Persist /\ SameProcs
      /\ StrangersUnharmed'
  BY <1>0, TableSame DEF table
<1>2. CASE suspended
  <2>1. PICK ok \in BOOLEAN : ok = TRUE /\ Return(ok)
    BY <1>2 DEF startOne
  <2> QED BY <1>0, <2>1, Returns DEF StandaloneTypeOK
<1>3. CASE ~suspended
  <2>1. /\ UNCHANGED <<clr, quiet>>
        /\ \/ keeperAlive(record) /\ caller' = [caller EXCEPT !.pc = "wait", !.nonce = record.nonce]
           \/ caller' = [caller EXCEPT !.pc = "stop", !.after = "spawn"]
    BY <1>3 DEF startOne
  <2>2. keeperAlive(record) => record.nonce # 0
    BY DEF RecordOK, keeperAlive, isSameProcess, NoRecord, NoIdentity
  <2>3. /\ caller' \in Callers /\ caller'.pc \in {"wait", "stop"}
        /\ caller'.pc = "wait" => caller'.nonce # 0
    BY <1>0, <2>1, <2>2 DEF Callers, Records
  <2>4. MoreTypesOK'
    BY <1>0, <1>1, <2>1, <2>3, CallerTypes DEF StandaloneTypeOK
  <2>5. quiet' => suspended' /\ Still'
    BY <1>0, <1>1, <2>1, StillKept DEF CallerOK
  <2>6. clr'[0].phase = "idle"
    BY <1>0, <2>1, BoundsAreNumbers DEF CallerOK
  <2>7. CallerOK'
    BY <1>0, <1>3, <2>3, <2>5, <2>6 DEF CallerOK
  <2> QED BY <1>0, <1>1, <2>1, <2>4, <2>7, CallerMoves
<1> QED BY <1>2, <1>3

LEMMA StopOneInv == ASSUME StandaloneInv, stopOne PROVE StandaloneInv'
<1> USE DEF StandaloneInv
<1>0. /\ StandaloneTypeOK /\ UNCHANGED <<suspended, installed, record, lock, proc, births, keeper, crashes, loose>>
      /\ caller.pc = "stop" /\ caller \in Callers /\ clr \in [Actors -> Clears] /\ record \in Records
  BY DEF stopOne, intent, disk, table, MoreTypesOK, StandaloneTypeOK
<1>1. /\ proc' \in [Pids -> ProcOK] /\ births' \in 0..MaxBirths /\ ProcsOK' /\ Persist /\ SameProcs
      /\ StrangersUnharmed'
  BY <1>0, TableSame DEF table
<1>2. clr[0].phase = "idle" /\ (quiet' = quiet => (quiet' => suspended' /\ Still'))
  BY <1>0, <1>1, StillKept DEF CallerOK
<1>3. CASE record = NoRecord
  <2>1. caller' = [caller EXCEPT !.pc = "probe"] /\ UNCHANGED <<clr, quiet>>
    BY <1>3 DEF stopOne
  <2>2. /\ caller' \in Callers /\ caller'.pc = "probe" /\ caller'.after = caller.after
    BY <1>0, <2>1 DEF Callers
  <2>3. Still'
    BY <1>0, <1>1, <1>3, NobodyIsStill, StillKept
  <2>4. MoreTypesOK'
    BY <1>0, <1>1, <2>1, <2>2, CallerTypes DEF StandaloneTypeOK
  <2>5. CallerOK'
    BY <1>0, <1>2, <1>3, <2>1, <2>2, <2>3 DEF CallerOK
  <2> QED BY <1>0, <1>1, <2>1, <2>4, <2>5, CallerMoves
<1>4. CASE record # NoRecord /\ keeperAlive(record)
  <2>1. caller' = Target("term") /\ UNCHANGED <<clr, quiet>>
    BY <1>4 DEF stopOne
  <2>2. /\ caller' \in Callers /\ caller'.pc = "term" /\ caller'.after = caller.after
        /\ caller'.nonce = record.nonce /\ caller'.owner = record.owner
    BY <1>0, <2>1 DEF Callers, Target, Records
  <2>3. record.nonce # 0
    BY <1>4 DEF RecordOK
  <2>4. MoreTypesOK'
    BY <1>0, <1>1, <2>1, <2>2, CallerTypes DEF StandaloneTypeOK
  <2>5. CallerOK'
    BY <1>0, <1>2, <2>1, <2>2, <2>3 DEF CallerOK
  <2> QED BY <1>0, <1>1, <2>1, <2>4, <2>5, CallerMoves
<1>5. CASE record # NoRecord /\ ~keeperAlive(record) /\ isSameProcess(record.owner)
  <2>1. PICK ok \in BOOLEAN : ok = FALSE /\ Return(ok)
    BY <1>5 DEF stopOne
  <2> QED BY <1>0, <2>1, Returns DEF StandaloneTypeOK
<1>6. CASE record # NoRecord /\ ~keeperAlive(record) /\ ~isSameProcess(record.owner)
  <2>1. caller' = Target("clear") /\ clearStart(0, record.owner, record.nonce) /\ UNCHANGED quiet
    BY <1>6 DEF stopOne
  <2>2. /\ caller' \in Callers /\ caller'.pc = "clear" /\ caller'.after = caller.after
        /\ caller'.nonce = record.nonce /\ caller'.owner = record.owner
    BY <1>0, <2>1 DEF Callers, Target, Records
  <2>3. record.nonce # 0 /\ \A n \in Nonces : ~Alive(n)
    BY <1>6, NotAlive DEF RecordOK
  <2>4. /\ clr' \in [Actors -> Clears] /\ clr'[0].phase = "term"
        /\ \A b \in Actors : \A id \in clr'[b].seen : id \in clr[b].seen \/ OfWorker(id)
    BY <1>0, <2>1, BoundsAreNumbers, ClearStartOK
  <2>5. MoreTypesOK'
    BY <1>0, <1>1, <2>1, <2>2, <2>4, CallerTypes DEF StandaloneTypeOK
  <2>6. \A n \in Nonces : ~Alive(n)'
    BY <1>0, <2>3 DEF Alive
  <2>7. CallerOK'
    BY <1>0, <1>2, <2>1, <2>2, <2>3, <2>4, <2>6 DEF CallerOK
  <2> QED BY <1>0, <1>1, <2>2, <2>4, <2>5, <2>7, CallerMoves
<1> QED BY <1>3, <1>4, <1>5, <1>6

LEMMA ProbeInv == ASSUME StandaloneInv, processLockHeld PROVE StandaloneInv'
<1> USE DEF StandaloneInv
<1>0. /\ StandaloneTypeOK /\ UNCHANGED <<suspended, installed, record, proc, births, keeper, crashes, loose>>
      /\ caller.pc = "probe" /\ caller \in Callers /\ clr \in [Actors -> Clears] /\ record \in Records
      /\ lock' \in {lock, Probing}
  BY DEF processLockHeld, intent, table, MoreTypesOK, StandaloneTypeOK
<1>1. /\ proc' \in [Pids -> ProcOK] /\ births' \in 0..MaxBirths /\ ProcsOK' /\ Persist /\ SameProcs
      /\ StrangersUnharmed'
  BY <1>0, TableSame DEF table
<1>2. CASE lock = Free
  <2>1. caller' = [caller EXCEPT !.pc = "probed"] /\ UNCHANGED <<clr, quiet>>
    BY <1>2 DEF processLockHeld
  <2>2. /\ caller' \in Callers /\ caller'.pc = "probed" /\ caller'.after = caller.after
    BY <1>0, <2>1 DEF Callers
  <2>3. (suspended => Still') /\ (quiet => suspended /\ Still') /\ clr[0].phase = "idle"
    BY <1>0, <1>1, StillKept DEF CallerOK
  <2>4. MoreTypesOK'
    BY <1>0, <1>1, <2>1, <2>2, CallerTypes DEF StandaloneTypeOK
  <2>5. CallerOK'
    BY <1>0, <2>1, <2>2, <2>3 DEF CallerOK
  <2> QED BY <1>0, <1>1, <2>1, <2>4, <2>5, CallerMoves
<1>3. CASE lock # Free
  <2>1. PICK ok \in BOOLEAN : ok = FALSE /\ Return(ok)
    BY <1>3 DEF processLockHeld
  <2> QED BY <1>0, <2>1, Returns DEF StandaloneTypeOK
<1> QED BY <1>2, <1>3

LEMMA ProbedInv == ASSUME StandaloneInv, Probed PROVE StandaloneInv'
<1> USE DEF StandaloneInv
<1>0. /\ StandaloneTypeOK /\ UNCHANGED <<suspended, record, proc, births, keeper, crashes, loose>>
      /\ caller.pc = "probed" /\ caller \in Callers /\ clr \in [Actors -> Clears] /\ record \in Records
      /\ lock' = Free /\ Stopped /\ installed' \in BOOLEAN
  BY DEF Probed, Stopped, table, MoreTypesOK, StandaloneTypeOK
<1>1. /\ proc' \in [Pids -> ProcOK] /\ births' \in 0..MaxBirths /\ ProcsOK' /\ Persist /\ SameProcs
      /\ StrangersUnharmed'
  BY <1>0, TableSame DEF table
<1>2. CASE caller.after = "spawn"
  <2>1. caller' = [IdleCaller EXCEPT !.pc = "spawn"] /\ clr' = [clr EXCEPT ![0] = NoClear] /\ UNCHANGED quiet
    BY <1>0, <1>2 DEF Stopped
  <2>2. /\ caller' \in Callers /\ caller'.pc = "spawn"
    <3>1. NoIdentity \in Identities
      BY BoundsAreNumbers DEF NoIdentity, Identities
    <3> QED BY <2>1, <3>1, BoundsAreNumbers DEF IdleCaller, Callers
  <2>3. /\ clr' \in [Actors -> Clears] /\ clr'[0].phase = "idle" /\ clr'[0].seen = {}
        /\ \A b \in Actors : b # 0 => clr'[b] = clr[b]
    BY <1>0, <2>1, BoundsAreNumbers, NoClearOK
  <2>4. MoreTypesOK'
    BY <1>0, <1>1, <2>1, <2>2, <2>3, CallerTypes DEF StandaloneTypeOK
  <2>5. ~suspended /\ ~quiet /\ (loose \/ record = NoRecord)
    BY <1>0, <1>2 DEF CallerOK
  <2>6. CallerOK'
    BY <1>0, <2>1, <2>2, <2>3, <2>5 DEF CallerOK
  <2>7. \A a \in Actors : \A id \in clr'[a].seen : id \in clr[a].seen
    BY <2>3
  <2> QED BY <1>0, <1>1, <2>2, <2>4, <2>6, <2>7, CallerMoves
<1>3. CASE caller.after # "spawn"
  <2>1. PICK ok \in BOOLEAN : ok = (caller.after # "fail") /\ Return(ok)
    BY <1>0, <1>3 DEF Stopped
  <2> QED BY <1>0, <2>1, Returns DEF CallerOK
<1> QED BY <1>2, <1>3

LEMMA StopKeeperInv == ASSUME StandaloneInv, StopKeeper PROVE StandaloneInv'
<1> USE DEF StandaloneInv
<1>0. /\ StandaloneTypeOK /\ UNCHANGED <<suspended, installed, record, lock, births, keeper, crashes, loose>>
      /\ caller.pc \in {"term", "dying", "killing"} /\ caller \in Callers /\ clr \in [Actors -> Clears]
      /\ record \in Records
  BY DEF StopKeeper, intent, disk, MoreTypesOK, StandaloneTypeOK
<1>1. /\ record.nonce # 0 /\ record # NoRecord /\ record.nonce = caller.nonce /\ record.owner = caller.owner
      /\ clr[0].phase = "idle"
  BY <1>0 DEF CallerOK, NoRecord
<1>2. ASSUME NEW signal \in {"term", "kill"}, NEW pc \in {"dying", "killing"},
             caller' = [caller EXCEPT !.pc = pc], proc' = Signalled(caller.owner, signal), UNCHANGED <<clr, quiet>>
      PROVE  StandaloneInv'
  <2>1. record.owner.pid \in Pids /\ (isSameProcess(record.owner) => proc[record.owner.pid].role = "keeper")
    BY <1>1 DEF RecordOK
  <2>2. /\ proc' \in [Pids -> ProcOK] /\ births' \in 0..MaxBirths /\ ProcsOK' /\ Persist /\ SameProcs
        /\ StrangersUnharmed'
    BY <1>0, <1>1, <1>2, <2>1, TableSignalled
  <2>3. /\ caller' \in Callers /\ caller'.pc = pc /\ caller'.after = caller.after /\ caller'.nonce = caller.nonce
        /\ caller'.owner = caller.owner
    BY <1>0, <1>2 DEF Callers
  <2>4. MoreTypesOK'
    BY <1>0, <1>2, <2>2, <2>3, CallerTypes DEF StandaloneTypeOK
  <2>5. quiet' => suspended' /\ Still'
    BY <1>0, <1>2, <2>2, StillKept DEF CallerOK
  <2>6. CallerOK'
    BY <1>0, <1>1, <1>2, <2>3, <2>5 DEF CallerOK
  <2> QED BY <1>0, <1>2, <2>2, <2>4, <2>6, CallerMoves
<1>3. CASE caller.pc = "term"
  BY <1>2, <1>3 DEF StopKeeper
<1>4. CASE caller.pc # "term" /\ ~keeperAlive(caller)
  <2>1. /\ caller' = [caller EXCEPT !.pc = "clear"] /\ UNCHANGED <<proc, quiet>>
        /\ clearStart(0, caller.owner, caller.nonce)
    BY <1>4 DEF StopKeeper
  <2>2. /\ proc' \in [Pids -> ProcOK] /\ births' \in 0..MaxBirths /\ ProcsOK' /\ Persist /\ SameProcs
        /\ StrangersUnharmed'
    BY <1>0, <2>1, TableSame DEF table
  <2>3. /\ caller' \in Callers /\ caller'.pc = "clear" /\ caller'.after = caller.after
        /\ caller'.nonce = caller.nonce /\ caller'.owner = caller.owner
    BY <1>0, <2>1 DEF Callers
  <2>4. ~keeperAlive(record)
    BY <1>1, <1>4 DEF keeperAlive, isSameProcess
  <2>5. \A n \in Nonces : ~Alive(n) /\ ~Alive(n)'
    BY <1>0, <1>1, <2>4, NotAlive DEF Alive
  <2>6. /\ clr' \in [Actors -> Clears] /\ clr'[0].phase = "term"
        /\ \A b \in Actors : \A id \in clr'[b].seen : id \in clr[b].seen \/ OfWorker(id)
    BY <1>0, <2>1, BoundsAreNumbers, ClearStartOK
  <2>7. MoreTypesOK'
    BY <1>0, <2>1, <2>2, <2>3, <2>6, CallerTypes DEF StandaloneTypeOK
  <2>8. quiet' => suspended' /\ Still'
    BY <1>0, <2>1, <2>2, StillKept DEF CallerOK
  <2>9. CallerOK'
    BY <1>0, <1>1, <2>1, <2>3, <2>5, <2>6, <2>8 DEF CallerOK
  <2> QED BY <1>0, <2>2, <2>3, <2>6, <2>7, <2>9, CallerMoves
<1>5. CASE caller.pc = "dying" /\ keeperAlive(caller)
  BY <1>2, <1>5 DEF StopKeeper
<1>6. CASE caller.pc = "killing" /\ keeperAlive(caller)
  <2>1. PICK ok \in BOOLEAN : ok = FALSE /\ Return(ok) /\ UNCHANGED proc
    BY <1>6 DEF StopKeeper
  <2> QED BY <1>0, <2>1, Returns DEF StandaloneTypeOK
<1> QED BY <1>0, <1>3, <1>4, <1>5, <1>6

LEMMA StopClearedInv == ASSUME StandaloneInv, StopCleared PROVE StandaloneInv'
<1> USE DEF StandaloneInv
<1>0. /\ StandaloneTypeOK /\ UNCHANGED <<suspended, installed, record, lock, proc, births, keeper, crashes, loose>>
      /\ caller.pc = "clear" /\ caller \in Callers /\ clr \in [Actors -> Clears] /\ record \in Records
  BY DEF StopCleared, intent, disk, table, MoreTypesOK, StandaloneTypeOK
<1>1. CASE ~Cleared(0) \/ record.nonce \notin {0, caller.nonce}
  <2>1. PICK ok \in BOOLEAN : ok = FALSE /\ Return(ok)
    BY <1>1 DEF StopCleared
  <2> QED BY <1>0, <2>1, Returns DEF StandaloneTypeOK
<1>2. CASE ~(~Cleared(0) \/ record.nonce \notin {0, caller.nonce})
  <2>1. /\ caller' = [caller EXCEPT !.pc = "rm"] /\ clr' = [clr EXCEPT ![0] = NoClear] /\ UNCHANGED quiet
        /\ clr[0].phase = "clear"
    BY <1>2 DEF StopCleared, Cleared
  <2>2. /\ proc' \in [Pids -> ProcOK] /\ births' \in 0..MaxBirths /\ ProcsOK' /\ Persist /\ SameProcs
        /\ StrangersUnharmed'
    BY <1>0, TableSame DEF table
  <2>3. /\ caller' \in Callers /\ caller'.pc = "rm" /\ caller'.after = caller.after
        /\ caller'.nonce = caller.nonce /\ caller'.owner = caller.owner
    BY <1>0, <2>1 DEF Callers
  <2>4. /\ clr' \in [Actors -> Clears] /\ clr'[0].phase = "idle"
        /\ \A b \in Actors : \A id \in clr'[b].seen : id \in clr[b].seen \/ OfWorker(id)
    BY <1>0, <2>1, BoundsAreNumbers, NoClearOK
  <2>5. NoWorkers' /\ \A n \in Nonces : ~Alive(n)'
    BY <1>0, <2>1 DEF CallerOK, NoWorkers, Alive
  <2>6. MoreTypesOK'
    BY <1>0, <2>1, <2>2, <2>3, <2>4, CallerTypes DEF StandaloneTypeOK
  <2>7. quiet' => suspended' /\ Still'
    BY <1>0, <2>1, <2>2, StillKept DEF CallerOK
  <2>8. CallerOK'
    BY <1>0, <2>1, <2>3, <2>4, <2>5, <2>7 DEF CallerOK
  <2> QED BY <1>0, <2>2, <2>3, <2>4, <2>6, <2>8, CallerMoves
<1> QED BY <1>1, <1>2

\* The record goes when nobody is left of whom it speaks.
LEMMA StopRemovedInv == ASSUME StandaloneInv, StopRemoved PROVE StandaloneInv'
<1> USE DEF StandaloneInv
<1>0. /\ StandaloneTypeOK /\ UNCHANGED <<suspended, lock, proc, births, keeper, crashes, loose>>
      /\ caller.pc = "rm" /\ caller \in Callers /\ clr \in [Actors -> Clears] /\ record' = NoRecord
      /\ Stopped /\ installed' \in BOOLEAN
  BY DEF StopRemoved, Stopped, table, MoreTypesOK, StandaloneTypeOK
<1>1. /\ proc' \in [Pids -> ProcOK] /\ births' \in 0..MaxBirths /\ ProcsOK' /\ Persist /\ SameProcs
      /\ StrangersUnharmed'
  BY <1>0, TableSame DEF table
<1>2. /\ NoWorkers /\ \A n \in Nonces : ~Alive(n)
  BY <1>0 DEF CallerOK
<1>3. Still /\ Still'
  BY <1>0, <1>1, <1>2, StillKept DEF Still, Alive
<1>4. NoRecord \in Records /\ NoRecord.nonce = 0
  BY BoundsAreNumbers DEF NoRecord, NoIdentity, Records, Identities
<1>5. /\ caller' \in Callers /\ clr' \in [Actors -> Clears] /\ quiet' \in BOOLEAN
      /\ \A a \in Actors : \A id \in clr'[a].seen : id \in clr[a].seen \/ OfWorker(id)
      /\ CallerOK'
  <2>1. CASE caller.after = "spawn"
    <3>1. caller' = [IdleCaller EXCEPT !.pc = "spawn"] /\ clr' = [clr EXCEPT ![0] = NoClear] /\ UNCHANGED quiet
      BY <1>0, <2>1 DEF Stopped
    <3>2. /\ caller' \in Callers /\ caller'.pc = "spawn"
      <4>1. NoIdentity \in Identities
        BY BoundsAreNumbers DEF NoIdentity, Identities
      <4> QED BY <3>1, <4>1, BoundsAreNumbers DEF IdleCaller, Callers
    <3>3. /\ clr' \in [Actors -> Clears] /\ clr'[0].phase = "idle" /\ clr'[0].seen = {}
          /\ \A b \in Actors : b # 0 => clr'[b] = clr[b]
      BY <1>0, <3>1, BoundsAreNumbers, NoClearOK
    <3>4. ~suspended /\ ~quiet
      BY <2>1 DEF CallerOK
    <3>5. CallerOK'
      BY <1>0, <3>1, <3>2, <3>3, <3>4 DEF CallerOK
    <3> QED BY <1>0, <3>1, <3>2, <3>3, <3>5 DEF StandaloneTypeOK
  <2>2. CASE caller.after # "spawn"
    <3>1. PICK ok \in BOOLEAN : ok = (caller.after # "fail") /\ Return(ok)
      BY <1>0, <2>2 DEF Stopped
    <3> QED BY <1>0, <1>1, <1>3, <3>1, ReturnOK
  <2> QED BY <2>1, <2>2
<1>6. MoreTypesOK'
  BY <1>0, <1>1, <1>4, <1>5 DEF MoreTypesOK, StandaloneTypeOK, ProcOK
<1>7. KeepersOK'
  <2>1. \A n \in Nonces : ~Alive(n)'
    BY <1>0, <1>2 DEF Alive
  <2>2. \A p \in Pids : proc'[p].role # "keeper"
    BY <1>0, <1>2 DEF KeepersOK
  <2>3. \E l \in 0..MaxLaunches : \A n \in Nonces : keeper'[n].pc # "none" <=> n <= l
    BY <1>0 DEF KeepersOK
  <2>4. \A n \in Nonces : KeeperOK(n)'
    BY <1>0, <1>2, <2>1 DEF KeepersOK, KeeperOK
  <2> QED BY <2>1, <2>2, <2>3, <2>4 DEF KeepersOK
<1>8. RecordOK' /\ WorkersOK'
  BY <1>0, <1>2, <1>4 DEF RecordOK, WorkersOK, NoWorkers
<1>9. SeenOK'
  <2>1. births' \in Nat /\ births <= births'
    BY <1>0, BoundsAreNumbers DEF StandaloneTypeOK
  <2> QED BY <1>0, <1>1, <1>5, <2>1, SeenKept
<1> QED BY <1>1, <1>5, <1>6, <1>7, <1>8, <1>9

\* The number of keepers launched is the number of the last one.
LEMMA LastLaunch ==
  ASSUME NEW l \in 0..MaxLaunches, \A n \in Nonces : keeper[n].pc # "none" <=> n <= l
  PROVE  Launched = l
<1>1. l \in Nat /\ MaxLaunches \in Nat
  BY BoundsAreNumbers
<1>2. {n \in Nonces : keeper[n].pc # "none"} = 1..l
  BY <1>1 DEF Nonces
<1>3. Cardinality(1..l) = l
  BY <1>1, FS_Interval
<1> QED BY <1>2, <1>3 DEF Launched

LEMMA LaunchInv == ASSUME StandaloneInv, Launch PROVE StandaloneInv'
<1> USE DEF StandaloneInv
<1>0. /\ StandaloneTypeOK /\ UNCHANGED <<suspended, installed, record, lock, clr, crashes, quiet, loose>>
      /\ caller.pc = "spawn" /\ caller \in Callers /\ clr \in [Actors -> Clears] /\ record \in Records
      /\ ~loose /\ keeper \in [Nonces -> Keepers] /\ births \in Nat
  BY BoundsAreNumbers DEF Launch, intent, disk, past, MoreTypesOK, StandaloneTypeOK
<1>1. record = NoRecord /\ record.nonce = 0 /\ ~suspended /\ ~quiet /\ clr[0].phase = "idle"
  BY <1>0 DEF CallerOK, NoRecord
<1>2. \A n \in Nonces : ~Alive(n)
  BY <1>0, <1>1, BoundsAreNumbers DEF KeepersOK, KeeperOK, Alive, MoreTypesOK, Keepers
<1>3. PICK l \in 0..MaxLaunches : \A n \in Nonces : keeper[n].pc # "none" <=> n <= l
  BY DEF KeepersOK
<1>4. PICK p \in Pids, n \in Nonces :
        /\ n = l + 1 /\ Born(p, "keeper", n)
        /\ keeper' = [keeper EXCEPT ![n].pc = "launched", ![n].id = [pid |-> p, start |-> births + 1]]
        /\ caller' = [caller EXCEPT !.pc = "wait", !.nonce = n]
  BY <1>3, LastLaunch DEF Launch
<1>5. /\ proc' \in [Pids -> ProcOK] /\ births' \in 0..MaxBirths /\ ProcsOK' /\ Persist
      /\ \A q \in Pids : q # p => proc'[q] = proc[q]
      /\ proc[p].role = "none" /\ proc'[p].role = "keeper" /\ proc'[p].nonce = n
      /\ proc'[p].start = births + 1 /\ births' = births + 1 /\ StrangersUnharmed'
  BY <1>0, <1>4, BoundsAreNumbers, TableBorn
<1>6. PICK id \in Identities : id = [pid |-> p, start |-> births + 1] /\ id.pid = p /\ id.start = births + 1
  <2>1. births + 1 \in 0..MaxBirths /\ p \in 0..MaxPids
    BY <1>5, BoundsAreNumbers
  <2>2. [pid |-> p, start |-> births + 1] \in Identities
    BY <2>1 DEF Identities
  <2> QED BY <2>2
<1>7. /\ keeper' \in [Nonces -> Keepers] /\ keeper'[n].pc = "launched" /\ keeper'[n].id = id
      /\ \A m \in Nonces : m # n => keeper'[m] = keeper[m]
  BY <1>0, <1>4, <1>6 DEF Keepers, Early
<1>8. caller' \in Callers /\ caller'.pc = "wait" /\ caller'.nonce = n /\ caller'.after = caller.after
  BY <1>0, <1>4, BoundsAreNumbers DEF Callers
<1>9. MoreTypesOK'
  BY <1>0, <1>5, <1>7, <1>8 DEF MoreTypesOK, StandaloneTypeOK, ProcOK
<1>10. KeepersOK'
  <2>1. \A m \in Nonces : Alive(m)' <=> m = n
    BY <1>2, <1>7 DEF Alive
  <2>2. KeeperOK(n)'
    BY <1>0, <1>1, <1>5, <1>6, <1>7, <1>8, <2>1 DEF KeeperOK, Early, Late
  <2>3. \A m \in Nonces : m # n => KeeperOK(m)'
    BY <1>2, <1>7, <2>1 DEF KeepersOK, KeeperOK
  <2>4. n \in 0..MaxLaunches /\ \A m \in Nonces : keeper'[m].pc # "none" <=> m <= n
    BY <1>3, <1>4, <1>7, BoundsAreNumbers
  <2>5. \A q \in Pids : proc'[q].role = "keeper" => q = p
    BY <1>2, <1>5 DEF KeepersOK
  <2> QED BY <1>6, <1>7, <2>1, <2>2, <2>3, <2>4, <2>5 DEF KeepersOK
<1>11. RecordOK' /\ WorkersOK'
  BY <1>0, <1>1, <1>5 DEF RecordOK, WorkersOK
<1>12. CallerOK'
  BY <1>0, <1>1, <1>8, BoundsAreNumbers DEF CallerOK
<1>13. SeenOK'
  <2>1. births' \in Nat /\ births <= births'
    BY <1>0, <1>5
  <2> QED BY <1>0, <1>5, <2>1, SeenKept
<1> QED BY <1>5, <1>9, <1>10, <1>11, <1>12, <1>13

LEMMA StartEndsInv == ASSUME StandaloneInv, LaunchFails \/ StartReady PROVE StandaloneInv'
<1> USE DEF StandaloneInv
<1>0. /\ StandaloneTypeOK /\ UNCHANGED <<suspended, installed, record, lock, proc, births, keeper, crashes, loose>>
  BY DEF LaunchFails, StartReady, intent, disk, table, MoreTypesOK
<1>1. CASE LaunchFails
  <2>1. PICK ok \in BOOLEAN : ok = FALSE /\ Return(ok)
    BY <1>1 DEF LaunchFails
  <2> QED BY <1>0, <1>1, <2>1, Returns DEF StandaloneTypeOK, LaunchFails
<1>2. CASE StartReady
  <2>1. PICK ok \in BOOLEAN : ok = TRUE /\ Return(ok)
    BY <1>2 DEF StartReady
  <2>2. ~suspended /\ record.nonce # 0
    BY <1>2 DEF StartReady, CallerOK
  <2> QED BY <1>0, <2>1, <2>2, Returns DEF StandaloneTypeOK
<1> QED BY <1>1, <1>2

LEMMA GivesUpInv == ASSUME StandaloneInv, StartGivesUp PROVE StandaloneInv'
<1> USE DEF StandaloneInv
<1>0. /\ StandaloneTypeOK
      /\ UNCHANGED <<suspended, installed, record, lock, proc, births, keeper, clr, crashes, quiet>>
      /\ caller.pc = "wait" /\ caller \in Callers /\ clr \in [Actors -> Clears]
      /\ caller' = [caller EXCEPT !.pc = "stop", !.after = "fail"]
      /\ loose' = (loose \/ LeavesLoose)
  BY DEF StartGivesUp, intent, disk, table, MoreTypesOK, StandaloneTypeOK
<1>1. /\ proc' \in [Pids -> ProcOK] /\ births' \in 0..MaxBirths /\ ProcsOK' /\ Persist /\ SameProcs
      /\ StrangersUnharmed'
  BY <1>0, TableSame DEF table
<1>2. caller' \in Callers /\ caller'.pc = "stop" /\ caller'.after = "fail"
  BY <1>0 DEF Callers
<1>3. loose' \in BOOLEAN
  BY <1>0 DEF StandaloneTypeOK, LeavesLoose
<1>4. MoreTypesOK'
  BY <1>0, <1>1, <1>2, <1>3, CallerTypes DEF StandaloneTypeOK
<1>5. quiet' => suspended' /\ Still'
  BY <1>0, <1>1, StillKept DEF CallerOK
<1>6. CallerOK'
  BY <1>0, <1>2, <1>5 DEF CallerOK
<1>7. ASSUME NEW n \in Nonces, keeper[n].pc \in Early, loose \/ (caller.pc = "wait" /\ caller.nonce = n)
      PROVE  loose'
  BY <1>0, <1>7 DEF LeavesLoose, Early
<1> QED BY <1>0, <1>1, <1>4, <1>6, <1>7, CallerMoves

LEMMA CallerDiesInv == ASSUME StandaloneInv, CallerDies PROVE StandaloneInv'
<1> USE DEF StandaloneInv
<1>0. /\ StandaloneTypeOK /\ UNCHANGED <<suspended, installed, record, proc, births, keeper, quiet>>
      /\ crashes' = crashes + 1 /\ crashes < MaxCrashes /\ lock' \in {Free, lock}
      /\ caller' = IdleCaller /\ clr' = [clr EXCEPT ![0] = NoClear]
      /\ loose' = (loose \/ LeavesLoose)
  BY DEF CallerDies, intent, table, MoreTypesOK
<1>1. /\ proc' \in [Pids -> ProcOK] /\ births' \in 0..MaxBirths /\ ProcsOK' /\ Persist /\ SameProcs
      /\ StrangersUnharmed'
  BY <1>0, TableSame DEF table
<1>2. caller' \in Callers /\ caller'.pc = "idle" /\ caller'.after = "done"
  <2>1. NoIdentity \in Identities
    BY BoundsAreNumbers DEF NoIdentity, Identities
  <2> QED BY <1>0, <2>1, BoundsAreNumbers DEF IdleCaller, Callers
<1>3. loose' \in BOOLEAN /\ crashes' \in 0..MaxCrashes
  BY <1>0, BoundsAreNumbers DEF StandaloneTypeOK, LeavesLoose
<1>4. /\ clr' \in [Actors -> Clears] /\ clr'[0].phase = "idle"
      /\ \A b \in Actors : \A id \in clr'[b].seen : id \in clr[b].seen \/ OfWorker(id)
  BY <1>0, BoundsAreNumbers, NoClearOK DEF MoreTypesOK
<1>5. MoreTypesOK'
  BY <1>0, <1>1, <1>2, <1>3, <1>4, CallerTypes DEF StandaloneTypeOK
<1>6. quiet' => suspended' /\ Still'
  BY <1>0, <1>1, StillKept DEF CallerOK
<1>7. CallerOK'
  BY <1>2, <1>4, <1>6 DEF CallerOK
<1>8. ASSUME NEW n \in Nonces, keeper[n].pc \in Early, loose \/ (caller.pc = "wait" /\ caller.nonce = n)
      PROVE  loose'
  BY <1>0, <1>8 DEF LeavesLoose, Early
<1> QED BY <1>0, <1>1, <1>4, <1>5, <1>7, <1>8, CallerMoves

-----------------------------------------------------------------------------
(* A session is cleared. *)

LEMMA SignalInv == ASSUME StandaloneInv, NEW a \in Actors, clearSignal(a) PROVE StandaloneInv'
<1> USE DEF StandaloneInv
<1>0. /\ StandaloneTypeOK
      /\ UNCHANGED <<suspended, installed, record, lock, births, keeper, caller, crashes, quiet, loose>>
      /\ caller \in Callers /\ clr \in [Actors -> Clears]
  BY DEF clearSignal, intent, disk, past, MoreTypesOK
<1>1. PICK id \in clr[a].seen, signal \in {"term", "kill"} :
        signal = clr[a].phase /\ proc' = Signalled(id, signal) /\ clr' = [clr EXCEPT ![a].seen = @ \ {id}]
  BY DEF clearSignal
<1>2. id.pid \in Pids /\ (isSameProcess(id) => proc[id.pid].role = "worker")
  BY <1>1 DEF SeenOK
<1>3. /\ proc' \in [Pids -> ProcOK] /\ births' \in 0..MaxBirths /\ ProcsOK' /\ Persist /\ SameProcs
      /\ StrangersUnharmed'
  BY <1>0, <1>1, <1>2, TableSignalled
<1>4. /\ clr' \in [Actors -> Clears] /\ \A b \in Actors : clr'[b].phase = clr[b].phase
      /\ \A b \in Actors : clr'[b].seen \subseteq clr[b].seen
  BY <1>0, <1>1 DEF Clears
<1>5. MoreTypesOK'
  BY <1>0, <1>3, <1>4, CallerTypes DEF StandaloneTypeOK
<1>6. Still => Still'
  BY <1>0, <1>3, StillKept
<1>7. CallerOK'
  BY <1>0, <1>3, <1>4, <1>6, BoundsAreNumbers DEF CallerOK, NoWorkers, SameProcs, Alive
<1> QED BY <1>0, <1>3, <1>4, <1>5, <1>7, CallerMoves

LEMMA WaitedInv == ASSUME StandaloneInv, NEW a \in Actors, clearWaited(a) PROVE StandaloneInv'
<1> USE DEF StandaloneInv
<1>0. /\ StandaloneTypeOK
      /\ UNCHANGED <<suspended, installed, record, lock, proc, births, keeper, caller, crashes, quiet, loose>>
      /\ caller \in Callers /\ clr \in [Actors -> Clears] /\ clr[a].phase \in {"term", "kill"}
  BY DEF clearWaited, intent, disk, table, past, MoreTypesOK
<1>1. Left(a) \in SUBSET Identities /\ \A id \in Left(a) : OfWorker(id)
  BY <1>0, OwnedAreWorkers DEF Left
<1>2. PICK phase \in {"kill", "clear", "failed"}, seen \in SUBSET Identities :
        /\ clr' = [clr EXCEPT ![a].phase = phase, ![a].seen = seen]
        /\ phase = (IF clr[a].phase = "term" THEN "kill" ELSE IF Left(a) = {} THEN "clear" ELSE "failed")
        /\ seen \in {Left(a), {}}
  BY <1>1 DEF clearWaited
<1>3. /\ proc' \in [Pids -> ProcOK] /\ births' \in 0..MaxBirths /\ ProcsOK' /\ Persist /\ SameProcs
      /\ StrangersUnharmed'
  BY <1>0, TableSame DEF table
<1>4. /\ clr' \in [Actors -> Clears] /\ clr'[a].phase = phase /\ clr'[a].seen = seen
      /\ \A b \in Actors : b # a => clr'[b] = clr[b]
  BY <1>0, <1>2 DEF Clears
<1>5. \A b \in Actors : \A id \in clr'[b].seen : id \in clr[b].seen \/ OfWorker(id)
  BY <1>1, <1>2, <1>4
<1>6. MoreTypesOK'
  BY <1>0, <1>3, <1>4, CallerTypes DEF StandaloneTypeOK
<1>7. a = 0 => caller.pc = "clear"
  BY <1>0 DEF CallerOK
<1>8. a = 0 /\ phase = "clear" => NoWorkers
  BY <1>2, <1>7, NoneLeft DEF Left, CallerOK
<1>9. Still => Still'
  BY <1>0, <1>3, StillKept
<1>10. CallerOK'
  BY <1>0, <1>4, <1>7, <1>8, <1>9, BoundsAreNumbers DEF CallerOK, NoWorkers, Alive
<1> QED BY <1>0, <1>3, <1>5, <1>6, <1>10, CallerMoves

-----------------------------------------------------------------------------
(* Keepers. *)

\* What a keeper that is alive may rely on.
LEMMA KeeperFacts ==
  ASSUME StandaloneInv, NEW n \in Nonces, Alive(n)
  PROVE  /\ keeper[n].id.pid \in Pids /\ keeper[n].id.start # 0 /\ keeper[n].id.start <= births
         /\ proc[keeper[n].id.pid].start = keeper[n].id.start /\ proc[keeper[n].id.pid].role = "keeper"
         /\ n # 0 /\ \A m \in Nonces : Alive(m) => m = n
         /\ keeper[n].pc \in Early \cup Late
         /\ keeper[n].pc \in Early => record = NoRecord /\ record.nonce = 0 /\ NoWorkers
         /\ keeper[n].pc \in Late => record.nonce = n /\ record.owner = keeper[n].id
         /\ caller.pc \notin {"clear", "rm"}
         /\ caller.pc \in {"probe", "probed", "spawn"} => loose
<1> USE DEF StandaloneInv
<1>1. /\ KeeperOK(n) /\ n # 0 /\ \A m \in Nonces : Alive(m) => m = n
      /\ keeper[n].pc \in Early \cup Late
  BY BoundsAreNumbers DEF KeepersOK, MoreTypesOK, Keepers, Alive
<1>2. /\ keeper[n].id.pid \in Pids /\ keeper[n].id.start # 0
      /\ proc[keeper[n].id.pid].start = keeper[n].id.start /\ proc[keeper[n].id.pid].role = "keeper"
      /\ keeper[n].pc \in Early => record = NoRecord /\ (loose \/ (caller.pc = "wait" /\ caller.nonce = n))
      /\ keeper[n].pc \in Late => record.nonce = n /\ record.owner = keeper[n].id
  BY <1>1 DEF KeeperOK
<1>3. keeper[n].id.start <= births
  BY <1>2 DEF ProcsOK
<1>4. NoRecord.nonce = 0
  BY DEF NoRecord
<1>5. keeper[n].pc \in Early => NoWorkers
  BY <1>2, <1>4 DEF WorkersOK, NoWorkers
<1>6. caller.pc \notin {"clear", "rm"}
  BY DEF CallerOK
<1>7. caller.pc \in {"probe", "probed", "spawn"} => loose
  BY <1>1, <1>2, <1>4 DEF CallerOK
<1> QED BY <1>1, <1>2, <1>3, <1>4, <1>5, <1>6, <1>7

\* A keeper goes on, with its record.
LEMMA KeeperStays ==
  ASSUME StandaloneInv, NEW n \in Nonces, Alive(n),
         UNCHANGED <<suspended, births, caller, quiet, loose>>,
         SameProcs, Persist, ProcsOK', StrangersUnharmed', MoreTypesOK',
         keeper'[n].pc \in Early \cup Late, keeper'[n].id = keeper[n].id,
         \A m \in Nonces : m # n => keeper'[m] = keeper[m],
         keeper[n].pc \in Late => keeper'[n].pc \in Late,
         keeper'[n].pc \in Early => record' = record,
         keeper'[n].pc \in Late => record'.nonce = n /\ record'.owner = keeper[n].id,
         Still /\ suspended => keeper'[n].pc \notin {"spawn", "started", "poll", "clearing"},
         clr'[0] = clr[0],
         \A a \in Actors : \A id \in clr'[a].seen : id \in clr[a].seen \/ OfWorker(id)
  PROVE  StandaloneInv'
<1> USE DEF StandaloneInv
<1>0. StandaloneTypeOK /\ births \in Nat /\ births' \in Nat /\ births <= births' /\ record \in Records
  BY BoundsAreNumbers DEF MoreTypesOK, StandaloneTypeOK
<1>1. /\ keeper[n].id.pid \in Pids /\ keeper[n].id.start # 0 /\ keeper[n].id.start <= births
      /\ proc[keeper[n].id.pid].start = keeper[n].id.start /\ proc[keeper[n].id.pid].role = "keeper"
      /\ n # 0 /\ \A m \in Nonces : Alive(m) => m = n
      /\ keeper[n].pc \in Early \cup Late
      /\ keeper[n].pc \in Early => record = NoRecord /\ record.nonce = 0 /\ NoWorkers
      /\ keeper[n].pc \in Late => record.nonce = n /\ record.owner = keeper[n].id
      /\ caller.pc \notin {"clear", "rm"}
      /\ caller.pc \in {"probe", "probed", "spawn"} => loose
  BY KeeperFacts
<1>2. \A m \in Nonces : Alive(m)' <=> Alive(m)
  BY DEF Alive, Early, Late
<1>3. keeper'[n].pc \in Early => keeper[n].pc \in Early
  BY <1>1 DEF Early, Late
<1>4. KeepersOK'
  <2>1. KeeperOK(n)'
    BY <1>1, <1>2, <1>3 DEF KeeperOK, KeepersOK, SameProcs
  <2>2. \A m \in Nonces : m # n => KeeperOK(m)'
    BY <1>1, <1>2 DEF KeepersOK, KeeperOK
  <2>3. \A p \in Pids : proc'[p].role = "keeper" => \E m \in Nonces : Alive(m)' /\ keeper'[m].id.pid = p
    BY <1>2 DEF KeepersOK, SameProcs
  <2>4. \A m \in Nonces : keeper'[m].pc = "none" <=> keeper[m].pc = "none"
    BY <1>1 DEF Early, Late
  <2>5. \E l \in 0..MaxLaunches : \A m \in Nonces : keeper'[m].pc # "none" <=> m <= l
    BY <2>4 DEF KeepersOK
  <2> QED BY <1>1, <1>2, <2>1, <2>2, <2>3, <2>5 DEF KeepersOK
<1>5. RecordOK'
  <2>1. CASE keeper'[n].pc \in Early
    <3>1. \A m \in Nonces : keeper[m].pc \in Late \cup {"gone"} => keeper'[m].pc \in Late \cup {"gone"}
      BY <1>3, <2>1 DEF Early, Late
    <3>2. \A p \in Pids : proc[p].start \in Nat
      BY <1>0, BoundsAreNumbers DEF StandaloneTypeOK
    <3> QED BY <1>0, <2>1, <3>1, <3>2, RecordKept DEF SameProcs
  <2>2. CASE keeper'[n].pc \in Late
    <3>1. isSameProcess(record.owner)' => proc'[record'.owner.pid].role = "keeper"
      BY <1>1, <2>2 DEF SameProcs, isSameProcess
    <3>2. \A p \in Pids : proc'[p].role = "worker" => proc'[p].start >= record'.owner.start
      <4>1. CASE keeper[n].pc \in Early
        BY <1>1, <4>1 DEF SameProcs, NoWorkers
      <4>2. CASE keeper[n].pc \in Late
        BY <1>1, <2>2, <4>2 DEF SameProcs, RecordOK
      <4> QED BY <1>1, <4>1, <4>2
    <3> QED BY <1>1, <2>2, <3>1, <3>2 DEF RecordOK
  <2> QED BY <2>1, <2>2
<1>6. WorkersOK'
  BY <1>1 DEF WorkersOK, NoWorkers, SameProcs
<1>7. SeenOK'
  BY <1>0, SeenKept
<1>8. CallerOK'
  <2>1. Still /\ suspended => Still'
    BY DEF Still, NoWorkers, SameProcs
  <2>2. caller.pc \in {"term", "dying", "killing"} => record'.nonce = caller.nonce /\ record'.owner = caller.owner
    BY <1>1, <1>3 DEF CallerOK
  <2> QED BY <1>1, <2>1, <2>2 DEF CallerOK
<1> QED BY <1>4, <1>5, <1>6, <1>7, <1>8

\* A keeper goes to another place.
LEMMA KeeperPc ==
  ASSUME keeper \in [Nonces -> Keepers], NEW n \in Nonces, NEW pc \in Early \cup Late,
         keeper' = [keeper EXCEPT ![n].pc = pc]
  PROVE  /\ keeper' \in [Nonces -> Keepers] /\ keeper'[n].pc = pc /\ keeper'[n].id = keeper[n].id
         /\ keeper'[n].child = keeper[n].child
         /\ \A m \in Nonces : m # n => keeper'[m] = keeper[m]
BY DEF Keepers

\* The record is written by the keeper.
LEMMA WrittenOK ==
  ASSUME StandaloneInv, NEW n \in Nonces, NEW child \in Identities, Written(n, child)
  PROVE  record' \in Records /\ record'.nonce = n /\ record'.owner = keeper[n].id /\ record'.child = child
<1>1. keeper[n].id \in Identities /\ n \in 0..MaxLaunches
  BY BoundsAreNumbers DEF StandaloneInv, MoreTypesOK, Keepers
<1> QED BY <1>1 DEF Written, Records

LEMMA KeeperTypes ==
  ASSUME StandaloneInv, UNCHANGED <<suspended, installed, births, caller, quiet, loose>>,
         record' \in Records, lock' \in Nonces \cup {Free, Probing}, proc' \in [Pids -> ProcOK],
         keeper' \in [Nonces -> Keepers], clr' \in [Actors -> Clears], crashes' \in 0..MaxCrashes
  PROVE  MoreTypesOK'
BY DEF StandaloneInv, MoreTypesOK, StandaloneTypeOK, ProcOK

\* A keeper ends, by itself or killed, and so does its process.
LEMMA KeeperEnds ==
  ASSUME StandaloneInv, NEW n \in Nonces, Alive(n),
         UNCHANGED <<suspended, installed, births, caller, quiet, loose>>,
         proc' = [proc EXCEPT ![keeper[n].id.pid] = NoProcess], keeper' = KeeperGone(n),
         UNCHANGED record \/ (keeper[n].pc \in Late /\ Written(n, NoIdentity)),
         lock' \in Nonces \cup {Free, Probing}, crashes' \in 0..MaxCrashes,
         UNCHANGED clr \/ clr' = [clr EXCEPT ![n] = NoClear]
  PROVE  StandaloneInv'
<1> USE DEF StandaloneInv
<1>0. /\ StandaloneTypeOK /\ births \in Nat /\ births' \in Nat /\ births <= births' /\ record \in Records
      /\ keeper \in [Nonces -> Keepers] /\ clr \in [Actors -> Clears] /\ NoIdentity \in Identities
  BY BoundsAreNumbers DEF MoreTypesOK, StandaloneTypeOK, NoIdentity, Identities
<1>1. /\ keeper[n].id.pid \in Pids /\ keeper[n].id.start # 0 /\ keeper[n].id.start <= births
      /\ proc[keeper[n].id.pid].start = keeper[n].id.start /\ proc[keeper[n].id.pid].role = "keeper"
      /\ n # 0 /\ \A m \in Nonces : Alive(m) => m = n
      /\ keeper[n].pc \in Early \cup Late
      /\ keeper[n].pc \in Early => record = NoRecord /\ record.nonce = 0 /\ NoWorkers
      /\ keeper[n].pc \in Late => record.nonce = n /\ record.owner = keeper[n].id
      /\ caller.pc \notin {"clear", "rm"}
      /\ caller.pc \in {"probe", "probed", "spawn"} => loose
  BY KeeperFacts
<1>2. PICK p \in Pids : p = keeper[n].id.pid
  BY <1>1
<1>3. /\ proc' \in [Pids -> ProcOK] /\ births' \in 0..MaxBirths /\ ProcsOK' /\ Persist
      /\ \A q \in Pids : q # p => proc'[q] = proc[q]
      /\ proc'[p].role = "none" /\ proc'[p].start = 0 /\ StrangersUnharmed'
  BY <1>0, <1>2, TableDies
<1>4. /\ keeper' \in [Nonces -> Keepers] /\ keeper'[n].pc = "gone" /\ keeper'[n].id.start = 0
      /\ \A m \in Nonces : m # n => keeper'[m] = keeper[m]
  <2>1. PICK k \in Keepers : k = [NoKeeper EXCEPT !.pc = "gone"] /\ k.pc = "gone" /\ k.id = NoIdentity
    <3>1. [NoKeeper EXCEPT !.pc = "gone"] \in Keepers
      BY <1>0 DEF NoKeeper, Keepers
    <3>2. /\ [NoKeeper EXCEPT !.pc = "gone"].pc = "gone"
          /\ [NoKeeper EXCEPT !.pc = "gone"].id = NoIdentity
      BY DEF NoKeeper
    <3> QED BY <3>1, <3>2
  <2> QED BY <1>0, <2>1 DEF KeeperGone, NoIdentity
<1>5. /\ record' \in Records /\ record'.nonce = record.nonce /\ record'.owner = record.owner
      /\ record.nonce = 0 => record' = record
  BY <1>0, <1>1, WrittenOK
<1>6. /\ clr' \in [Actors -> Clears] /\ clr'[0] = clr[0]
      /\ \A a \in Actors : \A id \in clr'[a].seen : id \in clr[a].seen \/ OfWorker(id)
  <2>1. n \in Actors /\ 0 \in Actors
    BY BoundsAreNumbers
  <2>2. CASE UNCHANGED clr
    BY <1>0, <2>2
  <2>3. CASE clr' = [clr EXCEPT ![n] = NoClear]
    BY <1>0, <1>1, <2>1, <2>3, NoClearOK
  <2> QED BY <2>2, <2>3
<1>7. MoreTypesOK'
  BY <1>3, <1>4, <1>5, <1>6, KeeperTypes
<1>8. KeepersOK'
  <2>1. \A m \in Nonces : ~Alive(m)'
    BY <1>1, <1>4 DEF Alive
  <2>2. \A q \in Pids : proc'[q].role # "keeper"
    BY <1>1, <1>2, <1>3 DEF KeepersOK
  <2>3. \A m \in Nonces : keeper'[m].pc = "none" <=> keeper[m].pc = "none"
    BY <1>1, <1>4 DEF Early, Late
  <2>4. \E l \in 0..MaxLaunches : \A m \in Nonces : keeper'[m].pc # "none" <=> m <= l
    BY <2>3 DEF KeepersOK
  <2>5. \A m \in Nonces : KeeperOK(m)'
    BY <1>1, <1>4, <2>1 DEF KeepersOK, KeeperOK
  <2> QED BY <2>1, <2>2, <2>4, <2>5 DEF KeepersOK
<1>9. RecordOK'
  <2>1. \A m \in Nonces : keeper[m].pc \in Late \cup {"gone"} => keeper'[m].pc \in Late \cup {"gone"}
    BY <1>4
  <2>2. \A q \in Pids : proc[q].start \in Nat
    BY <1>0, BoundsAreNumbers DEF StandaloneTypeOK
  <2> QED BY <1>0, <1>3, <1>5, <2>1, <2>2, RecordKept
<1>10. WorkersOK'
  BY <1>3, <1>5 DEF WorkersOK
<1>11. SeenOK'
  BY <1>0, <1>3, <1>6, SeenKept
<1>12. CallerOK'
  <2>1. Still => Still'
    BY <1>3, <1>4 DEF Still, NoWorkers
  <2> QED BY <1>1, <1>5, <1>6, <2>1 DEF CallerOK
<1> QED BY <1>3, <1>7, <1>8, <1>9, <1>10, <1>11, <1>12

LEMMA AcquireInv == ASSUME StandaloneInv, NEW n \in Nonces, acquireProcessLock(n) PROVE StandaloneInv'
<1> USE DEF StandaloneInv
<1>0. /\ StandaloneTypeOK /\ keeper[n].pc = "launched" /\ Alive(n)
      /\ UNCHANGED <<suspended, installed, record, births, caller, clr, crashes, quiet, loose>>
  BY DEF acquireProcessLock, At, Alive, intent, past, MoreTypesOK
<1>1. CASE lock = Free
  <2>1. lock' = n /\ keeper' = [keeper EXCEPT ![n].pc = "locked"] /\ UNCHANGED proc
    BY <1>1 DEF acquireProcessLock, Goto
  <2>2. /\ keeper' \in [Nonces -> Keepers] /\ keeper'[n].pc = "locked" /\ keeper'[n].id = keeper[n].id
        /\ \A m \in Nonces : m # n => keeper'[m] = keeper[m]
    BY <2>1, KeeperPc DEF MoreTypesOK, Early
  <2>3. /\ proc' \in [Pids -> ProcOK] /\ births' \in 0..MaxBirths /\ ProcsOK' /\ Persist /\ SameProcs
        /\ StrangersUnharmed'
    BY <1>0, <2>1, TableSame DEF table
  <2>4. MoreTypesOK'
    BY <1>0, <2>1, <2>2, <2>3, KeeperTypes DEF MoreTypesOK, StandaloneTypeOK
  <2> QED BY <1>0, <2>2, <2>3, <2>4, KeeperStays DEF Early, Late
<1>2. CASE lock # Free
  <2>1. keeper' = KeeperGone(n) /\ proc' = [proc EXCEPT ![keeper[n].id.pid] = NoProcess] /\ UNCHANGED lock
    BY <1>2 DEF acquireProcessLock
  <2> QED BY <1>0, <2>1, KeeperEnds DEF StandaloneTypeOK
<1> QED BY <1>1, <1>2

\* The record is taken up, or the worker put on it.
LEMMA WritesInv == ASSUME StandaloneInv, NEW n \in Nonces, TakeRecord(n) \/ RecordWorker(n) PROVE StandaloneInv'
<1> USE DEF StandaloneInv
<1>0. /\ StandaloneTypeOK /\ Alive(n) /\ keeper \in [Nonces -> Keepers] /\ keeper[n].child \in Identities
      /\ UNCHANGED <<suspended, installed, lock, proc, births, caller, clr, crashes, quiet, loose>>
      /\ NoIdentity \in Identities
  BY BoundsAreNumbers
  DEF TakeRecord, RecordWorker, At, Alive, intent, table, past, MoreTypesOK, Keepers, NoIdentity, Identities
<1>1. PICK pc \in Late, child \in Identities :
        /\ pc \in {"loop", "poll"} /\ (pc = "poll" => keeper[n].pc = "started")
        /\ Written(n, child) /\ keeper' = [keeper EXCEPT ![n].pc = pc]
  BY <1>0 DEF TakeRecord, RecordWorker, At, Goto, Late
<1>2. /\ keeper' \in [Nonces -> Keepers] /\ keeper'[n].pc = pc /\ keeper'[n].id = keeper[n].id
      /\ \A m \in Nonces : m # n => keeper'[m] = keeper[m]
  BY <1>0, <1>1, KeeperPc
<1>3. record' \in Records /\ record'.nonce = n /\ record'.owner = keeper[n].id
  BY <1>1, WrittenOK
<1>4. /\ proc' \in [Pids -> ProcOK] /\ births' \in 0..MaxBirths /\ ProcsOK' /\ Persist /\ SameProcs
      /\ StrangersUnharmed'
  BY <1>0, TableSame DEF table
<1>5. MoreTypesOK'
  BY <1>0, <1>2, <1>3, <1>4, KeeperTypes DEF MoreTypesOK, StandaloneTypeOK
<1>6. Still => keeper'[n].pc \notin {"spawn", "started", "poll", "clearing"}
  BY <1>1, <1>2 DEF Still
<1>7. keeper'[n].pc \notin Early
  BY <1>1, <1>2 DEF Early
<1> QED BY <1>0, <1>1, <1>2, <1>3, <1>4, <1>5, <1>6, <1>7, KeeperStays

\* The loop and the poll, which only look.
LEMMA LooksInv == ASSUME StandaloneInv, NEW n \in Nonces, Loop(n) \/ Poll(n) PROVE StandaloneInv'
<1> USE DEF StandaloneInv
<1>0. /\ StandaloneTypeOK /\ Alive(n) /\ keeper \in [Nonces -> Keepers] /\ clr \in [Actors -> Clears]
      /\ UNCHANGED <<suspended, installed, record, lock, proc, births, caller, crashes, quiet, loose>>
      /\ keeper[n].pc \in Late /\ keeper[n].pc \in {"loop", "poll"}
  BY DEF Loop, Poll, At, Alive, intent, disk, table, past, MoreTypesOK, Late
<1>1. /\ keeper' \in [Nonces -> Keepers] /\ keeper'[n].pc \in {"finishing", "spawn", "clearing"}
      /\ keeper'[n].id = keeper[n].id /\ \A m \in Nonces : m # n => keeper'[m] = keeper[m]
      /\ keeper'[n].pc = "spawn" => ~suspended
      /\ keeper'[n].pc = "clearing" => keeper[n].pc = "poll"
  <2>1. CASE Loop(n)
    <3>1. PICK pc \in Early \cup Late :
            keeper' = [keeper EXCEPT ![n].pc = pc] /\ (pc = "finishing" \/ (pc = "spawn" /\ ~suspended))
      BY <2>1 DEF Loop, Goto, MustStop, Late
    <3> QED BY <1>0, <3>1, KeeperPc
  <2>2. CASE Poll(n)
    <3>1. PICK stopping \in BOOLEAN : keeper' = [keeper EXCEPT ![n].pc = "clearing", ![n].stopping = stopping]
      BY <1>0, <2>2 DEF Poll, MustStop, isSameProcess, Keepers, StandaloneTypeOK
    <3>2. PICK k \in Keepers : k = [keeper[n] EXCEPT !.pc = "clearing", !.stopping = stopping]
                              /\ k.pc = "clearing" /\ k.id = keeper[n].id
      <4>1. keeper[n] \in Keepers
        BY <1>0
      <4>2. [keeper[n] EXCEPT !.pc = "clearing", !.stopping = stopping] \in Keepers
        BY <4>1 DEF Keepers, Late
      <4> QED BY <4>1, <4>2 DEF Keepers
    <3>3. keeper' = [keeper EXCEPT ![n] = k]
      BY <3>1, <3>2
    <3>4. keeper[n].pc = "poll"
      BY <2>2 DEF Poll, At
    <3> QED BY <1>0, <3>2, <3>3, <3>4
  <2> QED BY <2>1, <2>2
<1>2. /\ clr' \in [Actors -> Clears] /\ clr'[0] = clr[0]
      /\ \A a \in Actors : \A id \in clr'[a].seen : id \in clr[a].seen \/ OfWorker(id)
  <2>1. n \in Actors /\ 0 \in Actors /\ n # 0
    BY BoundsAreNumbers
  <2>2. UNCHANGED clr \/ clearStart(n, keeper[n].id, n)
    BY DEF Loop, Poll
  <2> QED BY <1>0, <2>1, <2>2, ClearStartOK
<1>3. /\ proc' \in [Pids -> ProcOK] /\ births' \in 0..MaxBirths /\ ProcsOK' /\ Persist /\ SameProcs
      /\ StrangersUnharmed'
  BY <1>0, TableSame DEF table
<1>4. MoreTypesOK'
  BY <1>0, <1>1, <1>2, <1>3, KeeperTypes DEF MoreTypesOK, StandaloneTypeOK
<1>5. Still /\ suspended => keeper'[n].pc \notin {"spawn", "started", "poll", "clearing"}
  BY <1>1 DEF Still
<1>6. record.nonce = n /\ record.owner = keeper[n].id
  BY <1>0, KeeperFacts
<1>7. keeper'[n].pc \in Late /\ keeper'[n].pc \notin Early
  BY <1>1 DEF Early, Late
<1> QED BY <1>0, <1>1, <1>2, <1>3, <1>4, <1>5, <1>6, <1>7, KeeperStays

LEMMA OverInv == ASSUME StandaloneInv, NEW n \in Nonces, WorkerOver(n) PROVE StandaloneInv'
<1> USE DEF StandaloneInv
<1>0. /\ StandaloneTypeOK /\ Alive(n) /\ keeper \in [Nonces -> Keepers] /\ clr \in [Actors -> Clears]
      /\ UNCHANGED <<suspended, installed, lock, proc, births, caller, crashes, quiet, loose>>
      /\ keeper[n].pc = "clearing" /\ keeper[n].pc \in Late /\ record \in Records /\ NoIdentity \in Identities
  BY BoundsAreNumbers
  DEF WorkerOver, At, Alive, intent, table, past, MoreTypesOK, Late, StandaloneTypeOK, NoIdentity, Identities
<1>1. record.nonce = n /\ record.owner = keeper[n].id
  BY <1>0, KeeperFacts
<1>2. record' \in Records /\ record'.nonce = n /\ record'.owner = keeper[n].id
  <2>1. UNCHANGED record \/ Written(n, NoIdentity)
    BY DEF WorkerOver
  <2> QED BY <1>0, <1>1, <2>1, WrittenOK
<1>3. PICK failures \in Nat :
        \/ keeper' = [keeper EXCEPT ![n].pc = "finishing"] /\ clearStart(n, keeper[n].id, n)
        \/ /\ keeper' = [keeper EXCEPT ![n].pc = "loop", ![n].child = NoIdentity, ![n].failures = failures]
           /\ clr' = [clr EXCEPT ![n] = NoClear]
  <2>1. keeper[n].failures \in Nat
    BY <1>0 DEF Keepers
  <2>2. PICK long \in BOOLEAN :
          \/ keeper' = [keeper EXCEPT ![n].pc = "finishing"] /\ clearStart(n, keeper[n].id, n)
          \/ /\ keeper' = [keeper EXCEPT ![n].pc = "loop", ![n].child = NoIdentity,
                              ![n].failures = IF long THEN 1 ELSE keeper[n].failures + 1]
             /\ clr' = [clr EXCEPT ![n] = NoClear]
    BY DEF WorkerOver, Goto
  <2>3. PICK failures \in Nat : failures = IF long THEN 1 ELSE keeper[n].failures + 1
    BY <2>1
  <2> QED BY <2>2, <2>3
<1>4. /\ keeper' \in [Nonces -> Keepers] /\ keeper'[n].pc \in {"finishing", "loop"}
      /\ keeper'[n].id = keeper[n].id /\ \A m \in Nonces : m # n => keeper'[m] = keeper[m]
  <2>1. CASE keeper' = [keeper EXCEPT ![n].pc = "finishing"]
    BY <1>0, <2>1, KeeperPc DEF Late
  <2>2. CASE keeper' = [keeper EXCEPT ![n].pc = "loop", ![n].child = NoIdentity, ![n].failures = failures]
    <3>1. PICK k \in Keepers : /\ k = [keeper[n] EXCEPT !.pc = "loop", !.child = NoIdentity, !.failures = failures]
                               /\ k.pc = "loop" /\ k.id = keeper[n].id
      <4>1. keeper[n] \in Keepers
        BY <1>0
      <4>2. PICK k \in Keepers : k = [keeper[n] EXCEPT !.child = NoIdentity] /\ k.id = keeper[n].id
        <5>1. [keeper[n] EXCEPT !.child = NoIdentity] \in Keepers
          BY <1>0, <4>1 DEF Keepers
        <5> QED BY <4>1, <5>1 DEF Keepers
      <4>3. [k EXCEPT !.pc = "loop", !.failures = failures] \in Keepers
        BY <4>2 DEF Keepers, Late
      <4> QED BY <4>1, <4>2, <4>3 DEF Keepers
    <3>2. keeper' = [keeper EXCEPT ![n] = k]
      BY <2>2, <3>1
    <3> QED BY <1>0, <3>1, <3>2
  <2> QED BY <1>3, <2>1, <2>2
<1>5. /\ clr' \in [Actors -> Clears] /\ clr'[0] = clr[0]
      /\ \A a \in Actors : \A id \in clr'[a].seen : id \in clr[a].seen \/ OfWorker(id)
  <2>1. n \in Actors /\ 0 \in Actors /\ n # 0
    BY BoundsAreNumbers
  <2>2. CASE clearStart(n, keeper[n].id, n)
    BY <1>0, <2>1, <2>2, ClearStartOK
  <2>3. CASE clr' = [clr EXCEPT ![n] = NoClear]
    BY <1>0, <2>1, <2>3, NoClearOK
  <2> QED BY <1>3, <2>2, <2>3
<1>6. /\ proc' \in [Pids -> ProcOK] /\ births' \in 0..MaxBirths /\ ProcsOK' /\ Persist /\ SameProcs
      /\ StrangersUnharmed'
  BY <1>0, TableSame DEF table
<1>7. MoreTypesOK'
  BY <1>0, <1>2, <1>4, <1>5, <1>6, KeeperTypes DEF MoreTypesOK, StandaloneTypeOK
<1>8. keeper'[n].pc \in Late /\ keeper'[n].pc \notin Early
      /\ keeper'[n].pc \notin {"spawn", "started", "poll", "clearing"}
  BY <1>4 DEF Early, Late
<1> QED BY <1>0, <1>2, <1>4, <1>5, <1>6, <1>7, <1>8, KeeperStays

LEMMA HeedInv == ASSUME StandaloneInv, NEW n \in Nonces, Heed(n) PROVE StandaloneInv'
<1> USE DEF StandaloneInv
<1>0. /\ StandaloneTypeOK /\ keeper \in [Nonces -> Keepers] /\ clr \in [Actors -> Clears]
      /\ UNCHANGED <<suspended, installed, record, lock, births, caller, clr, crashes, quiet, loose>>
      /\ isSameProcess(keeper[n].id)
      /\ proc' = [proc EXCEPT ![keeper[n].id.pid].sig = "none"]
      /\ keeper' = [keeper EXCEPT ![n].stopping = TRUE]
  BY DEF Heed, intent, disk, past, MoreTypesOK
<1>1. /\ keeper' \in [Nonces -> Keepers] /\ keeper'[n].pc = keeper[n].pc /\ keeper'[n].id = keeper[n].id
      /\ \A m \in Nonces : m # n => keeper'[m] = keeper[m]
  <2>1. PICK k \in Keepers : k = [keeper[n] EXCEPT !.stopping = TRUE] /\ k.pc = keeper[n].pc /\ k.id = keeper[n].id
    <3>1. keeper[n] \in Keepers
      BY <1>0
    <3>2. [keeper[n] EXCEPT !.stopping = TRUE] \in Keepers
      BY <3>1 DEF Keepers
    <3> QED BY <3>1, <3>2 DEF Keepers
  <2>2. keeper' = [keeper EXCEPT ![n] = k]
    BY <1>0, <2>1
  <2> QED BY <1>0, <2>1, <2>2
<1>2. Alive(n)
  <2>1. keeper[n].id.start # 0
    BY <1>0 DEF isSameProcess
  <2> QED BY <2>1 DEF KeepersOK, KeeperOK
<1>3. PICK p \in Pids : p = keeper[n].id.pid /\ proc[p].role = "keeper"
  BY <1>2, KeeperFacts
<1>4. /\ proc' \in [Pids -> ProcOK] /\ births' \in 0..MaxBirths /\ ProcsOK' /\ Persist /\ SameProcs
      /\ StrangersUnharmed'
  BY <1>0, <1>3, TableSignal
<1>5. MoreTypesOK'
  BY <1>0, <1>1, <1>4, KeeperTypes DEF MoreTypesOK, StandaloneTypeOK
<1>6. /\ keeper[n].pc \in Early \cup Late
      /\ keeper[n].pc \in Late => record.nonce = n /\ record.owner = keeper[n].id
  BY <1>2, KeeperFacts
<1>7. Still => keeper'[n].pc \notin {"spawn", "started", "poll", "clearing"}
  BY <1>1 DEF Still
<1> QED BY <1>0, <1>1, <1>2, <1>4, <1>5, <1>6, <1>7, KeeperStays

LEMMA EndsInv == ASSUME StandaloneInv, NEW n \in Nonces, Finish(n) \/ KeeperKilled(n) PROVE StandaloneInv'
<1> USE DEF StandaloneInv
<1>0. /\ StandaloneTypeOK
      /\ UNCHANGED <<suspended, installed, births, caller, quiet, loose>>
      /\ proc' = [proc EXCEPT ![keeper[n].id.pid] = NoProcess] /\ keeper' = KeeperGone(n)
      /\ clr' = [clr EXCEPT ![n] = NoClear]
      /\ isSameProcess(keeper[n].id)
  BY DEF Finish, KeeperKilled, At, intent, past, MoreTypesOK
<1>1. UNCHANGED record \/ (keeper[n].pc \in Late /\ Written(n, NoIdentity))
  BY DEF Finish, KeeperKilled, At, Late
<1>2. lock' \in Nonces \cup {Free, Probing} /\ crashes' \in 0..MaxCrashes
  <2>1. lock' \in {Free, lock} /\ (crashes' = crashes \/ (crashes < MaxCrashes /\ crashes' = crashes + 1))
    BY DEF Finish, KeeperKilled, past
  <2> QED BY <1>0, <2>1, BoundsAreNumbers DEF StandaloneTypeOK
<1>3. Alive(n)
  BY <1>0 DEF KeepersOK, KeeperOK, isSameProcess
<1> QED BY <1>0, <1>1, <1>2, <1>3, KeeperEnds

LEMMA SpawnInv == ASSUME StandaloneInv, NEW n \in Nonces, SpawnWorker(n) PROVE StandaloneInv'
<1> USE DEF StandaloneInv
<1>0. /\ StandaloneTypeOK /\ keeper[n].pc = "spawn" /\ Alive(n) /\ keeper[n].pc \in Late
      /\ UNCHANGED <<suspended, installed, record, lock, caller, clr, crashes, quiet, loose>>
      /\ births \in Nat /\ record \in Records /\ keeper \in [Nonces -> Keepers]
  BY BoundsAreNumbers
  DEF SpawnWorker, At, Alive, Late, intent, disk, past, MoreTypesOK, StandaloneTypeOK
<1>1. /\ keeper[n].id.pid \in Pids /\ keeper[n].id.start # 0 /\ keeper[n].id.start <= births
      /\ proc[keeper[n].id.pid].start = keeper[n].id.start /\ proc[keeper[n].id.pid].role = "keeper"
      /\ n # 0 /\ (\A m \in Nonces : Alive(m) => m = n)
      /\ record.nonce = n /\ record.owner = keeper[n].id /\ caller.pc \notin {"clear", "rm"}
  BY <1>0, KeeperFacts
<1>2. ~Still
  BY <1>0 DEF Still
<1>3. PICK p \in Pids : Born(p, "worker", n) /\
        keeper' = [keeper EXCEPT ![n].pc = "started", ![n].child = [pid |-> p, start |-> births + 1]]
  BY DEF SpawnWorker
<1>4. /\ proc' \in [Pids -> ProcOK] /\ births' \in 0..MaxBirths /\ ProcsOK' /\ Persist
      /\ \A q \in Pids : q # p => proc'[q] = proc[q]
      /\ proc[p].role = "none" /\ proc'[p].role = "worker" /\ proc'[p].nonce = n
      /\ proc'[p].start = births + 1 /\ births' = births + 1 /\ StrangersUnharmed'
  BY <1>0, <1>3, BoundsAreNumbers, TableBorn
<1>5. /\ keeper' \in [Nonces -> Keepers] /\ keeper'[n].pc = "started" /\ keeper'[n].id = keeper[n].id
      /\ \A m \in Nonces : m # n => keeper'[m] = keeper[m]
  <2>1. births + 1 \in 0..MaxBirths /\ p \in 0..MaxPids
    BY <1>4, BoundsAreNumbers
  <2>2. [pid |-> p, start |-> births + 1] \in Identities
    BY <2>1 DEF Identities
  <2>3. PICK child \in Identities : child = [pid |-> p, start |-> births + 1]
    BY <2>2
  <2>4. PICK k \in Keepers : k = [keeper[n] EXCEPT !.pc = "started", !.child = child]
                             /\ k.pc = "started" /\ k.id = keeper[n].id
    <3>1. keeper[n] \in Keepers
      BY <1>0
    <3>2. [keeper[n] EXCEPT !.pc = "started", !.child = child] \in Keepers
      BY <3>1 DEF Keepers, Late
    <3> QED BY <3>1, <3>2 DEF Keepers
  <2>5. keeper' = [keeper EXCEPT ![n] = k]
    BY <1>3, <2>3, <2>4
  <2> QED BY <1>0, <2>4, <2>5
<1>6. MoreTypesOK'
  BY <1>0, <1>4, <1>5 DEF MoreTypesOK, StandaloneTypeOK, ProcOK
<1>7. KeepersOK'
  <2>1. \A m \in Nonces : Alive(m)' <=> Alive(m)
    BY <1>0, <1>5 DEF Alive
  <2>2. KeeperOK(n)'
    BY <1>0, <1>1, <1>4, <1>5, <2>1 DEF KeepersOK, KeeperOK, Early, Late
  <2>3. \A m \in Nonces : m # n => KeeperOK(m)'
    BY <1>1, <1>5, <2>1 DEF KeepersOK, KeeperOK
  <2>4. \A q \in Pids : proc'[q].role = "keeper" => \E m \in Nonces : Alive(m)' /\ keeper'[m].id.pid = q
    BY <1>4, <1>5, <2>1 DEF KeepersOK
  <2>5. \A m \in Nonces : keeper'[m].pc = "none" <=> keeper[m].pc = "none"
    BY <1>0, <1>5
  <2>6. \E l \in 0..MaxLaunches : \A m \in Nonces : keeper'[m].pc # "none" <=> m <= l
    BY <2>5 DEF KeepersOK
  <2> QED BY <1>1, <2>1, <2>2, <2>3, <2>4, <2>6 DEF KeepersOK
<1>8. births' \in Nat /\ births <= births'
  BY <1>0, <1>4
<1>9. RecordOK'
  <2>1. \A m \in Nonces : keeper[m].pc \in Late \cup {"gone"} => keeper'[m].pc \in Late \cup {"gone"}
    BY <1>5 DEF Late
  <2>2. ASSUME NEW q \in Pids, proc'[q].role = "worker"
        PROVE  proc'[q].start \in Nat /\
                 ((proc[q].role = "worker" /\ proc'[q].start = proc[q].start) \/ proc'[q].start > births)
    <3>1. proc[q].start \in Nat
      BY <1>0, BoundsAreNumbers DEF StandaloneTypeOK
    <3> QED BY <1>0, <1>4, <2>2, <3>1
  <2> QED BY <1>0, <1>4, <1>8, <2>1, <2>2, RecordKept
<1>10. WorkersOK'
  BY <1>0, <1>1, <1>4 DEF WorkersOK
<1>11. SeenOK'
  BY <1>0, <1>4, <1>8, SeenKept
<1>12. CallerOK'
  BY <1>0, <1>1, <1>2 DEF CallerOK
<1> QED BY <1>4, <1>6, <1>7, <1>9, <1>10, <1>11, <1>12

-----------------------------------------------------------------------------
(* The kernel. *)

\* What becomes of workers and strangers leaves everything else alone.
LEMMA KernelMoves ==
  ASSUME StandaloneInv, UNCHANGED <<suspended, installed, record, lock, caller, keeper, clr, crashes, quiet, loose>>,
         proc' \in [Pids -> ProcOK], births' \in 0..MaxBirths, births <= births', ProcsOK', Persist,
         StrangersUnharmed',
         \A q \in Pids : proc[q].role = "keeper" \/ proc'[q].role = "keeper" => proc'[q] = proc[q],
         \A q \in Pids : proc'[q].role = "worker" =>
            \/ proc[q].role = "worker" /\ proc'[q].start = proc[q].start /\ proc'[q].nonce = proc[q].nonce
            \/ proc'[q].start > births /\ \E r \in Pids : proc[r].role = "worker" /\ proc'[q].nonce = proc[r].nonce
  PROVE  StandaloneInv'
<1> USE DEF StandaloneInv
<1>0. StandaloneTypeOK /\ births \in Nat /\ births' \in Nat /\ record \in Records
  BY BoundsAreNumbers DEF MoreTypesOK, StandaloneTypeOK
<1>1. MoreTypesOK'
  BY <1>0 DEF MoreTypesOK, StandaloneTypeOK, ProcOK
<1>2. KeepersOK'
  BY KeepersKept
<1>3. RecordOK'
  <2>1. \A q \in Pids : proc'[q].start \in Nat
    BY BoundsAreNumbers DEF ProcOK
  <2> QED BY <1>0, <2>1, RecordKept
<1>4. WorkersOK'
  BY DEF WorkersOK
<1>5. SeenOK'
  BY <1>0, SeenKept
<1>6. NoWorkers => NoWorkers'
  BY DEF NoWorkers
<1>7. Still => Still'
  BY <1>6 DEF Still
<1>8. CallerOK'
  BY <1>6, <1>7 DEF CallerOK, Alive
<1> QED BY <1>1, <1>2, <1>3, <1>4, <1>5, <1>8

LEMMA KernelInv == ASSUME StandaloneInv, NEW p \in Pids, Exit(p) \/ Fork(p) \/ Stranger(p) PROVE StandaloneInv'
<1> USE DEF StandaloneInv
<1>0. /\ StandaloneTypeOK /\ births \in Nat
      /\ UNCHANGED <<suspended, installed, record, lock, caller, keeper, clr, crashes, quiet, loose>>
  BY BoundsAreNumbers DEF Exit, Fork, Stranger, intent, disk, past, MoreTypesOK, StandaloneTypeOK
<1>1. CASE Exit(p)
  <2>1. proc[p].role = "worker" /\ proc' = [proc EXCEPT ![p] = NoProcess] /\ births' = births
    BY <1>1 DEF Exit
  <2>2. /\ proc' \in [Pids -> ProcOK] /\ births' \in 0..MaxBirths /\ ProcsOK' /\ Persist
        /\ \A q \in Pids : q # p => proc'[q] = proc[q]
        /\ proc'[p].role = "none" /\ StrangersUnharmed'
    BY <1>0, <2>1, TableDies
  <2> QED BY <1>0, <2>1, <2>2, KernelMoves
<1>2. CASE Fork(p)
  <2>1. PICK r \in Pids, nonce \in 0..MaxLaunches :
          proc[r].role = "worker" /\ nonce = proc[r].nonce /\ Born(p, "worker", nonce)
    BY <1>0, <1>2 DEF Fork, StandaloneTypeOK
  <2>2. /\ proc' \in [Pids -> ProcOK] /\ births' \in 0..MaxBirths /\ ProcsOK' /\ Persist
        /\ \A q \in Pids : q # p => proc'[q] = proc[q]
        /\ proc[p].role = "none" /\ proc'[p].role = "worker" /\ proc'[p].nonce = nonce
        /\ proc'[p].start = births + 1 /\ births' = births + 1 /\ StrangersUnharmed'
    BY <1>0, <2>1, TableBorn
  <2>3. births <= births' /\ proc'[p].start > births
    BY <1>0, <2>2
  <2> QED BY <1>0, <2>1, <2>2, <2>3, KernelMoves
<1>3. CASE Stranger(p)
  <2>1. PICK nonce \in 0..MaxLaunches : nonce = 0 /\ Born(p, "stranger", nonce)
    BY <1>3, BoundsAreNumbers DEF Stranger
  <2>2. /\ proc' \in [Pids -> ProcOK] /\ births' \in 0..MaxBirths /\ ProcsOK' /\ Persist
        /\ \A q \in Pids : q # p => proc'[q] = proc[q]
        /\ proc[p].role = "none" /\ proc'[p].role = "stranger"
        /\ births' = births + 1 /\ StrangersUnharmed'
    BY <1>0, <2>1, TableBorn
  <2>3. births <= births'
    BY <1>0, <2>2
  <2> QED BY <1>0, <2>2, <2>3, KernelMoves
<1> QED BY <1>1, <1>2, <1>3

-----------------------------------------------------------------------------

\* The invariant holds at the start.
LEMMA StandaloneInvInit == Init => StandaloneInv
<1> SUFFICES ASSUME Init PROVE StandaloneInv
  OBVIOUS
<1>0. NoIdentity \in Identities /\ NoRecord \in Records /\ NoRecord.nonce = 0
  BY BoundsAreNumbers DEF NoIdentity, Identities, NoRecord, Records
<1>1. StandaloneTypeOK
  <2>1. NoProcess \in ProcOK
    BY BoundsAreNumbers DEF NoProcess, ProcOK
  <2>2. proc \in [Pids -> ProcOK] /\ births \in 0..MaxBirths /\ crashes \in 0..MaxCrashes
    BY <2>1, BoundsAreNumbers DEF Init
  <2> QED BY <1>0, <2>2 DEF StandaloneTypeOK, ProcOK, Init
<1>2. MoreTypesOK
  <2>1. NoKeeper \in Keepers
    BY <1>0 DEF NoKeeper, Keepers
  <2>2. IdleCaller \in Callers
    BY <1>0, BoundsAreNumbers DEF IdleCaller, Callers
  <2>3. NoClear \in Clears
    BY DEF NoClear, Clears
  <2> QED BY <1>1, <2>1, <2>2, <2>3 DEF MoreTypesOK, Init
<1>3. ProcsOK /\ WorkersOK /\ SeenOK /\ StrangersUnharmed
  <2>1. \A p \in Pids : proc[p].role = "none" /\ proc[p].start = 0 /\ births = 0
    BY DEF Init, NoProcess
  <2>2. \A a \in Actors : clr[a].seen = {}
    BY DEF Init, NoClear
  <2> QED BY <2>1, <2>2 DEF ProcsOK, WorkersOK, SeenOK, StrangersUnharmed
<1>4. KeepersOK
  <2>1. \A n \in Nonces : keeper[n].pc = "none" /\ keeper[n].id.start = 0 /\ n > 0
    BY BoundsAreNumbers DEF Init, NoKeeper, NoIdentity, Nonces
  <2>2. \A p \in Pids : proc[p].role = "none"
    BY DEF Init, NoProcess
  <2>3. 0 \in 0..MaxLaunches /\ \A n \in Nonces : keeper[n].pc # "none" <=> n <= 0
    BY <2>1, BoundsAreNumbers
  <2> QED BY <2>1, <2>2, <2>3 DEF KeepersOK, KeeperOK, Alive
<1>5. RecordOK
  BY <1>0 DEF RecordOK, Init
<1>6. CallerOK
  BY BoundsAreNumbers DEF CallerOK, Init, IdleCaller, NoClear
<1> QED BY <1>2, <1>3, <1>4, <1>5, <1>6 DEF StandaloneInv

\* Every step keeps it.
LEMMA StandaloneInvStep == StandaloneInv /\ [Next]_vars => StandaloneInv'
<1> SUFFICES ASSUME StandaloneInv, [Next]_vars PROVE StandaloneInv'
  OBVIOUS
<1>1. CASE UNCHANGED vars
  BY <1>1
  DEF vars, intent, disk, table, past, StandaloneInv, MoreTypesOK, StandaloneTypeOK, ProcsOK, KeepersOK, KeeperOK,
      Alive, RecordOK, isSameProcess, WorkersOK, CallerOK, Still, NoWorkers, SeenOK, StrangersUnharmed
<1>2. CASE CallerStep \/ CallerDies \/ \E op \in Ops : Begin(op)
  <2>1. 0 \in Actors
    BY BoundsAreNumbers
  <2> QED BY <1>2, <2>1, BeginInv, StartOneInv, StopOneInv, ProbeInv, ProbedInv, StopKeeperInv, StopClearedInv,
             StopRemovedInv, LaunchInv, StartEndsInv, GivesUpInv, SignalInv, WaitedInv, CallerDiesInv
          DEF CallerStep
<1>3. ASSUME NEW n \in Nonces, runKeeper(n) \/ Heed(n) \/ KeeperKilled(n) PROVE StandaloneInv'
  <2>1. n \in Actors
    BY BoundsAreNumbers
  <2> QED BY <1>3, <2>1, AcquireInv, WritesInv, LooksInv, SpawnInv, OverInv, EndsInv, SignalInv, WaitedInv, HeedInv
          DEF runKeeper
<1> QED BY <1>1, <1>2, <1>3, KernelInv DEF Next

\* Whatever processes are born and end, whoever is killed and whenever a caller leaves,
\* the keepers of standalone.mjs keep their lock, their record and their workers as
\* described above.
THEOREM StandaloneInvariant == StandaloneSpec => []StandaloneInv
BY StandaloneInvInit, StandaloneInvStep, PTL DEF StandaloneSpec

\* Two keepers never have workers at the same time, and a running worker is found
\* through the owner record (runKeeper, acquireProcessLock, stopOne).
THEOREM OneOwnerHolds == StandaloneSpec => []OneOwner
<1>1. StandaloneInv => OneOwner
  BY DEF StandaloneInv, MoreTypesOK, WorkersOK, OneOwner
<1> QED BY <1>1, StandaloneInvariant, PTL

\* After a confirmed pause nothing of the component runs until it is resumed
\* (standaloneAction, stopOne, clearSession).
THEOREM PausedMeansStoppedHolds == StandaloneSpec => []PausedMeansStopped
<1>1. StandaloneInv => PausedMeansStopped
  BY DEF StandaloneInv, CallerOK, Still, NoWorkers, PausedMeansStopped
<1> QED BY <1>1, StandaloneInvariant, PTL

\* A process that is not the keeper's own is never signalled, whoever got the process
\* id of a dead worker or a dead keeper (isSameProcess, signalProcess, clearSession).
THEOREM StrangersUnharmedHolds == StandaloneSpec => []StrangersUnharmed
<1>1. StandaloneInv => StrangersUnharmed
  BY DEF StandaloneInv
<1> QED BY <1>1, StandaloneInvariant, PTL

=============================================================================
