----------------------------- MODULE LocalOAuth -----------------------------
(***************************************************************************)
(* How the Bridge comes by a token for the DevSpace beside it              *)
(* (client/oauth.mjs).  Every MCP call asks for one; the calls share one   *)
(* set of credentials, in memory and in local-oauth.json, and one promise  *)
(* for the refresh or the owner grant that is under way.                   *)
(*                                                                         *)
(* DevSpace, external, issues pairs of an access and a refresh token.  A   *)
(* pair is its number in `pairs`.  A refresh may end the old refresh token *)
(* (it is rotated), and what DevSpace issued is out whether or not its     *)
(* answer arrives, is saved or is lost with the process.                   *)
(***************************************************************************)
EXTENDS Integers, Sequences

CONSTANTS
    Calls,       \* MCP calls the Bridge has open; a promise is named by its first one
    Resources,   \* Gateway origins the device may be set up for
    None,
    Life,        \* ticks an access token is good for
    Margin,      \* ticks before its end it is not used any more (60 s)
    Timeout,     \* ticks an answer of DevSpace may take (10 s)
    MaxTime,     \* bound on the clock
    MaxFaults    \* bound on failed requests, restarts and ended refresh tokens

ASSUME OAuthAssumption ==
    /\ None \notin Calls \cup Resources
    /\ None \notin [resource: Resources \cup {None}, pair: Nat, expires: Nat]
    /\ {Life, Margin, Timeout, MaxTime, MaxFaults} \subseteq Nat
    /\ Timeout <= Margin /\ Margin < Life

VARIABLES
    mem, file,   \* this.credentials (None: not read yet) and local-oauth.json
    resource,    \* this.resource
    pending,     \* this.pending: the call whose promise it is, None: null
    flow,        \* obtain() of each such promise
    calls,       \* who waits for which promise, who has which token
    pairs,       \* DevSpace: what it has issued
    now, faults

oauthVars == <<mem, file, resource, pending, flow, calls, pairs, now, faults>>

Blank == [resource |-> None, pair |-> 0, expires |-> 0]     \* {}
NoFlow == [pc |-> "none", got |-> 0]
Open == [pc |-> "idle", on |-> None, pair |-> 0]

OAuthInit ==
    /\ mem = None /\ file = Blank
    /\ resource \in Resources
    /\ pending = None
    /\ flow = [c \in Calls |-> NoFlow]
    /\ calls = [c \in Calls |-> Open]
    /\ pairs = <<>>
    /\ now = 0 /\ faults = 0

\* Mutant: a token is used until the instant it is thought to end.
FreshToTheEnd(cred) == cred.expires > now
Fresh(cred) == cred.expires > now + Margin

-----------------------------------------------------------------------------
(* token()                                                                 *)

\* Mutant: every call begins a grant or refresh of its own.
JoinNobody(c) ==
    /\ pending' = c
    /\ flow' = [flow EXCEPT ![c] = [NoFlow EXCEPT !.pc = "begin"]]
Join(c) ==
    IF pending = None
      THEN pending' = c /\ flow' = [flow EXCEPT ![c] = [NoFlow EXCEPT !.pc = "begin"]]
      ELSE UNCHANGED <<pending, flow>>

Ask(c) ==
    /\ calls[c].pc = "idle"
    /\ \/ /\ mem # None /\ Fresh(mem)
          /\ calls' = [calls EXCEPT ![c] = [pc |-> "has", on |-> None, pair |-> mem.pair]]
          /\ UNCHANGED <<pending, flow>>
       \/ /\ mem # None => ~Fresh(mem)
          /\ Join(c)
          /\ calls' = [calls EXCEPT ![c] = [pc |-> "waits", on |-> pending', pair |-> 0]]
    /\ UNCHANGED <<mem, file, resource, pairs, now, faults>>

\* The call is over, or its client hangs up: what it waited for goes on.
Leave(c) ==
    /\ calls[c].pc # "idle"
    /\ calls' = [calls EXCEPT ![c] = Open]
    /\ UNCHANGED <<mem, file, resource, pending, flow, pairs, now, faults>>

-----------------------------------------------------------------------------
(* obtain(), for all that wait for f.                                      *)

Proceed(f, pc) == flow' = [flow EXCEPT ![f].pc = pc] /\ UNCHANGED <<pending, calls>>
Settle(f, outcome) ==
    /\ pending' = None
    /\ flow' = [flow EXCEPT ![f] = NoFlow]
    /\ calls' = [c \in Calls |-> IF calls[c].pc = "waits" /\ calls[c].on = f THEN outcome ELSE calls[c]]
Resolve(f, pair) == Settle(f, [pc |-> "has", on |-> None, pair |-> pair])
Reject(f) == Settle(f, [pc |-> "failed", on |-> None, pair |-> 0])

\* Credentials for another Gateway are none.
Obtain(f) ==
    /\ flow[f].pc = "begin"
    /\ LET known == IF mem = None THEN file ELSE mem IN
         mem' = IF known.resource = resource THEN known ELSE Blank
    /\ \/ Fresh(mem') /\ Resolve(f, mem'.pair)
       \/ ~Fresh(mem') /\ Proceed(f, IF mem'.pair # 0 THEN "refresh" ELSE "register")
    /\ UNCHANGED <<file, resource, pairs, now, faults>>

\* DevSpace issues a pair; its answer is on the way.
Issue(f, earlier) ==
    /\ pairs' = Append(earlier, [resource |-> resource, until |-> now + Life, honoured |-> TRUE])
    /\ flow' = [flow EXCEPT ![f] = [pc |-> "answer", got |-> Len(earlier) + 1]]
    /\ UNCHANGED <<pending, calls>>

\* Mutant: a refused refresh fails the calls, as any other failure does.
RefreshOrThrow(f) ==
    /\ flow[f].pc = "refresh"
    /\ \/ /\ pairs[mem.pair].honoured
          /\ \E kept \in BOOLEAN : Issue(f, [pairs EXCEPT ![mem.pair].honoured = kept])
       \/ ~pairs[mem.pair].honoured /\ Reject(f) /\ UNCHANGED pairs
    /\ UNCHANGED <<mem, file, resource, now, faults>>
Refresh(f) ==
    /\ flow[f].pc = "refresh"
    /\ \/ /\ pairs[mem.pair].honoured
          /\ \E kept \in BOOLEAN : Issue(f, [pairs EXCEPT ![mem.pair].honoured = kept])
       \/ ~pairs[mem.pair].honoured /\ Proceed(f, "register") /\ UNCHANGED pairs
    /\ UNCHANGED <<mem, file, resource, now, faults>>

\* The owner grant: a client, its authorisation, the exchange of its code.
Grant(f) ==
    /\ \/ flow[f].pc = "register" /\ Proceed(f, "authorize") /\ UNCHANGED pairs
       \/ flow[f].pc = "authorize" /\ Proceed(f, "exchange") /\ UNCHANGED pairs
       \/ flow[f].pc = "exchange" /\ Issue(f, pairs)
    /\ UNCHANGED <<mem, file, resource, now, faults>>

\* save(): in memory first, where calls find it while it is being written.
Save(f) ==
    /\ flow[f].pc = "answer"
    /\ mem' = [resource |-> resource, pair |-> flow[f].got, expires |-> now + Life]
    /\ Proceed(f, "write")
    /\ UNCHANGED <<file, resource, pairs, now, faults>>
Write(f) ==
    /\ flow[f].pc = "write"
    /\ file' = mem
    /\ Resolve(f, mem.pair)
    /\ UNCHANGED <<mem, resource, pairs, now, faults>>

FlowStep(f) == Obtain(f) \/ Refresh(f) \/ Grant(f) \/ Save(f) \/ Write(f)

-----------------------------------------------------------------------------
(* What goes wrong, and time.                                              *)

Strike == faults < MaxFaults /\ faults' = faults + 1

\* A file cannot be read or written, a request fails, DevSpace is busy, its
\* answer is lost: obtain() throws.
\* Mutant: a refresh that fails in any way leads to a new owner grant.
LoseToGrant(f) ==
    /\ flow[f].pc # "none"
    /\ Strike
    /\ IF flow[f].pc = "refresh" THEN Proceed(f, "register") ELSE Reject(f)
    /\ UNCHANGED <<mem, file, resource, pairs, now>>
Lose(f) ==
    /\ flow[f].pc # "none"
    /\ Strike
    /\ Reject(f)
    /\ UNCHANGED <<mem, file, resource, pairs, now>>

\* The runtime is killed and starts again, perhaps set up for another Gateway.
Restart(r) ==
    /\ Strike
    /\ resource' = r
    /\ mem' = None /\ pending' = None
    /\ flow' = [c \in Calls |-> NoFlow]
    /\ calls' = [c \in Calls |-> Open]
    /\ UNCHANGED <<file, pairs, now>>

\* DevSpace ends a refresh token.
Expire(n) ==
    /\ Strike
    /\ pairs[n].honoured
    /\ pairs' = [pairs EXCEPT ![n].honoured = FALSE]
    /\ UNCHANGED <<mem, file, resource, pending, flow, calls, now>>

\* An answer takes Timeout at most, writing the file no time that matters.
Tick ==
    /\ now < MaxTime
    /\ \A f \in Calls :
         /\ flow[f].pc # "write"
         /\ flow[f].pc = "answer" => now < pairs[flow[f].got].until - Life + Timeout
    /\ now' = now + 1
    /\ UNCHANGED <<mem, file, resource, pending, flow, calls, pairs, faults>>

OAuthNext ==
    \/ \E c \in Calls : Ask(c) \/ Leave(c) \/ FlowStep(c) \/ Lose(c)
    \/ \E r \in Resources : Restart(r)
    \/ \E n \in 1 .. Len(pairs) : Expire(n)
    \/ Tick

\* Every request is answered or times out, and Node runs what was awaited.
OAuthFairness == WF_oauthVars(\E c \in Calls : FlowStep(c))

OAuthSpec == OAuthInit /\ [][OAuthNext]_oauthVars /\ OAuthFairness

-----------------------------------------------------------------------------
(* Properties.                                                             *)

Credentials == [resource: Resources \cup {None}, pair: 0 .. Len(pairs), expires: 0 .. MaxTime + Life]

OAuthTypeOK ==
    /\ mem \in Credentials \cup {None} /\ file \in Credentials
    /\ resource \in Resources
    /\ pending \in Calls \cup {None}
    /\ flow \in [Calls -> [pc: {"none", "begin", "refresh", "register", "authorize", "exchange",
                                "answer", "write"}, got: 0 .. Len(pairs)]]
    /\ calls \in [Calls -> [pc: {"idle", "waits", "has", "failed"}, on: Calls \cup {None},
                            pair: 0 .. Len(pairs)]]
    /\ pairs \in Seq([resource: Resources, until: Life .. MaxTime + Life, honoured: BOOLEAN])
    /\ now \in 0 .. MaxTime /\ faults \in 0 .. MaxFaults

\* "Reuse one grant/refresh for concurrent MCP sessions": there is one promise
\* at a time, and whoever waits, waits for that one - also when the call it
\* began with is gone.
OneFlight ==
    /\ OAuthTypeOK
    /\ \A f \in Calls : flow[f].pc # "none" <=> pending = f
    /\ \A c \in Calls : calls[c].pc = "waits" => calls[c].on = pending

\* The token a call is forwarded with is one DevSpace still takes, and is for
\* the Gateway the device is set up for, however late its answer came, whether
\* it was read from the file of an earlier process or shared with others.
TokenIsGood ==
    [][\A c \in Calls : calls'[c].pc = "has" /\ calls[c].pc # "has" =>
        LET p == pairs[calls'[c].pair] IN p.until > now /\ p.resource = resource]_oauthVars

\* The credentials the process has, and those in an answer on its way.
Known == {IF mem = None THEN file.pair ELSE mem.pair} \cup {flow[f].got : f \in Calls}

\* "Only rejected credentials justify a new owner grant.  Network/server faults
\* do not": a grant begins only when no refresh token the process has is
\* still honoured for this Gateway.
NoNeedlessGrant ==
    [][\A f \in Calls : flow'[f].pc = "register" /\ flow[f].pc # "register" =>
        \A n \in Known \ {0} : ~(pairs[n].honoured /\ pairs[n].resource = resource)]_oauthVars

\* All of it: concurrent calls share one grant or refresh, what they get is good,
\* and the owner is asked only when there is no other way.
SoundTokens == []OneFlight /\ TokenIsGood /\ NoNeedlessGrant

\* A device is never locked out of its own DevSpace: whatever was lost before -
\* an answer, a write, the process, a refresh token - no calls are left waiting,
\* and a call fails only where something fails once more.
CallsAreServed ==
    /\ [][\A c \in Calls : calls'[c].pc = "failed" /\ calls[c].pc # "failed" => faults' # faults]_oauthVars
    /\ []<>(\A c \in Calls : calls[c].pc # "waits")
=============================================================================
