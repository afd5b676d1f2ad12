---------------------------- MODULE ControlCenter ----------------------------
(* The Control Center: the loopback server of the desktop process              *)
(* (client/local-control.mjs), whose capability survives a restart so that a   *)
(* page that is open can reconnect, and that page (client/control.js), which   *)
(* waits for the restart while an update is installed.                         *)
(*                                                                             *)
(* Two processes may overlap: the native helper's lock is free again before    *)
(* the process that ran it has closed its server.  A token is a number; what   *)
(* the updater does with a confirmed version is module Updates' subject.       *)
EXTENDS Naturals

CONSTANTS Instances,   \* desktop processes
          Ports,       \* loopback ports, numbers
          Preferred,   \* the first choice among them
          MaxTokens,   \* bound: capabilities ever made
          MaxTaken,    \* bound: how often another program takes a port
          Limit,       \* how long a page waits for the restart
          Expiry,      \* age from which an attempt is no longer pending
          MaxTime

ASSUME ControlAssumption ==
  /\ Ports \subseteq Nat \ {0} /\ Preferred \in Ports
  /\ {MaxTokens, MaxTaken, Limit, Expiry, MaxTime} \subseteq Nat /\ MaxTokens > 0
  /\ 0 \notin Instances /\ 9 \notin Instances

Another == 9     \* an instance that has ended
Tokens == 1..MaxTokens
Apps == 1..2                        \* the version that runs, and its update
NoCap == [token |-> 0, port |-> 0]
Idle == [pc |-> "idle", cap |-> NoCap, port |-> 0, moved |-> FALSE, token |-> 0, app |-> 1]
NoAttempt == [at |-> 0, outcome |-> "none"]
NoPage == [pc |-> "closed", port |-> 0, token |-> 0, known |-> 0,
           offers |-> FALSE, modal |-> FALSE, sent |-> "no", wait |-> FALSE,
           until |-> 0, timedOut |-> FALSE]

VARIABLES
  cap,      \* control-capability.json; port 0: none recorded
  endpoint, \* control-endpoint.json, or 0
  made,     \* tokens made so far
  inst,     \* startLocalControl in each process
  foreign,  \* ports other programs listen on
  taken,    \* how often one was taken
  collided, \* history: a start had to leave the port it asked for
  served,   \* history: which tokens were accepted on which ports
  crew,     \* the processes of this behaviour: one if a page is followed
  app,      \* the release that is installed
  attempt,  \* attempt.json and its result: an update to release 2
  page,
  now

files == <<cap, endpoint, made>>
surroundings == <<foreign, taken, collided, crew>>
update == <<app, attempt>>
controlVars == <<files, inst, surroundings, served, update, page, now>>

\* Nothing, or what an older release left behind: it served on its one port.
ControlInit ==
  /\ crew \in {Instances, {CHOOSE i \in Instances : TRUE}}
  /\ \/ cap = NoCap /\ made = 0 /\ served = {} /\ endpoint = 0
     \/ /\ cap = [token |-> 1, port |-> 0] /\ made = 1
        /\ endpoint \in Ports \cup {0}
        /\ served = {<<1, IF endpoint = 0 THEN Preferred ELSE endpoint>>}
  /\ inst = [i \in Instances |-> Idle]
  /\ foreign = {} /\ taken = 0 /\ collided = FALSE
  /\ app = 1 /\ attempt = NoAttempt
  /\ page = NoPage /\ now = 0

Bound(i) == inst[i].pc \in {"bound", "claimed", "serving"}
Busy(p) == p \in foreign \/ \E i \in Instances : Bound(i) /\ inst[i].port = p
FreshToken == made + 1

-----------------------------------------------------------------------------
(* startLocalControl.                                                         *)

\* The credential's own port, or the cached one, or the preferred one.
Requested(c) == IF c.port # 0 THEN c.port ELSE IF endpoint # 0 THEN endpoint ELSE Preferred
Starting(i, c) ==
  inst' = [inst EXCEPT ![i] = [@ EXCEPT !.pc = "bind", !.cap = c, !.port = Requested(c)]]

\* Bound of the model: a page is followed where processes do not overlap.
Alone(i) == crew = {i}
Begin(i) ==
  /\ inst[i] = Idle /\ i \in crew
  /\ IF cap = NoCap THEN inst' = [inst EXCEPT ![i].pc = "create"] ELSE Starting(i, cap)
  /\ UNCHANGED <<files, surroundings, served, update, page, now>>

\* The file is only made, never replaced: the loser of a race takes the winner's.
\* Mutant: it is replaced.
Replaces(i) == TRUE
Creates(i) == cap = NoCap
CreateCapability(i) ==
  /\ inst[i].pc = "create"
  /\ IF Creates(i)
       THEN /\ FreshToken \in Tokens
            /\ made' = FreshToken
            /\ cap' = [token |-> FreshToken, port |-> 0]
            /\ Starting(i, cap')
       ELSE Starting(i, cap) /\ UNCHANGED <<made, cap>>
  /\ UNCHANGED <<endpoint, surroundings, served, update, page, now>>

BindRequested(i) ==
  /\ inst[i].pc = "bind" /\ ~Busy(inst[i].port)
  /\ inst' = [inst EXCEPT ![i].pc = "bound"]
  /\ UNCHANGED <<files, surroundings, served, update, page, now>>

\* The requested port stayed busy: another one, or no Control Center.
BindFallback(i) ==
  /\ inst[i].pc = "bind" /\ Busy(inst[i].port)
  /\ \/ \E p \in Ports \ {inst[i].port} :
          /\ ~Busy(p)
          /\ inst' = [inst EXCEPT ![i] = [@ EXCEPT !.pc = "bound", !.port = p, !.moved = TRUE]]
     \/ /\ \A p \in Ports : Busy(p)
        /\ inst' = [inst EXCEPT ![i] = Idle]
  /\ collided' = TRUE
  /\ UNCHANGED <<files, foreign, taken, crew, served, update, page, now>>

\* A port that is not the credential's gets a credential of its own.
Rotates(i) == inst[i].moved \/ (inst[i].cap.port # 0 /\ inst[i].cap.port # inst[i].port)

\* Mutant: the port is left to the endpoint cache.
Unported(token, port) == [token |-> token, port |-> 0]
Ported(token, port) == [token |-> token, port |-> port]

\* The credential and its port are on disk before anything is answered; the
\* write of the endpoint cache may fail.
Claim(i) ==
  /\ inst[i].pc = "bound"
  /\ LET token == IF Rotates(i) THEN FreshToken ELSE inst[i].cap.token IN
       /\ token \in Tokens
       /\ made' = IF Rotates(i) THEN FreshToken ELSE made
       /\ cap' = IF Rotates(i) \/ inst[i].cap.port # inst[i].port
                   THEN Ported(token, inst[i].port) ELSE cap
       /\ inst' = [inst EXCEPT ![i] = [@ EXCEPT !.pc = "claimed", !.token = token]]
  /\ UNCHANGED <<endpoint, surroundings, served, update, page, now>>

Serve(i) ==
  /\ inst[i].pc = "claimed"
  /\ endpoint' \in {endpoint, inst[i].port}
  /\ inst' = [inst EXCEPT ![i] = [@ EXCEPT !.pc = "serving", !.cap = NoCap, !.moved = FALSE, !.app = app]]
  /\ served' = served \cup {<<inst[i].token, inst[i].port>>}
  /\ UNCHANGED <<cap, made, surroundings, update, page, now>>

\* It is closed, fails to start, or its process dies.
Ends(i) ==
  /\ inst[i] # Idle
  /\ inst' = [inst EXCEPT ![i] = Idle]
  /\ page' = [page EXCEPT !.known = IF @ = i THEN Another ELSE @,
                          !.sent = IF @ = "out" /\ inst[i].port = page.port THEN "lost" ELSE @]
  /\ UNCHANGED <<files, surroundings, served, update, now>>

ForeignTakes(p) ==
  /\ taken < MaxTaken /\ ~Busy(p)
  /\ foreign' = foreign \cup {p} /\ taken' = taken + 1
  /\ UNCHANGED <<files, inst, collided, crew, served, update, page, now>>
ForeignLeaves(p) ==
  /\ p \in foreign
  /\ foreign' = foreign \ {p}
  /\ UNCHANGED <<files, inst, taken, collided, crew, served, update, page, now>>

-----------------------------------------------------------------------------
(* The installer, and what updateStatus makes of its attempt.                 *)

\* The installer activates release 2 and records how it ended, or dies.
Installs(outcome) ==
  /\ attempt.outcome = "pending"
  /\ attempt' = [attempt EXCEPT !.outcome = outcome]
  /\ app' = IF outcome = "failed" THEN app ELSE 2
  /\ UNCHANGED <<files, inst, surroundings, served, page, now>>

\* As an instance that runs release v sees it.
Installation(v) ==
  IF attempt = NoAttempt THEN "none"
  ELSE IF attempt.outcome = "failed" THEN "failed"
  ELSE IF v = 2 THEN "installed"
  ELSE IF now - attempt.at >= Expiry THEN "expired"
  ELSE "installing"

-----------------------------------------------------------------------------
(* The page.                                                                  *)

Listener == {i \in Instances : inst[i].pc = "serving" /\ inst[i].port = page.port}
Accepts(i) == inst[i].token = page.token
Connected == page.pc = "connected"

\* open(): the address with the token in its fragment.
OpenPage(i) ==
  /\ page = NoPage /\ inst[i].pc = "serving" /\ Alone(i)
  /\ page' = [NoPage EXCEPT !.pc = "loading", !.port = inst[i].port, !.token = inst[i].token]
  /\ UNCHANGED <<files, inst, surroundings, served, update, now>>

NoWait(q) == [q EXCEPT !.wait = FALSE, !.until = 0]
StillWaits == page.wait /\ page.until > now

\* A new instance's page is loaded anew; of the old one only the wait is kept.
Reloaded(i) ==
  [NoPage EXCEPT !.pc = "loading", !.port = page.port, !.token = page.token, !.known = i,
                 !.wait = StillWaits, !.until = IF StillWaits THEN page.until ELSE 0]

\* What the page shows of the answer, and whether it goes on waiting.
Waiting(q, i) ==
  CASE Installation(inst[i].app) = "installing" /\ attempt.at + Limit <= now -> [NoWait(q) EXCEPT !.timedOut = TRUE]
    [] Installation(inst[i].app) = "installing" /\ attempt.at + Limit > now /\ ~q.wait /\ ~q.timedOut ->
         [q EXCEPT !.wait = TRUE, !.until = attempt.at + Limit]
    [] Installation(inst[i].app) \in {"failed", "expired"} -> NoWait(q)
    [] Installation(inst[i].app) \in {"none", "installed"} /\ q.wait /\ inst[i].app = 2 -> [NoWait(q) EXCEPT !.timedOut = FALSE]
    [] OTHER -> q
Rendered(i) ==
  Waiting([page EXCEPT !.pc = "connected", !.known = i, !.offers = inst[i].app = 1,
                       !.modal = page.modal /\ inst[i].app = 1], i)

\* No answer: while it waits it says that it waits, until the deadline.
\* Mutant: the deadline is not looked at again.
LostForever == [page EXCEPT !.pc = IF page.wait THEN "waiting" ELSE "lost"]
Lost == [(IF StillWaits THEN page ELSE NoWait(page)) EXCEPT !.pc = IF StillWaits THEN "waiting" ELSE "lost"]
Refused == [NoWait(page) EXCEPT !.pc = "refused"]

Refresh ==
  /\ page # NoPage
  /\ page' \in IF Listener = {} THEN {Lost}
               ELSE {IF ~Accepts(i) THEN Refused
                     ELSE IF page.known \notin {0, i} THEN Reloaded(i) ELSE Rendered(i) : i \in Listener}
  /\ UNCHANGED <<files, inst, surroundings, served, update, now>>

\* The buttons of a page that is not connected are disabled.
OpenModal ==
  /\ Connected /\ page.offers /\ page.sent = "no"
  /\ page' = [page EXCEPT !.modal = TRUE]
  /\ UNCHANGED <<files, inst, surroundings, served, update, now>>

\* The wait is on record before the request is made.
Confirm ==
  /\ Connected /\ page.modal /\ page.offers /\ page.sent = "no"
  /\ now + Limit <= MaxTime
  /\ page' = [page EXCEPT !.modal = FALSE, !.wait = TRUE, !.until = now + Limit,
                          !.sent = IF Listener = {} THEN "lost" ELSE "out"]
  /\ UNCHANGED <<files, inst, surroundings, served, update, now>>

\* The instance that got the request hands the update to the installer; the
\* page goes on waiting, whether the answer reaches it or not.
Pending == attempt.outcome = "pending" /\ now - attempt.at < Expiry
Apply(i) ==
  /\ page.sent = "out" /\ i \in Listener /\ Accepts(i)
  /\ inst[i].app = 1 /\ app = 1 /\ ~Pending
  /\ now + Limit <= MaxTime
  /\ attempt' = [at |-> now, outcome |-> "pending"]
  /\ page' = [page EXCEPT !.sent = "no"]
  /\ UNCHANGED <<files, inst, surroundings, served, app, now>>
\* It was refused or deferred; or the connection broke, and the page does not know.
NotApplied ==
  /\ page.sent # "no"
  /\ page' = [(IF page.sent = "out" THEN NoWait(page) ELSE page) EXCEPT !.sent = "no"]
  /\ UNCHANGED <<files, inst, surroundings, served, update, now>>

\* Time matters to a wait and to an attempt.
ControlTick ==
  /\ now < MaxTime /\ (page.wait \/ attempt # NoAttempt)
  /\ now' = now + 1
  /\ UNCHANGED <<files, inst, surroundings, served, update, page>>

Start(i) ==
  Begin(i) \/ CreateCapability(i) \/ BindRequested(i) \/ BindFallback(i) \/ Claim(i) \/ Serve(i)

ControlNext ==
  \/ \E i \in Instances : Start(i) \/ Ends(i) \/ OpenPage(i) \/ Apply(i)
  \/ \E p \in Ports : ForeignTakes(p) \/ ForeignLeaves(p)
  \/ \E outcome \in {"failed", "done"} : Installs(outcome)
  \/ Refresh \/ OpenModal \/ Confirm \/ NotApplied \/ ControlTick

\* A page that is in view polls every 1.5 seconds.
ControlFairness == WF_controlVars(Refresh) /\ WF_controlVars(ControlTick)

ControlSpec == ControlInit /\ [][ControlNext]_controlVars
ControlFairSpec == ControlSpec /\ ControlFairness

-----------------------------------------------------------------------------
(* Properties.                                                                *)

ControlTypeOK ==
  /\ cap \in [token : Tokens \cup {0}, port : Ports \cup {0}]
  /\ endpoint \in Ports \cup {0} /\ made \in Tokens \cup {0}
  /\ \A i \in Instances :
       /\ inst[i].pc \in {"idle", "create", "bind", "bound", "claimed", "serving"}
       /\ inst[i].cap.token \in Tokens \cup {0} /\ inst[i].token \in Tokens \cup {0}
       /\ inst[i].port \in Ports \cup {0} /\ inst[i].app \in Apps
  /\ foreign \subseteq Ports /\ served \subseteq Tokens \X Ports
  /\ app \in Apps /\ attempt.at \in 0..MaxTime /\ now \in 0..MaxTime
  /\ page.pc \in {"closed", "loading", "connected", "waiting", "lost", "refused"}
  /\ page.wait \/ page.until = 0

\* "Port affinity belongs to the credential": one capability is never accepted
\* on two ports, whatever other programs and other starts did to the port, and
\* whichever write of the two files was the last before a crash.
TokenOneOrigin ==
  /\ ControlTypeOK
  /\ \A s, t \in served : s[1] = t[1] => s[2] = t[2]

\* "Its private capability survives a normal upgrade so the same already-open
\* page can reconnect": what was accepted on a port is accepted there by every
\* later instance, unless some start had to leave its port.
PageSurvives ==
  ~collided => \A i \in Instances : inst[i].pc = "serving" =>
    \A s \in served : s[2] = inst[i].port => s[1] = inst[i].token

\* The page does not say for ever that it waits for the restart.
WaitEnds == []<>(page.pc # "waiting")
=============================================================================
