------------------------------- MODULE Bridge -------------------------------
(***************************************************************************)
(* The Bridge (client/bridge.mjs): the loopback HTTP server in front of    *)
(* the local DevSpace, and its admission pause for updates.                *)
(*                                                                         *)
(* A call is one /mcp request that passed the credential checks.  Its      *)
(* handler and its response have lives of their own: the client may hang   *)
(* up while the handler still waits for a token, and the handler may be    *)
(* done while the response is still streaming.                             *)
(***************************************************************************)
EXTENDS Integers, FiniteSets

CONSTANTS
    Calls,      \* /mcp requests that may be in the Bridge at once
    Quiet,      \* quiet time an automatic update asks for
    Window,     \* length of the admission pause
    MaxTime     \* bound on the clock

ASSUME BridgeAssumption ==
    /\ IsFiniteSet(Calls)
    /\ Quiet \in Nat /\ Window \in Nat \ {0} /\ MaxTime \in Nat

VARIABLES
    call,          \* each call: where its handler is, and its open response
    activeWork,    \* the Bridge's count of POST calls
    lastWorkAt,    \* when a POST call last began or ended
    drainUntil,    \* POST calls are refused before this time
    clock,
    busyAt         \* history: the last instant at which a POST call was open

bridgeVars == <<call, activeWork, lastWorkAt, drainUntil, clock, busyAt>>

Handlers == {"none", "token", "upstream", "over"}
NoCall == [handler |-> "none", post |-> FALSE, open |-> FALSE]

Work == {c \in Calls : call[c].post /\ call[c].open}
Draining == clock < drainUntil

BridgeInit ==
    /\ call = [c \in Calls |-> NoCall]
    /\ activeWork = 0
    /\ lastWorkAt = 0
    /\ drainUntil = 0
    /\ clock = 0
    /\ busyAt = 0

-----------------------------------------------------------------------------

\* Only POST is new work: GET streams and DELETE are not counted or refused.
Arrive(c, post) ==
    /\ call[c] = NoCall
    /\ post => ~Draining
    /\ call' = [call EXCEPT ![c] = [handler |-> "token", post |-> post, open |-> TRUE]]
    /\ IF post THEN activeWork' = activeWork + 1 /\ lastWorkAt' = clock /\ busyAt' = clock
               ELSE UNCHANGED <<activeWork, lastWorkAt, busyAt>>
    /\ UNCHANGED <<drainUntil, clock>>

\* The token is there: forward the request, unless its client has gone.
\* Mutant: the request is forwarded even so.
ForwardAnyway(c) ==
    /\ call[c].handler = "token"
    /\ call' = [call EXCEPT ![c].handler = "upstream"]
    /\ UNCHANGED <<activeWork, lastWorkAt, drainUntil, clock, busyAt>>
Forward(c) ==
    /\ call[c].handler = "token"
    /\ call' = [call EXCEPT ![c] = IF @.open THEN [@ EXCEPT !.handler = "upstream"] ELSE NoCall]
    /\ UNCHANGED <<activeWork, lastWorkAt, drainUntil, clock, busyAt>>

\* No token, an upstream error or a complete answer: the handler is done, and
\* what is left is the response on its way to the client.
Conclude(c) ==
    /\ call[c].handler \in {"token", "upstream"}
    /\ call' = [call EXCEPT ![c] = IF @.open THEN [@ EXCEPT !.handler = "over"] ELSE NoCall]
    /\ UNCHANGED <<activeWork, lastWorkAt, drainUntil, clock, busyAt>>

\* 'close' of the response: it was sent completely, or the connection broke.
\* An upstream request that is still running is destroyed with it.
Close(c) ==
    /\ call[c].open
    /\ call' = [call EXCEPT ![c] = IF @.handler = "token" THEN [@ EXCEPT !.open = FALSE] ELSE NoCall]
    /\ IF call[c].post THEN activeWork' = activeWork - 1 /\ lastWorkAt' = clock
                       ELSE UNCHANGED <<activeWork, lastWorkAt>>
    /\ UNCHANGED <<drainUntil, clock, busyAt>>

-----------------------------------------------------------------------------
(* /update-drain                                                           *)

\* Answered 200 rather than 409; GET asks without draining.
IdleFor(automatic) == activeWork = 0 /\ (automatic => clock - lastWorkAt >= Quiet)

StartDrain(automatic) ==
    /\ IdleFor(automatic)
    /\ drainUntil' = clock + Window
    /\ UNCHANGED <<call, activeWork, lastWorkAt, clock, busyAt>>
EndDrain ==
    /\ drainUntil' = 0
    /\ UNCHANGED <<call, activeWork, lastWorkAt, clock, busyAt>>

\* The runtime process ends and is started again.
RestartBridge ==
    /\ call' = [c \in Calls |-> NoCall]
    /\ activeWork' = 0
    /\ lastWorkAt' = clock
    /\ drainUntil' = 0
    /\ UNCHANGED <<clock, busyAt>>

\* Time passes; it is seen by every open call.
BridgeTick ==
    /\ clock < MaxTime
    /\ clock' = clock + 1
    /\ busyAt' = IF Work # {} THEN clock' ELSE busyAt
    /\ UNCHANGED <<call, activeWork, lastWorkAt, drainUntil>>

Serve(c) == Forward(c) \/ Conclude(c) \/ Close(c) \/ \E post \in BOOLEAN : Arrive(c, post)

BridgeNext ==
    \/ \E c \in Calls : Serve(c)
    \/ \E automatic \in BOOLEAN : StartDrain(automatic)
    \/ EndDrain \/ RestartBridge \/ BridgeTick

BridgeSpec == BridgeInit /\ [][BridgeNext]_bridgeVars

-----------------------------------------------------------------------------
(* Properties.                                                             *)

BridgeTypeOK ==
    /\ call \in [Calls -> [handler : Handlers, post : BOOLEAN, open : BOOLEAN]]
    /\ activeWork \in Nat /\ lastWorkAt \in Nat
    /\ drainUntil \in Nat /\ clock \in Nat /\ busyAt \in Nat

\* The counter is exactly the open POST calls, however each of them ended: once
\* too often and an update interrupts work, once too seldom and no update is
\* ever admitted again.
CountIsOpenWork == activeWork = Cardinality(Work)

\* While admission is paused the Bridge has no work: none was admitted, and no
\* call whose client left before its token came is still sent to DevSpace.
DrainedIsIdle ==
    Draining => \A c \in Calls : call[c].post => ~call[c].open /\ call[c].handler # "upstream"

\* What the Bridge counts, and what it answers when asked whether it is idle, is
\* the work it has.
WorkIsCounted == CountIsOpenWork /\ DrainedIsIdle

\* An automatic update starts only after the quiet time: at no instant of it was
\* a POST call open.
QuietBeforeAutomatic == IdleFor(TRUE) => clock - busyAt >= Quiet

\* The two answers an updater asks the Bridge for, and starts an installer on.
AccountIsTrue == WorkIsCounted /\ QuietBeforeAutomatic
=============================================================================
