---------------------------- MODULE MCScheduled ----------------------------
(* What is done by the clock and at nobody's request: in each behaviour the *)
(* Gateway runs its scheduled scan beside a handler or, where there is an   *)
(* update scheduler, a device keeps itself up to date.                      *)
EXTENDS Gateway, Scheduler, TLC

NoScheduler == sched.pc = "off"
ScheduledInit ==
    /\ GatewayInit /\ SchedulerInit
    /\ NoScheduler =>
         /\ device = [native |-> FALSE, consent |-> TRUE]
         /\ gateway = [up |-> TRUE, auto |-> 0] /\ occupied = "no"
         /\ saved = NoCheckYet
ScheduledNext ==
    \/ NoScheduler /\ GatewayNext /\ UNCHANGED schedulerVars
    \/ ~NoScheduler /\ SchedulerNext /\ UNCHANGED gatewayVars
ScheduledSpec ==
    /\ ScheduledInit /\ [][ScheduledNext]_<<gatewayVars, schedulerVars>>
    /\ GatewayFairness /\ SchedulerFairness
=============================================================================
