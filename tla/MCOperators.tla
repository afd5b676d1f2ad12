---------------------------- MODULE MCOperators ----------------------------
(* What operators do: in each behaviour a crew publishes releases and saves *)
(* the policy, or, when it is empty, releases of the Gateway are deployed.  *)
EXTENDS UpdatePolicy, Deployment, TLC

PolicySymmetry == Permutations(Admins) \cup Permutations(Publishers) \cup Permutations(Readers)

OperatorsInit == PolicyInit /\ DeploymentInit /\ (crew # {} => worker = 0)
OperatorsNext ==
    \/ crew # {} /\ PolicyNext /\ UNCHANGED deploymentVars
    \/ crew = {} /\ DeploymentNext /\ UNCHANGED policyVars
OperatorsSpec == OperatorsInit /\ [][OperatorsNext]_<<policyVars, deploymentVars>>
=============================================================================
