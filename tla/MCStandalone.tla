---------------------------- MODULE MCStandalone ----------------------------
(* What serves on a device without a service manager: in each behaviour     *)
(* keepers hold its processes up, or calls ask the Bridge for tokens.       *)
EXTENDS Standalone, LocalOAuth, TLC

VARIABLE asking
ServingInit == asking \in BOOLEAN /\ Init /\ OAuthInit /\ resource = CHOOSE r \in Resources : TRUE
ServingNext ==
    \/ ~asking /\ Next /\ UNCHANGED <<oauthVars, asking>>
    \/ asking /\ OAuthNext /\ UNCHANGED <<vars, asking>>
ServingSpec ==
    /\ ServingInit /\ [][ServingNext]_<<vars, oauthVars, asking>>
    /\ \A n \in Nonces : WF_vars(runKeeper(n))
    /\ OAuthFairness
=============================================================================
