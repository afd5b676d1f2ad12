\* Two publishers, which may outlive their leases, and an administrator; or two
\* administrators and two reads of one isolate; or three deployments in a row
\* with three failures, kills or interventions between them.
SPECIFICATION OperatorsSpec
CONSTANTS
    Admins = {a1, a2}
    Publishers = {q1, q2}
    Readers = {r1, r2}
    Crews = {{}, {a1, q1, q2}, {a2, q1, q2}, {a1, a2, r1, r2}}
    Versions = {1, 2}
    Lease = 2
    Margin = 1
    Fresh = 1
    MaxRevision = 1
    MaxTime = 2
    Nobody = Nobody
    Newest = 3
    MaxDeployments = 3
    MaxTroubles = 3
    MaxRows = 1
SYMMETRY PolicySymmetry
INVARIANTS
    CacheNotOlder
    RolloutHolds
PROPERTIES
    NobodyOverridden
    PruneSparesPolicy
CHECK_DEADLOCK FALSE
