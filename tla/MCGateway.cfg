\* One key, two devices, two concurrent handlers. The pool of binding ids and
\* tunnel ids is finite, so the last handlers may have nothing left to do.
SPECIFICATION GatewaySpec
CONSTANTS
    Keys = {k1}
    Devices = {d1, d2}
    Bindings = {b1, b2}
    Tunnels = {t1, t2}
    Versions = {}
    None = None
    Grace = 0
    MaxTime = 0
    Requests = {p1, p2}
    Scans = {}
    MaxFaults = 1
SYMMETRY Symmetry
INVARIANTS
    TunnelsFollowRows
PROPERTIES
    CleanupIsReal
    DeliveredWhereAuthorised
    PauseIsKept
CHECK_DEADLOCK FALSE
