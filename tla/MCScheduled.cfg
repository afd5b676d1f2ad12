\* One key, one handler and the scheduled scan called again and again, whose
\* snapshot can be older than the key's latest write; one call may fail anywhere,
\* and version reports may fail on a downgrade. Two bindings share one tunnel id.
\* Or the update scheduler, where an hour is 2 and the interval of checks 3, with
\* one restart, failed write or clock that was put back.
SPECIFICATION ScheduledSpec
CONSTANTS
    Keys = {k1}
    Devices = {d1}
    Bindings = {b1, b2}
    Tunnels = {t1}
    Versions = {1, 2}
    None = None
    Grace = 0
    MaxTime = 1
    Requests = {p1}
    Scans = {s1}
    MaxFaults = 1
    Newest = 2
    BusyDelay = 1
    FailureDelay = 2
    CheckDelay = 3
    LongestDelay = 3
    MaxMishaps = 1
INVARIANTS
    BackOffHolds
PROPERTIES
    NothingLingers
    ScanSparesRepaired
    StoreSpec
    UpdatesKeepComing
CHECK_DEADLOCK FALSE
