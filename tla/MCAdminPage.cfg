\* Two keys competing for two devices, two binding ids and one tunnel id; the
\* clock reaches 1, one past the grace period.
SPECIFICATION AdminSpec
CONSTANTS
    Keys = {k1, k2}
    Devices = {d1, d2}
    Bindings = {b1, b2}
    Tunnels = {t1}
    Versions = {1}
    Labels = {l1, l2}
    None = None
    Grace = 0
    MaxTime = 1
SYMMETRY Symmetry
INVARIANTS
    StoreIsSound
    CredentialKept
    FlashIsTrue
PROPERTIES
    ImplementsLifecycle
CHECK_DEADLOCK FALSE
