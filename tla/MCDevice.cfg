\* Two keys and a root that stays, or one key and two roots, on every system; or
\* three installers of which two may find the lock of a killed one, with two
\* kills or failed commands, on a new, an installed or an enrolled device.
SPECIFICATION OneDeviceSpec
CONSTANTS
    Keys = {k1, k2}
    Bindings = {b1, b2}
    Systems = {"windows", "macos", "linux"}
    Roots = {r1, r2}
    Scenes = {"keys", "root"}
    MaxFaults = 1
    None = None
    Installers = {i1, i2, i3}
    Original = Original
    Targets = {"linux", "darwin"}
    MaxSetbacks = 2
    Nil = Nil
SYMMETRY Symmetry
INVARIANTS
    PauseHolds
    DeniedUntilProbed
    StateIsTrue
    OneAtATime
    WorkingVersionKept
CHECK_DEADLOCK FALSE
