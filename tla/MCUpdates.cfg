\* Two updaters that may record two attempts, on either kind of system, with a
\* crash or a lost answer anywhere and a user who changes the settings.  What
\* the Bridge does is MCUpdatesWork's question.
SPECIFICATION UpdatesSpec
CONSTANTS
    Calls = {}
    Quiet = 0
    Window = 1
    MaxTime = 1
    Updaters = {p1, p2}
    Versions = {1, 2}
    Guard = 1
    MaxAttempts = 2
    MaxFaults = 1
    UserOps = {"settings"}
    Natives = {FALSE, TRUE}
    Nobody = Nobody
SYMMETRY UpdaterSymmetry
INVARIANTS
    AttemptIsBacked
PROPERTIES
    OneInstaller
    NoDowngrade
CHECK_DEADLOCK FALSE
