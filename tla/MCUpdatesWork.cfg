\* One updater and one call: remote work, pauses and resumes around one attempt,
\* on either kind of system.
SPECIFICATION UpdatesSpec
CONSTANTS
    Calls = {c1}
    Quiet = 1
    Window = 1
    MaxTime = 3
    Updaters = {p1}
    Versions = {1, 2}
    Guard = 3
    MaxAttempts = 1
    MaxFaults = 0
    UserOps = {"pause"}
    Natives = {FALSE, TRUE}
    Nobody = Nobody
INVARIANTS
    NoDrainLeftBehind
    AccountIsTrue
PROPERTIES
    InstallerSparesWork
CHECK_DEADLOCK FALSE
