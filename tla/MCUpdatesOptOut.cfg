\* One automatic update and a user who turns automatic updates off.
SPECIFICATION UpdatesSpec
CONSTANTS
    Calls = {}
    Quiet = 0
    Window = 1
    MaxTime = 0
    Updaters = {p1}
    Versions = {1, 2}
    Guard = 1
    MaxAttempts = 1
    MaxFaults = 0
    UserOps = {"settings"}
    Natives = {FALSE}
    Nobody = Nobody
PROPERTIES
    OptOutIsHonoured
CHECK_DEADLOCK FALSE
