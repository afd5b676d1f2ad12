\* Three versions of what a status says, two changes between them.
SPECIFICATION FairSpec
CONSTANTS
    MaxChanges = 3
INVARIANTS
    ActivityIsTrue
PROPERTIES
    NeverOlder
    ExitEnds
CHECK_DEADLOCK FALSE
