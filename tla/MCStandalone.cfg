\* Four processes over three process ids, two of them keepers, one killing from
\* outside; a caller may give up any time.
\* Or two calls and two Gateways; a token lives three ticks and is not used in its
\* last, and the clock shows three: a grant and the refresh that follows it; two
\* faults of any kind.
SPECIFICATION ServingSpec
CONSTANTS
    MaxPids = 3
    MaxBirths = 4
    MaxLaunches = 2
    MaxFailures = 2
    MaxCrashes = 1
    Ops = {"pause", "resume", "remove"}
    Calls = {c1, c2}
    Resources = {g1, g2}
    None = None
    Life = 3
    Margin = 1
    Timeout = 1
    MaxTime = 3
    MaxFaults = 2
INVARIANTS
    StrangersUnharmed
    PausedMeansStopped
    
PROPERTIES
    PauseTakesHold
    SoundTokens
    CallsAreServed
CHECK_DEADLOCK FALSE
