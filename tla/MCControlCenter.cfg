\* Two desktop processes that may overlap, three ports; or one, and a page.
SPECIFICATION ControlFairSpec
CONSTANTS
    Instances = {1, 2}
    Ports = {1, 2, 3}
    Preferred = 1
    MaxTokens = 3
    MaxTaken = 1
    Limit = 1
    Expiry = 2
    MaxTime = 2
INVARIANTS
    
    PageSurvives
PROPERTIES
    WaitEnds
CHECK_DEADLOCK FALSE
