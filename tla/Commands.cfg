CONSTANTS
    Sids = {s1, s2}
    s1 = s1
    s2 = s2
    All = All
    Deployments <- MCDeployments
    Past <- MCPast
    Requests <- MCRequests
    FanOut = 2
    MaxBoots = 4
    MaxCmds = 2
SPECIFICATION FairSpec
CHECK_DEADLOCK FALSE
INVARIANTS
    TypeOK
    CrossingsExplained
    LastWordHolds
    AppliedOnce
PROPERTIES
    CommandsTakeEffect
