SPECIFICATION FairSpec
CONSTANTS
    n1 = n1
    d1 = d1
    s1 = s1
    NULL = NULL
    Job = {3, 5, 7}
    Worker = {d1, s1}
    Canceller = {c1}
    Novel = {n1}
    LaneOf <- MCLaneOf
    TargetsOf <- MCTargetsOf
    UrlSite <- MCUrlSite
    SiteOf <- MCSiteOf
    AutoUpdates = {5}
    Diffs = {7}
    PhasesOf <- MCPhasesOf
    MaxRetries <- MCMaxRetries
    MaxCancels = 1
INVARIANTS TypeOK SiteAlone GuardsApart
PROPERTIES KilledIsCancelled JobsLeave
CHECK_DEADLOCK FALSE
