SPECIFICATION FairSpec
CONSTANTS
    Job = {1, 2}
    Inv = {i1}
    NULL = NULL
    KindOf <- MCKindOf
    TargetOf <- MCTargetOf
    SiteOf <- MCSiteOf
    NovelOf <- MCNovelOf
    KeyOf <- MCKeyOf
    Outcomes = {"blocked"}
    Lease = 1
    Grace = 0
    Hold = 1
    Wall = 1
    MaxRetries = 1
    MaxAttempts = 2
    Cursor = {}
    MaxYields = 0
    MaxFaults = 1
PROPERTIES EveryJobSettles OwnersLeave
