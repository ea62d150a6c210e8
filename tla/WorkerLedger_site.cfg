SPECIFICATION Spec
CONSTANTS
    Job = {1, 2}
    Inv = {i1, i2}
    NULL = NULL
    KindOf <- MCKindOf
    TargetOf <- MCTargetOf
    SiteOf <- MCSiteOf
    NovelOf <- MCNovelOf
    KeyOf <- MCKeyOf
    Outcomes = {"succeeded", "blocked"}
    Lease = 2
    Grace = 0
    Hold = 1
    Wall = 2
    MaxRetries = 0
    MaxAttempts = 1
    Cursor = {}
    MaxYields = 0
    MaxFaults = 1
SYMMETRY Slots
VIEW Seen
INVARIANTS TypeOK LiveExclusion OwnerExclusion LiveClaim ParkedIsVisible
