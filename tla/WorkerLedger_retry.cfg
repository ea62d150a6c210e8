SPECIFICATION Spec
CONSTANTS
    Job = {1, 4}
    Inv = {i1, i2}
    NULL = NULL
    KindOf <- MCKindOf
    TargetOf <- MCTargetOf
    SiteOf <- MCSiteOf
    NovelOf <- MCNovelOf
    KeyOf <- MCKeyOf
    Outcomes = {"succeeded", "blocked"}
    Lease = 1
    Grace = 0
    Hold = 2
    Wall = 1
    MaxRetries = 1
    MaxAttempts = 2
    Cursor = {1}
    MaxYields = 1
    MaxFaults = 1
SYMMETRY Slots
VIEW Seen
PROPERTIES FirstSettlementWins BackoffHeld ImplementsExclusion ProgressKept
INVARIANTS OneActivePerKey
