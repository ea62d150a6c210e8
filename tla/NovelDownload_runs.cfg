CONSTANTS
    Runtime = {"worker", "native"}
    Name = {n1, n2}
    MaxLength = 3
    CheckpointEvery = 1
    MaxChanges = 1
    MaxJobs = 2
    MaxInterrupts = 2
SPECIFICATION Spec
INVARIANTS
    TypeOK
    CursorBacked
    TocReadable
    UpdatesKept
PROPERTIES
    RetryKeepsProgress
    JobEnds
CHECK_DEADLOCK FALSE
