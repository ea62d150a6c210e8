CONSTANTS
    Runtime = {"worker"}
    Name = {n1}
    MaxLength = 2
    CheckpointEvery = 2
    MaxChanges = 1
    MaxJobs = 2
    MaxInterrupts = 1
SPECIFICATION Spec
INVARIANTS
    TocCurrent
CHECK_DEADLOCK FALSE
