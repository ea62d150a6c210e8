CONSTANTS
    download = download
    convert = convert
    backup1 = backup1
    backup2 = backup2
    bookmarks = bookmarks
    Job = {backup1, backup2, bookmarks}
    Web = {w1}
    Concurrency = TRUE
    MaxRunning = 1
    Capacity = 10
    Requests = {"remove_pending", "push", "defer_restorable_tasks", "activate_restorable_tasks"}
    Outcomes = {"completed"}
    MaxCrashes = 1
    TargetOf <- MCTargetOf
    FiledAs <- MCFiledAs
    LaneOf <- MCLaneOf
    Backup <- MCBackup
    ChildJob <- MCChildJob
    Worker = worker
SPECIFICATION Spec
SYMMETRY Symmetry
VIEW View
INVARIANTS
    OneActivePerTarget
    BackupOnce
CHECK_DEADLOCK FALSE
