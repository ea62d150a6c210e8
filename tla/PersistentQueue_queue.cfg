CONSTANTS
    download = download
    convert = convert
    backup1 = backup1
    backup2 = backup2
    bookmarks = bookmarks
    Job = {download, convert}
    Web = {w1}
    Concurrency = FALSE
    MaxRunning = 1
    Capacity = 2
    Requests = {"push_batch", "remove_pending", "cancel_pending_in_lane", "requeue_failed", "flush"}
    Outcomes = {"failed", "requeue"}
    MaxCrashes = 0
    TargetOf <- MCTargetOf
    FiledAs <- MCFiledAs
    LaneOf <- MCLaneOf
    Backup <- MCBackup
    ChildJob <- MCChildJob
    Worker = worker
SPECIFICATION Spec
VIEW View
INVARIANTS
    TypeOK
    RunningOwned
    OneList
    PushedKept
    BackoffKept
CHECK_DEADLOCK FALSE
