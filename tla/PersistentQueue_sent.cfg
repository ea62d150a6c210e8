CONSTANTS
    download = download
    convert = convert
    backup1 = backup1
    backup2 = backup2
    bookmarks = bookmarks
    Job = {download, convert}
    Web = {w1}
    Concurrency = FALSE
    MaxRunning = 1
    Capacity = 10
    Requests = {"push"}
    Outcomes = {"completed"}
    MaxCrashes = 0
    TargetOf <- MCTargetOf
    FiledAs <- MCFiledAs
    LaneOf <- MCLaneOf
    Backup <- MCBackup
    ChildJob <- MCChildJob
    Worker = worker
SPECIFICATION Spec
INVARIANTS
    SentKept
CHECK_DEADLOCK FALSE
