-------------------------- MODULE PersistentQueue --------------------------
(***************************************************************************)
(* The job queue of the native server (src/src/queue.rs): lists in memory  *)
(* behind a mutex, and one file (queue.yaml, or the same payload in        *)
(* SQLite) that every save replaces as a whole.                            *)
(*                                                                         *)
(* An operation takes the mutex more than once and reads and writes the    *)
(* file outside it.  Its steps are                                         *)
(*     Start   the file is read (operations that merge)                    *)
(*     Merge   mutex: waiting jobs of that reading which memory lacks are  *)
(*             appended                                                    *)
(*     Act     mutex: the operation itself                                 *)
(*     Save    mutex: memory is serialized                                 *)
(*     Write   the file is replaced; the operation returns                 *)
(* and any step of another thread may come between two of them.  Threads   *)
(* are the web requests and the queue workers; the workers pop and settle  *)
(* under job_transition_lock (web/worker.rs), so they are one thread here. *)
(* A child process of the server enqueues through a queue of its own over  *)
(* the same file (commands/mod.rs, enqueue_web_convert_job).               *)
(*                                                                         *)
(* The order inside a list is left out: pop takes any runnable job.        *)
(*                                                                         *)
(* Definitions marked MUTANT are plausible mistakes in the definition that *)
(* follows them; the specification does not use them.                      *)
(***************************************************************************)
EXTENDS Integers, FiniteSets

CONSTANTS
    Job,         \* job ids (UUIDs: an id is generated once)
    TargetOf,    \* what a job was pushed as: job_type and target, and cmd, args
                 \* and meta where the push names them
    FiledAs,     \* what it is once a file is read: job_type and target are
                 \* rebuilt from cmd and args
    LaneOf,      \* the lane of each job
    Backup,      \* the jobs whose completion leaves a sentinel file
    ChildJob,    \* the conversions a child process enqueues
    Web,         \* threads of web requests
    Worker,      \* the queue workers, as one thread
    Concurrency, \* BOOLEAN: workers per lane, or one worker for both lanes
    MaxRunning,  \* number of workers
    Capacity,    \* MAX_PENDING_JOBS
    Requests,    \* the operations web requests use
    Outcomes,    \* how the worker may settle an execution
    MaxCrashes   \* bound: crashes of the server

Thread  == Web \union {Worker}
Lane    == {"default", "secondary"}
History == {"completed", "partial", "failed", "cancelled"}
List    == {"pending", "deferred", "running", "resumed"} \union History
Section == {"waiting", "running"} \union History
Settling == History \union {"requeue"}
Removing == {"remove_pending", "clear_pending", "clear_non_running"}
Request  == Removing \union
            {"push", "push_batch", "cancel_pending_in_lane", "requeue_failed",
             "activate_restorable_tasks", "defer_restorable_tasks", "flush"}
Merging  == {"push", "push_batch"} \union Settling

ASSUME ThreadAssumption == Worker \notin Web
ASSUME JobAssumption == /\ IsFiniteSet(Job)
                        /\ LaneOf \in [Job -> Lane]
                        /\ DOMAIN TargetOf = Job /\ DOMAIN FiledAs = Job
                        /\ Backup \subseteq Job /\ ChildJob \subseteq Job \ Backup
ASSUME UseAssumption == /\ Requests \subseteq Request
                        /\ Outcomes \subseteq Settling
                        /\ Concurrency \in BOOLEAN
ASSUME LimitAssumption == /\ MaxRunning \in Nat /\ Capacity \in Nat
                          /\ MaxCrashes \in Nat

VARIABLES
    mem,        \* the lists of PersistentQueueState
    disk,       \* the sections of the file
    sentinel,   \* jobs with a backup-bookmark-<id>.done file
    thread,     \* what each thread is doing
    child,      \* what a child process with its own queue is doing
    executing,  \* jobs a worker runs between its pop and its settlement
    held,       \* pending jobs whose available_at lies in the future
    up,         \* the server is running
    rebuilt,    \* jobs whose job_type and target memory has from the file
    crashes,    \* crashes so far
    used,       \* ids generated so far
    cooling,    \* jobs whose backoff, counted from the failure, is not over
    accepted,   \* ids a push of the server returned
    sent,       \* ids a child's push returned
    cleared,    \* ids a removal took out of memory
    overflowed, \* ids a full queue refused on requeue
    backedUp    \* backups whose completion was recorded

server == <<mem, thread, executing, held>>
ghosts == <<cooling, accepted, sent, cleared, overflowed, backedUp>>
vars   == <<server, disk, sentinel, child, up, rebuilt, crashes, used, ghosts>>

----------------------------------------------------------------------------
(* Memory and file. *)

Empty  == [x \in List |-> {}]
NoFile == [s \in Section |-> {}]

Known(m)   == UNION {m[x] : x \in List}
Waiting(m) == m.pending \union m.deferred
Active(m)  == Waiting(m) \union m.running \union m.resumed

Serialize(m) == [s \in Section |->
    CASE s = "waiting" -> Waiting(m)
      [] s = "running" -> m.running \union m.resumed
      [] OTHER         -> m[s]]

\* A process starts with what the file holds, none of it active.  The file keeps
\* a waiting or running job as cmd, args and meta (see FiledAs), and the history
\* as it was in memory.
Load(f) == [x \in List |->
    CASE x = "deferred" -> f.waiting
      [] x = "resumed"  -> f.running
      [] x \in History  -> f[x]
      [] OTHER          -> {}]

\* MUTANT: the merge looks for a job in the active lists only.
MergedActive(m, f) == [m EXCEPT !.pending = @ \union (f.waiting \ Active(m))]

\* A job of the file is new to memory if no list of memory has its id.
Merged(m, f) == [m EXCEPT !.pending = @ \union (f.waiting \ Known(m))]

Loadable(f)   == Cardinality(f.waiting) <= Capacity
HasRoom(m, n) == n = 0 \/ Cardinality(Waiting(m)) + n <= Capacity

\* What memory says job k does, if the jobs of R were rebuilt.
WorkOf(R, k) == IF k \in R THEN FiledAs[k] ELSE TargetOf[k]

\* MUTANT: a job of the last process is not found.
DuplicateNow(m, R, j) ==
    \E k \in m.pending \union m.running : WorkOf(R, k) = TargetOf[j]

\* find_active_job_id: an active job that does what j asks for.
Duplicate(m, R, j) == \E k \in Active(m) : WorkOf(R, k) = TargetOf[j]

NeedsSentinel(S) == S \intersect Backup

\* m with the jobs of S in list x and in no other list.
Moved(m, S, x) == [y \in List |-> IF y = x THEN m[y] \union S ELSE m[y] \ S]
Without(m, S)  == [y \in List |-> m[y] \ S]

----------------------------------------------------------------------------
(* The steps operations are made of. *)

Idle == [pc |-> "idle", op |-> "flush", jobs |-> {}, lane |-> "default",
         file |-> NoFile]

Starting(op, jobs, lane) ==
    [pc   |-> IF op \in Merging THEN "merge" ELSE "act",
     op   |-> op, jobs |-> jobs, lane |-> lane,
     file |-> IF op \in Merging THEN disk ELSE NoFile]

Start(t, op, jobs, lane) ==
    /\ up
    /\ thread[t].pc = "idle"
    /\ thread' = [thread EXCEPT ![t] = Starting(op, jobs, lane)]

\* The file read_payload returns to a pop that found nothing runnable.
Read(t) ==
    /\ thread[t].pc = "read"
    /\ thread' = [thread EXCEPT ![t].pc = "merge", ![t].file = disk]
    /\ UNCHANGED <<mem, executing, held>>
    /\ UNCHANGED <<disk, sentinel, child, up, rebuilt, crashes, used, ghosts>>

\* merge_external_pending_jobs.  A file over the limit is an error: pop
\* ignores it, any other operation returns it.
Merge(t) ==
    /\ thread[t].pc = "merge"
    /\ IF Loadable(thread[t].file)
       THEN /\ mem' = Merged(mem, thread[t].file)
            /\ rebuilt' = rebuilt \union (thread[t].file.waiting \ Known(mem))
       ELSE UNCHANGED <<mem, rebuilt>>
    /\ thread' = [thread EXCEPT ![t] =
                    IF Loadable(@.file) \/ @.op = "pop"
                    THEN [@ EXCEPT !.pc = "act", !.file = NoFile]
                    ELSE Idle]
    /\ UNCHANGED <<executing, held>>
    /\ UNCHANGED <<disk, sentinel, child, up, crashes, used, ghosts>>

Save(t) ==
    /\ thread[t].pc = "save"
    /\ thread' = [thread EXCEPT ![t].pc = "write", ![t].file = Serialize(mem)]
    /\ UNCHANGED <<mem, executing, held>>
    /\ UNCHANGED <<disk, sentinel, child, up, rebuilt, crashes, used, ghosts>>

\* The ids S if the operation that ends is one of ops.
Reporting(t, ops, S) == IF thread[t].op \in ops THEN S \union thread[t].jobs ELSE S

Write(t) ==
    /\ thread[t].pc = "write"
    /\ disk' = thread[t].file
    /\ executing' = Reporting(t, {"pop"}, executing)
    /\ accepted' = Reporting(t, {"push", "push_batch"}, accepted)
    /\ thread' = [thread EXCEPT ![t] = Idle]
    /\ UNCHANGED <<mem, held, sentinel, child, up, rebuilt, crashes, used>>
    /\ UNCHANGED <<cooling, sent, cleared, overflowed, backedUp>>

\* The locked region of an operation ends with a save, after which the
\* operation reports `jobs', or the operation returns early.
Acting(t, op)   == thread[t].pc = "act" /\ thread[t].op = op
Saving(t, jobs) == thread' = [thread EXCEPT ![t].pc = "save", ![t].jobs = jobs]
Return(t)       == thread' = [thread EXCEPT ![t] = Idle]

----------------------------------------------------------------------------
(* Web requests. *)

\* Ids not generated yet.
Fresh == Job \ used

\* A request of the web UI, which names waiting jobs it was shown.
WebRequest(t) ==
    /\ \/ \E op \in Requests \intersect {"push", "push_batch"} :
          \E S \in SUBSET Fresh :
              /\ IF op = "push" THEN Cardinality(S) = 1 ELSE Cardinality(S) = 2
              /\ Start(t, op, S, "default")
              /\ used' = used \union S
       \/ /\ \/ "remove_pending" \in Requests /\
                \E j \in Waiting(mem) : Start(t, "remove_pending", {j}, "default")
             \/ "cancel_pending_in_lane" \in Requests /\
                \E l \in Lane : Start(t, "cancel_pending_in_lane", {}, l)
             \/ \E op \in Requests \ {"push", "push_batch", "remove_pending",
                                      "cancel_pending_in_lane"} :
                    Start(t, op, {}, "default")
          /\ UNCHANGED used
    /\ UNCHANGED <<mem, executing, held>>
    /\ UNCHANGED <<disk, sentinel, child, up, rebuilt, crashes, ghosts>>

\* push_internal.  The sentinel of a new id, which it clears, does not exist.
Push(t) ==
    /\ Acting(t, "push")
    /\ IF (\E j \in thread[t].jobs : Duplicate(mem, rebuilt, j)) \/ ~HasRoom(mem, 1)
       THEN Return(t) /\ UNCHANGED mem
       ELSE /\ mem' = Moved(mem, thread[t].jobs, "pending")
            /\ Saving(t, thread[t].jobs)
    /\ UNCHANGED <<executing, held>>
    /\ UNCHANGED <<disk, sentinel, child, up, rebuilt, crashes, used, ghosts>>

\* The jobs of a batch that push_batch appends: one per target not yet active.
Appended(S) ==
    {N \in SUBSET S :
        /\ \A j \in N : ~Duplicate(mem, rebuilt, j)
        /\ \A j, k \in N : TargetOf[j] = TargetOf[k] => j = k
        /\ \A j \in S \ N : \/ Duplicate(mem, rebuilt, j)
                            \/ \E k \in N : TargetOf[j] = TargetOf[k]}

\* The active jobs that it returns for the others: the first that does the same.
Matched(S) ==
    {F \in SUBSET {k \in Active(mem) : \E j \in S : WorkOf(rebuilt, k) = TargetOf[j]} :
        /\ \A i, k \in F : WorkOf(rebuilt, i) = WorkOf(rebuilt, k) => i = k
        /\ \A j \in S : Duplicate(mem, rebuilt, j) =>
                            \E k \in F : WorkOf(rebuilt, k) = TargetOf[j]}

\* The sentinels it clears are those of every id it returns, the ids of jobs
\* that are active already included.
PushBatch(t) ==
    /\ Acting(t, "push_batch")
    /\ IF ~HasRoom(mem, Cardinality(thread[t].jobs))
       THEN Return(t) /\ UNCHANGED <<mem, sentinel>>
       ELSE \E N \in Appended(thread[t].jobs), F \in Matched(thread[t].jobs) :
                /\ mem' = Moved(mem, N, "pending")
                /\ sentinel' = sentinel \ F
                /\ Saving(t, N)
    /\ UNCHANGED <<executing, held>>
    /\ UNCHANGED <<disk, child, up, rebuilt, crashes, used, ghosts>>

\* MUTANT: the jobs are taken out and not recorded as cancelled.
CancelForgets(t) ==
    /\ Acting(t, "cancel_pending_in_lane")
    /\ LET S == {j \in Waiting(mem) : LaneOf[j] = thread[t].lane}
       IN  /\ mem' = Without(mem, S)
           /\ held' = held \ S
           /\ Saving(t, {})
    /\ UNCHANGED executing
    /\ UNCHANGED <<disk, sentinel, child, up, rebuilt, crashes, used, ghosts>>

CancelPendingInLane(t) ==
    /\ Acting(t, "cancel_pending_in_lane")
    /\ LET S == {j \in Waiting(mem) : LaneOf[j] = thread[t].lane}
       IN  IF S = {}
           THEN Return(t) /\ UNCHANGED <<mem, held>>
           ELSE /\ mem' = Moved(mem, S, "cancelled")
                /\ held' = held \ S
                /\ Saving(t, {})
    /\ UNCHANGED executing
    /\ UNCHANGED <<disk, sentinel, child, up, rebuilt, crashes, used, ghosts>>

RequeueFailed(t) ==
    /\ Acting(t, "requeue_failed")
    /\ IF HasRoom(mem, Cardinality(mem.failed))
       THEN mem' = Moved(mem, mem.failed, "pending") /\ Saving(t, {})
       ELSE Return(t) /\ UNCHANGED mem
    /\ UNCHANGED <<executing, held>>
    /\ UNCHANGED <<disk, sentinel, child, up, rebuilt, crashes, used, ghosts>>

\* MUTANT: the removals take running jobs too, as clear does.
RemovableAll(t) ==
    CASE thread[t].op = "remove_pending"    -> thread[t].jobs \intersect Active(mem)
      [] thread[t].op = "clear_pending"     -> Waiting(mem)
      [] thread[t].op = "clear_non_running" -> Active(mem) \union mem.cancelled

\* What each removal takes out of memory.
Removable(t) ==
    CASE thread[t].op = "remove_pending"    -> thread[t].jobs \intersect Waiting(mem)
      [] thread[t].op = "clear_pending"     -> Waiting(mem)
      [] thread[t].op = "clear_non_running" -> Waiting(mem) \union mem.cancelled

\* remove_pending saves only if it found its job; the two others always save.
Remove(t) ==
    /\ \E op \in Removing : Acting(t, op)
    /\ LET S == Removable(t)
       IN  /\ mem' = Without(mem, S)
           /\ held' = held \ S
           /\ cleared' = cleared \union S
           /\ IF thread[t].op = "remove_pending" /\ S = {} THEN Return(t)
                                                           ELSE Saving(t, {})
    /\ UNCHANGED <<executing, disk, sentinel, child, up, rebuilt, crashes, used>>
    /\ UNCHANGED <<cooling, accepted, sent, overflowed, backedUp>>

\* MUTANT: the sentinel is not looked for.
BackedNever(S) == {}

\* The jobs of S whose sentinel says they were completed.
Backed(S) == NeedsSentinel(S) \intersect sentinel

\* Jobs of the last process become pending, except backups it completed.
ActivateRestorable(t) ==
    /\ Acting(t, "activate_restorable_tasks")
    /\ LET S == mem.resumed \union mem.deferred
           Done == Backed(S)
       IN  /\ mem' = Moved(Moved(mem, S \ Done, "pending"), Done, "completed")
           /\ sentinel' = sentinel \ Done
           /\ Saving(t, {})
    /\ UNCHANGED <<executing, held, disk, child, up, rebuilt, crashes, used, ghosts>>

DeferRestorable(t) ==
    /\ Acting(t, "defer_restorable_tasks")
    /\ mem' = Moved(mem, mem.resumed, "deferred")
    /\ Saving(t, {})
    /\ UNCHANGED <<executing, held>>
    /\ UNCHANGED <<disk, sentinel, child, up, rebuilt, crashes, used, ghosts>>

\* flush; also reorder_pending, since the order of a list is left out.
Flush(t) ==
    /\ Acting(t, "flush")
    /\ Saving(t, {})
    /\ UNCHANGED <<mem, executing, held>>
    /\ UNCHANGED <<disk, sentinel, child, up, rebuilt, crashes, used, ghosts>>

----------------------------------------------------------------------------
(* The queue workers. *)

\* The pending jobs of a lane whose backoff is over.
Runnable(l) == {j \in mem.pending \ held : LaneOf[j] = l}

\* MUTANT: a single worker does not look at available_at.
CandidatesNow(l) == IF Concurrency THEN Runnable(l) ELSE mem.pending

\* A lane's worker takes jobs of its lane; a single worker takes any, though
\* the test that spares it the merge looks at the default lane only.
Candidates(l) == IF Concurrency THEN Runnable(l) ELSE mem.pending \ held

PopJob ==
    /\ up
    /\ thread[Worker].pc = "idle"
    /\ Cardinality(executing) < MaxRunning
    /\ \E l \in IF Concurrency THEN Lane ELSE {"default"} :
         thread' = [thread EXCEPT ![Worker] =
             [Starting("pop", {}, l) EXCEPT !.pc = IF Runnable(l) = {} THEN "read"
                                                                       ELSE "act"]]
    /\ UNCHANGED <<mem, executing, held>>
    /\ UNCHANGED <<disk, sentinel, child, up, rebuilt, crashes, used, ghosts>>

\* With concurrency a runnable job may be passed over: its novel is locked or
\* its site is busy.
Pop(t) ==
    /\ Acting(t, "pop")
    /\ \/ /\ Concurrency \/ Candidates(thread[t].lane) = {}
          /\ Return(t)
          /\ UNCHANGED mem
       \/ \E j \in Candidates(thread[t].lane) :
             mem' = Moved(mem, {j}, "running") /\ Saving(t, {j})
    /\ UNCHANGED <<executing, held>>
    /\ UNCHANGED <<disk, sentinel, child, up, rebuilt, crashes, used, ghosts>>

\* An execution ends and its worker settles the job.
FinishJob ==
    /\ \E j \in executing, outcome \in Outcomes :
           /\ Start(Worker, outcome, {j}, "default")
           /\ executing' = executing \ {j}
    /\ UNCHANGED <<mem, held, disk, sentinel, child, up, rebuilt, crashes, used, ghosts>>

Found(t) == thread[t].jobs \intersect (mem.running \union mem.resumed)

\* complete, partial, fail and cancel save even if the job is not running.
Settle(t) ==
    /\ \E op \in History : Acting(t, op)
    /\ LET S == Found(t)
           Marked == IF thread[t].op = "completed" THEN NeedsSentinel(S) ELSE {}
       IN  /\ mem' = Moved(mem, S, thread[t].op)
           /\ sentinel' = sentinel \union Marked
           /\ backedUp' = backedUp \union Marked
    /\ Saving(t, {})
    /\ UNCHANGED <<executing, held, disk, child, up, rebuilt, crashes, used>>
    /\ UNCHANGED <<cooling, accepted, sent, cleared, overflowed>>

\* requeue: back to pending, with a backoff.  The job leaves the running list
\* before the capacity is checked; a job that was not running is failed.
Requeue(t) ==
    /\ Acting(t, "requeue")
    /\ LET S == Found(t)
           fits == HasRoom(mem, 1)
       IN  /\ mem' = IF fits THEN Moved(mem, S, "pending") ELSE Without(mem, S)
           /\ held' = IF fits THEN held \union S ELSE held
           /\ cooling' = IF fits THEN cooling \union S ELSE cooling
           /\ overflowed' = IF fits THEN overflowed ELSE overflowed \union S
           /\ CASE S = {}         -> thread' = [thread EXCEPT ![t] =
                                        Starting("failed", @.jobs, "default")]
                [] S # {} /\ fits -> Saving(t, {})
                [] OTHER          -> Return(t)
    /\ UNCHANGED <<executing, disk, sentinel, child, up, rebuilt, crashes, used>>
    /\ UNCHANGED <<accepted, sent, cleared, backedUp>>

\* MUTANT: the hold outlives the backoff.
BackoffStays ==
    /\ \E j \in cooling : cooling' = cooling \ {j} /\ UNCHANGED held
    /\ UNCHANGED <<mem, thread, executing, disk, sentinel, child, up, rebuilt, crashes, used>>
    /\ UNCHANGED <<accepted, sent, cleared, overflowed, backedUp>>

\* Time reaches available_at.
BackoffOver ==
    /\ \E j \in cooling : cooling' = cooling \ {j} /\ held' = held \ {j}
    /\ UNCHANGED <<mem, thread, executing, disk, sentinel, child, up, rebuilt, crashes, used>>
    /\ UNCHANGED <<accepted, sent, cleared, overflowed, backedUp>>

----------------------------------------------------------------------------
(* A child process, and the end of the server. *)

\* enqueue_web_convert_job: new() reads the file, push reads it again.  All its
\* active jobs are rebuilt.
ChildOpen ==
    /\ child.pc = "idle" /\ Fresh \intersect ChildJob # {}
    /\ Loadable(disk)
    /\ child' = [child EXCEPT !.pc = "push", !.file = disk]
    /\ UNCHANGED <<server, disk, sentinel, up, rebuilt, crashes, used, ghosts>>

ChildPush ==
    /\ child.pc = "push"
    /\ \E j \in Fresh \intersect ChildJob :
         LET m == Merged(Load(child.file), disk)
         IN  /\ used' = used \union {j}
             /\ child' = IF Loadable(disk) /\ ~Duplicate(m, Known(m), j) /\ HasRoom(m, 1)
                         THEN [pc |-> "write", jobs |-> {j},
                               file |-> Serialize(Moved(m, {j}, "pending"))]
                         ELSE [pc |-> "idle", jobs |-> {}, file |-> NoFile]
    /\ UNCHANGED <<server, disk, sentinel, up, rebuilt, crashes, ghosts>>

ChildWrite ==
    /\ child.pc = "write"
    /\ disk' = child.file
    /\ sent' = sent \union child.jobs
    /\ child' = [pc |-> "idle", jobs |-> {}, file |-> NoFile]
    /\ UNCHANGED <<server, sentinel, up, rebuilt, crashes, used>>
    /\ UNCHANGED <<cooling, accepted, cleared, overflowed, backedUp>>

\* The process ends; the file and the sentinels remain.
Crash ==
    /\ up /\ crashes < MaxCrashes
    /\ up' = FALSE /\ crashes' = crashes + 1
    /\ mem' = Empty /\ held' = {} /\ executing' = {} /\ rebuilt' = {}
    /\ thread' = [t \in Thread |-> Idle]
    /\ UNCHANGED <<disk, sentinel, child, used, ghosts>>

\* A server does not start over a file it cannot load.  Which jobs of the history
\* were rebuilt before they got there (`past') is left open.
Boot ==
    /\ ~up /\ Loadable(disk)
    /\ up' = TRUE
    /\ mem' = Load(disk)
    /\ \E past \in SUBSET UNION {disk[s] : s \in History} :
           rebuilt' = disk.waiting \union disk.running \union past
    /\ UNCHANGED <<thread, executing, held>>
    /\ UNCHANGED <<disk, sentinel, child, crashes, used, ghosts>>

----------------------------------------------------------------------------

Init ==
    /\ mem = Empty /\ disk = NoFile /\ sentinel = {}
    /\ thread = [t \in Thread |-> Idle]
    /\ child = [pc |-> "idle", jobs |-> {}, file |-> NoFile]
    /\ executing = {} /\ held = {} /\ up = TRUE /\ crashes = 0 /\ used = {}
    /\ rebuilt = {}
    /\ cooling = {} /\ accepted = {} /\ sent = {} /\ cleared = {}
    /\ overflowed = {} /\ backedUp = {}

Operation(t) ==
    \/ Push(t) \/ PushBatch(t) \/ CancelPendingInLane(t) \/ RequeueFailed(t)
    \/ Remove(t) \/ ActivateRestorable(t) \/ DeferRestorable(t) \/ Flush(t)
    \/ Pop(t) \/ Settle(t) \/ Requeue(t)

Next ==
    \/ \E t \in Web : WebRequest(t)
    \/ PopJob \/ FinishJob \/ BackoffOver
    \/ \E t \in Thread : Read(t) \/ Merge(t) \/ Operation(t) \/ Save(t) \/ Write(t)
    \/ ChildOpen \/ ChildPush \/ ChildWrite
    \/ Crash \/ Boot

Spec == Init /\ [][Next]_vars

----------------------------------------------------------------------------
(* Properties. *)

Step == {"idle", "read", "merge", "act", "save", "write"}

\* Every variable has its type.
TypeOK ==
    /\ mem \in [List -> SUBSET Job]
    /\ disk \in [Section -> SUBSET Job]
    /\ thread \in [Thread -> [pc : Step, op : Request \union Settling \union {"pop"},
                              jobs : SUBSET Job, lane : Lane,
                              file : [Section -> SUBSET Job]]]
    /\ child \in [pc : {"idle", "push", "write"}, jobs : SUBSET Job,
                  file : [Section -> SUBSET Job]]
    /\ up \in BOOLEAN /\ crashes \in 0..MaxCrashes
    /\ sentinel \subseteq Backup /\ backedUp \subseteq Backup
    /\ executing \subseteq Job /\ held \subseteq cooling /\ cooling \subseteq used
    /\ accepted \union sent \union cleared \union overflowed \subseteq used
    /\ used \subseteq Job /\ rebuilt \subseteq Job

Disjoint(m) == \A x, y \in DOMAIN m : x # y => m[x] \intersect m[y] = {}

\* A job is in one list: of memory, of the file, and of every reading and every
\* serialization some thread or child still holds.  A merge of an old reading, a
\* restart and an activation may all meet jobs that have moved on meanwhile.
OneList ==
    /\ Disjoint(mem) /\ Disjoint(disk) /\ Disjoint(child.file)
    /\ \A t \in Thread : Disjoint(thread[t].file)

\* Whatever web requests do in between, the job a worker executes stays in the
\* running list until that worker settles it: it is not popped twice, and its
\* settlement finds it (web/worker.rs handles Ok(false), "lost the running slot").
RunningOwned ==
    /\ executing \subseteq mem.running
    /\ LET w == thread[Worker]
       IN  w.op \in Settling /\ w.pc \in {"merge", "act"} =>
               w.jobs \subseteq mem.running /\ w.jobs \intersect executing = {}

\* A job that a push returned is in some list of the running server, unless it
\* was removed, or a retry met a full queue.
PushedKept == up => accepted \subseteq Known(mem) \union cleared \union overflowed

\* A job that comes back from the file as what it was pushed as.  (A backup of
\* bookmarks comes back without its target, and a forced download as a plain one.)
Faithful == {j \in Job : FiledAs[j] = TargetOf[j]}

\* Of jobs that the file keeps faithfully, two active ones that the server accepted
\* never do the same thing: push looks in every active list, through merges and
\* restores.  Jobs of a child are left out, and jobs that a merge brings back
\* after they were removed or met a full queue: the merge compares ids, not
\* targets.  (requeue_failed compares nothing: an operator's retry may wait
\* beside a newer push.)
OneActivePerTarget ==
    \A j, k \in (Active(mem) \intersect Faithful)
                    \ (cleared \union overflowed \union ChildJob) :
        TargetOf[j] = TargetOf[k] => j = k

\* A job parked for retry is not executed before its backoff is over, unless it
\* was removed meanwhile.
BackoffKept == executing \intersect cooling \subseteq cleared

\* A backup whose completion was recorded is not executed again, not even when
\* a restart restores it, unless it was removed: a merge that brings a job back
\* does not look for its sentinel.  A second crash may come between the removal
\* of a sentinel and the save that makes it superfluous.
BackupOnce == crashes < 2 => executing \intersect backedUp \subseteq cleared

\* A job that a child process enqueued is known to the server, or in the file
\* where the server will find it.
SentKept == up => sent \subseteq Known(mem) \union disk.waiting \union cleared
                                \union overflowed

=============================================================================
