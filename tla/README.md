# Formal model of narou.rs

narou.rs downloads, updates and converts web novels. It runs natively (a CLI and
a local web server) and as a Cloudflare Worker. Most of its code transforms text;
what is hard to get right is the machinery around it: who works on which novel and
site, what is queued, what survives a crash. That is what this project models.

Contents: [inventory](#inventory), [modules](#modules), [the job ledger](#the-job-ledger),
[a download](#a-download), [the auto-update planner](#the-auto-update-planner),
[ids of novels](#ids-of-novels), [the native queue](#the-native-queue),
[the queue workers](#the-queue-workers), [request pacing](#request-pacing), [runs](#runs),
[disagreements](#disagreements-between-code-and-comments), [proofs](#proofs), [limits](#limits).

## Inventory

### Cloudflare Worker (`src/worker_entry`, with `src/src/application`)

| Component | State | Operations | Hard behaviour |
|---|---|---|---|
| Job ledger (`ledger.rs`, `application/jobs.rs`) | table `worker_jobs`: status, lease, execution token, site, target, admission flag, attempts, checkpoint | enqueue, claim, park, yield, record attempt, settle, cancel, wake, reap | every operation is one SQL statement; invocations interleave between any two |
| Queue consumer (`consumer.rs`, `executor.rs`) | locals of an invocation: row read, token, site | one envelope: read, claim, execute, settle, ack | at-least-once delivery, cancelled work that cannot be stopped, time limit of the platform |
| Dispatcher (`composition.rs`) | none | dedupe, insert, send; wake waiting jobs | sends fail after the row was written |
| Cron (`scheduler.rs`) | planner checkpoint in `app_state`: generation, cursor, lease, token | reap stuck rows; plan one page of the library | overlapping probes, leases, an order that changes under an offset cursor |
| Operator actions (`webui/queue_actions.rs`) | none | clear, cancel, remove, restore | race with executions |
| Site rate limiter (`site_rate_limiter.rs`, `rate_limiter.rs`, `platform/rate_limiter.rs`) | a Durable Object per site: permit state in memory and storage, a copy of the settings | acquire, wait and ask again, report the end of a request | eviction between two calls, failed writes, settings that change, clients that die |
| Push hub, D1 object store, migrations, transfer | own rows or Durable Objects | broadcast, compare-and-swap, copy | conditional writes, partial copies |

### Native (`src/src`)

| Component | State | Operations | Hard behaviour |
|---|---|---|---|
| Persistent queue (`queue.rs`) | lists in memory, the same in a file or SQLite, sentinel files | push, pop, complete, fail, requeue, cancel, remove, restore, defer | saves outside the lock, other processes on the same file, restarts, capacity |
| Queue workers (`web/worker.rs`) | running jobs, child processes | pop for a lane, run, settle, retry | site families, two downloads at once, cancellation |
| Novel locks (`compat.rs`) | `lock.yaml` | lock, refresh, release, list | shared by processes, stale entries |
| Downloader (`downloader/mod.rs`, `downloader/persistence.rs`; also on the Worker) | listing, section bodies, history, record, resume index | one run: list, decide, fetch, save, publish | a crash or error between any two writes, a site that changes meanwhile |
| Id allocation (`id_allocator.rs`, `novel_query.rs`; also on the Worker) | high-water mark, released ids, reservations | reserve, commit, release | lost answers, late or repeated releases, removed novels |
| Object stores, store migration, transfer, illustration store, updater | files or tables | conditional put, staged import, renames | crashes between two steps |

Text conversion, page parsing, EPUB writing, the CLI, the web UI's rendering and
the relay's request forwarding are data transformation or I/O; `PROJECT.json`
lists each of them with the reason it is left out.

### How the components interact

A request of the UI or the planner reaches the dispatcher, which writes ledger rows
and sends one envelope (only the job id) per row. The platform delivers envelopes to
consumer invocations, at least once and in any order. An invocation claims its row,
executes, and settles the row before it acks. The cron wakes parked rows and re-sends
rows that make no progress. The operator's actions write rows directly. Nothing but
the table is shared.

### What makes them correct

* Ledger and consumers: no two invocations work on one job, novel or site; a
  settlement is final; a row that waits is seen by some query; progress is not lost;
  every accepted job settles; owners leave.
* Planner: each generation enqueues every eligible novel; two probes never both own it.
* Downloads: the listing never names a body that is not stored; a cursor never passes a
  section whose body was never stored; a retry continues where the last run stopped, if that
  was saved.
* Ids: one holder at a time; one work for ever, or, over YAML, while its record stands.
* Pacing: the interval holds for the site whoever asks, the pause among clients of the same
  wait-steps; a denied client reserves nothing and learns of new settings.
* Persistent queue: a job is in exactly one list; an accepted job is not lost by a save,
  a merge, a full queue or a restart; a removed job does not return.
* Workers: two jobs that each belong to one site do not run for the same site together; a
  killed job ends cancelled; each job ends in one history.

## Modules

| Module | Models | Checked by | Proved in |
|---|---|---|---|
| `WorkerLedger` | ledger, consumer, dispatcher, reaper, operator actions | `site`, `retry`, `live` | `WorkerLedgerProofs` |
| `JobExclusion` | what the ledger promises: the abstract specification | `retry` (refinement) | `JobExclusionProofs`, `WorkerLedgerProofs` |
| `NovelDownload` | the writes of a download on both runtimes, and the cursor of its job | `download`, `download_resume` | `NovelDownloadProofs` |
| `UpdatePlanner` | cron probes over the planner's checkpoint | `planner` | `UpdatePlannerProofs` |
| `NovelIds` | the pool of novel ids | `ids` | `NovelIdsProofs` |
| `PersistentQueue` | the native queue, memory and file | `queue`, `queue_restore`, `queue_sent` | `PersistentQueueProofs` |
| `QueueWorkers` | worker tasks, children, novel locks, cancel requests | `workers` | `QueueWorkersProofs` |
| `RequestPacing` | the permit engine under both hosts | `pacing` | `RequestPacingProofs` |

Each pair of modules meets at an interface that both state: an execution of `WorkerLedger`
is a choice among outcomes, and `NovelDownload` is one such execution with the row's cursor,
claimed again when it dies; a worker of `PersistentQueue` pops, executes and settles, and
`QueueWorkers` says which job it may pop and what happens until it settles.

Every safety property a passing run checks is proved. Next, in this order: the blocked-plan
path and `record_rejected` in the ledger; the conditional object store with its retry loop;
the store migration's resumable copy; the staged import of a transfer; the updater's renames;
an abstract specification of a queue for `PersistentQueue` to implement.

Every module declares its parameters as CONSTANTS with named assumptions, has one
action per operation, and uses no RECURSIVE operator, so that it can be proved about.

## The job ledger

`WorkerLedger.tla` models `worker_jobs` and everything that writes it. One SQL statement
is one step, because D1 runs statements atomically and an invocation awaits between them.

| Model | Code |
|---|---|
| `rows[j]` | the row of job `j`; the fields the statements test or assign |
| `queue` | ids with at least one undelivered envelope |
| `writes` | checkpoint writes an execution spawned, on their way under its token |
| `inv[i]` | the locals of one consumer invocation: which statement it is at, the job, the site it resolved, whether the row it read was running |
| `Started`, `Parked`, ... `Requeued` | what each UPDATE assigns |
| `Owner`, `Blocked` | `OWNER` and `conflict_clause` of `application/jobs.rs` |
| `EnqueueBatch`, `SettleSkipped` | `dispatch_plans` for one plan; the frozen target |
| `Deliver`, `Claim`, `ClaimBusy`, `ParkAdmission` | `process_discrete` up to the execution |
| `MarkTerminal`, `YieldForContinuation`, `EnqueuePlan`, `RecordAttempt`, `RecordLastAttempt`, `ExhaustRetries`, `SettleUserCancel` | its outcomes, `settle_retryable`, `settle_user_cancel` |
| `SaveCheckpoint`, `LandCheckpoint`, `Saved` | the writes `CheckpointSink::save` spawns, and `save_checkpoint` |
| `WakeWaiting`, `ReapOne` | `wake_waiting_jobs`, `reap_one` |
| `CancelPending`, `CancelRunning`, `RestorePendingTasks` | `queue_actions.rs` |
| `Crash`, `LoseEnvelope`, `Tick` | the platform |

Abstractions:

* **Time.** The statements only compare `lease_until` or `updated_at` with now. `due` is
  the difference, clamped below at `-Grace`; `Tick` lowers it. `Wall` is the longest an
  invocation may still run after its claim: the platform stops a consumer after fifteen
  minutes, the length of the lease, hence the assumption `Wall <= Lease`.
* **Tokens.** The execution token is the slot's name. A slot uses its token only after
  its own claim and forgets it when the invocation ends; checkpoint writes it left behind are
  dropped when it claims the same row again, since the new token is another.
* **Checkpoints.** A cursor is any section boundary of `Cursor`: writes land in any order, or
  fail, and a run that starts over after a corrupt checkpoint saves a lower one. What a cursor
  must mean for the stored sections is `NovelDownload`'s.
* **Envelopes.** Delivery may leave a copy behind. A send that happens later than the
  statement before it is a send at once with a later delivery, so the two are one step;
  a send that fails is the step followed by `LoseEnvelope`. A D1 error in an invocation
  is `Crash`.
* **Reads before a write.** The row read by `get` and by `claim` is read once, at
  `Deliver`. The reaper and the wake-up select rows and then update each under a guard
  of its own; the two are one step, because a row that moved in between no longer
  matches, or receives an envelope that finds it busy.
* **Ids.** `<` on job ids is the order of `created_at, job_id`. Rows are inserted in that
  order, with gaps. The plan of an id is fixed; the alias table (`NovelOf`) is static.
* **The dedupe race.** Lookup and `INSERT OR IGNORE` are one step: the partial unique
  index over active rows decides the race, and the loser reads the winner.
* **Executions** are a choice among outcomes; `Outcomes` names the terminal statuses a
  run explores, since the four are written by the same statement.

Bounds: `MaxFaults` crashes and lost envelopes, `MaxYields` continuations of a row,
`MaxAttempts` recorded failures, one cursor beside the start in `retry` and none in the other
runs, whose properties read no checkpoint. Job ids are consumed: a settled row is not reopened.

## A download

`NovelDownload.tla` models `download_novel_with_execution_options`: one novel, its runs one
after another, and between any two of their steps an author who updates, renames, adds or
removes sections. A body is the date of the text it holds.

| Model | Code |
|---|---|
| `site` | the listing the site would give now |
| `toc`, `record` | `toc.yaml` and the library record |
| `store` | section files by index and name (`persistence.rs`): the date of the text each holds |
| `adopted` | history: bodies a run took by the cursor alone, which `UpdatesKept` leaves to `TocCurrent` |
| `resume` | `.download_resume`: the index of completed sections, Worker only |
| `row` | of the job's row: its status, its checkpoint's cursor, and whether it starts over |
| `exec` | the locals of the running invocation or process |
| `writes` | periodic checkpoints under way |
| `Open`, `Digest`, `Restored`, `Resumable` | listing read, plan of sections from stored listing, index and cursor |
| `Boundary`, `Sent`, `AtBoundary` | `section_boundary`: the budget and the periodic checkpoint, sent without waiting |
| `Land`, `Lose`, `Drained` | that write reaching the row, or not; `drain_checkpoint_writes` |
| `KeepSection`, `FetchSection`, `CacheSection`, `SaveSection`, `SaveResume` | the loop over sections |
| `SaveToc`, `DeleteSuperseded`, `UpsertRecord`, `ClearResume`, `Settle` | publication |
| `YieldExecution`, `Fail`, `SectionGone`, `SaveRetryProgress`, `RecordAttempt`, `RestartCorrupt` | the ends of a run and the recovery of a corrupt checkpoint |

A run that died is claimed again; its lease and the race for the row are `WorkerLedger`'s, so
a superseded run can write no more than the checkpoints it had already sent. The save of a
retry's progress may fail after it took effect or before; the attempt is recorded all the same
(`executor.rs:407`), and the retry starts from the cursor that save left. Not modelled:
logins, the content of illustrations, partial listings and the sections they preserve, strong
updates, cancellation inside a run, raw pages, the native setting that switches the history
off, and a superseded run that continues beside its successor.

Bounds: two names of sections, at most three sections, checkpoints at every section, one edit
of the site, two jobs, two interrupts (error, yield or crash). Three sections give a cursor
room to lie before, at and behind the changed one; two interrupts let a retry be interrupted.

**Fairness.** A pending job is claimed, a run takes its next step, and a write that was sent
is answered; crashes and edits are bounded, not fair.

## The auto-update planner

`UpdatePlanner.tla` models `plan_auto_update` and the checkpoint in D1. Probes are concurrent
cron invocations; each await is a step.

| Model | Code |
|---|---|
| `checkpoint`, `lease` | the row in `app_state`: generation, state, cursor, key, last run, token; what is left of its lease |
| `probe[p]` | the locals of one cron invocation: the checkpoint it loaded and how long ago |
| `Begin`, `Due`, `Reclaimed`, `NewGeneration`, `Take` | `decide_with_modes`, `begin_with_lease` |
| `PersistReclaim`, `PersistClaim`, `ReclaimMatches`, `ClaimMatches`, `OpenRun` | `persist_claim`, `claim_running_probe`, `claim_new_generation` |
| `Scan`, `FirstIds`, `IdPage`, `SortedPage`, `NextCursor` | `scan_page` under both orders |
| `Send`, `SendFails`, `Note`, `Authors` | dispatch of the page, `apply_page_dispatch`, author checks |
| `Save`, `Advanced`, `Finished`, `Owned` | `save_owned` |
| `Edit` and its disjuncts | the library and the sort setting as the operator and updates change them |

The schedule is reduced to slots that pass; a page's dispatch is done or failed as a whole.
`persist_claim` compares generation, state and lease, neither cursor nor token. `drift`
records that the order moved while a page was taken by offset: `Covered` leaves those
generations out, because a page of a configured sort may then skip a novel.

Bounds: two novels in pages of one (a generation has a first and a last page), two probes, a
lease of one tick, two slots, two faults, one edit. **Fairness:** time passes, which includes
the cron, and a probe takes its next step.

## Ids of novels

`NovelIds.tla` models reservation, commit and release of ids over the SQL pool (the same
statements in SQLite and D1) and over `IdAllocator` in memory. Statement batches are steps.
Any call may take effect and report an error (`Fault`); a release may arrive late or twice. A
record read before a removal may be written back after it (`ReadRecord`, `WriteRecord`).

The two pools differ when a process ends. The SQL pool is a table: a download that dies leaves
its row reserved (`Fail`). The allocator of a YAML library dies with the process that owns it,
its downloads and its requests; the next one counts on from the largest id of a record
(`Restart`, `BehindRecords`; `database.rs:144`, `:268`), so that an id above it may name
another work then.

| Model | Code |
|---|---|
| `Released`, `FreshId`, `Reserve`, `Allocate` | `ALLOCATE_STEP_SQL`, `IdAllocator::allocate` |
| `Publish`, `Bumped`, `WithoutRow` | `upsert`, `commit`, `COMMIT_ID_RESERVATION_SQL` |
| `AskRelease`, `Release`, `Matches`, `GivenBack` | `RELEASE_ID_SQL` with its generation, `IdAllocator::release` |
| `Remove`, `ReadRecord`, `WriteRecord` | `remove`; a read-modify-write of a record |
| `Restart`, `Unbegun`, `BehindRecords` | `IdAllocator::default` and its reconciliation with the records |
| `rows`, `next`, `novels` | reservations with their generation, the high-water mark, published records |
| `keepers` | history: the works published under an id; over YAML since the process began, with the records it found |

Bounds: three works and the ids 0 to 2, so that an id can be released, taken again and
released late; two faults. Two processes over one YAML library have an allocator each; the
code names it process-local, and that case is not modelled.

## The native queue

`PersistentQueue.tla` models `queue.rs`: lists in memory behind a mutex, and a file that
every save replaces as a whole. The server's tokio runtime has several threads, so requests
and workers run in parallel, and no operation holds the mutex from its first step to its
last. An operation is the sequence of its steps:

| Step | Code |
|---|---|
| `WebRequest`, `PopJob`, `FinishJob`: `Start` | the call; operations that merge read the file (`read_payload`) |
| `Read` | the reading of a pop that found nothing runnable |
| `Merge` | `merge_external_pending_jobs` under the mutex: waiting jobs of that reading that no list of memory has join `pending` |
| `Push`, `PushBatch`, `CancelPendingInLane`, `RequeueFailed`, `Remove`, `ActivateRestorable`, `DeferRestorable`, `Flush`, `Pop`, `Settle`, `Requeue` | the locked region, with its early returns |
| `Save` | `queue_state_to_legacy_file` under the mutex |
| `Write` | `atomic_write`, or the row in SQLite, and the return |

| Model | Code |
|---|---|
| `mem` | `PersistentQueueState`: `pending`, `deferred`, `running`, `resumed` (`deferred_running`) and four histories |
| `disk` | the sections of the file; memory's two waiting and two running lists are one section each |
| `sentinel` | the files `backup-bookmark-<id>.done` |
| `thread[t]` | the step a thread is at, its operation, job and reading or serialization |
| `child` | `enqueue_web_convert_job` in a child process: `new`, `push` and its write, over its own memory |
| `executing` | jobs between a worker's pop and its settlement |
| `FiledAs`, `rebuilt`, `WorkOf` | what a job does once its kind and target were built anew from the `cmd` and `args` of the file; the active jobs memory has that way |
| `held` | pending jobs whose `available_at` lies ahead; `BackoffOver` is time reaching it |
| `cooling`, `accepted`, `sent`, `cleared`, `overflowed`, `backedUp` | history variables the properties compare with; no action reads them but `BackoffOver` |

The queue workers pop and settle under `job_transition_lock`, so they are one thread that
may execute `MaxRunning` jobs. `Crash` keeps file and sentinels; `Boot` loads them.

Abstractions: lists are sets, so a pop takes any runnable job, which covers every order
and every reordering; the passing over of jobs whose novel or site is busy is a choice.
Ids are fresh. A waiting or running job is filed as a command with arguments, and a load or a
merge builds kind and target from those (`queue.rs:1112`, `:1227`): for most jobs that gives
back what was pushed, for some another one, and `FiledAs` says which. The histories keep kind
and target as they were. `requeue_failed` has no caller but the tests and is modelled all the same;
`clear`, which also drops running jobs, has none and is not. Histories are not trimmed,
the sentinel files and the save never fail, and sizes other than the number of waiting
jobs are left out.

What holds only within limits is stated so: `OneActivePerTarget` leaves out jobs of a
child and jobs that came back from the file after they were removed or met a full queue,
because the merge compares ids and not targets, and speaks only of jobs the file brings back
as they were pushed (`Faithful`); `PushedKept` leaves out retries that meet
a full queue, which `requeue` takes out of the running list before it checks the capacity.

## The queue workers

`QueueWorkers.tla` models the worker tasks of the web server, their children, the novel locks
and the requests that cancel. The lists are kept to what a worker sees; their file is
`PersistentQueue`'s.

| Model | Code |
|---|---|
| `pending`, `backoff`, `running` | waiting jobs of a lane in order, those with a backoff, `running_jobs` |
| `worker[w]` | where a worker task is in `start_queue_worker_for_lane` and `spawn_and_stream_command` |
| `child[j]`, `locks` | the child process of a job and the novel it holds; `lock.yaml` |
| `worker[w].ends`, `killed` | how the children of the job ended so far; history: whether one was killed |
| `pids`, `cancelled` | `running_child_pids` and `cancelled_job_ids` |
| `canceller[c]` | a cancel request between its awaits, with the process ids it took |
| `Pop`, `Poppable`, `SiteFamilyConflicts`, `BusyNovels` | `pop_next_job_excluding` |
| `Spawn` .. `UnregisterPid`, `Check`, `Verdict` | the run of a child and what its end says |
| `Ended`, `GoesOn`, `JobOutcome`, `Settle` | the next child or the outcome of the job, and its settlement |
| `Acquire`, `DropGuard`, `LockAges` | `NovelLockGuard`, the thirty minutes of an entry |
| `QueueCancel`, `ApiCancel`, `CancelRunningTask` and `CancelStep` | `jobs.rs`: mark, kill, wait for the group, release locks |

Popping and registering, and settling and unregistering, are each one step because both run
under `job_transition_lock`. An auto update and a diff are jobs of several children; a diff
goes on with its next id whatever became of the last (`worker.rs:840`), the others stop at the
first that did not succeed. A process id belongs to one child: a request signals the id it
took earlier, which hits nothing if that child has ended, even if the job has another one by
then; it waits for the process at most two and a half seconds, so `Gone` has no guard. That
ids are used once is an assumption: the reuse of an id by the system is not modelled. Not
modelled: the
single lane of a queue without concurrency, the text of outputs (a child ends ok, failed or
killed; the exit codes 1 to 127 of a partial success count as ok), and progress events.

What the model makes visible and the properties leave out: a job with several targets counts
for the site of one of them only, so `SiteAlone` and `GuardsApart` speak of jobs of one site
([disagreements](#disagreements-between-code-and-comments)); a download by URL takes no lock;
a mark that comes when its child has ended by itself stays, and the next child of the job, or
its next attempt, ends cancelled; a cancel request that finds a job popped and not yet
spawned does not stop it, and its id stays in the cancelled set; releasing the locks of a
killed job may release the fresh lock of its successor; an entry of a run longer than thirty
minutes is no longer trusted; a job of unknown site may wait for ever behind an endless
stream of others.

Bounds: a convert with a retry, a job of two diffs of the same novel and an auto update, a
worker per lane, one cancel request at any step. **Fairness:** tasks and requests
run on, children end, time passes over backoffs and lock entries; requests need not come.

## Request pacing

`RequestPacing.tla` models the permit engine of one site. Natively it is a table in memory
behind a mutex; on the Worker a Durable Object holds it in memory and storage, and clients
call it over fetch.

| Model | Code |
|---|---|
| `memory`, `stored` | `PacingState` in memory and in storage |
| `snapshot` | `SettingsSnapshot` and its age; past the lifetime it is as good as none |
| `fetch` | the call that holds the object's mutex, over its read of the settings |
| `client[c]` | a download between asking, waiting, sending and reporting |
| `ForSite`, `NormalizeWaitSteps`, `DelayAfterGrant`, `RebaseOnScheduleChange`, `ResetIdleCounter`, `TryAcquire`, `CompleteRequest` | the functions of these names |
| `NativeAcquire`, `NativeComplete`, `Ask`, `Wake`, `Respond` | `downloader/rate_limit.rs` and the HTTP clients |
| `Enter`, `ReadSettings`, `Loaded`, `Decide`, `WaitReply` | `SiteRateLimiter::fetch` |
| `Evict`, `ReadFails`, `PutFails`, `Die`, `ChangeSettings`, `Tick` | the platform, the operator, the clock |
| `grant`, `quiet`, `sinceChange` | history variables the properties compare with |

The interval holds between any two permits. The pause after wait-steps permits does not: the
counter of the engine is common to all clients of the site, and a pause falls only on a permit
at which it is a multiple of that client's own wait-steps. So `Spaced` counts permits that
follow one another with the same wait-steps (`Continues`), and says nothing of a row that
mixes them ([disagreements](#disagreements-between-code-and-comments)).

Instants are distances from now, cut at `Cap`, beyond any pause. The write of a decision and
its answer take no time; a failed write may have been stored. Clocks are one clock. A native
client keeps the settings it was made with; a Worker client sends its flags only. A denied
client is ready again the instant its wait ends. Not modelled: the `update-start` bucket (the
same engine without completions), saturating arithmetic at the end of 64 bits, a restart of
the native process, which loses the table and its clients together.

Bounds: two clients with different schedules (one narou with three requests, one with a site
floor), two values of the settings and one change, a lifetime of two ticks, a call of at most
one tick, an imported reservation longer than its cut, one fault. Three requests meet a pause
after two; a change and a fault may fall between any two steps of them.

## Runs

| Run | Instance | Distinct states | Shows |
|---|---|---|---|
| `site` | jobs 1, 2, two slots, lease 2, one fault | 367 thousand | types; exclusion of executions and of owners; a working invocation keeps its claim; a parked row stays visible |
| `retry` | jobs 1, 4 (one plan), lease 1, hold 2, one retry, yield and fault | 0.56 million | the first settlement wins; the backoff and one active row per key are kept; a checkpoint is moved only by its own execution or handed on; the ledger implements `JobExclusion` |
| `live` | jobs 1, 2, one slot, one retry, one fault, fairness | 129 thousand | every job settles; every owner leaves |
| `download` | see [a download](#a-download) | 591 thousand | stored state is readable and current, cursors are backed, retries continue from what was saved, jobs end |
| `planner` | see its section | 643 thousand | coverage, one generation per slot, generations end |
| `ids` | see its section | 220 thousand | one holder; one work per id, or per record and process |
| `queue` | a download, a convert of a child, capacity 2, one request beside the worker | 275 thousand | types; one list per job in memory, file and readings; executed jobs stay running; nothing accepted vanishes; the backoff is kept |
| `queue_restore` | one backup twice and one of bookmarks, a worker per lane, one request beside them, a crash | 2.8 million | one active job per target among those the file keeps, also after a restore; a recorded backup does not run again |
| `workers` | see its section | 211 thousand | sites and novels apart, killed jobs cancelled, every job leaves |
| `pacing` | see its section | 3.2 million | intervals are kept, and pauses among equal wait-steps; denials reserve nothing; new settings arrive |
| `download_resume`, `queue_sent` | small | | the two disagreements below |

Runs of the ledger use the plans of `MCWorkerLedger.tla`: an update (1) and a download (2) on
one site, and a second id (4) for the plan of 1. Two jobs and two slots are what a conflict
needs; the third party of every race is the operator, the cron or the platform, whose actions
are always enabled. Its runs use symmetry on slots and a view that drops dead fields. Lease 2
lets time pass inside an execution; lease 1 lets the reaper act on expired rows before and
after redelivery.

Runs of the queue use `MCPersistentQueue.tla`: a download in the default lane; in the secondary
lane a convert, two ids of one backup, and a backup of bookmarks, which the file does not bring
back as it was. One request beside the worker gives every pair of overlapping operations; more
of them at once are covered by the theorems. The ids are finite and a server may be idle, so
these runs do not check deadlock; nor do the runs of downloads, planner, ids and workers, whose
bounded work ends. `pacing` checks it.

**Fairness of the ledger.** Time passes (`SF` on `Tick`). The queue delivers what it holds:
strong fairness per job, since a slot may be taken by another envelope in between. An
invocation takes its next step (`WF` per slot); if it does not, the platform ends it, which is
`Crash`. The cron runs each minute: `WF` per job on the wake-up and on the reaper. Nothing is
assumed of requests, of the operator, or of faults.

Every property has a mutant in `PROJECT.json`: a faulty variant of one definition, next to
it in the module and marked MUTANT, under which the property fails.

## Disagreements between code and comments

Two have a run of their own:

* **A section is taken as current by the cursor alone** (`download_resume`). After a retry
  whose progress was saved without an index, sections before the cursor are looked up by file
  name only. One the site updated meanwhile keeps its old body under the new date of the
  published listing, and no later run fetches it again. The migration plan sends a changed
  date to the recovery of a corrupt checkpoint.
* **A child's job is overwritten** (`queue_sent`). A test expects a job that another instance
  enqueued to survive the next operation of the server. It does not if the child writes
  between the server's reading, or its last merge, and its write.

Others were met while modelling, and the properties name what they leave out:

* A YAML library hands out a removed novel's id again after a restart, if no record has a
  larger one: `repository.rs:363` says committed ids are never released. `OneWorkPerId` counts
  such a library from the start of its process.
* Some jobs come back from the file as others: a backup of bookmarks is pushed with the target
  `--backup-bookmark` and filed without arguments (`web/jobs.rs:1255`), so it returns without a
  target; a forced download loses its `--force`. `find_active_job_id` then does not find them,
  and a second one is accepted beside a restored one. `OneActivePerTarget` leaves them out.
* The pause of a site may never come: when clients with different wait-steps alternate, the
  common counter can be a multiple of each one's wait-steps only at the permits of the others
  (`rate_limiter.rs:293`), while COMMANDS.md:884 applies wait-steps to every request sent.
* Jobs of one site may run together if one of them has novels of several sites: its family is
  that of the first novel a hash set yields (`worker.rs:330`), while
  `docs/v0.5.0-architecture.md:217` says that a pop leaves out jobs of a running family and
  that the family is serialised to one.
* A retry may start from an older cursor than its run reached: when the save of its progress
  fails, the attempt is recorded all the same (`executor.rs:411`).
* A removed job comes back: between `yield_for_continuation` and `enqueue_plan` the row is
  pending; cleared then, the continuation inserts a new one (`ledger.rs:409`,
  `consumer.rs:381`).
* The attempt cap: `record_attempt` leaves the exhausted row retryable, and closing it is a
  second statement, so a crash or a copy lets it run once more (`consumer.rs:651`).
* A job cleared by `/api/queue/cancel` is merged back by a pop or push that read the file
  before the clear was written (`queue.rs:242`).
* A restart ends the backoff: waiting jobs are written in a form without `available_at`
  (`queue.rs:1164`).
* A cancelled auto update is not told apart from a failed one and waits for its retry
  (`web/scheduler.rs:216`, `web/worker.rs:163`), though COMMANDS.md:879 and :897 promise that
  clearing erases it. `KilledIsCancelled` leaves auto updates out.
* The locks of a killed child stay when its job has already left the running jobs
  (`web/jobs.rs:474`).
* A planner with a checkpoint older than the stored one may set the cursor back; the claim's
  comment rules it out (`ledger.rs:972`, `:1039`). Pages are then sent twice, not skipped.
* `scheduler.rs:3` says an interrupted generation starts from the beginning; it continues at
  its cursor.
* Two saves may reach the queue's file in the reverse order of their snapshots; a crash
  before the next save then loses a job whose push had returned. `PushedKept` is checked
  without crashes.
* The restore removes a sentinel before it saves its job as completed; two crashes run the
  backup again. `BackupOnce` speaks of one crash, and leaves removed jobs out: only the
  restore looks at sentinels.
* Restored jobs enter the waiting lists without the capacity check; the loader refuses a file
  over the capacity, so the server may not start again.

## Proofs

A theorem holds for all values of the constants that the named assumptions of its module
allow. Each rests on an inductive invariant with one lemma per action, or per kind of change.

### The ledger: `WorkerLedgerProofs`, `JobExclusionProofs`

| Theorem | Statement |
|---|---|
| `Invariant` | `Spec => []IInv` |
| `TypeCorrect` | `Spec => []TypeOK` |
| `OwnersExclude` | `Spec => []OwnerExclusion` |
| `ClaimsLive` | `Spec => []LiveClaim` |
| `NoOverlap` | `Spec => []LiveExclusion` |

`LiveExclusion` is not inductive. It holds because an executing invocation owns its row
(`LiveClaim`: token, unexpired lease, running or draining) and owners exclude one another
(`OwnerExclusion`), which in turn needs that an owner's row names its target and its site
(`OwnersKnown`, `SitesOfAcquisitions`) as `conflict_clause` compares them. `IInv` is the
conjunction of these and of the types. Its parts are kept by each action in a lemma of
its own (`ClaimKeeps`, ...), which reduces to what the statement does to one row; `Tick`
uses `Wall <= Lease`: time may not outlast a lease while an invocation works. The
assumption is the code's own ("the bounded execution guard is shorter than the lease").

Of single rows:

| Theorem | Statement |
|---|---|
| `RowInvariant` | `Spec => []RowInv` |
| `ParkedSeen` | `Spec => []ParkedIsVisible` |
| `ActiveUnique` | `Spec => []OneActivePerKey` |
| `SettlementFinal` | `Spec => FirstSettlementWins` |
| `BackoffKept` | `Spec => BackoffHeld` |
| `CheckpointKept` | `Spec => ProgressKept` |

The argument is one lemma that lists what a step may do to a row: it leaves it alone, or
inserts, starts, parks, yields, fails, closes, cancels, drains, wakes or requeues it, moves its
cursor, or lowers `due`, each under its guard. Every property follows from that list alone;
uniqueness also needs that an insertion finds no active row of its key.

`Implements` is `Spec => ImplementsExclusion`. The mapping
takes a row to its life (absent, active or settled, and whether it owns) and an invocation to
whether it works; every action maps to an action of `JobExclusion` or to a stutter. It assumes
that the null value is not a record of a job and a site (`NullAssumption`).
`JobExclusionProofs.tla` proves `AbstractExclusion`: if clashes are symmetric, the abstract
specification alone keeps two workers from one job, one novel and one site (`Exclusion`).

### The native queue: `PersistentQueueProofs`

| Theorem | Statement |
|---|---|
| `StoreInvariant` | `Spec => []StoreInv` |
| `TypeCorrect` | `Spec => []TypeOK` |
| `JobInOneList` | `Spec => []OneList` |
| `RunningStays` | `Spec => []RunningOwned` |
| `PushStays` | `Spec => [](crashes = 0 => PushedKept)` |
| `BackoffHolds` | `Spec => [](crashes = 0 => BackoffKept)` |
| `TargetsDiffer` | without `requeue_failed`: `Spec => [](ChildJob = {} \/ crashes = 0 => OneActivePerTarget)` |
| `BackupsRunOnce` | without `requeue_failed`, `push_batch` and children: `Spec => []BackupOnce` |

Disjoint lists are not inductive: a push would break them if its new id were already in
some list, and a merge if a reading it holds were not disjoint itself. `StoreInv` says that
lists, file and readings hold only ids that are born, generated and not those of a push that
has not appended them yet (`Born`), and that the pushes under way have different ids.
`RunningStays` needs one more fact, `OwnInv`: the running list holds the executing jobs and
those the worker has popped or is about to settle (`Claimed`), and the two are disjoint. No
request moves a running job, because what it takes comes from another list.

* `PushedKept`: ids in memory, or removed, or dropped by a full queue, only grow (`Kept`), and
  what a push has put there and not yet returned is among them (`PushInv`).
* `BackoffKept`: a job whose backoff is not over is held and pending, or cancelled, or removed
  (`BackoffInv`); a merge adds no such job, since it brings back only what memory lacks.
* `OneActivePerTarget`: the file, and every reading of it under way, holds only jobs that
  memory keeps, or exempt ones (`FileKept`), so a merge adds no second job of a target; the
  files to be loaded after a crash have one job per target themselves (`TargetInv`).
* `BackupOnce`: before the crash a recorded backup is completed and has its sentinel; after it
  a restored one has its sentinel and is not waiting (`BackupInv`, `Settled`).

The hypotheses hold in the runs that check these properties, and each leaves out a behaviour
of the code against them: a crash may load the older of two serializations, and the file has
no `available_at`; a child writes a file that may hold a job that has ended, beside its
successor; `requeue_failed` compares no targets; `push_batch` removes the sentinel of a
restored job. `TargetsDiffer` speaks of the jobs of `Faithful`: for those it is the same to
compare what memory says they do and what they were pushed as.

### Ids: `NovelIdsProofs`

| Theorem | Statement |
|---|---|
| `IdsInvariant` | `Spec => []IdsInv` |
| `TypeCorrect` | `Spec => []TypeOK` |
| `HeldOnce` | `Spec => []OneHolder` |
| `NamesOneWork` | `Spec => []OneWorkPerId` |

`NamesOneWork` is about one process of a YAML library at a time: `Restart` begins the history
anew with the records that stand. Neither property is inductive. `IdsInv` adds that a holder
has its id's row under its own generation (`Held`), that a release on its way belongs to a
reservation that is over: its row is gone or of no earlier generation, and any holder of the id
has a later one (`Over`), and that an id with a keeper is below the high-water mark and out of
the pool (`KeepersOK`). The recycled id is the least of the released ones; the proof takes it
from the well-foundedness of `<`.

### The planner: `UpdatePlannerProofs`

| Theorem | Statement |
|---|---|
| `SlotsInvariant` | `Spec => []SlotsInv` |
| `OpenedOnce` | `Spec => []OncePerSlot` |
| `PlannerInvariant` | `Spec => []PlannerInv` |
| `TypeCorrect` | `Spec => []TypeOK` |
| `NoneLeftOut` | `Spec => []Covered` |

A probe decides on a checkpoint it loaded earlier; `SlotsInv` says of the row and of every
loaded copy that there are no more generations than scheduled times and that a finished one
was finished after its time (`Timely`), and of a probe that decided to open a generation that
a scheduled time beyond its base has passed (`Decided`). The claim compares the generation
with that base, so it opens at most one more.

`Covered` speaks of the end of a generation. `Progress` says it of every moment: the eligible
novels that the row's cursor has left behind are sent (`Passed`), and so they are for the
cursor of each planner of that generation, with those of its page once it is dispatched
(`Planned`), the superseded planners included, since one of them may still save. By id, a
cursor is an id, and changes of the library add nothing behind it that is eligible; by
position, the rows before an offset stay there unless `drift` is recorded. `Fits` ties a
planner's generation and token to the row's.

### The workers: `QueueWorkersProofs`

| Theorem | Statement |
|---|---|
| `WorkersInvariant` | `Spec => []WorkersInv` |
| `TypeCorrect` | `Spec => []TypeOK` |
| `SitesExclude` | `Spec => []SiteAlone` |
| `GuardsExclude` | `Spec => []GuardsApart` |
| `KilledEndsCancelled` | `Spec => KilledIsCancelled` |

`SiteAlone` is kept by a pop because the families of a one-site job are the same whatever
novel they are asked for, so a conflict with any running job is seen. That the job is not
running already needs the lists to be injective and apart from the running jobs, and the
worker of a running job to be unique. `GuardsApart` follows: a child lives only while its
worker runs its job, children hold novels of their job's site, and sites are apart; auto
updates, which hold many novels, have the unknown site, which runs alone. Both say nothing of
a job of several sites, which may hold a novel together with another job.

For `KilledIsCancelled` a mark must outlast the wait between mark, signal and check, while
others settle, retry and mark the same job, and the job goes on with other children. A marked
job stays condemned (`Condemned`): it keeps its mark, or its worker has counted a child as
cancelled (`Leaving`), or it has ended so and never runs again (`CancelledLeave`). Whom a
request signals was marked just before (`SignalMarked`), so a killed child has a job that is
marked or has a cancelled child already (`KillMarked`); its worker finds the mark at the check,
or had found one before (`ReapMarked`), and one cancelled child decides the job
(`EndsDecide`).

### Downloads: `NovelDownloadProofs`

| Theorem | Statement |
|---|---|
| `NovelInvariant` | `Spec => []NovelInv` |
| `TypeCorrect` | `Spec => []TypeOK` |
| `CursorIsBacked` | `Spec => []CursorBacked` |
| `TocIsReadable` | `Spec => []TocReadable` |
| `UpdatesAreKept` | `Spec => []UpdatesKept` |
| `ProgressIsKept` | `Spec => RetryKeepsProgress` |

The cursor of the row is written by checkpoints that land in any order, so `Backed` asks of
every cursor around (the row's, the last boundary, each write under way) that all sections up
to it have a body, and of the run that the sections it has behind it or will not fetch
(`Settled`) have one under the name of the new listing. Publication then only deletes bodies
that neither listing names. `UpdatesKept` needs the dates: no listing is ahead of the site, a
run's listing is no older than the stored one and the index (`Dates`), and a settled section is
as new as its listing unless it was adopted (`Kept`). Natively there is one body per section
and no cursor (`Native`). `RetryKeepsProgress` follows from `Places`: after an acknowledged
save the row's cursor is the run's last boundary, and after any save no periodic write is left
to replace it, because they were drained before. The theorems assume that some name exists.

### Pacing: `RequestPacingProofs`

| Theorem | Statement |
|---|---|
| `PacingInvariant` | `Spec => []PacingInv` |
| `DenialHarmless` | `Spec => []DenialReservesNothing` |
| `SettingsArrive` | `Spec => []SettingsReach` |
| `PermitsSpaced` | `Spec => Spaced` |

The limiter knows its past only through what survives: memory until an eviction, storage
unless a write failed. `LimiterInv` asks of each that its next permit follows from its last
one (`Derived`), and that no permit or completion is younger than it knows and its counter is
as far in its group as the row of permits with the same wait-steps (`Knows`). The counter may
be further: the permits of other clients move it too. `SnapshotInv` relates the age of the
copied settings, of a read under way and of a client's wait to the time since the change.

### What the proofs found

* `Spaced` once counted a row on through a permit that was stored but never answered and had
  other wait-steps; two faults break that, one more than the run has. The history now ends the
  row there (`Unanswered`), as it does at an answered one.
* `OneActivePerTarget` did not leave out a retry dropped by a full queue, which a merge may
  bring back beside a newer job of its target.

Only model-checked: liveness (`EveryJobSettles`, `OwnersLeave`, `JobEnds`, `GenerationEnds`,
`JobsLeave`), which the proof system does not cover under fairness, and the two disagreements.

## Limits

Not modelled in the ledger: `record_rejected`, the blocked-plan path, the redirect between the
download and the convert queue, page limits of the cron (50 rows, 8 wake-ups), and alias
changes while a job runs. A job whose every execution dies before an outcome is recorded never
spends an attempt and is sent again without end; the liveness run bounds faults.

Not modelled at all, with the reason in `PROJECT.json`: text and page processing, EPUB,
database codecs, the UI and command line (data transformation); push hub, relay, login, and
deployment (I/O without state the program reads back); object stores, store migrations,
transfer, illustration store and updater (left for later, see [modules](#modules)). They are
the larger part of the repository by lines.
