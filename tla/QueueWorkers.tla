---------------------------- MODULE QueueWorkers ----------------------------
(***************************************************************************)
(* The worker tasks of the native web server (src/web/worker.rs), the      *)
(* child process each of them runs, the novel locks the children write to  *)
(* lock.yaml (src/compat.rs) and the requests that cancel running jobs     *)
(* (src/web/jobs.rs).                                                      *)
(*                                                                         *)
(* PersistentQueue models the lists and their file; here they are kept to  *)
(* what the workers see: the waiting jobs of a lane, and who runs.  A      *)
(* worker takes and settles jobs under job_transition_lock, so popping and *)
(* registering are one step, as are settling and unregistering; everything *)
(* between (spawn, pid table, wait, the check of the cancelled ids) is a   *)
(* step of its own, interleaved with the children and the cancellers.      *)
(*                                                                         *)
(* A definition marked MUTANT is a plausible mistake in the one that       *)
(* follows it; the specification does not use it.                          *)
(***************************************************************************)
EXTENDS Naturals, Sequences, FiniteSets, SequencesExt

CONSTANTS
    Job,            \* ids of queued jobs
    Worker,         \* worker tasks with a lane of their own
    Canceller,      \* requests that cancel, one execution each at a time
    Novel,          \* numeric ids of novels
    NULL,           \* no job, no novel
    LaneOf(_),      \* the lane of a job or of a worker
    TargetsOf(_),   \* the novel ids in the target of a job
    UrlSite(_),     \* the site family of a target that is a URL, or NULL
    SiteOf(_),      \* the site family of a novel
    AutoUpdates,    \* jobs of type AutoUpdate
    Diffs,          \* jobs with the command diff: a child for each id
    PhasesOf(_),    \* how many children a job runs, one after the other
    MaxRetries(_),  \* max_retries of a job
    MaxCancels      \* bound: cancel requests

Lane == {"default", "secondary"}

ASSUME WorkersAssumption ==
    /\ MaxCancels \in Nat
    /\ AutoUpdates \subseteq Job /\ Diffs \subseteq Job \ AutoUpdates
    /\ \A j \in Job : TargetsOf(j) \subseteq Novel /\ PhasesOf(j) \in Nat \ {0}
    /\ \A j \in Job : MaxRetries(j) \in Nat
    /\ \A x \in Job \cup Worker : LaneOf(x) \in Lane
    /\ IsFiniteSet(Novel) /\ NULL \notin Novel
    \* a URL is no id, and an auto update has an empty target
    /\ \A j \in Job : UrlSite(j) # NULL => TargetsOf(j) = {} /\ j \notin AutoUpdates
    /\ \A j \in AutoUpdates : TargetsOf(j) = {}

VARIABLES
    pending,    \* the waiting jobs of each lane, in order
    backoff,    \* waiting jobs whose available_at has not come
    running,    \* jobs in active_running and in running_jobs
    retries,    \* retry_count of a job
    outcome,    \* how a job left the queue
    worker,     \* what each worker task is doing
    child,      \* the child process of each job
    pids,       \* running_child_pids
    cancelled,  \* cancelled_job_ids
    locks,      \* novels of lock.yaml: none, fresh, or older than LOCK_MAX_AGE
    canceller,  \* what each cancel request is doing
    cancels     \* how many cancel requests came

vars == <<pending, backoff, running, retries, outcome, worker, child, pids,
          cancelled, locks, canceller, cancels>>
queueVars == <<pending, backoff, running, retries, outcome>>

UNKNOWN_SITE_FAMILY == "__all_sites__"
(* A process id stands for its job and for the attempt and phase that      *)
(* started it: no two children are alike.                                  *)
Pid == [job : Job, retry : Nat, phase : Nat]

NoChild == [status |-> "none", pid |-> NULL, todo |-> {}, holds |-> NULL]
Taken(j) == [pc |-> "spawn", job |-> j, phase |-> 1, exit |-> "none", ends |-> {},
             killed |-> FALSE]
Idle == [pc |-> "idle", job |-> NULL, phase |-> 0, exit |-> "none", ends |-> {},
         killed |-> FALSE]
Resting == [pc |-> "idle", kind |-> "all", lane |-> NULL, left |-> {},
            current |-> NULL, killed |-> {}, novels |-> {}]

Init ==
    /\ pending = [l \in Lane |-> <<>>] /\ backoff = {} /\ running = {}
    /\ retries = [j \in Job |-> 0]
    /\ outcome = [j \in Job |-> "new"]
    /\ worker = [w \in Worker |-> Idle]
    /\ child = [j \in Job |-> NoChild]
    /\ pids = {} /\ cancelled = {}
    /\ locks = [n \in Novel |-> "none"]
    /\ canceller = [c \in Canceller |-> Resting]
    /\ cancels = 0

-----------------------------------------------------------------------------
(* Taking a job.                                                           *)

(* The families job_site_family may name: extract_novel_ids returns a hash *)
(* set, and the first novel its iteration happens to give decides.         *)
Families(j) ==
    IF UrlSite(j) # NULL THEN {UrlSite(j)}
    ELSE IF TargetsOf(j) = {} THEN {UNKNOWN_SITE_FAMILY}
    ELSE {SiteOf(n) : n \in TargetsOf(j)}

Namings == {f \in [Job -> UNION {Families(j) : j \in Job}] :
                \A j \in Job : f[j] \in Families(j)}

\* MUTANT: only the running jobs of the candidate's own lane count.
SiteConflictsInLane(f, j) ==
    f[j] \in {f[r] : r \in {r \in running : LaneOf(r) = LaneOf(j)}}

\* MUTANT: a job of unknown site passes for a job of a site of its own.
SiteConflictsKnown(f, j) == f[j] \in {f[r] : r \in running}

SiteFamilyConflicts(f, j) ==
    LET busy == {f[r] : r \in running}
    IN  /\ busy # {}
        /\ \/ UNKNOWN_SITE_FAMILY \in busy
           \/ f[j] = UNKNOWN_SITE_FAMILY
           \/ f[j] \in busy

\* MUTANT: the age of an entry is not looked at.
LockedNovels == {n \in Novel : locks[n] # "none"}

(* load_active_locked_ids: what the children say they work on.             *)
BusyNovels == {n \in Novel : locks[n] = "fresh"}

Poppable(f, j) ==
    /\ j \notin backoff
    /\ TargetsOf(j) \cap BusyNovels = {}
    /\ ~SiteFamilyConflicts(f, j)

Push(j) ==
    /\ outcome[j] = "new"
    /\ pending' = [pending EXCEPT ![LaneOf(j)] = Append(@, j)]
    /\ outcome' = [outcome EXCEPT ![j] = "none"]
    /\ UNCHANGED <<backoff, running, retries, worker, child, pids, cancelled,
                   locks, canceller, cancels>>

Pop(w) ==
    /\ worker[w].pc = "idle"
    /\ \E f \in Namings :
         LET waiting == pending[LaneOf(w)]
             i == SelectInSeq(waiting, LAMBDA j : Poppable(f, j))
         IN  /\ i # 0
             /\ pending' = [pending EXCEPT ![LaneOf(w)] = RemoveAt(@, i)]
             /\ running' = running \cup {waiting[i]}
             /\ worker' = [worker EXCEPT ![w] = Taken(waiting[i])]
    /\ UNCHANGED <<backoff, retries, outcome, child, pids, cancelled, locks,
                   canceller, cancels>>

-----------------------------------------------------------------------------
(* The child: it locks the novels it works on one at a time.  An auto      *)
(* update goes over the library, a URL names no id to lock, and a diff     *)
(* takes no lock.                                                          *)

Works(j) == IF j \in AutoUpdates THEN Novel ELSE IF j \in Diffs THEN {} ELSE TargetsOf(j)

Acquire(j) ==
    /\ child[j].status = "alive" /\ child[j].holds = NULL
    /\ \E n \in child[j].todo :
         /\ child' = [child EXCEPT ![j].holds = n, ![j].todo = @ \ {n}]
         /\ locks' = [locks EXCEPT ![n] = "fresh"]
    /\ UNCHANGED <<queueVars, worker, pids, cancelled, canceller, cancels>>

DropGuard(j) ==
    /\ child[j].status = "alive" /\ child[j].holds # NULL
    /\ child' = [child EXCEPT ![j].holds = NULL]
    /\ locks' = [locks EXCEPT ![child[j].holds] = "none"]
    /\ UNCHANGED <<queueVars, worker, pids, cancelled, canceller, cancels>>

(* A child that ends by itself has dropped its guard.  The statuses 0 to   *)
(* 127 are "ok": completed, or partial.                                     *)
Exit(j, result) ==
    /\ child[j].status = "alive" /\ child[j].holds = NULL
    /\ result = "ok" => child[j].todo = {}
    /\ child' = [child EXCEPT ![j].status = result]
    /\ UNCHANGED <<queueVars, worker, pids, cancelled, locks, canceller, cancels>>

(* Half an hour passes over an entry of lock.yaml.                         *)
LockAges(n) ==
    /\ locks[n] = "fresh"
    /\ locks' = [locks EXCEPT ![n] = "stale"]
    /\ UNCHANGED <<queueVars, worker, child, pids, cancelled, canceller, cancels>>

-----------------------------------------------------------------------------
(* Running a job.                                                          *)

Goes(w, pc) == worker' = [worker EXCEPT ![w].pc = pc]

(* The outcome of a job of several children: any cancelled one decides,    *)
(* then any failed one.                                                    *)
JobOutcome(ends) ==
    CASE "cancelled" \in ends -> "cancelled"
      [] "cancelled" \notin ends /\ "failed" \in ends -> "failed"
      [] OTHER -> "completed"

(* What follows a child that ended so: a diff goes on with its next id     *)
(* whatever happened, the other jobs of several children stop.             *)
GoesOn(w, end) ==
    /\ worker[w].phase < PhasesOf(worker[w].job)
    /\ end = "completed" \/ worker[w].job \in Diffs

Following(w, end) ==
    IF GoesOn(w, end) THEN "spawn" ELSE JobOutcome(worker[w].ends \cup {end})

Ended(w, end) ==
    worker' = [worker EXCEPT ![w].pc = Following(w, end),
                             ![w].ends = @ \cup {end},
                             ![w].phase = IF GoesOn(w, end) THEN @ + 1 ELSE @]

PidOf(w) == [job |-> worker[w].job, retry |-> retries[worker[w].job],
             phase |-> worker[w].phase]

Spawn(w) ==
    LET j == worker[w].job IN
    /\ worker[w].pc = "spawn"
    /\ \/ /\ child' = [child EXCEPT ![j] =
                [status |-> "alive", pid |-> PidOf(w), todo |-> Works(j), holds |-> NULL]]
          /\ Goes(w, "register")
       \/ Ended(w, "failed") /\ UNCHANGED child
    /\ UNCHANGED <<queueVars, pids, cancelled, locks, canceller, cancels>>

Without(j) == {p \in pids : p.job # j}

RegisterPid(w) ==
    /\ worker[w].pc = "register"
    /\ pids' = Without(worker[w].job) \cup {PidOf(w)}
    /\ Goes(w, "wait")
    /\ UNCHANGED <<queueVars, child, cancelled, locks, canceller, cancels>>

Wait(w) ==
    LET j == worker[w].job IN
    /\ worker[w].pc = "wait"
    /\ child[j].status # "alive"
    /\ worker' = [worker EXCEPT ![w].pc = "reaped", ![w].exit = child[j].status,
                                ![w].killed = @ \/ child[j].status = "killed"]
    /\ child' = [child EXCEPT ![j] = NoChild]
    /\ UNCHANGED <<queueVars, pids, cancelled, locks, canceller, cancels>>

UnregisterPid(w) ==
    /\ worker[w].pc = "reaped"
    /\ pids' = Without(worker[w].job)
    /\ Goes(w, "check")
    /\ UNCHANGED <<queueVars, child, cancelled, locks, canceller, cancels>>

(* kill_running_child_for_job keeps the mutex of cancelled_job_ids while   *)
(* it kills.                                                               *)
CancelledIdsHeld ==
    \E c \in Canceller : /\ canceller[c].kind = "lane"
                         /\ canceller[c].pc \in {"kill", "signal", "gone"}

(* What a child's end says: the cancelled ids are asked first, but not for *)
(* an auto update (execute_auto_update is not given them).                 *)
Asks(j) == j \notin AutoUpdates

\* MUTANT: the exit status is looked at before the cancelled ids.
VerdictByStatus(w) ==
    CASE worker[w].exit # "ok"                                -> "failed"
      [] worker[w].exit = "ok" /\ worker[w].job \in cancelled  -> "cancelled"
      [] OTHER                                                -> "completed"

Verdict(w) ==
    LET j == worker[w].job IN
    CASE Asks(j) /\ j \in cancelled                            -> "cancelled"
      [] ~(Asks(j) /\ j \in cancelled) /\ worker[w].exit # "ok" -> "failed"
      [] OTHER                                                 -> "completed"

Check(w) ==
    LET j == worker[w].job IN
    /\ worker[w].pc = "check"
    /\ Asks(j) => ~CancelledIdsHeld
    /\ cancelled' = IF Asks(j) THEN cancelled \ {j} ELSE cancelled
    /\ Ended(w, Verdict(w))
    /\ UNCHANGED <<queueVars, child, pids, locks, canceller, cancels>>

Retries(j) == retries[j] < MaxRetries(j)

\* MUTANT: a job that is queued again stays registered.
UnregisteredOnce(j) == IF Retries(j) THEN running ELSE running \ {j}

Unregistered(j) == running \ {j}

Settle(w) ==
    LET j == worker[w].job IN
    /\ worker[w].pc \in {"completed", "cancelled", "failed"}
    /\ running' = Unregistered(j)
    /\ worker' = [worker EXCEPT ![w] = Idle]
    /\ \/ /\ worker[w].pc = "failed" /\ Retries(j)
          /\ pending' = [pending EXCEPT ![LaneOf(j)] = Append(@, j)]
          /\ backoff' = backoff \cup {j}
          /\ retries' = [retries EXCEPT ![j] = @ + 1]
          /\ UNCHANGED outcome
       \* a failure with a permanent keyword in its output is not retried
       \/ /\ outcome' = [outcome EXCEPT ![j] = worker[w].pc]
          /\ UNCHANGED <<pending, backoff, retries>>
    /\ UNCHANGED <<child, pids, cancelled, locks, canceller, cancels>>

BackoffOver(j) ==
    /\ j \in backoff
    /\ backoff' = backoff \ {j}
    /\ UNCHANGED <<pending, running, retries, outcome, worker, child, pids,
                   cancelled, locks, canceller, cancels>>

-----------------------------------------------------------------------------
(* Cancelling.                                                             *)

Waiting(L) == UNION {ToSet(pending[l]) : l \in L}

Clears(L) ==
    /\ pending' = [l \in Lane |-> IF l \in L THEN <<>> ELSE pending[l]]
    /\ backoff' = backoff \ Waiting(L)
    /\ outcome' = [j \in Job |-> IF j \in Waiting(L) THEN "cleared" ELSE outcome[j]]

Asked(c) ==
    /\ canceller[c].pc = "idle"
    /\ cancels < MaxCancels
    /\ cancels' = cancels + 1
    /\ UNCHANGED <<running, retries, worker, child, pids, cancelled, locks>>

(* queue_cancel clears the waiting jobs before it kills; api_cancel and    *)
(* prepare_process_shutdown kill only.                                     *)
QueueCancel(c) ==
    /\ Asked(c)
    /\ Clears(Lane)
    /\ canceller' = [canceller EXCEPT ![c].pc = "take"]

ApiCancel(c) ==
    /\ Asked(c)
    /\ canceller' = [canceller EXCEPT ![c].pc = "take"]
    /\ UNCHANGED <<pending, backoff, outcome>>

CancelRunningTask(c, j) ==
    /\ Asked(c)
    /\ j \in running
    /\ canceller' = [canceller EXCEPT ![c].pc = "take", ![c].kind = "lane",
                                      ![c].lane = LaneOf(j)]
    /\ UNCHANGED <<pending, backoff, outcome>>

TakePids(c) ==
    LET taken == IF canceller[c].kind = "all" THEN pids
                 ELSE {p \in pids : p.job \in running /\ LaneOf(p.job) = canceller[c].lane}
    IN  /\ canceller[c].pc = "take"
        /\ pids' = pids \ taken
        /\ canceller' = [canceller EXCEPT
              ![c].pc = IF canceller[c].kind = "all" THEN "kill" ELSE "clear",
              ![c].left = taken, ![c].killed = taken]
        /\ UNCHANGED <<queueVars, worker, child, cancelled, locks, cancels>>

CancelPendingInLane(c) ==
    /\ canceller[c].pc = "clear"
    /\ Clears({canceller[c].lane})
    /\ canceller' = [canceller EXCEPT ![c].pc = "kill"]
    /\ UNCHANGED <<running, retries, worker, child, pids, cancelled, locks, cancels>>

(* One child: its job is marked first, then the process of the id that was *)
(* taken is signalled, if it still is there, and waited for until its      *)
(* worker has reaped it or two and a half seconds have gone.               *)
Mark(c) ==
    /\ canceller[c].pc = "kill"
    /\ canceller[c].kind = "all" => ~CancelledIdsHeld
    /\ \E p \in canceller[c].left :
         /\ cancelled' = cancelled \cup {p.job}
         /\ canceller' = [canceller EXCEPT ![c].pc = "signal", ![c].current = p,
                                           ![c].left = @ \ {p}]
    /\ UNCHANGED <<queueVars, worker, child, pids, locks, cancels>>

Alive(p) == child[p.job].pid = p /\ child[p.job].status = "alive"

Signal(c) ==
    LET p == canceller[c].current IN
    /\ canceller[c].pc = "signal"
    /\ \/ Alive(p) /\ child' = [child EXCEPT ![p.job].status = "killed"]
       \/ ~Alive(p) /\ UNCHANGED child
    /\ canceller' = [canceller EXCEPT ![c].pc = "gone"]
    /\ UNCHANGED <<queueVars, worker, pids, cancelled, locks, cancels>>

Gone(c) ==
    /\ canceller[c].pc = "gone"
    /\ canceller' = [canceller EXCEPT ![c].pc = "kill"]
    /\ UNCHANGED <<queueVars, worker, child, pids, cancelled, locks, cancels>>

(* cancelled_novel_ids reads running_jobs when every child is gone.        *)
CancelledNovels(c) ==
    UNION {TargetsOf(j) : j \in running \cap {p.job : p \in canceller[c].killed}}

ReadNovels(c) ==
    /\ canceller[c].pc = "kill" /\ canceller[c].left = {}
    /\ canceller' = [canceller EXCEPT ![c].pc = "release",
                                      ![c].novels = CancelledNovels(c)]
    /\ UNCHANGED <<queueVars, worker, child, pids, cancelled, locks, cancels>>

ReleaseLocks(c) ==
    /\ canceller[c].pc = "release"
    /\ locks' = [n \in Novel |-> IF n \in canceller[c].novels THEN "none" ELSE locks[n]]
    /\ canceller' = [canceller EXCEPT ![c] = Resting]
    /\ UNCHANGED <<queueVars, worker, child, pids, cancelled, cancels>>

-----------------------------------------------------------------------------
WorkerStep(w) == \/ Spawn(w) \/ RegisterPid(w) \/ Wait(w) \/ UnregisterPid(w)
                 \/ Check(w) \/ Settle(w)
ChildStep(j) == Acquire(j) \/ DropGuard(j) \/ \E r \in {"ok", "failed"} : Exit(j, r)
CancelStep(c) == \/ TakePids(c) \/ CancelPendingInLane(c) \/ Mark(c) \/ Signal(c)
                 \/ Gone(c) \/ ReadNovels(c) \/ ReleaseLocks(c)

Next ==
    \/ \E j \in Job : Push(j) \/ ChildStep(j) \/ BackoffOver(j)
    \/ \E w \in Worker : Pop(w) \/ WorkerStep(w)
    \/ \E n \in Novel : LockAges(n)
    \/ \E c \in Canceller : \/ QueueCancel(c) \/ ApiCancel(c)
                            \/ \E j \in Job : CancelRunningTask(c, j)
                            \/ CancelStep(c)

Spec == Init /\ [][Next]_vars

(* Worker tasks and threads run on; a child is assumed to end; time passes *)
(* over backoffs and lock entries.  Requests may or may not come.          *)
Fairness ==
    /\ \A w \in Worker : WF_vars(Pop(w)) /\ WF_vars(WorkerStep(w))
    /\ \A j \in Job : WF_vars(ChildStep(j)) /\ WF_vars(BackoffOver(j))
    /\ \A n \in Novel : WF_vars(LockAges(n))
    /\ \A c \in Canceller : WF_vars(CancelStep(c))
FairSpec == Spec /\ Fairness

-----------------------------------------------------------------------------
WorkerPc == {"idle", "spawn", "register", "wait", "reaped", "check", "completed",
             "cancelled", "failed"}
CancelPc == {"idle", "take", "clear", "kill", "signal", "gone", "release"}
WorkerRecord == [pc : WorkerPc, job : Job \cup {NULL}, phase : Nat,
                 exit : {"none", "ok", "failed", "killed"},
                 ends : SUBSET {"completed", "cancelled", "failed"}, killed : BOOLEAN]
ChildRecord == [status : {"none", "alive", "ok", "failed", "killed"},
                pid : Pid \cup {NULL}, todo : SUBSET Novel, holds : Novel \cup {NULL}]

(* Every variable holds what the code can hold there.                      *)
TypeOK ==
    /\ pending \in [Lane -> Seq(Job)]
    /\ \A l \in Lane : IsInjective(pending[l]) /\ \A j \in ToSet(pending[l]) : LaneOf(j) = l
    /\ backoff \subseteq Waiting(Lane)
    /\ running \subseteq Job \ Waiting(Lane)
    /\ retries \in [Job -> Nat] /\ \A j \in Job : retries[j] <= MaxRetries(j)
    /\ outcome \in [Job -> {"new", "none", "completed", "cancelled", "failed", "cleared"}]
    /\ worker \in [Worker -> WorkerRecord]
    /\ child \in [Job -> ChildRecord]
    /\ pids \subseteq Pid /\ cancelled \subseteq Job
    /\ locks \in [Novel -> {"none", "fresh", "stale"}]
    /\ canceller \in [Canceller -> [pc : CancelPc, kind : {"all", "lane"},
                                    lane : Lane \cup {NULL}, left : SUBSET Pid,
                                    current : Pid \cup {NULL}, killed : SUBSET Pid,
                                    novels : SUBSET Novel]]
    /\ cancels \in 0..MaxCancels

(* Two jobs that each belong to one site never run for the same site, and  *)
(* a job of unknown site runs alone (site_family_conflicts).  Of a job of  *)
(* several sites only one is compared: docs/v0.5.0-architecture.md:217     *)
(* promises more than the code keeps.                                      *)
OneSite(j) == Cardinality(Families(j)) = 1
SiteAlone ==
    \A a, b \in running :
        a # b /\ OneSite(a) /\ OneSite(b) =>
            /\ Families(a) # Families(b)
            /\ UNKNOWN_SITE_FAMILY \notin Families(a)

(* No two living children of such jobs hold the same novel: the guard of   *)
(* one would remove the entry of the other from lock.yaml when it drops    *)
(* (NovelLockGuard, src/compat.rs:476).                                    *)
GuardsApart ==
    \A a, b \in Job :
        /\ a # b /\ OneSite(a) /\ OneSite(b)
        /\ child[a].status = "alive" /\ child[b].status = "alive"
        => child[a].holds = NULL \/ child[a].holds # child[b].holds

(* A job of which a cancel request killed a child ends cancelled: it is    *)
(* neither failed nor retried, whatever its later children do (jobs that   *)
(* stream their child's output).                                           *)
KilledIsCancelled ==
    [][\A w \in Worker :
          worker[w].killed /\ worker[w].job \notin AutoUpdates /\ Settle(w)
            => outcome'[worker[w].job] = "cancelled"]_vars

(* Every queued job leaves the queue for good: neither a site held by a    *)
(* finished job nor the lock of a killed child keeps it waiting.           *)
JobsLeave == \A j \in Job : (outcome[j] = "none") ~> (outcome[j] # "none")
=============================================================================
