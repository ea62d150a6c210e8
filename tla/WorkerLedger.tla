--------------------------- MODULE WorkerLedger ---------------------------
(***************************************************************************)
(* The durable job ledger of the Cloudflare Worker: the D1 table           *)
(* worker_jobs (worker_entry/src/ledger.rs, with the SQL of                *)
(* src/application/jobs.rs), the queue consumers that claim, execute and   *)
(* settle rows (consumer.rs), the dispatcher (composition.rs), the cron    *)
(* reaper (scheduler.rs) and the operator's queue actions                  *)
(* (webui/queue_actions.rs).                                               *)
(*                                                                         *)
(* One SQL statement is one step; everything between two statements of one *)
(* invocation may be interleaved with every other invocation.              *)
(*                                                                         *)
(* Time.  The statements compare lease_until and updated_at with `now'.    *)
(* A row keeps  due = COALESCE(lease_until, updated_at) - now,  clamped at *)
(* -Grace, which is all the statements distinguish:                        *)
(*     lease_until IS NULL OR lease_until <= now       <=>  due <= 0       *)
(*     COALESCE(lease_until, updated_at) <= now - Grace <=> due <= -Grace  *)
(***************************************************************************)
EXTENDS Integers, FiniteSets

CONSTANTS
    Job,         \* job ids; `<' is the order of (created_at, job_id)
    Inv,         \* slots in which the platform runs consumer invocations
    NULL,
    KindOf,      \* the plan a job id stands for: its kind, ...
    TargetOf,    \* ... its normalized target, ...
    SiteOf,      \* ... the canonical site of that target, ...
    NovelOf,     \* ... the novel its target is an alias of, or NULL, ...
    KeyOf,       \* ... and its dedupe key
    Outcomes,    \* the terminal statuses an execution may report
    Lease,       \* JOB_LEASE
    Grace,       \* STUCK_GRACE
    Hold,        \* the retry backoff
    Wall,        \* the longest a claimed invocation may still run
    MaxRetries,  \* min(queue.max-retries, CF_CONSUMER_MAX_RETRIES)
    MaxAttempts, \* bound: failures recorded on one row
    Cursor,      \* bound: section boundaries an execution saves as checkpoints
    MaxYields,   \* bound: continuations one row may need
    MaxFaults    \* bound: crashed invocations and lost envelopes

Kind        == {"download", "update", "author_check", "convert"}
Acquisition == {"download", "update", "author_check"}
Fetching    == {"download", "update"}
Queued      == {"pending", "retryable"}
Active      == Queued \union {"running"}
Terminal    == {"succeeded", "partial", "blocked", "permanent"}

ASSUME JobAssumption   == Job \subseteq Nat /\ IsFiniteSet(Job) /\ NULL \notin Job
ASSUME InvAssumption   == NULL \notin Inv
ASSUME PlanAssumption  ==
    /\ KindOf \in [Job -> Kind]
    /\ DOMAIN TargetOf = Job /\ DOMAIN SiteOf = Job
    /\ DOMAIN NovelOf = Job /\ DOMAIN KeyOf = Job
    /\ \A j \in Job : TargetOf[j] # NULL /\ SiteOf[j] # NULL
    /\ \A j, k \in Job : KeyOf[j] = KeyOf[k] =>
           KindOf[j] = KindOf[k] /\ TargetOf[j] = TargetOf[k]
\* An execution whose site could not be resolved can only fail.
ASSUME OutcomeAssumption == /\ Outcomes \subseteq Terminal
                            /\ Outcomes \intersect {"blocked", "permanent"} # {}
\* "The bounded execution guard is shorter than the lease" (ledger.rs).
ASSUME TimeAssumption  == /\ Lease \in Nat /\ Grace \in Nat /\ Hold \in Nat
                          /\ Wall \in 1..Lease
ASSUME BoundAssumption == /\ MaxRetries \in Nat /\ MaxAttempts \in Nat /\ MaxYields \in Nat
                          /\ MaxFaults \in Nat /\ Cursor \subseteq Nat

VARIABLES
    rows,    \* worker_jobs
    queue,   \* ids with at least one undelivered envelope in the Cloudflare Queue
    inv,     \* the locals of each consumer invocation
    writes,  \* checkpoint writes an invocation spawned, not yet at the database
    faults   \* faults injected so far

vars == <<rows, queue, inv, writes, faults>>

Targets == {TargetOf[j] : j \in Job}
Sites   == {SiteOf[j] : j \in Job}

ASSUME NullAssumption == NULL \notin [job : Job, site : Sites \union {NULL}]

\* reason stands for the part of last_error the code compares:
\* USER_CANCEL_REASON, a removal by the operator, or anything else.
Row == [status   : Active \union Terminal \union {"absent"},
        due      : Int,
        token    : Inv \union {NULL},       \* execution_token
        site     : Sites \union {NULL},     \* site_key
        target   : Targets \union {NULL},   \* normalized_target
        waiting  : BOOLEAN,                 \* admission_waiting
        attempts : Nat,
        ckpt     : Nat,                     \* checkpoint_json: the resume cursor
        yields   : Nat,                     \* continuations so far, for the bound
        reason   : {"none", "cancelled", "removed"}]

\* pc: "claim" has read the row, "busy" lost the claim, "exec" holds it,
\* "exhausted" and "redispatch" are between two statements of one outcome.
Invocation == [pc     : {"idle", "claim", "busy", "exec", "exhausted", "redispatch"},
               job    : Job \union {NULL},
               site   : Sites \union {NULL},
               stale  : BOOLEAN,            \* the row read before the claim was running
               wall   : Int]                \* time left before the platform stops it

AbsentRow == [status |-> "absent", due |-> 0, token |-> NULL, site |-> NULL,
              target |-> NULL, waiting |-> FALSE, attempts |-> 0, ckpt |-> 0,
              yields |-> 0, reason |-> "none"]

\* A checkpoint write carries the token of the execution that spawned it.
Write == [token : Inv, job : Job, cursor : Cursor]

FreshRow == [AbsentRow EXCEPT !.status = "pending"]

Idle == [pc |-> "idle", job |-> NULL, site |-> NULL, stale |-> FALSE, wall |-> 0]

Init == /\ rows = [j \in Job |-> AbsentRow]
        /\ queue = {}
        /\ inv = [i \in Inv |-> Idle]
        /\ writes = {}
        /\ faults = 0

-----------------------------------------------------------------------------
(* The statements, by what they assign to the row they match.  Here and    *)
(* below, a definition whose comment begins with MUTANT is a faulty        *)
(* variant of the one that follows: no specification uses it, the checks   *)
(* put it in the place of the real one to see the properties fail.         *)

\* MUTANT: the token and the job id are bound in the wrong order.
StartedSwapped(r, j, i, s) ==
    [r EXCEPT !.status = "running", !.due = Lease, !.token = j, !.site = s,
              !.target = TargetOf[j], !.waiting = FALSE]

\* MUTANT: the claim forgets admission_waiting = 0.
StartedWaiting(r, j, i, s) ==
    [r EXCEPT !.status = "running", !.due = Lease, !.token = i, !.site = s,
              !.target = TargetOf[j]]

\* claim_fresh and claim_reclaim of j by slot i.
Started(r, j, i, s) ==
    [r EXCEPT !.status = "running", !.due = Lease, !.token = i, !.site = s,
              !.target = TargetOf[j], !.waiting = FALSE]

\* park_admission.
Parked(r, j, s) ==
    [r EXCEPT !.status = "pending", !.due = 0, !.token = NULL, !.site = s,
              !.target = TargetOf[j], !.waiting = TRUE]

\* yield_execution, at the section boundary c.
Yielded(r, c) ==
    [r EXCEPT !.status = "pending", !.due = 0, !.token = NULL, !.waiting = FALSE,
              !.ckpt = c, !.yields = @ + 1]

\* record_attempt: the token stays, the hold becomes the lease.
Failed(r, hold) ==
    [r EXCEPT !.status = "retryable", !.due = hold, !.attempts = @ + 1]

\* A settlement drops lease, token and checkpoint.
Closed(r, st, why) ==
    [r EXCEPT !.status = st, !.due = 0, !.token = NULL, !.ckpt = 0, !.yields = 0,
              !.reason = why]

\* cancel_running_job: token and lease stay until the work drains.
Cancelled(r) ==
    [r EXCEPT !.status = "permanent", !.ckpt = 0, !.reason = "cancelled"]

\* finish_cancelled.
Drained(r) == [r EXCEPT !.due = 0, !.token = NULL]

\* mark_waiting_dispatched; a waiting row has no lease.
Woken(r) == [r EXCEPT !.waiting = FALSE, !.due = 0]

\* mark_reenqueue.
Requeued(r) ==
    [r EXCEPT !.status = IF @ = "running" THEN "pending" ELSE @,
              !.due = 0, !.token = NULL]

-----------------------------------------------------------------------------
(* The admission rules.                                                    *)

IsActive(j) == rows[j].status \in Active

\* MUTANT: a cancelled row owns nothing.
OwnerRunning(j) == rows[j].status = "running"

\* MUTANT: a cancelled row owns until its work reports back, however long.
OwnerUndrained(j) == \/ rows[j].status = "running"
                     \/ rows[j].status = "permanent" /\ rows[j].token # NULL

\* OWNER: a running row, whatever its lease, and a cancelled one that drains.
Owner(j) == \/ rows[j].status = "running"
            \/ rows[j].status = "permanent" /\ rows[j].token # NULL /\ rows[j].due > 0

SameWork(j, k) == \/ TargetOf[j] = TargetOf[k]
                  \/ NovelOf[j] # NULL /\ NovelOf[j] = NovelOf[k]

\* MUTANT: only the novel is compared.
BlockedByNovel(j, s) ==
    \E o \in Job \ {j} : Owner(o) /\ (rows[o].target = NULL \/ SameWork(o, j))

\* conflict_clause: some other owner forbids j to start against site s.
Blocked(j, s) ==
    \E o \in Job \ {j} :
        /\ Owner(o)
        /\ \/ rows[o].target = NULL
           \/ SameWork(o, j)
           \/ /\ s # NULL
              /\ KindOf[o] \in Acquisition
              /\ rows[o].site = NULL \/ rows[o].site = s

\* MUTANT: the settlement is guarded by the token alone.
HoldsToken(i) == rows[inv[i].job].token = i

\* The guard of mark_terminal: i's claim of its job still stands.
Holds(i) == LET r == rows[inv[i].job] IN
    r.token = i /\ r.status \in {"running", "retryable"}

Resolved(i) == KindOf[inv[i].job] \in Acquisition => inv[i].site # NULL

Become(i, pc) == inv' = [inv EXCEPT ![i].pc = pc]
Leave(i)      == inv' = [inv EXCEPT ![i] = Idle]

-----------------------------------------------------------------------------
(* Dispatch.                                                               *)

\* Rows are inserted in the order of their ids.
Fresh(k) == \A l \in Job : rows[l].status # "absent" => l < k

\* MUTANT: a row in its backoff is not seen.
ActiveNotRetrying(key) ==
    {k \in Job : KeyOf[k] = key /\ rows[k].status \in {"pending", "running"}}

\* select_active_by_dedupe_keys.
ActiveWithKey(key) == {k \in Job : KeyOf[k] = key /\ IsActive(k)}

\* The first active row wins the dedupe key; it is sent unless it runs.
Resent(key) == {k \in ActiveWithKey(key) : /\ \A l \in ActiveWithKey(key) : k <= l
                                            /\ rows[k].status \in Queued}

\* dispatch_plans for one plan: an active row of the same key is re-sent
\* unless it runs; otherwise the fresh id j is inserted and sent.
Dispatch(j) ==
    LET hit == ActiveWithKey(KeyOf[j]) IN
    \/ /\ hit # {}
       /\ queue' = queue \union Resent(KeyOf[j])
       /\ UNCHANGED rows
    \/ /\ hit = {} /\ Fresh(j)
       /\ rows' = [rows EXCEPT ![j] = FreshRow]
       /\ queue' = queue \union {j}

\* A request of the API or of the auto-update planner.
EnqueueBatch(j) == Dispatch(j) /\ UNCHANGED <<inv, writes, faults>>

\* The frozen target of a download or an update, settled instead of sent.
SettleSkipped(j) ==
    /\ KindOf[j] \in Fetching
    /\ rows[j].status \in Queued
    /\ rows' = [rows EXCEPT ![j] = Closed(@, "partial", "none")]
    /\ UNCHANGED <<queue, inv, writes, faults>>

-----------------------------------------------------------------------------
(* The consumer.                                                           *)

\* An envelope reaches an idle slot, which reads the row and resolves the
\* site.  Another copy may stay behind: delivery is at least once.
Deliver(i, j) ==
    /\ inv[i].pc = "idle" /\ j \in queue
    /\ queue' \in {queue, queue \ {j}}
    /\ \/ ~IsActive(j) /\ UNCHANGED inv
       \/ /\ IsActive(j)
          /\ \E s \in (IF KindOf[j] \in Acquisition THEN {SiteOf[j], NULL} ELSE {NULL}) :
                inv' = [inv EXCEPT ![i] = [pc |-> "claim", job |-> j, site |-> s,
                                           stale |-> rows[j].status = "running",
                                           wall |-> 0]]
    /\ UNCHANGED <<rows, writes, faults>>

\* MUTANT: a redelivery reclaims a running row without looking at its lease.
ClaimableUnexpired(i) ==
    LET r == rows[inv[i].job] IN
    /\ r.status \in (IF inv[i].stale THEN {"running"} ELSE Queued)
    /\ inv[i].stale \/ r.due <= 0
    /\ ~Blocked(inv[i].job, inv[i].site)

\* MUTANT: a fresh claim ignores the backoff hold.
ClaimableHeld(i) ==
    LET r == rows[inv[i].job] IN
    /\ r.status \in (IF inv[i].stale THEN {"running"} ELSE Queued)
    /\ ~inv[i].stale \/ r.due <= 0
    /\ ~Blocked(inv[i].job, inv[i].site)

\* The guards of claim_fresh and claim_reclaim.
Claimable(i) ==
    LET r == rows[inv[i].job] IN
    /\ r.status \in (IF inv[i].stale THEN {"running"} ELSE Queued)
    /\ r.due <= 0
    /\ ~Blocked(inv[i].job, inv[i].site)

\* Each claim draws a new execution token.  Here it is the slot, so that what
\* an earlier claim of j by i still has in flight is under a token nobody holds.
WithoutClaimsOf(i, j) == {w \in writes : w.token # i \/ w.job # j}

\* claim_fresh / claim_reclaim succeed.
Claim(i) ==
    /\ inv[i].pc = "claim" /\ Claimable(i)
    /\ rows' = [rows EXCEPT ![inv[i].job] = Started(@, inv[i].job, i, inv[i].site)]
    /\ inv' = [inv EXCEPT ![i].pc = "exec", ![i].wall = Wall]
    /\ writes' = WithoutClaimsOf(i, inv[i].job)
    /\ UNCHANGED <<queue, faults>>

ClaimBusy(i) ==
    /\ inv[i].pc = "claim" /\ ~Claimable(i)
    /\ Become(i, "busy")
    /\ UNCHANGED <<rows, queue, writes, faults>>

\* MUTANT: contention parks a row that a live execution still holds.
ParkableLeased(j) == IsActive(j) /\ ~rows[j].waiting

\* The guard of park_admission: no lease protects the row.
Parkable(j) == IsActive(j) /\ ~rows[j].waiting /\ rows[j].due <= 0

\* park_for_admission and the ack.
ParkAdmission(i) ==
    /\ inv[i].pc = "busy"
    /\ LET j == inv[i].job IN
       rows' = IF Parkable(j) THEN [rows EXCEPT ![j] = Parked(@, j, inv[i].site)] ELSE rows
    /\ Leave(i)
    /\ UNCHANGED <<queue, writes, faults>>

\* mark_terminal with the outcome of the execution, and the ack.
MarkTerminal(i, st) ==
    /\ inv[i].pc = "exec" /\ Holds(i)
    /\ st \in {"succeeded", "partial"} => Resolved(i)
    /\ rows' = [rows EXCEPT ![inv[i].job] = Closed(@, st, "none")]
    /\ Leave(i)
    /\ UNCHANGED <<queue, writes, faults>>

\* A section boundary, or the latest one before a retryable error: the cursor
\* is sent to the ledger.  It may lie behind one that is saved already, after a
\* corrupt checkpoint made the execution start over.
SaveCheckpoint(i, c) ==
    /\ inv[i].pc = "exec" /\ Resolved(i) /\ KindOf[inv[i].job] \in Fetching
    /\ writes' = writes \union {[token |-> i, job |-> inv[i].job, cursor |-> c]}
    /\ UNCHANGED <<rows, queue, inv, faults>>

\* MUTANT: the checkpoint of a job is refreshed whoever runs it.
SavedByAnyone(w) ==
    IF rows[w.job].status = "running" THEN [rows EXCEPT ![w.job].ckpt = w.cursor] ELSE rows

\* The statement of save_checkpoint.
Saved(w) ==
    IF rows[w.job].status = "running" /\ rows[w.job].token = w.token
    THEN [rows EXCEPT ![w.job].ckpt = w.cursor] ELSE rows

\* A spawned write reaches the database in its own time, before or after those
\* spawned before it, and also when the invocation is over or dead; or it fails,
\* which nobody minds.
LandCheckpoint(w) ==
    /\ writes' = writes \ {w}
    /\ rows' \in {rows, Saved(w)}
    /\ UNCHANGED <<queue, inv, faults>>

\* The time budget is spent: publish the checkpoint and retire the token.
YieldForContinuation(i) ==
    /\ inv[i].pc = "exec" /\ Resolved(i)
    /\ LET j == inv[i].job IN
       /\ rows[j].status = "running" /\ rows[j].token = i
       /\ KindOf[j] \in Fetching /\ rows[j].yields < MaxYields
       /\ \E c \in Cursor : rows' = [rows EXCEPT ![j] = Yielded(@, c)]
    /\ Become(i, "redispatch")
    /\ UNCHANGED <<queue, writes, faults>>

\* enqueue_plan with the plan of the yielded job, and the ack.  When no fresh
\* id with this plan is left (the bound on Job) only the ack is taken.
EnqueuePlan(i) ==
    /\ inv[i].pc = "redispatch"
    /\ LET plan == {k \in Job : KeyOf[k] = KeyOf[inv[i].job]} IN
       IF ActiveWithKey(KeyOf[inv[i].job]) # {} \/ \E k \in plan : Fresh(k)
       THEN \E k \in plan : Dispatch(k)
       ELSE UNCHANGED <<rows, queue>>
    /\ Leave(i)
    /\ UNCHANGED <<writes, faults>>

\* settle_retryable with attempts left: record_attempt keeps the token, the
\* backoff becomes the lease, and the envelope is retried.
RecordAttempt(i) ==
    /\ inv[i].pc = "exec"
    /\ LET j == inv[i].job IN
       /\ rows[j].status = "running" /\ rows[j].token = i
       /\ rows[j].attempts < MaxRetries
       /\ rows' = [rows EXCEPT ![j] = Failed(@, Hold)]
       /\ queue' = queue \union {j}
    /\ Leave(i)
    /\ UNCHANGED <<writes, faults>>

\* settle_retryable with none left: record_attempt clears the hold ...
RecordLastAttempt(i) ==
    /\ inv[i].pc = "exec"
    /\ LET j == inv[i].job IN
       /\ rows[j].status = "running" /\ rows[j].token = i
       /\ rows[j].attempts \in MaxRetries..(MaxAttempts - 1)
       /\ rows' = [rows EXCEPT ![j] = Failed(@, 0)]
    /\ Become(i, "exhausted")
    /\ UNCHANGED <<queue, writes, faults>>

\* ... and mark_terminal closes the row, and the ack.
ExhaustRetries(i) ==
    /\ inv[i].pc = "exhausted" /\ Holds(i)
    /\ rows' = [rows EXCEPT ![inv[i].job] = Closed(@, "permanent", "none")]
    /\ Leave(i)
    /\ UNCHANGED <<queue, writes, faults>>

\* An outcome write is refused.  settle_user_cancel releases the row if the
\* operator cancelled it under this token and acks; otherwise the error goes to
\* the queue runtime, which redelivers.
SettleUserCancel(i) ==
    /\ inv[i].pc \in {"exec", "exhausted"} /\ ~Holds(i)
    /\ LET j == inv[i].job IN
       IF rows[j].status = "permanent" /\ rows[j].reason = "cancelled" /\ rows[j].token = i
       THEN /\ rows' = [rows EXCEPT ![j] = Drained(@)]
            /\ UNCHANGED queue
       ELSE queue' = queue \union {j} /\ UNCHANGED rows
    /\ Leave(i)
    /\ UNCHANGED <<writes, faults>>

-----------------------------------------------------------------------------
(* Recovery: completion and cron.                                          *)

\* select_waiting: the oldest waiting row of each site that nothing blocks.
Eligible(j) == /\ rows[j].waiting /\ rows[j].status \in Queued /\ rows[j].due <= 0
               /\ ~Blocked(j, rows[j].site)

FirstOfSite(j) ==
    rows[j].site # NULL =>
        \A k \in Job : Eligible(k) /\ rows[k].site = rows[j].site => j <= k

WakeWaiting(j) ==
    /\ Eligible(j) /\ FirstOfSite(j)
    /\ rows' = [rows EXCEPT ![j] = Woken(@)]
    /\ queue' = queue \union {j}
    /\ UNCHANGED <<inv, writes, faults>>

\* MUTANT: the reaper leaves running rows to redelivery.
StuckQueued(j) == rows[j].status \in Queued /\ ~rows[j].waiting /\ rows[j].due <= -Grace

\* select_stuck, and the guard of the two statements that follow it.
Stuck(j) == IsActive(j) /\ ~rows[j].waiting /\ rows[j].due <= -Grace

\* reap_one: finalize_stuck if the attempts are spent, else mark_reenqueue
\* and send.
ReapOne(j) ==
    /\ Stuck(j)
    /\ IF rows[j].status = "retryable" /\ rows[j].attempts >= MaxRetries
       THEN /\ rows' = [rows EXCEPT ![j] = Closed(@, "permanent", "none")]
            /\ UNCHANGED queue
       ELSE /\ rows' = [rows EXCEPT ![j] = Requeued(@)]
            /\ queue' = queue \union {j}
    /\ UNCHANGED <<inv, writes, faults>>

-----------------------------------------------------------------------------
(* The operator.                                                           *)

\* cancel_pending_job and cancel_all_pending: tombstone the queued rows of js.
CancelPending(js) ==
    /\ \E j \in js : rows[j].status \in Queued
    /\ rows' = [j \in Job |-> IF j \in js /\ rows[j].status \in Queued
                              THEN [Closed(rows[j], "permanent", "removed")
                                        EXCEPT !.waiting = FALSE]
                              ELSE rows[j]]
    /\ UNCHANGED <<queue, inv, writes, faults>>

\* cancel and cancel_running_task.
CancelRunning(j) ==
    /\ rows[j].status = "running"
    /\ rows' = [rows EXCEPT ![j] = Cancelled(@)]
    /\ UNCHANGED <<queue, inv, writes, faults>>

\* restore_pending_tasks: re-send the rows whose lease ran out.
RestorePendingTasks ==
    LET stale == {j \in Job : rows[j].status = "running" /\ rows[j].due <= 0} IN
    /\ stale # {}
    /\ queue' = queue \union stale
    /\ UNCHANGED <<rows, inv, writes, faults>>

-----------------------------------------------------------------------------
(* The platform.                                                           *)

Fault == faults < MaxFaults /\ faults' = faults + 1

\* An invocation dies or a statement fails: its envelope was not acked, and is
\* redelivered unless the delivery budget is spent (dead-lettered).
Crash(i) ==
    /\ inv[i].pc # "idle" /\ Fault
    /\ queue' \in {queue, queue \union {inv[i].job}}
    /\ Leave(i)
    /\ UNCHANGED <<rows, writes>>

\* A failed send, or a dead-lettered envelope.
LoseEnvelope(j) ==
    /\ j \in queue /\ Fault
    /\ queue' = queue \ {j}
    /\ UNCHANGED <<rows, inv, writes>>

Ages(j) == rows[j].token # NULL \/ (IsActive(j) /\ ~rows[j].waiting)

\* Time passes; the platform has stopped an invocation that reached its limit.
Tick ==
    /\ \A i \in Inv : inv[i].pc = "exec" => inv[i].wall > 1
    /\ rows' = [j \in Job |-> IF Ages(j) /\ rows[j].due > -Grace
                              THEN [rows[j] EXCEPT !.due = @ - 1] ELSE rows[j]]
    /\ inv' = [i \in Inv |-> IF inv[i].pc = "exec"
                             THEN [inv[i] EXCEPT !.wall = @ - 1] ELSE inv[i]]
    /\ UNCHANGED <<queue, writes, faults>>

-----------------------------------------------------------------------------
Consume(i) == \/ Claim(i) \/ ClaimBusy(i) \/ ParkAdmission(i)
              \/ \E st \in Outcomes : MarkTerminal(i, st)
              \/ YieldForContinuation(i) \/ EnqueuePlan(i)
              \/ RecordAttempt(i) \/ RecordLastAttempt(i) \/ ExhaustRetries(i)
              \/ SettleUserCancel(i)

Cron == \E j \in Job : WakeWaiting(j) \/ ReapOne(j)

Operator == \/ \E j \in Job : CancelPending({j}) \/ CancelRunning(j)
            \/ CancelPending(Job)
            \/ RestorePendingTasks

Next == \/ \E j \in Job : EnqueueBatch(j) \/ SettleSkipped(j)
        \/ \E i \in Inv, j \in Job : Deliver(i, j)
        \/ \E i \in Inv : Consume(i)
        \/ Cron
        \/ Operator
        \/ \E i \in Inv, c \in Cursor : SaveCheckpoint(i, c)
        \/ \E w \in writes : LandCheckpoint(w)
        \/ \E i \in Inv : Crash(i)
        \/ \E j \in Job : LoseEnvelope(j)
        \/ Tick

Spec == Init /\ [][Next]_vars

(***************************************************************************)
(* Fairness.  Time passes; the queue delivers what it holds (Deliver is    *)
(* strong: the slots serve other envelopes in between); an invocation runs *)
(* to its outcome or to the limit; the cron runs every minute.  Requests,  *)
(* operator actions and faults are owed nothing.                           *)
(***************************************************************************)
Fairness == /\ SF_vars(Tick)
            /\ \A j \in Job : SF_vars(\E i \in Inv : Deliver(i, j))
            /\ \A i \in Inv : WF_vars(Consume(i))
            /\ \A j \in Job : WF_vars(WakeWaiting(j)) /\ WF_vars(ReapOne(j))

FairSpec == Spec /\ Fairness

-----------------------------------------------------------------------------
(* Properties.                                                             *)

\* The table, the queue and the invocations stay within their types.
TypeOK == /\ rows \in [Job -> Row]
          /\ queue \in SUBSET Job
          /\ inv \in [Inv -> Invocation]
          /\ writes \in SUBSET Write
          /\ faults \in 0..MaxFaults

Executing(i) == inv[i].pc = "exec"

\* Two jobs that must not run together: same novel, or same site.
SameSite(j, k) == /\ KindOf[j] \in Acquisition /\ KindOf[k] \in Acquisition
                  /\ rows[j].site # NULL /\ rows[j].site = rows[k].site
Conflict(j, k) == SameWork(j, k) \/ SameSite(j, k)

\* No two invocations execute at once for one job, for one novel under two
\* spellings, or against one site, whatever was redelivered, re-sent by the
\* reaper, cancelled or left behind by a crash.
LiveExclusion ==
    \A i, k \in Inv : i # k /\ Executing(i) /\ Executing(k) =>
        inv[i].job # inv[k].job /\ ~Conflict(inv[i].job, inv[k].job)

\* The ledger itself never holds two conflicting owners, a draining
\* cancellation included.
OwnerExclusion ==
    \A j, k \in Job : j # k /\ Owner(j) /\ Owner(k) => ~Conflict(j, k)

\* The row of an executing invocation carries its token and a lease that
\* outlasts it, and is running or cancelled: nobody else can claim, park or
\* reap the row while the work goes on.
LiveClaim ==
    \A i \in Inv : Executing(i) =>
        LET r == rows[inv[i].job] IN
        /\ r.token = i /\ r.site = inv[i].site
        /\ inv[i].wall >= 1 /\ r.due >= inv[i].wall
        /\ \/ r.status = "running"
           \/ r.status = "permanent" /\ r.reason = "cancelled"

\* A row parked for admission is pending and unleased, so the wake-up query
\* sees it: the reaper skips waiting rows, and a row neither query selects
\* would show as queued for ever.
ParkedIsVisible ==
    \A j \in Job : rows[j].waiting /\ IsActive(j) =>
        rows[j].status = "pending" /\ rows[j].due <= 0

\* The ledger holds at most one active row per dedupe key.
OneActivePerKey ==
    \A j, k \in Job : IsActive(j) /\ IsActive(k) /\ KeyOf[j] = KeyOf[k] => j = k

\* The first settlement of a row wins: a late outcome, the reaper or a frozen
\* skip never overwrites a terminal status.
FirstSettlementWins ==
    [][\A j \in Job : rows[j].status \in Terminal =>
           rows'[j].status = rows[j].status /\ rows'[j].reason = rows[j].reason]_vars

\* A retry in its backoff is not started by an early redelivery, nor turned
\* into admission waiting, which would drop the hold.
BackoffHeld ==
    [][\A j \in Job : rows[j].status = "retryable" /\ rows[j].due > 0 =>
           \/ rows'[j].status \in Terminal
           \/ rows'[j].status = "retryable" /\ rows'[j].due >= rows[j].due - 1]_vars

\* The checkpoint of an open row is moved only while the row runs, and only by
\* the execution whose token it carries: by its continuation, or by a write it
\* spawned.  No execution before it, dead or superseded, has a write left that
\* reaches the row, and parking, wake-ups, retries and the reaper keep the cursor.
ProgressKept ==
    [][\A j \in Job :
           IsActive(j) /\ rows'[j].status \in Active /\ rows'[j].ckpt # rows[j].ckpt =>
               /\ rows[j].status = "running"
               /\ \/ \E i \in Inv : /\ Executing(i) /\ inv[i].job = j /\ rows[j].token = i
                                    /\ inv'[i].pc = "redispatch"
                  \/ \E w \in writes \ writes' : w.job = j /\ w.token = rows[j].token]_vars

\* Every job that was accepted settles, although envelopes are lost,
\* invocations die and other jobs hold its site.
EveryJobSettles == \A j \in Job : IsActive(j) ~> rows[j].status \in Terminal

\* Whoever owns a site or a novel gives it up, cancelled work included.
OwnersLeave == \A j \in Job : Owner(j) ~> ~Owner(j)

-----------------------------------------------------------------------------
(* What the ledger promises, without rows, leases and envelopes.           *)

Life    == [j \in Job |-> CASE rows[j].status = "absent" -> "absent"
                            [] IsActive(j)              -> "open"
                            [] OTHER                    -> "closed"]

Working == [i \in Inv |-> IF Executing(i)
                          THEN [job |-> inv[i].job, site |-> inv[i].site]
                          ELSE NULL]

Abs == INSTANCE JobExclusion WITH
    Worker <- Inv,
    Site   <- Sites,
    Clash  <- {p \in Job \X Job : SameWork(p[1], p[2])},
    life   <- Life,
    work   <- Working

\* Rows, tokens, leases, redelivery and the reaper implement exclusive work on
\* jobs that open once and close once.
ImplementsExclusion == Abs!Spec
=============================================================================
