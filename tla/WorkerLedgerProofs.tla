------------------------ MODULE WorkerLedgerProofs ------------------------
(***************************************************************************)
(* Proofs about WorkerLedger, for every set of jobs and slots, every plan  *)
(* and every value of the time constants with Wall <= Lease, in three      *)
(* parts:                                                                  *)
(*   1. the types and the exclusion of overlapping work;                   *)
(*   2. what a step may do to one row of worker_jobs, and the properties   *)
(*      that speak of rows alone;                                          *)
(*   3. the refinement: the ledger implements JobExclusion.                *)
(***************************************************************************)
EXTENDS WorkerLedger, TLAPS

-----------------------------------------------------------------------------
(* Types.  A statement assigns several fields; the proofs assign them one  *)
(* at a time.                                                              *)

\* The row that Started leaves: its type and the fields the invariant reads.
LEMMA StartedType ==
    ASSUME NEW r \in Row, NEW j \in Job, NEW i \in Inv, NEW s \in Sites \union {NULL}
    PROVE  /\ Started(r, j, i, s) \in Row
           /\ Started(r, j, i, s).status = "running"
           /\ Started(r, j, i, s).due = Lease
           /\ Started(r, j, i, s).token = i
           /\ Started(r, j, i, s).site = s
           /\ Started(r, j, i, s).target = TargetOf[j]
<1> DEFINE a == [r EXCEPT !.status = "running"]
           b == [a EXCEPT !.due = Lease]
           c == [b EXCEPT !.token = i]
           d == [c EXCEPT !.site = s]
           e == [d EXCEPT !.target = TargetOf[j]]
           f == [e EXCEPT !.waiting = FALSE]
<1> HIDE DEF a, b, c, d, e, f
<1>1. a \in Row
  BY DEF a, Row, Active, Queued, Terminal
<1>2. b \in Row
  BY <1>1, TimeAssumption DEF b, Row
<1>3. c \in Row
  BY <1>2 DEF c, Row
<1>4. d \in Row
  BY <1>3 DEF d, Row
<1>5. e \in Row
  BY <1>4 DEF e, Row, Targets
<1>6. f \in Row
  BY <1>5 DEF f, Row
<1>7. Started(r, j, i, s) \in Row
  BY <1>6 DEF Started, a, b, c, d, e, f
<1>8. /\ Started(r, j, i, s).status = "running"
      /\ Started(r, j, i, s).due = Lease
      /\ Started(r, j, i, s).token = i
      /\ Started(r, j, i, s).site = s
      /\ Started(r, j, i, s).target = TargetOf[j]
  BY DEF Row, Started
<1> QED
  BY <1>7, <1>8

\* The row that Parked leaves: its type and the fields the invariant reads.
LEMMA ParkedType ==
    ASSUME NEW r \in Row, NEW j \in Job, NEW s \in Sites \union {NULL}
    PROVE  /\ Parked(r, j, s) \in Row
           /\ Parked(r, j, s).status = "pending"
<1> DEFINE a == [r EXCEPT !.status = "pending"]
           b == [a EXCEPT !.due = 0]
           c == [b EXCEPT !.token = NULL]
           d == [c EXCEPT !.site = s]
           e == [d EXCEPT !.target = TargetOf[j]]
           f == [e EXCEPT !.waiting = TRUE]
<1> HIDE DEF a, b, c, d, e, f
<1>1. a \in Row
  BY DEF a, Row, Active, Queued, Terminal
<1>2. b \in Row
  BY <1>1 DEF b, Row
<1>3. c \in Row
  BY <1>2 DEF c, Row
<1>4. d \in Row
  BY <1>3 DEF d, Row
<1>5. e \in Row
  BY <1>4 DEF e, Row, Targets
<1>6. f \in Row
  BY <1>5 DEF f, Row
<1>7. Parked(r, j, s) \in Row
  BY <1>6 DEF Parked, a, b, c, d, e, f
<1>8. Parked(r, j, s).status = "pending"
  BY DEF Row, Parked
<1> QED
  BY <1>7, <1>8

\* The row that Yielded leaves: its type and the fields the invariant reads.
LEMMA YieldedType ==
    ASSUME NEW r \in Row, NEW m \in Cursor
    PROVE  /\ Yielded(r, m) \in Row
           /\ Yielded(r, m).status = "pending"
<1> DEFINE a == [r EXCEPT !.status = "pending"]
           b == [a EXCEPT !.due = 0]
           c == [b EXCEPT !.token = NULL]
           d == [c EXCEPT !.waiting = FALSE]
           e == [d EXCEPT !.ckpt = m]
           f == [e EXCEPT !.yields = e.yields + 1]
<1> HIDE DEF a, b, c, d, e, f
<1>1. a \in Row
  BY DEF a, Row, Active, Queued, Terminal
<1>2. b \in Row
  BY <1>1 DEF b, Row
<1>3. c \in Row
  BY <1>2 DEF c, Row
<1>4. d \in Row
  BY <1>3 DEF d, Row
<1>5. e \in Row
  BY <1>4, BoundAssumption DEF e, Row
<1>6. f \in Row
  BY <1>5 DEF f, Row
<1>7. Yielded(r, m) \in Row
  BY <1>6 DEF Yielded, a, b, c, d, e, f
<1>8. Yielded(r, m).status = "pending"
  BY DEF Row, Yielded
<1> QED
  BY <1>7, <1>8

\* The row that Failed leaves: its type and the fields the invariant reads.
LEMMA FailedType ==
    ASSUME NEW r \in Row, NEW hold \in Nat
    PROVE  /\ Failed(r, hold) \in Row
           /\ Failed(r, hold).status = "retryable"
<1> DEFINE a == [r EXCEPT !.status = "retryable"]
           b == [a EXCEPT !.due = hold]
           c == [b EXCEPT !.attempts = b.attempts + 1]
<1> HIDE DEF a, b, c
<1>1. a \in Row
  BY DEF a, Row, Active, Queued, Terminal
<1>2. b \in Row
  BY <1>1 DEF b, Row
<1>3. c \in Row
  BY <1>2 DEF c, Row
<1>4. Failed(r, hold) \in Row
  BY <1>3 DEF Failed, a, b, c
<1>5. Failed(r, hold).status = "retryable"
  BY DEF Row, Failed
<1> QED
  BY <1>4, <1>5

\* The row that Closed leaves: its type and the fields the invariant reads.
LEMMA ClosedType ==
    ASSUME NEW r \in Row, NEW st \in Terminal, NEW why \in {"none", "removed"}
    PROVE  /\ Closed(r, st, why) \in Row
           /\ Closed(r, st, why).status = st
           /\ Closed(r, st, why).token = NULL
<1> DEFINE a == [r EXCEPT !.status = st]
           b == [a EXCEPT !.due = 0]
           c == [b EXCEPT !.token = NULL]
           d == [c EXCEPT !.ckpt = 0]
           e == [d EXCEPT !.yields = 0]
           f == [e EXCEPT !.reason = why]
<1> HIDE DEF a, b, c, d, e, f
<1>1. a \in Row
  BY DEF a, Row, Active, Queued, Terminal
<1>2. b \in Row
  BY <1>1 DEF b, Row
<1>3. c \in Row
  BY <1>2 DEF c, Row
<1>4. d \in Row
  BY <1>3 DEF d, Row
<1>5. e \in Row
  BY <1>4 DEF e, Row
<1>6. f \in Row
  BY <1>5 DEF f, Row
<1>7. Closed(r, st, why) \in Row
  BY <1>6 DEF Closed, a, b, c, d, e, f
<1>8. Closed(r, st, why).status = st /\ Closed(r, st, why).token = NULL
  BY DEF Row, Closed
<1> QED
  BY <1>7, <1>8

\* The row that Cancelled leaves: its type and the fields the invariant reads.
LEMMA CancelledType ==
    ASSUME NEW r \in Row
    PROVE  /\ Cancelled(r) \in Row
           /\ Cancelled(r).status = "permanent"
           /\ Cancelled(r).reason = "cancelled"
           /\ Cancelled(r).token = r.token
           /\ Cancelled(r).due = r.due
           /\ Cancelled(r).site = r.site
           /\ Cancelled(r).target = r.target
<1> DEFINE a == [r EXCEPT !.status = "permanent"]
           b == [a EXCEPT !.ckpt = 0]
           c == [b EXCEPT !.reason = "cancelled"]
<1> HIDE DEF a, b, c
<1>1. a \in Row
  BY DEF a, Row, Active, Queued, Terminal
<1>2. b \in Row
  BY <1>1 DEF b, Row
<1>3. c \in Row
  BY <1>2 DEF c, Row
<1>4. Cancelled(r) \in Row
  BY <1>3 DEF Cancelled, a, b, c
<1>5. /\ Cancelled(r).status = "permanent"
      /\ Cancelled(r).reason = "cancelled"
      /\ Cancelled(r).token = r.token
      /\ Cancelled(r).due = r.due
      /\ Cancelled(r).site = r.site
      /\ Cancelled(r).target = r.target
  BY DEF Row, Cancelled
<1> QED
  BY <1>4, <1>5

\* The row that Drained leaves: its type and the fields the invariant reads.
LEMMA DrainedType ==
    ASSUME NEW r \in Row
    PROVE  /\ Drained(r) \in Row
           /\ Drained(r).status = r.status
           /\ Drained(r).token = NULL
<1> DEFINE a == [r EXCEPT !.due = 0]
           b == [a EXCEPT !.token = NULL]
<1> HIDE DEF a, b
<1>1. a \in Row
  BY DEF a, Row
<1>2. b \in Row
  BY <1>1 DEF b, Row
<1>3. Drained(r) \in Row
  BY <1>2 DEF Drained, a, b
<1>4. Drained(r).status = r.status /\ Drained(r).token = NULL
  BY DEF Row, Drained
<1> QED
  BY <1>3, <1>4

\* The row that Woken leaves: its type and the fields the invariant reads.
LEMMA WokenType ==
    ASSUME NEW r \in Row
    PROVE  /\ Woken(r) \in Row
           /\ Woken(r).status = r.status
<1> DEFINE a == [r EXCEPT !.waiting = FALSE]
           b == [a EXCEPT !.due = 0]
<1> HIDE DEF a, b
<1>1. a \in Row
  BY DEF a, Row
<1>2. b \in Row
  BY <1>1 DEF b, Row
<1>3. Woken(r) \in Row
  BY <1>2 DEF Woken, a, b
<1>4. Woken(r).status = r.status
  BY DEF Row, Woken
<1> QED
  BY <1>3, <1>4

\* The row that Requeued leaves: its type and the fields the invariant reads.
LEMMA RequeuedType ==
    ASSUME NEW r \in Row
    PROVE  /\ Requeued(r) \in Row
           /\ Requeued(r).status # "running"
           /\ Requeued(r).token = NULL
<1> DEFINE a == [r EXCEPT !.status = IF r.status = "running" THEN "pending" ELSE r.status]
           b == [a EXCEPT !.due = 0]
           c == [b EXCEPT !.token = NULL]
<1> HIDE DEF a, b, c
<1>1. a \in Row
  BY DEF a, Row, Active, Queued
<1>2. b \in Row
  BY <1>1 DEF b, Row
<1>3. c \in Row
  BY <1>2 DEF c, Row
<1>4. Requeued(r) \in Row
  BY <1>3 DEF Requeued, a, b, c
<1>5. Requeued(r).status # "running" /\ Requeued(r).token = NULL
  BY DEF Row, Requeued
<1> QED
  BY <1>4, <1>5

-----------------------------------------------------------------------------
(* The inductive invariant.                                                *)

\* An invocation that is not idle has a job.
Assigned == \A i \in Inv : inv[i].pc # "idle" => inv[i].job \in Job

\* Only an acquisition is resolved to a site.
SitesOfAcquisitions ==
    \A i \in Inv : inv[i].pc # "idle" /\ inv[i].site # NULL =>
                       KindOf[inv[i].job] \in Acquisition

\* Every owner went through a claim, which names its normalized target.
OwnersKnown == \A j \in Job : Owner(j) => rows[j].target # NULL

Typed == TypeOK /\ Assigned /\ SitesOfAcquisitions

Safe  == OwnersKnown /\ OwnerExclusion /\ LiveClaim

IInv  == Typed /\ Safe

\* The initial state: no row, no envelope, no invocation.
LEMMA InitIInv == Init => IInv
<1> SUFFICES ASSUME Init PROVE IInv
  OBVIOUS
<1>1. AbsentRow \in Row
  BY DEF AbsentRow, Row
<1>2. Idle \in Invocation
  BY DEF Idle, Invocation
<1>3. TypeOK
  BY <1>1, <1>2, BoundAssumption DEF Init, TypeOK
<1>4. \A j \in Job : ~Owner(j)
  BY DEF Init, Owner, AbsentRow
<1>5. \A i \in Inv : inv[i].pc = "idle"
  BY DEF Init, Idle
<1>6. Assigned /\ SitesOfAcquisitions
  BY <1>5 DEF Assigned, SitesOfAcquisitions
<1>7. OwnersKnown /\ OwnerExclusion
  BY <1>4 DEF OwnersKnown, OwnerExclusion
<1>8. LiveClaim
  BY <1>5 DEF LiveClaim, Executing
<1> QED
  BY <1>3, <1>6, <1>7, <1>8 DEF IInv, Typed, Safe

\* Stepping back to idle, moving to another step and time passing keep the
\* invocations typed.
LEMMA LocalTypes ==
    ASSUME Typed, NEW i \in Inv, inv[i].pc # "idle",
           \/ inv' = [inv EXCEPT ![i] = Idle]
           \/ \E pc \in {"busy", "exhausted", "redispatch"} : inv' = [inv EXCEPT ![i].pc = pc]
           \/ inv' = [inv EXCEPT ![i].pc = "exec", ![i].wall = Wall]
    PROVE  (inv \in [Inv -> Invocation])' /\ Assigned' /\ SitesOfAcquisitions'
<1> USE DEF Typed, TypeOK
<1>1. CASE inv' = [inv EXCEPT ![i] = Idle]
  <2>1. Idle \in Invocation /\ Idle.pc = "idle"
    BY DEF Idle, Invocation
  <2> QED
    BY <1>1, <2>1 DEF Assigned, SitesOfAcquisitions
<1>2. CASE \E pc \in {"busy", "exhausted", "redispatch"} : inv' = [inv EXCEPT ![i].pc = pc]
  <2>1. PICK pc \in {"busy", "exhausted", "redispatch"} : inv' = [inv EXCEPT ![i].pc = pc]
    BY <1>2
  <2>2. [inv[i] EXCEPT !.pc = pc] \in Invocation
    BY DEF Invocation
  <2>3. inv' \in [Inv -> Invocation]
    BY <2>1, <2>2
  <2>4. \A k \in Inv : inv'[k].job = inv[k].job /\ inv'[k].site = inv[k].site
    BY <2>1 DEF Invocation
  <2>5. \A k \in Inv : inv'[k].pc # "idle" => inv[k].pc # "idle"
    BY <2>1 DEF Invocation
  <2> QED
    BY <2>3, <2>4, <2>5 DEF Assigned, SitesOfAcquisitions
<1>3. CASE inv' = [inv EXCEPT ![i].pc = "exec", ![i].wall = Wall]
  <2> DEFINE a == [inv[i] EXCEPT !.pc = "exec"]
             b == [a EXCEPT !.wall = Wall]
  <2> HIDE DEF a, b
  <2>1. a \in Invocation
    BY DEF a, Invocation
  <2>2. b \in Invocation
    BY <2>1, TimeAssumption DEF b, Invocation
  <2>3. inv' = [inv EXCEPT ![i] = b]
    BY <1>3 DEF a, b
  <2>4. b.job = inv[i].job /\ b.site = inv[i].site
    BY DEF a, b, Invocation
  <2> QED
    BY <2>2, <2>3, <2>4 DEF Assigned, SitesOfAcquisitions
<1> QED
  BY <1>1, <1>2, <1>3

\* The invocations that go on executing after the step are untouched by it.
Untouched == \A k \in Inv : Executing(k)' => Executing(k) /\ inv'[k] = inv[k]

\* No row changes, and no invocation starts to execute.
LEMMA SameRows ==
    ASSUME Typed, Safe, Typed', rows' = rows, Untouched
    PROVE  Safe'
<1>1. \A j \in Job : Owner(j)' <=> Owner(j)
  BY DEF Owner
<1>2. OwnersKnown' /\ OwnerExclusion'
  BY <1>1 DEF Safe, OwnersKnown, OwnerExclusion, Conflict, SameSite, SameWork
<1>3. LiveClaim'
  BY DEF Safe, LiveClaim, Untouched, Executing
<1> QED
  BY <1>2, <1>3 DEF Safe

\* One row becomes a row without an owner, and the invocation that executed it,
\* if any, stops.
LEMMA Released ==
    ASSUME Typed, Safe, Typed', Untouched,
           NEW j \in Job, NEW x \in Row, rows' = [rows EXCEPT ![j] = x],
           x.status # "running", x.status = "permanent" => x.token = NULL,
           \A k \in Inv : Executing(k)' => inv[k].job # j
    PROVE  Safe'
<1> USE DEF Typed, TypeOK
<1>1. rows'[j] = x /\ \A k \in Job \ {j} : rows'[k] = rows[k]
  OBVIOUS
<1>2. ~Owner(j)'
  BY <1>1 DEF Owner
<1>3. \A k \in Job \ {j} : Owner(k)' <=> Owner(k)
  BY <1>1 DEF Owner
<1>4. OwnersKnown' /\ OwnerExclusion'
  BY <1>1, <1>2, <1>3 DEF Safe, OwnersKnown, OwnerExclusion, Conflict, SameSite, SameWork
<1>5. LiveClaim'
  <2> SUFFICES ASSUME NEW i \in Inv, Executing(i)'
               PROVE  LiveClaim!(i)'
    BY DEF LiveClaim
  <2>1. Executing(i) /\ inv'[i] = inv[i] /\ inv[i].job # j
    BY DEF Untouched
  <2>2. inv[i].job \in Job
    BY <2>1 DEF Assigned, Executing
  <2> QED
    BY <1>1, <2>1, <2>2 DEF Safe, LiveClaim
<1> QED
  BY <1>4, <1>5 DEF Safe

\* What LiveClaim says of the row an invocation executes.
LEMMA LiveRow ==
    ASSUME Typed, Safe, NEW k \in Inv, Executing(k)
    PROVE  /\ inv[k].job \in Job
           /\ rows[inv[k].job].token = k
           /\ rows[inv[k].job].due > 0
           /\ rows[inv[k].job].status \in {"running", "permanent"}
           /\ rows[inv[k].job].status = "permanent" => rows[inv[k].job].reason = "cancelled"
           /\ rows[inv[k].job].due >= inv[k].wall
           /\ rows[inv[k].job].site = inv[k].site
<1>1. inv[k].job \in Job
  BY DEF Typed, Assigned, Executing
<1>2. rows[inv[k].job] \in Row /\ inv[k] \in Invocation
  BY <1>1 DEF Typed, TypeOK
<1>3. inv[k].wall \in Int /\ rows[inv[k].job].due \in Int
  BY <1>2 DEF Row, Invocation
<1> QED
  BY <1>1, <1>3 DEF Safe, LiveClaim

-----------------------------------------------------------------------------
(* One lemma per action: it keeps the inductive invariant.                 *)

LEMMA DispatchKeeps ==
    ASSUME IInv, NEW j \in Job, Dispatch(j), Untouched,
           writes' = writes, faults' = faults,
           (inv \in [Inv -> Invocation])', Assigned', SitesOfAcquisitions'
    PROVE  IInv'
<1> USE DEF IInv, Typed, TypeOK
<1>1. CASE rows' = rows /\ queue' = queue \union Resent(KeyOf[j])
  <2>1. Typed'
    BY <1>1 DEF Resent, ActiveWithKey
  <2> QED
    BY <1>1, <2>1, SameRows
<1>2. CASE /\ ActiveWithKey(KeyOf[j]) = {} /\ Fresh(j)
           /\ rows' = [rows EXCEPT ![j] = FreshRow] /\ queue' = queue \union {j}
  <2>0. AbsentRow \in Row
    BY DEF AbsentRow, Row
  <2>1. FreshRow \in Row /\ FreshRow.status = "pending"
    BY <2>0 DEF FreshRow, Row, Active, Queued
  <2>2. Typed'
    BY <1>2, <2>1
  <2>3. rows[j].status = "absent"
    BY <1>2, JobAssumption DEF Fresh
  <2>4. \A k \in Inv : Executing(k)' => inv[k].job # j
    BY <2>3, LiveRow DEF Untouched
  <2> QED
    BY <1>2, <2>1, <2>2, <2>4, Released
<1> QED
  BY <1>1, <1>2 DEF Dispatch

LEMMA EnqueueBatchKeeps ==
    ASSUME IInv, NEW j \in Job, EnqueueBatch(j)
    PROVE  IInv'
<1>1. Untouched
  BY DEF EnqueueBatch, Untouched, Executing
<1>2. (inv \in [Inv -> Invocation])' /\ Assigned' /\ SitesOfAcquisitions'
  BY DEF EnqueueBatch, IInv, Typed, TypeOK, Assigned, SitesOfAcquisitions
<1> QED
  BY <1>1, <1>2, DispatchKeeps DEF EnqueueBatch

LEMMA SettleSkippedKeeps ==
    ASSUME IInv, NEW j \in Job, SettleSkipped(j)
    PROVE  IInv'
<1> USE DEF IInv, Typed, TypeOK
<1> DEFINE x == Closed(rows[j], "partial", "none")
<1>1. x \in Row /\ x.status = "partial"
  BY ClosedType DEF Terminal
<1> HIDE DEF x
<1>2. rows' = [rows EXCEPT ![j] = x] /\ inv' = inv /\ queue' = queue /\ writes' = writes /\ faults' = faults
  BY DEF SettleSkipped, x
<1>3. Typed'
  BY <1>1, <1>2 DEF Assigned, SitesOfAcquisitions
<1>4. Untouched
  BY <1>2 DEF Untouched, Executing
<1>5. \A k \in Inv : Executing(k)' => inv[k].job # j
  BY <1>4, LiveRow DEF Untouched, SettleSkipped, Queued
<1> QED
  BY <1>1, <1>2, <1>3, <1>4, <1>5, Released

LEMMA DeliverKeeps ==
    ASSUME IInv, NEW i \in Inv, NEW j \in Job, Deliver(i, j)
    PROVE  IInv'
<1> USE DEF IInv, Typed, TypeOK
<1>1. rows' = rows /\ writes' = writes /\ faults' = faults /\ queue' \in SUBSET Job
  BY DEF Deliver
<1>2. CASE inv' = inv
  <2>1. Typed' /\ Untouched
    BY <1>1, <1>2 DEF Assigned, SitesOfAcquisitions, Untouched, Executing
  <2> QED
    BY <1>1, <2>1, SameRows
<1>3. CASE \E s \in (IF KindOf[j] \in Acquisition THEN {SiteOf[j], NULL} ELSE {NULL}) :
              inv' = [inv EXCEPT ![i] = [pc |-> "claim", job |-> j, site |-> s,
                                         stale |-> rows[j].status = "running", wall |-> 0]]
  <2>1. PICK s \in (IF KindOf[j] \in Acquisition THEN {SiteOf[j], NULL} ELSE {NULL}) :
              inv' = [inv EXCEPT ![i] = [pc |-> "claim", job |-> j, site |-> s,
                                         stale |-> rows[j].status = "running", wall |-> 0]]
    BY <1>3
  <2>2. s \in Sites \union {NULL} /\ (s # NULL => KindOf[j] \in Acquisition)
    BY DEF Sites
  <2> DEFINE v == [pc |-> "claim", job |-> j, site |-> s,
                   stale |-> rows[j].status = "running", wall |-> 0]
  <2>3. v \in Invocation /\ v.pc = "claim" /\ v.job = j /\ v.site = s
    BY <2>2 DEF Invocation
  <2> HIDE DEF v
  <2>4. inv' = [inv EXCEPT ![i] = v]
    BY <2>1 DEF v
  <2>5. Typed'
    BY <1>1, <2>2, <2>3, <2>4 DEF Assigned, SitesOfAcquisitions
  <2>6. Untouched
    BY <2>3, <2>4 DEF Untouched, Executing
  <2> QED
    BY <1>1, <2>5, <2>6, SameRows
<1> QED
  BY <1>2, <1>3 DEF Deliver

LEMMA ClaimKeeps ==
    ASSUME IInv, NEW i \in Inv, Claim(i)
    PROVE  IInv'
<1> USE DEF IInv, Typed, TypeOK
<1>1. inv[i].pc = "claim" /\ Claimable(i)
  BY DEF Claim
<1>2a. PICK j \in Job : j = inv[i].job
  BY <1>1 DEF Assigned
<1>2. j \in Job /\ inv[i].site \in Sites \union {NULL} /\ rows[j] \in Row
  BY DEF Invocation
<1> DEFINE x == Started(rows[j], j, i, inv[i].site)
<1>3. /\ x \in Row /\ x.status = "running" /\ x.due = Lease /\ x.token = i
      /\ x.site = inv[i].site /\ x.target = TargetOf[j]
  BY <1>2, StartedType
<1>4. /\ rows' = [rows EXCEPT ![j] = x] /\ queue' = queue /\ writes' \in SUBSET Write /\ faults' = faults
      /\ inv' = [inv EXCEPT ![i].pc = "exec", ![i].wall = Wall]
  BY <1>2a DEF Claim, WithoutClaimsOf
<1>5. /\ rows[j].due <= 0 /\ ~Blocked(j, inv[i].site)
      /\ rows[j].status \in {"running", "pending", "retryable"}
  BY <1>1, <1>2a DEF Claimable, Queued
<1> HIDE DEF x
<1>6. Typed'
  BY <1>1, <1>2, <1>3, <1>4, LocalTypes
<1>7. rows'[j] = x /\ \A k \in Job \ {j} : rows'[k] = rows[k]
  BY <1>2, <1>4
<1>8. \A k \in Job \ {j} : Owner(k)' <=> Owner(k)
  BY <1>7 DEF Owner
<1>9. OwnersKnown'
  BY <1>2, <1>3, <1>7, <1>8, PlanAssumption DEF Safe, OwnersKnown
<1>10. \A o \in Job \ {j} : Owner(o) =>
          /\ ~SameWork(o, j)
          /\ inv[i].site # NULL /\ KindOf[o] \in Acquisition => rows[o].site # inv[i].site
  BY <1>5 DEF Blocked
<1>11. \A o \in Job \ {j} : Owner(o) => ~Conflict(j, o)' /\ ~Conflict(o, j)'
  <2> SUFFICES ASSUME NEW o \in Job \ {j}, Owner(o)
               PROVE  ~Conflict(j, o)' /\ ~Conflict(o, j)'
    OBVIOUS
  <2>1. ~SameWork(o, j) /\ ~SameWork(j, o)
    BY <1>10 DEF SameWork
  <2>2. ~SameSite(j, o)' /\ ~SameSite(o, j)'
    BY <1>3, <1>7, <1>10 DEF SameSite
  <2> QED
    BY <2>1, <2>2 DEF Conflict, SameWork
<1>12. OwnerExclusion'
  <2> SUFFICES ASSUME NEW k \in Job, NEW l \in Job, k # l, Owner(k)', Owner(l)'
               PROVE  ~Conflict(k, l)'
    BY DEF OwnerExclusion
  <2>1. CASE k = j \/ l = j
    BY <1>8, <1>11, <2>1
  <2>2. CASE k # j /\ l # j
    <3>1. Owner(k) /\ Owner(l) /\ ~Conflict(k, l)
      BY <1>8, <2>2 DEF Safe, OwnerExclusion
    <3> QED
      BY <1>7, <2>2, <3>1 DEF Conflict, SameSite, SameWork
  <2> QED
    BY <2>1, <2>2
<1>13. LiveClaim'
  <2> SUFFICES ASSUME NEW k \in Inv, Executing(k)'
               PROVE  LiveClaim!(k)'
    BY DEF LiveClaim
  <2>1. CASE k = i
    <3>1. inv'[i].job = j /\ inv'[i].wall = Wall /\ inv'[i].site = inv[i].site
      BY <1>2a, <1>4 DEF Invocation
    <3>2. Wall >= 1 /\ Lease >= Wall
      BY TimeAssumption
    <3> QED
      BY <1>3, <1>7, <2>1, <3>1, <3>2
  <2>2. CASE k # i
    <3>1. Executing(k) /\ inv'[k] = inv[k]
      BY <1>4, <2>2 DEF Executing
    <3>2. inv[k].job \in Job /\ inv[k].job # j
      BY <1>2, <1>5, <3>1, LiveRow DEF Row
    <3> QED
      BY <1>7, <3>1, <3>2 DEF Safe, LiveClaim
  <2> QED
    BY <2>1, <2>2
<1> QED
  BY <1>6, <1>9, <1>12, <1>13 DEF Safe

LEMMA ClaimBusyKeeps ==
    ASSUME IInv, NEW i \in Inv, ClaimBusy(i)
    PROVE  IInv'
<1> USE DEF IInv, Typed, TypeOK
<1>1. /\ inv[i].pc = "claim" /\ rows' = rows /\ queue' = queue /\ writes' = writes /\ faults' = faults
      /\ inv' = [inv EXCEPT ![i].pc = "busy"]
  BY DEF ClaimBusy, Become
<1>2. Typed'
  BY <1>1, LocalTypes
<1>3. Untouched
  BY <1>1 DEF Untouched, Executing, Invocation
<1> QED
  BY <1>1, <1>2, <1>3, SameRows

LEMMA ParkAdmissionKeeps ==
    ASSUME IInv, NEW i \in Inv, ParkAdmission(i)
    PROVE  IInv'
<1> USE DEF IInv, Typed, TypeOK
<1> DEFINE j == inv[i].job
           x == Parked(rows[j], j, inv[i].site)
<1>1. /\ inv[i].pc = "busy" /\ queue' = queue /\ writes' = writes /\ faults' = faults
      /\ inv' = [inv EXCEPT ![i] = Idle]
      /\ rows' = IF Parkable(j) THEN [rows EXCEPT ![j] = x] ELSE rows
  BY DEF ParkAdmission, Leave
<1>2. j \in Job /\ inv[i].site \in Sites \union {NULL} /\ rows[j] \in Row
  BY <1>1 DEF Assigned, Invocation
<1>3. x \in Row /\ x.status = "pending"
  BY <1>2, ParkedType
<1> HIDE DEF x, j
<1>4. Untouched
  BY <1>1 DEF Untouched, Executing, Idle
<1>5. Typed'
  BY <1>1, <1>2, <1>3, LocalTypes
<1>6. CASE Parkable(j)
  <2>1. \A k \in Inv : Executing(k)' => inv[k].job # j
    BY <1>2, <1>4, <1>6, LiveRow DEF Untouched, Parkable, Row
  <2> QED
    BY <1>1, <1>2, <1>3, <1>4, <1>5, <1>6, <2>1, Released
<1>7. CASE ~Parkable(j)
  BY <1>1, <1>4, <1>5, <1>7, SameRows
<1> QED
  BY <1>6, <1>7

LEMMA MarkTerminalKeeps ==
    ASSUME IInv, NEW i \in Inv, NEW st \in Outcomes, MarkTerminal(i, st)
    PROVE  IInv'
<1> USE DEF IInv, Typed, TypeOK
<1> DEFINE j == inv[i].job
           x == Closed(rows[j], st, "none")
<1>1. inv[i].pc = "exec" /\ rows[j].token = i
  BY DEF MarkTerminal, Holds
<1>2. j \in Job /\ rows[j] \in Row
  BY <1>1 DEF Assigned
<1>3. x \in Row /\ x.token = NULL /\ x.status \in Terminal
  BY <1>2, ClosedType, OutcomeAssumption
<1>4. /\ rows' = [rows EXCEPT ![j] = x] /\ queue' = queue /\ writes' = writes /\ faults' = faults
      /\ inv' = [inv EXCEPT ![i] = Idle]
  BY DEF MarkTerminal, Leave
<1> HIDE DEF x, j
<1>5. Untouched
  BY <1>4 DEF Untouched, Executing, Idle
<1>6. Typed'
  BY <1>1, <1>2, <1>3, <1>4, LocalTypes
<1>7. \A k \in Inv : Executing(k)' => inv[k].job # j
  BY <1>1, <1>4, <1>5, LiveRow DEF Untouched, Executing, Idle
<1> QED
  BY <1>2, <1>3, <1>4, <1>5, <1>6, <1>7, Released DEF Terminal

LEMMA YieldForContinuationKeeps ==
    ASSUME IInv, NEW i \in Inv, YieldForContinuation(i)
    PROVE  IInv'
<1> USE DEF IInv, Typed, TypeOK
<1> DEFINE j == inv[i].job
<1>0. PICK c \in Cursor : rows' = [rows EXCEPT ![j] = Yielded(rows[j], c)]
  BY DEF YieldForContinuation
<1> DEFINE x == Yielded(rows[j], c)
<1>1. inv[i].pc = "exec" /\ rows[j].token = i
  BY DEF YieldForContinuation
<1>2. j \in Job /\ rows[j] \in Row
  BY <1>1 DEF Assigned
<1>3. x \in Row /\ x.status = "pending"
  BY <1>2, YieldedType
<1>4. /\ rows' = [rows EXCEPT ![j] = x] /\ queue' = queue /\ writes' = writes /\ faults' = faults
      /\ inv' = [inv EXCEPT ![i].pc = "redispatch"]
  BY <1>0 DEF YieldForContinuation, Become
<1> HIDE DEF x, j
<1>5. Untouched
  BY <1>4 DEF Untouched, Executing, Invocation
<1>6. Typed'
  BY <1>1, <1>2, <1>3, <1>4, LocalTypes
<1>7. \A k \in Inv : Executing(k)' => inv[k].job # j
  BY <1>1, <1>4, <1>5, LiveRow DEF Untouched, Executing, Invocation
<1> QED
  BY <1>2, <1>3, <1>4, <1>5, <1>6, <1>7, Released

\* A spawned write changes nothing but the set of writes in flight.
LEMMA SaveCheckpointKeeps ==
    ASSUME IInv, NEW i \in Inv, NEW c \in Cursor, SaveCheckpoint(i, c)
    PROVE  IInv'
<1> USE DEF IInv, Typed, TypeOK
<1>1. inv[i].job \in Job
  BY DEF SaveCheckpoint, Assigned
<1>2. writes' \in SUBSET Write
  BY <1>1 DEF SaveCheckpoint, Write
<1>3. Typed' /\ Untouched /\ rows' = rows
  BY <1>2 DEF SaveCheckpoint, Assigned, SitesOfAcquisitions, Untouched, Executing
<1> QED
  BY <1>3, SameRows

\* A write that lands touches the cursor of a row and nothing else of it.
LEMMA SavedRows ==
    ASSUME Typed, NEW w \in writes, rows' \in {rows, Saved(w)}, NEW j \in Job
    PROVE  /\ rows' \in [Job -> Row]
           /\ rows'[j].status = rows[j].status /\ rows'[j].token = rows[j].token
           /\ rows'[j].due = rows[j].due /\ rows'[j].reason = rows[j].reason
           /\ rows'[j].site = rows[j].site /\ rows'[j].target = rows[j].target
           /\ rows'[j].waiting = rows[j].waiting
           /\ rows'[j] = rows[j]
              \/ /\ w.job = j /\ w.token = rows[j].token /\ rows[j].status = "running"
                 /\ rows'[j] = [rows[j] EXCEPT !.ckpt = w.cursor]
<1> USE DEF Typed, TypeOK
<1>1. w.job \in Job /\ w.cursor \in Nat
  BY BoundAssumption DEF Write
<1> DEFINE x == [rows[w.job] EXCEPT !.ckpt = w.cursor]
<1>2. /\ x \in Row /\ x.status = rows[w.job].status /\ x.token = rows[w.job].token
      /\ x.due = rows[w.job].due /\ x.reason = rows[w.job].reason
      /\ x.site = rows[w.job].site /\ x.target = rows[w.job].target
      /\ x.waiting = rows[w.job].waiting
  BY <1>1 DEF Row
<1>3. \/ rows' = rows
      \/ /\ rows' = [rows EXCEPT ![w.job] = x]
         /\ w.token = rows[w.job].token /\ rows[w.job].status = "running"
  BY DEF Saved
<1>4. CASE rows' = rows
  BY <1>4
<1>5. CASE /\ rows' = [rows EXCEPT ![w.job] = x]
           /\ w.token = rows[w.job].token /\ rows[w.job].status = "running"
  <2>1. rows'[w.job] = x /\ \A k \in Job \ {w.job} : rows'[k] = rows[k]
    BY <1>1, <1>5
  <2>2. rows' \in [Job -> Row]
    BY <1>1, <1>2, <1>5
  <2>3. CASE j = w.job
    BY <1>2, <1>5, <2>1, <2>2, <2>3
  <2>4. CASE j # w.job
    BY <2>1, <2>2, <2>4
  <2> QED
    BY <2>3, <2>4
<1> QED
  BY <1>3, <1>4, <1>5

LEMMA LandCheckpointKeeps ==
    ASSUME IInv, NEW w \in writes, LandCheckpoint(w)
    PROVE  IInv'
<1> USE DEF IInv
<1>1. /\ rows' \in {rows, Saved(w)} /\ inv' = inv /\ queue' = queue /\ faults' = faults
      /\ writes' \in SUBSET writes
  BY DEF LandCheckpoint
<1>2. \A j \in Job : /\ rows' \in [Job -> Row]
                     /\ rows'[j].status = rows[j].status /\ rows'[j].token = rows[j].token
                     /\ rows'[j].due = rows[j].due /\ rows'[j].reason = rows[j].reason
                     /\ rows'[j].site = rows[j].site /\ rows'[j].target = rows[j].target
  BY <1>1, SavedRows
<1>3. rows' \in [Job -> Row]
  BY <1>1, <1>2 DEF Typed, TypeOK, Saved
<1>4. Typed'
  BY <1>1, <1>3 DEF Typed, TypeOK, Assigned, SitesOfAcquisitions
<1>5. \A j \in Job : Owner(j)' <=> Owner(j)
  BY <1>2 DEF Owner
<1>6. OwnersKnown' /\ OwnerExclusion'
  BY <1>2, <1>5 DEF Safe, OwnersKnown, OwnerExclusion, Conflict, SameSite, SameWork
<1>7. LiveClaim'
  <2> SUFFICES ASSUME NEW i \in Inv, Executing(i)'
               PROVE  LiveClaim!(i)'
    BY DEF LiveClaim
  <2>1. Executing(i) /\ inv'[i] = inv[i] /\ inv[i].job \in Job
    BY <1>1, LiveRow DEF Executing
  <2> QED
    BY <1>2, <2>1 DEF Safe, LiveClaim
<1> QED
  BY <1>4, <1>6, <1>7 DEF Safe

LEMMA RecordAttemptKeeps ==
    ASSUME IInv, NEW i \in Inv, RecordAttempt(i)
    PROVE  IInv'
<1> USE DEF IInv, Typed, TypeOK
<1> DEFINE j == inv[i].job
           x == Failed(rows[j], Hold)
<1>1. inv[i].pc = "exec" /\ rows[j].token = i
  BY DEF RecordAttempt
<1>2. j \in Job /\ rows[j] \in Row
  BY <1>1 DEF Assigned
<1>3. x \in Row /\ x.status = "retryable"
  BY <1>2, FailedType, TimeAssumption
<1>4. /\ rows' = [rows EXCEPT ![j] = x] /\ queue' = queue \union {j} /\ writes' = writes /\ faults' = faults
      /\ inv' = [inv EXCEPT ![i] = Idle]
  BY DEF RecordAttempt, Leave
<1> HIDE DEF x, j
<1>5. Untouched
  BY <1>4 DEF Untouched, Executing, Idle
<1>6. Typed'
  BY <1>1, <1>2, <1>3, <1>4, LocalTypes
<1>7. \A k \in Inv : Executing(k)' => inv[k].job # j
  BY <1>1, <1>4, <1>5, LiveRow DEF Untouched, Executing, Idle
<1> QED
  BY <1>2, <1>3, <1>4, <1>5, <1>6, <1>7, Released

LEMMA RecordLastAttemptKeeps ==
    ASSUME IInv, NEW i \in Inv, RecordLastAttempt(i)
    PROVE  IInv'
<1> USE DEF IInv, Typed, TypeOK
<1> DEFINE j == inv[i].job
           x == Failed(rows[j], 0)
<1>1. inv[i].pc = "exec" /\ rows[j].token = i
  BY DEF RecordLastAttempt
<1>2. j \in Job /\ rows[j] \in Row
  BY <1>1 DEF Assigned
<1>3. x \in Row /\ x.status = "retryable"
  BY <1>2, FailedType
<1>4. /\ rows' = [rows EXCEPT ![j] = x] /\ queue' = queue /\ writes' = writes /\ faults' = faults
      /\ inv' = [inv EXCEPT ![i].pc = "exhausted"]
  BY DEF RecordLastAttempt, Become
<1> HIDE DEF x, j
<1>5. Untouched
  BY <1>4 DEF Untouched, Executing, Invocation
<1>6. Typed'
  BY <1>1, <1>2, <1>3, <1>4, LocalTypes
<1>7. \A k \in Inv : Executing(k)' => inv[k].job # j
  BY <1>1, <1>4, <1>5, LiveRow DEF Untouched, Executing, Invocation
<1> QED
  BY <1>2, <1>3, <1>4, <1>5, <1>6, <1>7, Released

LEMMA ExhaustRetriesKeeps ==
    ASSUME IInv, NEW i \in Inv, ExhaustRetries(i)
    PROVE  IInv'
<1> USE DEF IInv, Typed, TypeOK
<1> DEFINE j == inv[i].job
           x == Closed(rows[j], "permanent", "none")
<1>1. inv[i].pc = "exhausted" /\ rows[j].token = i
  BY DEF ExhaustRetries, Holds
<1>2. j \in Job /\ rows[j] \in Row
  BY <1>1 DEF Assigned
<1>3. x \in Row /\ x.token = NULL /\ x.status = "permanent"
  BY <1>2, ClosedType DEF Terminal
<1>4. /\ rows' = [rows EXCEPT ![j] = x] /\ queue' = queue /\ writes' = writes /\ faults' = faults
      /\ inv' = [inv EXCEPT ![i] = Idle]
  BY DEF ExhaustRetries, Leave
<1> HIDE DEF x, j
<1>5. Untouched
  BY <1>4 DEF Untouched, Executing, Idle
<1>6. Typed'
  BY <1>1, <1>2, <1>3, <1>4, LocalTypes
<1>7. \A k \in Inv : Executing(k)' => inv[k].job # j
  BY <1>1, <1>4, <1>5, LiveRow DEF Untouched, Executing, Idle
<1> QED
  BY <1>2, <1>3, <1>4, <1>5, <1>6, <1>7, Released

LEMMA EnqueuePlanKeeps ==
    ASSUME IInv, NEW i \in Inv, EnqueuePlan(i)
    PROVE  IInv'
<1> USE DEF IInv, Typed, TypeOK
<1>1. /\ inv[i].pc = "redispatch" /\ writes' = writes /\ faults' = faults
      /\ inv' = [inv EXCEPT ![i] = Idle]
  BY DEF EnqueuePlan, Leave
<1>2. Untouched
  BY <1>1 DEF Untouched, Executing, Idle
<1>3. (inv \in [Inv -> Invocation])' /\ Assigned' /\ SitesOfAcquisitions'
  BY <1>1, LocalTypes
<1>4. CASE \E k \in Job : Dispatch(k)
  BY <1>1, <1>2, <1>3, <1>4, DispatchKeeps
<1>5. CASE rows' = rows /\ queue' = queue
  <2>1. Typed'
    BY <1>1, <1>3, <1>5
  <2> QED
    BY <1>2, <1>5, <2>1, SameRows
<1> QED
  BY <1>4, <1>5 DEF EnqueuePlan

LEMMA SettleUserCancelKeeps ==
    ASSUME IInv, NEW i \in Inv, SettleUserCancel(i)
    PROVE  IInv'
<1> USE DEF IInv, Typed, TypeOK
<1> DEFINE j == inv[i].job
           x == Drained(rows[j])
<1>1. /\ inv[i].pc # "idle" /\ writes' = writes /\ faults' = faults /\ inv' = [inv EXCEPT ![i] = Idle]
      /\ \/ /\ rows[j].status = "permanent" /\ rows[j].token = i
            /\ rows' = [rows EXCEPT ![j] = x] /\ queue' = queue
         \/ rows' = rows /\ queue' = queue \union {j}
  BY DEF SettleUserCancel, Leave
<1>2. j \in Job /\ rows[j] \in Row
  BY <1>1 DEF Assigned
<1>3. x \in Row /\ x.status = rows[j].status /\ x.token = NULL
  BY <1>2, DrainedType
<1> HIDE DEF x, j
<1>4. Untouched
  BY <1>1 DEF Untouched, Executing, Idle
<1>5. Typed'
  BY <1>1, <1>2, <1>3, LocalTypes
<1>6. CASE rows' = rows
  BY <1>4, <1>5, <1>6, SameRows
<1>7. CASE /\ rows[j].status = "permanent" /\ rows[j].token = i
           /\ rows' = [rows EXCEPT ![j] = x]
  <2>1. \A k \in Inv : Executing(k)' => inv[k].job # j
    BY <1>1, <1>4, <1>7, LiveRow DEF Untouched, Executing, Idle
  <2> QED
    BY <1>2, <1>3, <1>4, <1>5, <1>7, <2>1, Released
<1> QED
  BY <1>1, <1>6, <1>7

LEMMA WakeWaitingKeeps ==
    ASSUME IInv, NEW j \in Job, WakeWaiting(j)
    PROVE  IInv'
<1> USE DEF IInv, Typed, TypeOK
<1> DEFINE x == Woken(rows[j])
<1>1. x \in Row /\ x.status = rows[j].status
  BY WokenType
<1>2. /\ rows[j].status \in Queued /\ rows' = [rows EXCEPT ![j] = x]
      /\ queue' = queue \union {j} /\ inv' = inv /\ writes' = writes /\ faults' = faults
  BY DEF WakeWaiting, Eligible
<1> HIDE DEF x
<1>3. Typed'
  BY <1>1, <1>2 DEF Assigned, SitesOfAcquisitions
<1>4. Untouched
  BY <1>2 DEF Untouched, Executing
<1>5. \A k \in Inv : Executing(k)' => inv[k].job # j
  BY <1>2, <1>4, LiveRow DEF Untouched, Queued
<1> QED
  BY <1>1, <1>2, <1>3, <1>4, <1>5, Released DEF Queued

LEMMA ReapOneKeeps ==
    ASSUME IInv, NEW j \in Job, ReapOne(j)
    PROVE  IInv'
<1> USE DEF IInv, Typed, TypeOK
<1>1. PICK x \in Row : /\ rows' = [rows EXCEPT ![j] = x]
                       /\ x.token = NULL /\ x.status # "running"
  <2>1. /\ Closed(rows[j], "permanent", "none") \in Row
        /\ Closed(rows[j], "permanent", "none").token = NULL
        /\ Closed(rows[j], "permanent", "none").status = "permanent"
    BY ClosedType DEF Terminal
  <2>2. /\ Requeued(rows[j]) \in Row /\ Requeued(rows[j]).token = NULL
        /\ Requeued(rows[j]).status # "running"
    BY RequeuedType
  <2> QED
    BY <2>1, <2>2 DEF ReapOne
<1>2. rows[j].due <= 0 /\ inv' = inv /\ writes' = writes /\ faults' = faults /\ queue' \in SUBSET Job
  BY TimeAssumption DEF ReapOne, Stuck, Row
<1>3. Typed'
  BY <1>1, <1>2 DEF Assigned, SitesOfAcquisitions
<1>4. Untouched
  BY <1>2 DEF Untouched, Executing
<1>5. \A k \in Inv : Executing(k)' => inv[k].job # j
  BY <1>2, <1>4, LiveRow DEF Untouched, Row
<1> QED
  BY <1>1, <1>3, <1>4, <1>5, Released

LEMMA CancelPendingKeeps ==
    ASSUME IInv, NEW js \in SUBSET Job, CancelPending(js)
    PROVE  IInv'
<1> USE DEF IInv, Typed, TypeOK
<1> DEFINE hit(j) == j \in js /\ rows[j].status \in Queued
           x(j) == [Closed(rows[j], "permanent", "removed") EXCEPT !.waiting = FALSE]
<1>1. ASSUME NEW j \in Job
      PROVE  x(j) \in Row /\ x(j).status = "permanent" /\ x(j).token = NULL
  <2>1. /\ Closed(rows[j], "permanent", "removed") \in Row
        /\ Closed(rows[j], "permanent", "removed").status = "permanent"
        /\ Closed(rows[j], "permanent", "removed").token = NULL
    BY ClosedType DEF Terminal
  <2> QED
    BY <2>1 DEF Row
<1>2. /\ rows' = [j \in Job |-> IF hit(j) THEN x(j) ELSE rows[j]]
      /\ queue' = queue /\ inv' = inv /\ writes' = writes /\ faults' = faults
  BY DEF CancelPending
<1> HIDE DEF x
<1>3. Typed'
  BY <1>1, <1>2 DEF Assigned, SitesOfAcquisitions
<1>4. \A j \in Job : Owner(j)' => ~hit(j) /\ rows'[j] = rows[j] /\ Owner(j)
  BY <1>1, <1>2 DEF Owner
<1>5. OwnersKnown' /\ OwnerExclusion'
  BY <1>4 DEF Safe, OwnersKnown, OwnerExclusion, Conflict, SameSite, SameWork
<1>6. LiveClaim'
  <2> SUFFICES ASSUME NEW i \in Inv, Executing(i)'
               PROVE  LiveClaim!(i)'
    BY DEF LiveClaim
  <2>1. Executing(i)
    BY <1>2 DEF Executing
  <2>2. inv[i].job \in Job /\ ~hit(inv[i].job)
    BY <2>1, LiveRow DEF Queued
  <2> QED
    BY <1>2, <2>1, <2>2 DEF Safe, LiveClaim
<1> QED
  BY <1>3, <1>5, <1>6 DEF Safe

LEMMA CancelRunningKeeps ==
    ASSUME IInv, NEW j \in Job, CancelRunning(j)
    PROVE  IInv'
<1> USE DEF IInv, Typed, TypeOK
<1> DEFINE x == Cancelled(rows[j])
<1>1. /\ x \in Row /\ x.status = "permanent" /\ x.reason = "cancelled"
      /\ x.token = rows[j].token /\ x.due = rows[j].due
      /\ x.site = rows[j].site /\ x.target = rows[j].target
  BY CancelledType
<1>2. /\ rows[j].status = "running" /\ rows' = [rows EXCEPT ![j] = x]
      /\ queue' = queue /\ inv' = inv /\ writes' = writes /\ faults' = faults
  BY DEF CancelRunning
<1> HIDE DEF x
<1>3. Typed'
  BY <1>1, <1>2 DEF Assigned, SitesOfAcquisitions
<1>4. \A k \in Job : /\ Owner(k)' => Owner(k)
                     /\ rows'[k].site = rows[k].site /\ rows'[k].target = rows[k].target
  BY <1>1, <1>2 DEF Owner
<1>5. OwnersKnown' /\ OwnerExclusion'
  BY <1>4 DEF Safe, OwnersKnown, OwnerExclusion, Conflict, SameSite, SameWork
<1>6. LiveClaim'
  <2> SUFFICES ASSUME NEW i \in Inv, Executing(i)'
               PROVE  LiveClaim!(i)'
    BY DEF LiveClaim
  <2>1. Executing(i) /\ inv'[i] = inv[i] /\ inv[i].job \in Job
    BY <1>2, LiveRow DEF Executing
  <2> QED
    BY <1>1, <1>2, <2>1 DEF Safe, LiveClaim
<1> QED
  BY <1>3, <1>5, <1>6 DEF Safe

LEMMA RestorePendingTasksKeeps ==
    ASSUME IInv, RestorePendingTasks
    PROVE  IInv'
<1> USE DEF IInv, Typed, TypeOK
<1>1. Typed' /\ Untouched /\ rows' = rows
  BY DEF RestorePendingTasks, Assigned, SitesOfAcquisitions, Untouched, Executing
<1> QED
  BY <1>1, SameRows

LEMMA CrashKeeps ==
    ASSUME IInv, NEW i \in Inv, Crash(i)
    PROVE  IInv'
<1> USE DEF IInv, Typed, TypeOK
<1>1. /\ inv[i].pc # "idle" /\ inv' = [inv EXCEPT ![i] = Idle] /\ rows' = rows
      /\ writes' = writes /\ queue' \in {queue, queue \union {inv[i].job}}
  BY DEF Crash, Leave
<1>2. faults' \in 0..MaxFaults
  BY BoundAssumption DEF Crash, Fault
<1>3. Typed'
  BY <1>1, <1>2, LocalTypes DEF Assigned
<1>4. Untouched
  BY <1>1 DEF Untouched, Executing, Idle
<1> QED
  BY <1>1, <1>3, <1>4, SameRows

LEMMA LoseEnvelopeKeeps ==
    ASSUME IInv, NEW j \in Job, LoseEnvelope(j)
    PROVE  IInv'
<1> USE DEF IInv, Typed, TypeOK
<1>1. faults' \in 0..MaxFaults
  BY BoundAssumption DEF LoseEnvelope, Fault
<1>2. Typed' /\ Untouched /\ rows' = rows
  BY <1>1 DEF LoseEnvelope, Assigned, SitesOfAcquisitions, Untouched, Executing
<1> QED
  BY <1>2, SameRows

\* Time shortens the leases and the remaining lives of the invocations alike.
LEMMA TickKeeps ==
    ASSUME IInv, Tick
    PROVE  IInv'
<1> USE DEF IInv, Typed, TypeOK
<1>1. ASSUME NEW j \in Job
      PROVE  /\ rows'[j] \in Row /\ rows'[j].due <= rows[j].due
             /\ rows'[j].status = rows[j].status /\ rows'[j].token = rows[j].token
             /\ rows'[j].site = rows[j].site /\ rows'[j].target = rows[j].target
             /\ rows'[j].reason = rows[j].reason
             /\ rows'[j].due >= rows[j].due - 1
  <2>1. rows[j] \in Row /\ [rows[j] EXCEPT !.due = rows[j].due - 1] \in Row
    BY DEF Row
  <2>2. rows'[j] \in {rows[j], [rows[j] EXCEPT !.due = rows[j].due - 1]}
    BY DEF Tick
  <2> QED
    BY <2>1, <2>2 DEF Row
<1>2. ASSUME NEW i \in Inv
      PROVE  /\ inv'[i] \in Invocation /\ inv'[i].pc = inv[i].pc
             /\ inv'[i].job = inv[i].job /\ inv'[i].site = inv[i].site
             /\ inv[i].pc = "exec" => inv'[i].wall = inv[i].wall - 1 /\ inv[i].wall > 1
  <2>1. inv[i] \in Invocation
    OBVIOUS
  <2>2. [inv[i] EXCEPT !.wall = inv[i].wall - 1] \in Invocation
    BY <2>1 DEF Invocation
  <2>3. inv'[i] = IF inv[i].pc = "exec"
                  THEN [inv[i] EXCEPT !.wall = inv[i].wall - 1] ELSE inv[i]
    BY DEF Tick
  <2> QED
    BY <2>1, <2>2, <2>3 DEF Tick, Invocation
<1>3. Typed'
  <2>1. rows' \in [Job -> Row]
    BY <1>1 DEF Tick
  <2>2. inv' \in [Inv -> Invocation]
    BY <1>2 DEF Tick
  <2> QED
    BY <1>2, <2>1, <2>2 DEF Tick, Assigned, SitesOfAcquisitions
<1>4. \A j \in Job : Owner(j)' => Owner(j)
  BY <1>1 DEF Owner, Row
<1>5. OwnersKnown' /\ OwnerExclusion'
  BY <1>1, <1>4 DEF Safe, OwnersKnown, OwnerExclusion, Conflict, SameSite, SameWork
<1>6. LiveClaim'
  <2> SUFFICES ASSUME NEW i \in Inv, Executing(i)'
               PROVE  LiveClaim!(i)'
    BY DEF LiveClaim
  <2>1. Executing(i) /\ inv[i].job \in Job /\ inv'[i].job = inv[i].job
    BY <1>2, LiveRow DEF Executing
  <2>2. inv'[i].wall = inv[i].wall - 1 /\ inv[i].wall > 1
    BY <1>2, <2>1 DEF Executing
  <2>3. inv[i].wall \in Int /\ rows[inv[i].job].due \in Int /\ rows'[inv[i].job].due \in Int
    BY <1>1, <2>1 DEF Invocation, Row
  <2> QED
    BY <1>1, <1>2, <2>1, <2>2, <2>3 DEF Safe, LiveClaim
<1> QED
  BY <1>3, <1>5, <1>6 DEF Safe

-----------------------------------------------------------------------------
(* The theorems.                                                           *)

\* Every step of the ledger, its consumers, the cron, the operator and the
\* platform keeps the inductive invariant.
LEMMA NextKeeps ==
    ASSUME IInv, [Next]_vars
    PROVE  IInv'
<1>1. CASE UNCHANGED vars
  BY <1>1 DEF vars, IInv, Typed, Safe, TypeOK, Assigned, SitesOfAcquisitions, OwnersKnown,
     OwnerExclusion, Owner, Conflict, SameWork, SameSite, LiveClaim, Executing
<1>2. CASE \E j \in Job : EnqueueBatch(j) \/ SettleSkipped(j)
  BY <1>2, EnqueueBatchKeeps, SettleSkippedKeeps
<1>3. CASE \E i \in Inv, j \in Job : Deliver(i, j)
  BY <1>3, DeliverKeeps
<1>4. CASE \E i \in Inv : Consume(i)
  <2> PICK i \in Inv : Consume(i)
    BY <1>4
  <2>1. CASE Claim(i) \/ ClaimBusy(i) \/ ParkAdmission(i)
    BY <2>1, ClaimKeeps, ClaimBusyKeeps, ParkAdmissionKeeps
  <2>2. CASE \E st \in Outcomes : MarkTerminal(i, st)
    BY <2>2, MarkTerminalKeeps
  <2>3. CASE YieldForContinuation(i) \/ EnqueuePlan(i)
    BY <2>3, YieldForContinuationKeeps, EnqueuePlanKeeps
  <2>4. CASE RecordAttempt(i) \/ RecordLastAttempt(i) \/ ExhaustRetries(i)
    BY <2>4, RecordAttemptKeeps, RecordLastAttemptKeeps, ExhaustRetriesKeeps
  <2>5. CASE SettleUserCancel(i)
    BY <2>5, SettleUserCancelKeeps
  <2> QED
    BY <2>1, <2>2, <2>3, <2>4, <2>5 DEF Consume
<1>5. CASE Cron
  BY <1>5, WakeWaitingKeeps, ReapOneKeeps DEF Cron
<1>6. CASE Operator
  BY <1>6, CancelPendingKeeps, CancelRunningKeeps, RestorePendingTasksKeeps DEF Operator
<1>7. CASE \E i \in Inv : Crash(i)
  BY <1>7, CrashKeeps
<1>8. CASE \E j \in Job : LoseEnvelope(j)
  BY <1>8, LoseEnvelopeKeeps
<1>9. CASE Tick
  BY <1>9, TickKeeps
<1>10. CASE \E i \in Inv, c \in Cursor : SaveCheckpoint(i, c)
  BY <1>10, SaveCheckpointKeeps
<1>11. CASE \E w \in writes : LandCheckpoint(w)
  BY <1>11, LandCheckpointKeeps
<1> QED
  BY <1>1, <1>2, <1>3, <1>4, <1>5, <1>6, <1>7, <1>8, <1>9, <1>10, <1>11 DEF Next

\* The inductive invariant holds in every reachable state.
THEOREM Invariant == Spec => []IInv
<1>1. Init => IInv
  BY InitIInv
<1>2. IInv /\ [Next]_vars => IInv'
  BY NextKeeps
<1> QED
  BY <1>1, <1>2, PTL DEF Spec

\* The table, the queue and the invocations keep their types.
THEOREM TypeCorrect == Spec => []TypeOK
<1>1. IInv => TypeOK
  BY DEF IInv, Typed
<1> QED
  BY <1>1, Invariant, PTL

\* No two conflicting rows own work at once, draining cancellations included.
THEOREM OwnersExclude == Spec => []OwnerExclusion
<1>1. IInv => OwnerExclusion
  BY DEF IInv, Safe
<1> QED
  BY <1>1, Invariant, PTL

\* An executing invocation's row carries its token and outlasts it.
THEOREM ClaimsLive == Spec => []LiveClaim
<1>1. IInv => LiveClaim
  BY DEF IInv, Safe
<1> QED
  BY <1>1, Invariant, PTL

\* An executing invocation's job is an owner, under the invocation's own token;
\* so two invocations that execute hold two jobs that do not conflict.
LEMMA LiveExcludes == IInv => LiveExclusion
<1> SUFFICES ASSUME IInv, NEW i \in Inv, NEW k \in Inv, i # k, Executing(i), Executing(k)
             PROVE  inv[i].job # inv[k].job /\ ~Conflict(inv[i].job, inv[k].job)
  BY DEF LiveExclusion
<1>1. /\ inv[i].job \in Job /\ inv[k].job \in Job
      /\ rows[inv[i].job].token = i /\ rows[inv[k].job].token = k
  BY LiveRow DEF IInv
<1>2. Owner(inv[i].job) /\ Owner(inv[k].job)
  BY LiveRow, InvAssumption DEF IInv, Owner
<1>3. inv[i].job # inv[k].job
  BY <1>1
<1> QED
  BY <1>1, <1>2, <1>3 DEF IInv, Safe, OwnerExclusion

\* No two invocations ever execute together for one job, one novel or one site.
THEOREM NoOverlap == Spec => []LiveExclusion
  BY Invariant, LiveExcludes, PTL

-----------------------------------------------------------------------------
(* Part 2: rows.                                                           *)

\* The statements, as a relation between a row and its successor.  An insert
\* touches one row, and only when no row of its dedupe key is active.
Inserted(j) == /\ rows[j].status = "absent" /\ ActiveWithKey(KeyOf[j]) = {}
               /\ rows' = [rows EXCEPT ![j] = FreshRow]

\* The two ways to move the cursor of a row.
Continued(j) ==
    \E i \in Inv, c \in Cursor :
        /\ Executing(i) /\ inv[i].job = j /\ inv'[i].pc = "redispatch"
        /\ rows[j].status = "running" /\ rows[j].token = i
        /\ rows'[j] = Yielded(rows[j], c)

Refreshed(j) ==
    \E w \in writes \ writes' :
        /\ w.job = j /\ w.token = rows[j].token /\ rows[j].status = "running"
        /\ rows'[j].status = rows[j].status /\ rows'[j].reason = rows[j].reason
        /\ rows'[j].due = rows[j].due /\ rows'[j].waiting = rows[j].waiting

Advanced(j) ==
    \/ \E i \in Inv, s \in Sites \union {NULL} :
           /\ IsActive(j) /\ rows[j].due <= 0
           /\ rows'[j] = Started(rows[j], j, i, s)
    \/ \E s \in Sites \union {NULL} : Parkable(j) /\ rows'[j] = Parked(rows[j], j, s)
    \/ Continued(j)
    \/ \E hold \in Nat : rows[j].status = "running" /\ rows'[j] = Failed(rows[j], hold)
    \/ Eligible(j) /\ rows'[j] = Woken(rows[j])
    \/ Stuck(j) /\ rows'[j] = Requeued(rows[j])

Removed(r) == [Closed(r, "permanent", "removed") EXCEPT !.waiting = FALSE]
Older(r)   == [r EXCEPT !.due = @ - 1]

Settled(j) ==
    \/ /\ IsActive(j)
       /\ \E st \in Terminal : rows'[j] = Closed(rows[j], st, "none")
    \/ /\ IsActive(j)
       /\ rows'[j] = Removed(rows[j])
    \/ rows[j].status = "running" /\ rows'[j] = Cancelled(rows[j])

RowStep(j) == \/ rows'[j] = rows[j]
              \/ Inserted(j)
              \/ Advanced(j)
              \/ Settled(j)
              \/ rows[j].status = "permanent" /\ rows'[j] = Drained(rows[j])
              \/ rows'[j] = Older(rows[j])
              \/ Refreshed(j)

\* Every step is a row step of every row.
LEMMA RowSteps ==
    ASSUME IInv, [Next]_vars, NEW j \in Job
    PROVE  RowStep(j)
<1> USE DEF IInv, Typed, TypeOK
<1>1. CASE UNCHANGED rows
  BY <1>1 DEF RowStep
<1>2. ASSUME NEW k \in Job, Dispatch(k) PROVE RowStep(j)
  <2>1. CASE UNCHANGED rows
    BY <2>1 DEF RowStep
  <2>2. CASE /\ ActiveWithKey(KeyOf[k]) = {} /\ Fresh(k)
             /\ rows' = [rows EXCEPT ![k] = FreshRow]
    <3>1. rows[k].status = "absent"
      BY <2>2, JobAssumption DEF Fresh
    <3>2. CASE j = k
      BY <2>2, <3>1, <3>2 DEF RowStep, Inserted
    <3>3. CASE j # k
      BY <2>2, <3>3 DEF RowStep
    <3> QED
      BY <3>2, <3>3
  <2> QED
    BY <1>2, <2>1, <2>2 DEF Dispatch
<1>3. ASSUME NEW k \in Job, SettleSkipped(k) PROVE RowStep(j)
  BY <1>3 DEF SettleSkipped, RowStep, Settled, IsActive, Active, Terminal
<1>4. ASSUME NEW i \in Inv, Consume(i) PROVE RowStep(j)
  <2>1. inv[i].pc # "idle" => inv[i].job \in Job /\ inv[i].site \in Sites \union {NULL}
    BY DEF Assigned, Invocation
  <2>2. CASE Claim(i)
    <3>1. rows'[j] # rows[j] => /\ j = inv[i].job /\ rows[j].due <= 0 /\ IsActive(j)
                                /\ rows'[j] = Started(rows[j], j, i, inv[i].site)
      BY <2>1, <2>2 DEF Claim, Claimable, IsActive, Active, Queued
    <3> QED
      BY <2>1, <2>2, <3>1 DEF RowStep, Advanced, Claim
  <2>3. CASE ParkAdmission(i)
    <3>1. rows'[j] # rows[j] => /\ j = inv[i].job /\ Parkable(j)
                                /\ rows'[j] = Parked(rows[j], j, inv[i].site)
      BY <2>1, <2>3 DEF ParkAdmission
    <3> QED
      BY <2>1, <2>3, <3>1 DEF RowStep, Advanced, ParkAdmission
  <2>4. ASSUME NEW st \in Outcomes, MarkTerminal(i, st) PROVE RowStep(j)
    <3>1. rows'[j] # rows[j] => /\ j = inv[i].job /\ IsActive(j)
                                /\ rows'[j] = Closed(rows[j], st, "none")
      BY <2>1, <2>4 DEF MarkTerminal, Holds, IsActive, Active, Queued
    <3> QED
      BY <3>1, OutcomeAssumption DEF RowStep, Settled
  <2>5. CASE YieldForContinuation(i)
    <3>1. PICK c \in Cursor : rows' = [rows EXCEPT ![inv[i].job] = Yielded(rows[inv[i].job], c)]
      BY <2>5 DEF YieldForContinuation
    <3>2. Executing(i) /\ inv'[i].pc = "redispatch"
      BY <2>5 DEF YieldForContinuation, Become, Executing, Invocation
    <3>3. rows'[j] # rows[j] => Continued(j)
      BY <2>1, <2>5, <3>1, <3>2 DEF YieldForContinuation, Continued
    <3> QED
      BY <3>3 DEF RowStep, Advanced
  <2>6. CASE EnqueuePlan(i)
    BY <1>2, <2>6 DEF EnqueuePlan, RowStep
  <2>7. CASE RecordAttempt(i)
    BY <2>1, <2>7, TimeAssumption DEF RecordAttempt, RowStep, Advanced
  <2>8. CASE RecordLastAttempt(i)
    BY <2>1, <2>8 DEF RecordLastAttempt, RowStep, Advanced
  <2>9. CASE ExhaustRetries(i)
    <3>1. rows'[j] # rows[j] => /\ j = inv[i].job /\ IsActive(j)
                                /\ rows'[j] = Closed(rows[j], "permanent", "none")
      BY <2>1, <2>9 DEF ExhaustRetries, Holds, IsActive, Active, Queued
    <3> QED
      BY <3>1 DEF RowStep, Settled, Terminal
  <2>10. CASE SettleUserCancel(i)
    BY <2>1, <2>10 DEF SettleUserCancel, RowStep
  <2>11. CASE ClaimBusy(i)
    BY <2>11 DEF ClaimBusy, RowStep
  <2> QED
    BY <1>4, <2>2, <2>3, <2>4, <2>5, <2>6, <2>7, <2>8, <2>9, <2>10, <2>11 DEF Consume
<1>5. ASSUME NEW k \in Job, WakeWaiting(k) PROVE RowStep(j)
  BY <1>5 DEF WakeWaiting, RowStep, Advanced
<1>6. ASSUME NEW k \in Job, ReapOne(k) PROVE RowStep(j)
  <2>1. Stuck(k) /\ IsActive(k)
    BY <1>6 DEF ReapOne, Stuck
  <2> QED
    BY <1>6, <2>1 DEF ReapOne, RowStep, Advanced, Settled, Terminal
<1>7. ASSUME NEW js \in SUBSET Job, CancelPending(js) PROVE RowStep(j)
  <2>1. rows'[j] # rows[j] => IsActive(j) /\ rows'[j] = Removed(rows[j])
    BY <1>7 DEF CancelPending, Removed, IsActive, Active
  <2> QED
    BY <2>1 DEF RowStep, Settled
<1>8. ASSUME NEW k \in Job, CancelRunning(k) PROVE RowStep(j)
  BY <1>8 DEF CancelRunning, RowStep, Settled
<1>9. CASE Tick
  <2>1. rows'[j] \in {rows[j], Older(rows[j])}
    BY <1>9 DEF Tick, Older
  <2> QED
    BY <2>1 DEF RowStep
<1>10. ASSUME NEW w \in writes, LandCheckpoint(w) PROVE RowStep(j)
  <2>1. rows' \in {rows, Saved(w)} /\ w \in writes \ writes'
    BY <1>10 DEF LandCheckpoint
  <2>2. rows'[j] # rows[j] => Refreshed(j)
    BY <2>1, SavedRows DEF Refreshed
  <2> QED
    BY <2>2 DEF RowStep
<1> QED
  BY <1>1, <1>2, <1>3, <1>4, <1>5, <1>6, <1>7, <1>8, <1>9, <1>10
     DEF Next, vars, EnqueueBatch, Deliver, Cron, Operator, RestorePendingTasks, Crash,
         LoseEnvelope, SaveCheckpoint

-----------------------------------------------------------------------------
(* What the statements assign, as far as the properties look.              *)

\* Which of them may move the cursor of a row that stays active.
Moved(j) == /\ rows[j].status = "running"
            /\ \/ \E i \in Inv : /\ Executing(i) /\ inv[i].job = j /\ rows[j].token = i
                                 /\ inv'[i].pc = "redispatch"
               \/ \E w \in writes \ writes' : w.job = j /\ w.token = rows[j].token

\* The statements that leave a row active keep its checkpoint, start or park
\* it only when no lease or hold protects it, and raise the admission flag
\* only on a pending row without a lease.
LEMMA AdvancedFields ==
    ASSUME IInv, ParkedIsVisible, NEW j \in Job, Advanced(j)
    PROVE  /\ IsActive(j) /\ rows'[j].status \in Active
           /\ rows'[j].ckpt = rows[j].ckpt \/ Moved(j)
           /\ rows'[j].waiting => rows'[j].status = "pending" /\ rows'[j].due <= 0
           /\ rows[j].status = "retryable" => rows[j].due <= 0
<1> USE DEF IInv, Typed, TypeOK, IsActive, Active, Queued
<1>0. rows[j] \in Row /\ rows[j].ckpt \in Nat /\ rows[j].due \in Int
  BY DEF Row
<1>1. CASE \E i \in Inv, s \in Sites \union {NULL} :
               /\ IsActive(j) /\ rows[j].due <= 0 /\ rows'[j] = Started(rows[j], j, i, s)
  BY <1>0, <1>1 DEF Started, Row
<1>2. CASE \E s \in Sites \union {NULL} : Parkable(j) /\ rows'[j] = Parked(rows[j], j, s)
  BY <1>0, <1>2 DEF Parked, Parkable, Row
<1>3. CASE Continued(j)
  <2>1. rows'[j].status = "pending" /\ rows'[j].waiting = FALSE
    BY <1>0, <1>3 DEF Continued, Yielded, Row
  <2>2. Moved(j) /\ rows[j].status = "running"
    BY <1>3 DEF Continued, Moved
  <2> QED
    BY <1>0, <2>1, <2>2
<1>4. CASE \E hold \in Nat : rows[j].status = "running" /\ rows'[j] = Failed(rows[j], hold)
  <2>1. ~rows[j].waiting
    BY <1>4 DEF ParkedIsVisible
  <2>2. /\ rows'[j].status = "retryable" /\ rows'[j].waiting = rows[j].waiting
        /\ rows'[j].ckpt = rows[j].ckpt
    BY <1>0, <1>4 DEF Failed, Row
  <2> QED
    BY <1>0, <1>4, <2>1, <2>2
<1>5. CASE Eligible(j) /\ rows'[j] = Woken(rows[j])
  BY <1>0, <1>5 DEF Eligible, Woken, Row
<1>6. CASE Stuck(j) /\ rows'[j] = Requeued(rows[j])
  <2>1. rows[j].due <= 0 /\ ~rows[j].waiting /\ IsActive(j)
    BY <1>0, <1>6, TimeAssumption DEF Stuck
  <2>2. /\ rows'[j].status \in Active /\ rows'[j].waiting = rows[j].waiting
        /\ rows'[j].ckpt = rows[j].ckpt
    BY <1>0, <1>6, <2>1 DEF Requeued, Row
  <2> QED
    BY <1>0, <2>1, <2>2
<1> QED
  BY <1>1, <1>2, <1>3, <1>4, <1>5, <1>6 DEF Advanced

\* A settlement leaves a terminal row.
LEMMA SettledFields ==
    ASSUME IInv, NEW j \in Job, Settled(j)
    PROVE  IsActive(j) /\ rows'[j].status \in Terminal
<1> USE DEF IInv, Typed, TypeOK, IsActive, Active, Terminal
<1>0. rows[j] \in Row
  OBVIOUS
<1>1. ASSUME NEW st \in Terminal, NEW why \in {"none", "removed"}
      PROVE  /\ Closed(rows[j], st, why) \in Row
             /\ Closed(rows[j], st, why).status = st
  BY <1>0, ClosedType
<1>2. Removed(rows[j]).status = "permanent"
  BY <1>1 DEF Removed, Row
<1>3. Cancelled(rows[j]).status = "permanent"
  BY <1>0, CancelledType
<1> QED
  BY <1>1, <1>2, <1>3 DEF Settled

\* The remaining statements: an inserted row is fresh, a drained one stays
\* permanent, and time only lowers what is left of a lease.
LEMMA OtherFields ==
    ASSUME IInv, NEW j \in Job
    PROVE  /\ Inserted(j) => ~rows'[j].waiting /\ rows'[j].status = "pending"
           /\ rows'[j] = Drained(rows[j]) =>
                  rows'[j].status = rows[j].status /\ rows'[j].reason = rows[j].reason
           /\ rows'[j] = Older(rows[j]) =>
                  /\ rows'[j].status = rows[j].status /\ rows'[j].reason = rows[j].reason
                  /\ rows'[j].waiting = rows[j].waiting /\ rows'[j].ckpt = rows[j].ckpt
                  /\ rows'[j].due = rows[j].due - 1
<1> USE DEF IInv, Typed, TypeOK
<1>0. rows[j] \in Row /\ AbsentRow \in Row
  BY DEF AbsentRow, Row
<1>1. FreshRow.status = "pending" /\ FreshRow.waiting = FALSE
  BY <1>0 DEF FreshRow, AbsentRow, Row
<1>2. Inserted(j) => rows'[j] = FreshRow
  BY DEF Inserted
<1>3. Drained(rows[j]).status = rows[j].status /\ Drained(rows[j]).reason = rows[j].reason
  BY <1>0 DEF Drained, Row
<1>4. /\ Older(rows[j]).status = rows[j].status /\ Older(rows[j]).reason = rows[j].reason
      /\ Older(rows[j]).waiting = rows[j].waiting /\ Older(rows[j]).ckpt = rows[j].ckpt
      /\ Older(rows[j]).due = rows[j].due - 1
  BY <1>0 DEF Older, Row
<1> QED
  BY <1>1, <1>2, <1>3, <1>4

-----------------------------------------------------------------------------
(* The invariants of rows.                                                 *)

\* Visibility of parked rows is kept by every row step.
LEMMA VisibleKept ==
    ASSUME IInv, ParkedIsVisible, \A j \in Job : RowStep(j)
    PROVE  ParkedIsVisible'
<1> SUFFICES ASSUME NEW j \in Job, rows'[j].waiting, IsActive(j)'
             PROVE  rows'[j].status = "pending" /\ rows'[j].due <= 0
  BY DEF ParkedIsVisible
<1> USE DEF IsActive, Active, Queued, Terminal
<1>1. CASE rows'[j] = rows[j]
  BY <1>1 DEF ParkedIsVisible
<1>2. CASE Inserted(j) \/ (rows[j].status = "permanent" /\ rows'[j] = Drained(rows[j]))
  BY <1>2, OtherFields
<1>3. CASE Advanced(j)
  BY <1>3, AdvancedFields
<1>4. CASE Settled(j)
  BY <1>4, SettledFields
<1>5. CASE rows'[j] = Older(rows[j])
  <2>1. rows[j].due \in Int
    BY DEF IInv, Typed, TypeOK, Row
  <2> QED
    BY <1>5, <2>1, OtherFields DEF ParkedIsVisible
<1>6. CASE Refreshed(j)
  BY <1>6 DEF Refreshed, ParkedIsVisible
<1> QED
  BY <1>1, <1>2, <1>3, <1>4, <1>5, <1>6 DEF RowStep

\* Only an insert makes a row active.
LEMMA OnlyInsertActivates ==
    ASSUME IInv, ParkedIsVisible, NEW j \in Job, RowStep(j), IsActive(j)'
    PROVE  IsActive(j) \/ Inserted(j)
<1> USE DEF IsActive, Active, Queued, Terminal
<1>1. CASE rows'[j] = rows[j] \/ Inserted(j)
  BY <1>1
<1>2. CASE Advanced(j)
  BY <1>2, AdvancedFields
<1>3. CASE Settled(j)
  BY <1>3, SettledFields
<1>4. CASE rows'[j] = Older(rows[j]) \/ (rows[j].status = "permanent" /\ rows'[j] = Drained(rows[j]))
  BY <1>4, OtherFields
<1>5. CASE Refreshed(j)
  BY <1>5 DEF Refreshed
<1> QED
  BY <1>1, <1>2, <1>3, <1>4, <1>5 DEF RowStep

\* One active row per key is kept: the insert found none.
LEMMA UniqueKept ==
    ASSUME IInv, ParkedIsVisible, OneActivePerKey, \A j \in Job : RowStep(j)
    PROVE  OneActivePerKey'
<1> SUFFICES ASSUME NEW j \in Job, NEW k \in Job, IsActive(j)', IsActive(k)',
                    KeyOf[j] = KeyOf[k]
             PROVE  j = k
  BY DEF OneActivePerKey
<1>1. /\ IsActive(j) \/ Inserted(j)
      /\ IsActive(k) \/ Inserted(k)
  BY OnlyInsertActivates
<1>2. CASE IsActive(j) /\ IsActive(k)
  BY <1>2 DEF OneActivePerKey
<1>3. ASSUME NEW l \in Job, NEW m \in Job, Inserted(l), IsActive(m)', KeyOf[l] = KeyOf[m]
      PROVE  l = m
  <2>1. ~IsActive(m)
    BY <1>3 DEF Inserted, ActiveWithKey
  <2>2. m # l => rows'[m] = rows[m]
    BY <1>3 DEF Inserted, IInv, Typed, TypeOK
  <2> QED
    BY <1>3, <2>1, <2>2 DEF IsActive
<1> QED
  BY <1>1, <1>2, <1>3

RowInv == IInv /\ ParkedIsVisible /\ OneActivePerKey

\* The invariant of the exclusion proofs, extended by the two facts about rows.
THEOREM RowInvariant == Spec => []RowInv
<1>1. Init => RowInv
  <2>1. Init => \A j \in Job : ~IsActive(j)
    BY DEF Init, AbsentRow, IsActive, Active, Queued
  <2> QED
    BY <2>1, InitIInv DEF RowInv, ParkedIsVisible, OneActivePerKey
<1>2. RowInv /\ [Next]_vars => RowInv'
  BY NextKeeps, RowSteps, VisibleKept, UniqueKept DEF RowInv
<1> QED
  BY <1>1, <1>2, PTL DEF Spec

\* A parked row is pending and unleased: the wake-up query sees it.
THEOREM ParkedSeen == Spec => []ParkedIsVisible
<1>1. RowInv => ParkedIsVisible
  BY DEF RowInv
<1> QED
  BY <1>1, RowInvariant, PTL

\* No two active rows share a dedupe key.
THEOREM ActiveUnique == Spec => []OneActivePerKey
<1>1. RowInv => OneActivePerKey
  BY DEF RowInv
<1> QED
  BY <1>1, RowInvariant, PTL

-----------------------------------------------------------------------------
(* The action properties.                                                  *)

\* The row relations behind the three action properties.
Kept(j)  == rows[j].status \in Terminal =>
                rows'[j].status = rows[j].status /\ rows'[j].reason = rows[j].reason
Held(j)  == rows[j].status = "retryable" /\ rows[j].due > 0 =>
                \/ rows'[j].status \in Terminal
                \/ rows'[j].status = "retryable" /\ rows'[j].due >= rows[j].due - 1
Resumable(j) == IsActive(j) /\ rows'[j].status \in Active /\ rows'[j].ckpt # rows[j].ckpt =>
                    Moved(j)

\* Every row step settles once, holds the backoff and keeps the checkpoint.
LEMMA RowPromises ==
    ASSUME IInv, ParkedIsVisible, NEW j \in Job, RowStep(j)
    PROVE  Kept(j) /\ Held(j) /\ Resumable(j)
<1> USE DEF IsActive, Active, Queued, Terminal, Kept, Held, Resumable
<1>0. rows[j].due \in Int /\ rows[j].ckpt \in Nat
  BY DEF IInv, Typed, TypeOK, Row
<1>1. CASE rows'[j] = rows[j]
  BY <1>0, <1>1
<1>2. CASE Inserted(j)
  BY <1>2 DEF Inserted
<1>3. CASE Advanced(j)
  BY <1>0, <1>3, AdvancedFields
<1>4. CASE Settled(j)
  BY <1>4, SettledFields
<1>5. CASE rows[j].status = "permanent" /\ rows'[j] = Drained(rows[j])
  BY <1>5, OtherFields
<1>6. CASE rows'[j] = Older(rows[j])
  BY <1>0, <1>6, OtherFields
<1>7. CASE Refreshed(j)
  BY <1>0, <1>7 DEF Refreshed, Moved
<1> QED
  BY <1>1, <1>2, <1>3, <1>4, <1>5, <1>6, <1>7 DEF RowStep

\* The first settlement of a row is final, whoever writes next.
THEOREM SettlementFinal == Spec => FirstSettlementWins
<1>1. RowInv /\ [Next]_vars =>
          [\A j \in Job : rows[j].status \in Terminal =>
               rows'[j].status = rows[j].status /\ rows'[j].reason = rows[j].reason]_vars
  BY RowSteps, RowPromises DEF RowInv, Kept
<1> QED
  BY <1>1, RowInvariant, PTL DEF Spec, FirstSettlementWins

\* Until its backoff is over a retry is neither started nor parked.
THEOREM BackoffKept == Spec => BackoffHeld
<1>1. RowInv /\ [Next]_vars =>
          [\A j \in Job : rows[j].status = "retryable" /\ rows[j].due > 0 =>
               \/ rows'[j].status \in Terminal
               \/ rows'[j].status = "retryable" /\ rows'[j].due >= rows[j].due - 1]_vars
  BY RowSteps, RowPromises DEF RowInv, Held
<1> QED
  BY <1>1, RowInvariant, PTL DEF Spec, BackoffHeld

\* Only the execution whose token a row carries moves its checkpoint, and only
\* while the row runs: no write of a dead or superseded execution reaches it.
THEOREM CheckpointKept == Spec => ProgressKept
<1>1. RowInv /\ [Next]_vars =>
          [\A j \in Job :
               IsActive(j) /\ rows'[j].status \in Active /\ rows'[j].ckpt # rows[j].ckpt =>
                   /\ rows[j].status = "running"
                   /\ \/ \E i \in Inv : /\ Executing(i) /\ inv[i].job = j /\ rows[j].token = i
                                        /\ inv'[i].pc = "redispatch"
                      \/ \E w \in writes \ writes' :
                             w.job = j /\ w.token = rows[j].token]_vars
  BY RowSteps, RowPromises DEF RowInv, Resumable, Moved
<1> QED
  BY <1>1, RowInvariant, PTL DEF Spec, ProgressKept

-----------------------------------------------------------------------------
(* Part 3: the initial states map to the abstract one, and every step maps *)
(* to one abstract step or to none.                                        *)

-----------------------------------------------------------------------------
(* The refinement mapping, job by job and slot by slot.                    *)

\* The life of a job, now and in the next state, from its row alone.
LEMMA LifeParts ==
    /\ \A j \in Job : Life[j] = "absent" <=> rows[j].status = "absent"
    /\ \A j \in Job : Life[j] = "open" <=> IsActive(j)
    /\ \A j \in Job : (Life[j] = "absent")' <=> rows'[j].status = "absent"
    /\ \A j \in Job : (Life[j] = "open")' <=> IsActive(j)'
    /\ \A j \in Job : Life[j] \in {"absent", "open", "closed"} /\ Life'[j] \in {"absent", "open", "closed"}
    /\ Life = [j \in Job |-> Life[j]] /\ Life' = [j \in Job |-> Life'[j]]
  BY DEF Life, IsActive, Active, Queued

\* The work of a slot, now and in the next state.
LEMMA WorkParts ==
    /\ \A i \in Inv : Executing(i) => Working[i] = [job |-> inv[i].job, site |-> inv[i].site]
    /\ \A i \in Inv : ~Executing(i) => Working[i] = NULL
    /\ \A i \in Inv : Executing(i)' => Working'[i] = [job |-> inv'[i].job, site |-> inv'[i].site]
    /\ \A i \in Inv : ~Executing(i)' => Working'[i] = NULL
    /\ Working = [i \in Inv |-> Working[i]] /\ Working' = [i \in Inv |-> Working'[i]]
  BY DEF Working, Executing

\* Work is the same when the executing slots and what they work on are.
LEMMA SameWorking ==
    ASSUME \A i \in Inv : /\ Executing(i)' <=> Executing(i)
                          /\ Executing(i) => inv'[i].job = inv[i].job /\ inv'[i].site = inv[i].site
    PROVE  Working' = Working
  BY DEF Working

\* A slot that leaves its execution is the only one whose work changes.
LEMMA StoppedWorking ==
    ASSUME NEW i \in Inv, Executing(i), ~Executing(i)',
           \A k \in Inv \ {i} : inv'[k] = inv[k]
    PROVE  Working' = [Working EXCEPT ![i] = NULL]
<1>1. \A k \in Inv \ {i} : Working'[k] = Working[k]
  BY DEF Working, Executing
<1> QED
  BY <1>1, WorkParts

\* Jobs keep their lives when no row is inserted and none settles.
LEMMA SameLife ==
    ASSUME \A j \in Job : /\ rows'[j].status = "absent" <=> rows[j].status = "absent"
                          /\ IsActive(j)' <=> IsActive(j)
    PROVE  Life' = Life
  BY DEF Life

\* Rows that turn from active to terminal close, the others stay.
LEMMA ClosedLife ==
    ASSUME NEW js \in SUBSET Job,
           \A j \in Job \ js : rows'[j] = rows[j],
           \A j \in js : IsActive(j) /\ rows'[j].status \in Terminal
    PROVE  /\ \A j \in js : Life[j] = "open"
           /\ Life' = [j \in Job |-> IF j \in js THEN "closed" ELSE Life[j]]
<1>1. \A j \in Job \ js : Life'[j] = Life[j]
  BY DEF Life, IsActive
<1>2. \A j \in js : Life[j] = "open" /\ Life'[j] = "closed"
  BY DEF Life, IsActive, Active, Queued, Terminal
<1> QED
  BY <1>1, <1>2, LifeParts

-----------------------------------------------------------------------------
(* The abstract steps.                                                     *)

\* What a slot works on is a piece of work, and not NULL.
LEMMA WorkType ==
    ASSUME IInv, NEW i \in Inv, Executing(i)
    PROVE  /\ Working[i] \in Abs!Work /\ Working[i] # NULL
           /\ Working[i].job = inv[i].job /\ Working[i].site = inv[i].site
<1>1. inv[i].job \in Job /\ inv[i].site \in Sites \union {NULL}
  BY DEF IInv, Typed, TypeOK, Assigned, Executing, Invocation
<1>2. [job |-> inv[i].job, site |-> inv[i].site] \in [job : Job, site : Sites \union {NULL}]
  BY <1>1
<1> QED
  BY <1>2, WorkParts, NullAssumption DEF Abs!Work

\* A slot stops, and no job opens or closes.
LEMMA StopStep ==
    ASSUME IInv, NEW i \in Inv, Executing(i), ~Executing(i)',
           \A k \in Inv \ {i} : inv'[k] = inv[k], Life' = Life
    PROVE  Abs!Next
<1>1. Abs!Stop(i)
  BY WorkType, StoppedWorking DEF Abs!Stop
<1> QED
  BY <1>1 DEF Abs!Next

\* Active rows settle from outside, and no slot starts or stops.
LEMMA CloseStep ==
    ASSUME NEW js \in SUBSET Job, Working' = Working,
           \A j \in Job \ js : rows'[j] = rows[j],
           \A j \in js : IsActive(j) /\ rows'[j].status \in Terminal
    PROVE  Abs!Next
<1>1. Abs!Close(js)
  BY ClosedLife DEF Abs!Close
<1> QED
  BY <1>1 DEF Abs!Next

\* A slot settles its own row.
LEMMA FinishStep ==
    ASSUME IInv, NEW i \in Inv, NEW j \in Job, Executing(i), ~Executing(i)', j = inv[i].job,
           \A k \in Inv \ {i} : inv'[k] = inv[k],
           \A k \in Job \ {j} : rows'[k] = rows[k],
           IsActive(j), rows'[j].status \in Terminal
    PROVE  Abs!Next
<1>1. Life[j] = "open" /\ Life' = [k \in Job |-> IF k \in {j} THEN "closed" ELSE Life[k]]
  <2>1. /\ {j} \in SUBSET Job
        /\ \A k \in {j} : IsActive(k) /\ rows'[k].status \in Terminal
    OBVIOUS
  <2>2. j \in {j}
    OBVIOUS
  <2> QED
    BY <2>1, <2>2, ClosedLife
<1>2. Life' = [Life EXCEPT ![j] = "closed"]
  BY <1>1, LifeParts
<1>3. Abs!Finish(i)
  BY <1>1, <1>2, WorkType, StoppedWorking DEF Abs!Finish
<1> QED
  BY <1>3 DEF Abs!Next

\* A fresh row opens its job; a re-sent one changes nothing.
LEMMA DispatchStep ==
    ASSUME IInv, NEW j \in Job, Dispatch(j), Working' = Working
    PROVE  Abs!Next \/ UNCHANGED Abs!absVars
<1> USE DEF IInv, Typed, TypeOK
<1>1. CASE UNCHANGED rows
  <2>1. Life' = Life
    BY <1>1 DEF Life, IsActive
  <2> QED
    BY <2>1 DEF Abs!absVars
<1>2. CASE Fresh(j) /\ rows' = [rows EXCEPT ![j] = FreshRow]
  <2>1. rows[j].status = "absent"
    BY <1>2, JobAssumption DEF Fresh
  <2>2. FreshRow.status = "pending"
    BY DEF FreshRow, AbsentRow
  <2>3. rows'[j].status = "pending" /\ \A k \in Job \ {j} : rows'[k] = rows[k]
    BY <1>2, <2>2
  <2>4. Life[j] = "absent" /\ Life'[j] = "open"
    BY <2>1, <2>3 DEF Life, IsActive, Active, Queued
  <2>5. \A k \in Job \ {j} : Life'[k] = Life[k]
    BY <2>3 DEF Life, IsActive
  <2>6. Abs!Open(j)
    BY <2>4, <2>5, LifeParts DEF Abs!Open
  <2> QED
    BY <2>6 DEF Abs!Next
<1> QED
  BY <1>1, <1>2 DEF Dispatch

\* A claim starts work: the row is open and nothing that executes forbids it,
\* because every executing slot is an owner the claim statement looked at.
LEMMA ClaimStep ==
    ASSUME IInv, NEW i \in Inv, Claim(i)
    PROVE  Abs!Next
<1> USE DEF IInv, Typed, TypeOK
<1>1. inv[i].pc = "claim" /\ Claimable(i) /\ ~Executing(i)
  BY DEF Claim, Executing
<1>2. PICK j \in Job : j = inv[i].job
  BY <1>1 DEF Assigned
<1>3. PICK s \in Sites \union {NULL} : s = inv[i].site
  BY DEF Invocation
<1>4. /\ rows[j].due <= 0 /\ ~Blocked(j, s) /\ IsActive(j) /\ rows[j] \in Row
  BY <1>1, <1>2, <1>3 DEF Claimable, IsActive, Active, Queued
<1> DEFINE w == [job |-> j, site |-> s]
<1>5. w \in Abs!Work /\ w # NULL /\ w.job = j /\ w.site = s
  <2>1. w \in [job : Job, site : Sites \union {NULL}]
    OBVIOUS
  <2> QED
    BY <2>1, NullAssumption DEF Abs!Work
<1>6. /\ inv' = [inv EXCEPT ![i].pc = "exec", ![i].wall = Wall]
      /\ rows' = [rows EXCEPT ![j] = Started(rows[j], j, i, s)]
  BY <1>2, <1>3 DEF Claim
<1>7. /\ inv'[i].pc = "exec" /\ inv'[i].job = j /\ inv'[i].site = s
      /\ \A k \in Inv \ {i} : inv'[k] = inv[k]
  BY <1>2, <1>3, <1>6 DEF Invocation
<1>8. Working[i] = NULL /\ Working' = [Working EXCEPT ![i] = w]
  <2>1. Working[i] = NULL /\ Working'[i] = w
    BY <1>1, <1>7, WorkParts DEF Executing
  <2>2. \A k \in Inv \ {i} : Working'[k] = Working[k]
    BY <1>7 DEF Working, Executing
  <2> HIDE DEF w
  <2> QED
    BY <2>1, <2>2, WorkParts
<1>9. Life' = Life
  <2>1. rows'[j].status = "running" /\ \A k \in Job \ {j} : rows'[k] = rows[k]
    BY <1>3, <1>4, <1>6, StartedType
  <2> QED
    BY <1>4, <2>1, SameLife DEF IsActive, Active, Queued
<1>10. ASSUME NEW k \in Inv \ {i}, Working[k] # NULL
       PROVE  Abs!Compatible(w, Working[k])
  <2>1. Executing(k)
    BY <1>10, WorkParts
  <2>2. PICK o \in Job : o = inv[k].job
    BY <2>1 DEF Assigned, Executing
  <2>3. /\ Working[k].job = o /\ Working[k].site = inv[k].site
        /\ rows[o].site = inv[k].site
        /\ rows[o].token = k /\ rows[o].due > 0
        /\ rows[o].status \in {"running", "permanent"}
    BY <2>1, <2>2, WorkType, LiveRow
  <2>4. o # j /\ Owner(o)
    BY <1>4, <2>3, InvAssumption DEF Owner, Row
  <2>5. ~SameWork(o, j) /\ (s # NULL /\ KindOf[o] \in Acquisition => rows[o].site # s)
    BY <1>4, <2>4 DEF Blocked
  <2>6. ~SameWork(j, o)
    BY <2>5 DEF SameWork
  <2>7. s = NULL \/ s # Working[k].site
    BY <2>1, <2>2, <2>3, <2>5 DEF SitesOfAcquisitions, Executing
  <2> HIDE DEF w
  <2> QED
    BY <1>5, <2>3, <2>4, <2>6, <2>7 DEF Abs!Compatible
<1>11. Life[w.job] = "open"
  BY <1>4, <1>5, LifeParts
<1> HIDE DEF w
<1>12. Abs!Start(i, w)
  BY <1>8, <1>9, <1>10, <1>11 DEF Abs!Start
<1> QED
  BY <1>5, <1>12 DEF Abs!Next

-----------------------------------------------------------------------------
(* Every step maps to an abstract step or to a stutter.                    *)

\* Steps of one invocation.
LEMMA ConsumeStep ==
    ASSUME IInv, NEW i \in Inv, Consume(i)
    PROVE  Abs!Next \/ UNCHANGED Abs!absVars
<1> USE DEF IInv, Typed, TypeOK
<1>1. inv[i].pc # "idle" => inv[i].job \in Job
  BY DEF Assigned
<1>2. Idle.pc = "idle"
  BY DEF Idle
<1>3. CASE Claim(i)
  BY <1>3, ClaimStep
<1>4. CASE ClaimBusy(i)
  <2>1. Working' = Working /\ Life' = Life
    BY <1>4 DEF ClaimBusy, Become, Working, Executing, Life, IsActive, Invocation
  <2> QED
    BY <2>1 DEF Abs!absVars
<1>5. CASE ParkAdmission(i)
  <2>1. Working' = Working
    BY <1>2, <1>5 DEF ParkAdmission, Leave, Working, Executing
  <2>2. \A j \in Job : rows'[j] # rows[j] => IsActive(j) /\ rows'[j].status = "pending"
    <3>1. ASSUME NEW j \in Job, j = inv[i].job
          PROVE  Parked(rows[j], j, inv[i].site).status = "pending"
      BY ParkedType DEF Invocation
    <3> QED
      BY <1>1, <1>5, <3>1 DEF ParkAdmission, Parkable
  <2>3. Life' = Life
    BY <2>2, SameLife DEF IsActive, Active, Queued
  <2> QED
    BY <2>1, <2>3 DEF Abs!absVars
<1>6. ASSUME NEW st \in Outcomes, MarkTerminal(i, st) PROVE Abs!Next
  <2>1. PICK j \in Job : j = inv[i].job
    BY <1>1, <1>6 DEF MarkTerminal
  <2>2. rows'[j] = Closed(rows[j], st, "none") /\ \A k \in Job \ {j} : rows'[k] = rows[k]
    BY <1>6, <2>1 DEF MarkTerminal
  <2>3. rows'[j].status \in Terminal
    BY <2>2, ClosedType, OutcomeAssumption
  <2>4. /\ Executing(i) /\ ~Executing(i)' /\ \A k \in Inv \ {i} : inv'[k] = inv[k]
        /\ IsActive(j)
    BY <1>2, <1>6, <2>1 DEF MarkTerminal, Leave, Executing, Holds, IsActive, Active, Queued
  <2> QED
    BY <2>1, <2>2, <2>3, <2>4, FinishStep
<1>7. CASE YieldForContinuation(i) \/ RecordAttempt(i) \/ RecordLastAttempt(i)
  <2>1. PICK j \in Job : j = inv[i].job
    BY <1>1, <1>7 DEF YieldForContinuation, RecordAttempt, RecordLastAttempt
  <2>2. /\ Executing(i) /\ ~Executing(i)' /\ \A k \in Inv \ {i} : inv'[k] = inv[k]
    BY <1>2, <1>7 DEF YieldForContinuation, RecordAttempt, RecordLastAttempt, Become, Leave,
       Executing, Invocation
  <2>3. /\ IsActive(j) /\ rows'[j].status \in Queued
        /\ \A k \in Job \ {j} : rows'[k] = rows[k]
    <3>1. \A c \in Cursor : Yielded(rows[j], c).status = "pending"
      BY YieldedType
    <3>2. Failed(rows[j], Hold).status = "retryable" /\ Failed(rows[j], 0).status = "retryable"
      BY FailedType, TimeAssumption
    <3> QED
      BY <1>7, <2>1, <3>1, <3>2 DEF YieldForContinuation, RecordAttempt, RecordLastAttempt,
         IsActive, Active, Queued
  <2>4. Life' = Life
    BY <2>3, SameLife DEF IsActive, Active, Queued
  <2> QED
    BY <2>2, <2>4, StopStep
<1>8. CASE EnqueuePlan(i)
  <2>1. Working' = Working
    BY <1>2, <1>8 DEF EnqueuePlan, Leave, Working, Executing
  <2>2. CASE UNCHANGED rows
    <3>1. Life' = Life
      BY <2>2 DEF Life, IsActive
    <3> QED
      BY <2>1, <3>1 DEF Abs!absVars
  <2>3. CASE \E k \in Job : Dispatch(k)
    BY <2>1, <2>3, DispatchStep
  <2> QED
    BY <1>8, <2>2, <2>3 DEF EnqueuePlan
<1>9. CASE ExhaustRetries(i)
  <2>1. PICK j \in Job : j = inv[i].job
    BY <1>1, <1>9 DEF ExhaustRetries
  <2>2. Working' = Working
    BY <1>2, <1>9 DEF ExhaustRetries, Leave, Working, Executing
  <2>3. rows'[j] = Closed(rows[j], "permanent", "none") /\ \A k \in Job \ {j} : rows'[k] = rows[k]
    BY <1>9, <2>1 DEF ExhaustRetries
  <2>4. rows'[j].status \in Terminal /\ IsActive(j)
    BY <1>9, <2>1, <2>3, ClosedType DEF ExhaustRetries, Holds, Terminal, IsActive, Active, Queued
  <2>5. {j} \in SUBSET Job /\ \A k \in {j} : IsActive(k) /\ rows'[k].status \in Terminal
    BY <2>4
  <2> QED
    BY <2>2, <2>3, <2>5, CloseStep
<1>10. CASE SettleUserCancel(i)
  <2>1. PICK j \in Job : j = inv[i].job
    BY <1>1, <1>10 DEF SettleUserCancel
  <2>2. \A k \in Job : rows'[k].status = rows[k].status
    <3>1. Drained(rows[j]).status = rows[j].status
      BY DrainedType
    <3> QED
      BY <1>10, <2>1, <3>1 DEF SettleUserCancel
  <2>3. Life' = Life
    BY <2>2 DEF Life, IsActive
  <2>4. ~Executing(i)' /\ \A k \in Inv \ {i} : inv'[k] = inv[k]
    BY <1>2, <1>10 DEF SettleUserCancel, Leave, Executing
  <2>5. CASE Executing(i)
    BY <2>3, <2>4, <2>5, StopStep
  <2>6. CASE ~Executing(i)
    <3>1. Working' = Working
      BY <2>4, <2>6 DEF Working, Executing
    <3> QED
      BY <2>3, <3>1 DEF Abs!absVars
  <2> QED
    BY <2>5, <2>6
<1> QED
  BY <1>3, <1>4, <1>5, <1>6, <1>7, <1>8, <1>9, <1>10 DEF Consume

\* Steps of the cron.
LEMMA CronStep ==
    ASSUME IInv, Cron
    PROVE  Abs!Next \/ UNCHANGED Abs!absVars
<1> USE DEF IInv, Typed, TypeOK
<1>1. PICK j \in Job : WakeWaiting(j) \/ ReapOne(j)
  BY DEF Cron
<1>2. Working' = Working
  BY <1>1 DEF WakeWaiting, ReapOne, Working, Executing
<1>3. \A k \in Job \ {j} : rows'[k] = rows[k]
  BY <1>1 DEF WakeWaiting, ReapOne
<1>4. CASE WakeWaiting(j)
  <2>1. rows'[j].status = rows[j].status
    BY <1>4, WokenType DEF WakeWaiting
  <2>2. Life' = Life
    BY <1>3, <2>1 DEF Life, IsActive
  <2> QED
    BY <1>2, <2>2 DEF Abs!absVars
<1>5. CASE ReapOne(j) /\ rows' = [rows EXCEPT ![j] = Closed(rows[j], "permanent", "none")]
  <2>1. IsActive(j) /\ rows'[j].status \in Terminal
    BY <1>5, ClosedType DEF ReapOne, Stuck, Terminal
  <2>2. {j} \in SUBSET Job /\ \A k \in {j} : IsActive(k) /\ rows'[k].status \in Terminal
    BY <2>1
  <2> QED
    BY <1>2, <1>3, <2>2, CloseStep
<1>6. CASE ReapOne(j) /\ rows' = [rows EXCEPT ![j] = Requeued(rows[j])]
  <2>1. IsActive(j) /\ rows[j] \in Row
    BY <1>6 DEF ReapOne, Stuck
  <2>2. rows'[j].status \in Active
    BY <1>6, <2>1 DEF Requeued, Row, IsActive, Active, Queued
  <2>3. Life' = Life
    BY <1>3, <2>1, <2>2, SameLife DEF IsActive, Active, Queued
  <2> QED
    BY <1>2, <2>3 DEF Abs!absVars
<1> QED
  BY <1>1, <1>4, <1>5, <1>6 DEF ReapOne

\* Steps of the operator.
LEMMA OperatorStep ==
    ASSUME IInv, Operator
    PROVE  Abs!Next \/ UNCHANGED Abs!absVars
<1> USE DEF IInv, Typed, TypeOK
<1>1. ASSUME NEW js \in SUBSET Job, CancelPending(js) PROVE Abs!Next
  <2> DEFINE ks == {j \in js : rows[j].status \in Queued}
  <2>1. Working' = Working
    BY <1>1 DEF CancelPending, Working, Executing
  <2>2. \A j \in Job \ ks : rows'[j] = rows[j]
    BY <1>1 DEF CancelPending
  <2>3. ASSUME NEW j \in ks PROVE IsActive(j) /\ rows'[j].status \in Terminal
    <3>1. rows'[j] = [Closed(rows[j], "permanent", "removed") EXCEPT !.waiting = FALSE]
      BY <1>1, <2>3 DEF CancelPending
    <3>2. /\ Closed(rows[j], "permanent", "removed") \in Row
          /\ Closed(rows[j], "permanent", "removed").status = "permanent"
      BY ClosedType DEF Terminal
    <3> QED
      BY <3>1, <3>2 DEF Row, Terminal, IsActive, Active
  <2>4. ks \in SUBSET Job
    OBVIOUS
  <2> HIDE DEF ks
  <2> QED
    BY <2>1, <2>2, <2>3, <2>4, CloseStep
<1>2. ASSUME NEW j \in Job, CancelRunning(j) PROVE Abs!Next
  <2>1. Working' = Working
    BY <1>2 DEF CancelRunning, Working, Executing
  <2>2. /\ {j} \in SUBSET Job /\ \A k \in Job \ {j} : rows'[k] = rows[k]
        /\ rows'[j] = Cancelled(rows[j])
    BY <1>2 DEF CancelRunning
  <2>3. \A k \in {j} : IsActive(k) /\ rows'[k].status \in Terminal
    BY <1>2, <2>2, CancelledType DEF CancelRunning, IsActive, Active, Terminal
  <2> QED
    BY <2>1, <2>2, <2>3, CloseStep
<1>3. CASE RestorePendingTasks
  BY <1>3 DEF RestorePendingTasks, Abs!absVars, Life, Working, IsActive, Executing
<1> QED
  BY <1>1, <1>2, <1>3 DEF Operator

\* A delivery, a checkpoint, a fault and the passage of time open and close
\* nothing; a fault may stop a slot.
LEMMA PlatformStep ==
    ASSUME IInv, \/ \E i \in Inv, j \in Job : Deliver(i, j)
                 \/ \E i \in Inv : Crash(i)
                 \/ \E j \in Job : LoseEnvelope(j)
                 \/ \E i \in Inv, c \in Cursor : SaveCheckpoint(i, c)
                 \/ \E w \in writes : LandCheckpoint(w)
                 \/ Tick
    PROVE  Abs!Next \/ UNCHANGED Abs!absVars
<1> USE DEF IInv, Typed, TypeOK
<1>1. ASSUME NEW i \in Inv, NEW j \in Job, Deliver(i, j) PROVE UNCHANGED Abs!absVars
  <2>1. /\ inv[i].pc = "idle" /\ rows' = rows /\ \A k \in Inv \ {i} : inv'[k] = inv[k]
        /\ inv'[i].pc \in {"idle", "claim"}
    BY <1>1 DEF Deliver
  <2>2. Working' = Working /\ Life' = Life
    BY <2>1 DEF Working, Life, IsActive, Executing
  <2> QED
    BY <2>2 DEF Abs!absVars
<1>2. ASSUME NEW i \in Inv, Crash(i) PROVE Abs!Next \/ UNCHANGED Abs!absVars
  <2>1. /\ rows' = rows /\ \A k \in Inv \ {i} : inv'[k] = inv[k]
        /\ ~Executing(i)'
    BY <1>2 DEF Crash, Leave, Idle, Executing
  <2>2. Life' = Life
    BY <2>1 DEF Life, IsActive
  <2>3. CASE Executing(i)
    BY <2>1, <2>2, <2>3, StopStep
  <2>4. CASE ~Executing(i)
    <3>1. Working' = Working
      BY <2>1, <2>4 DEF Working, Executing
    <3> QED
      BY <2>2, <3>1 DEF Abs!absVars
  <2> QED
    BY <2>3, <2>4
<1>3. ASSUME NEW j \in Job, LoseEnvelope(j) PROVE UNCHANGED Abs!absVars
  BY <1>3 DEF LoseEnvelope, Abs!absVars, Life, Working, IsActive, Executing
<1>4. CASE Tick
  <2>1. \A j \in Job : rows'[j].status = rows[j].status
    <3> SUFFICES ASSUME NEW j \in Job PROVE rows'[j].status = rows[j].status
      OBVIOUS
    <3>1. rows'[j] \in {rows[j], Older(rows[j])}
      BY <1>4 DEF Tick, Older
    <3>2. Older(rows[j]).status = rows[j].status
      BY DEF Older, Row
    <3> QED
      BY <3>1, <3>2
  <2>2. Life' = Life
    BY <2>1 DEF Life, IsActive
  <2>3. \A i \in Inv : inv'[i].pc = inv[i].pc /\ inv'[i].job = inv[i].job /\ inv'[i].site = inv[i].site
    BY <1>4 DEF Tick, Invocation
  <2>4. Working' = Working
    BY <2>3 DEF Working, Executing
  <2> QED
    BY <2>2, <2>4 DEF Abs!absVars
<1>5. ASSUME NEW i \in Inv, NEW c \in Cursor, SaveCheckpoint(i, c) PROVE UNCHANGED Abs!absVars
  BY <1>5 DEF SaveCheckpoint, Abs!absVars, Life, Working, IsActive, Executing
<1>6. ASSUME NEW w \in writes, LandCheckpoint(w) PROVE UNCHANGED Abs!absVars
  <2>1. \A j \in Job : rows'[j].status = rows[j].status
    BY <1>6, SavedRows DEF LandCheckpoint
  <2>2. Life' = Life
    BY <2>1 DEF Life, IsActive
  <2>3. Working' = Working
    BY <1>6 DEF LandCheckpoint, Working, Executing
  <2> QED
    BY <2>2, <2>3 DEF Abs!absVars
<1> QED
  BY <1>1, <1>2, <1>3, <1>4, <1>5, <1>6

\* Every step of the ledger is a step of the abstract specification or none.
LEMMA StepImplements == IInv /\ [Next]_vars => [Abs!Next]_Abs!absVars
<1> SUFFICES ASSUME IInv, [Next]_vars PROVE Abs!Next \/ UNCHANGED Abs!absVars
  OBVIOUS
<1>1. CASE UNCHANGED vars
  BY <1>1 DEF vars, Abs!absVars, Life, Working, IsActive, Executing
<1>2. ASSUME NEW j \in Job, EnqueueBatch(j) PROVE Abs!Next \/ UNCHANGED Abs!absVars
  <2>1. Working' = Working
    BY <1>2 DEF EnqueueBatch, Working, Executing
  <2> QED
    BY <1>2, <2>1, DispatchStep DEF EnqueueBatch
<1>3. ASSUME NEW j \in Job, SettleSkipped(j) PROVE Abs!Next
  <2>1. Working' = Working
    BY <1>3 DEF SettleSkipped, Working, Executing
  <2>2. /\ {j} \in SUBSET Job /\ \A k \in Job \ {j} : rows'[k] = rows[k]
        /\ rows'[j] = Closed(rows[j], "partial", "none") /\ IsActive(j) /\ rows[j] \in Row
    BY <1>3 DEF SettleSkipped, IInv, Typed, TypeOK, IsActive, Active
  <2>3. \A k \in {j} : IsActive(k) /\ rows'[k].status \in Terminal
    BY <2>2, ClosedType DEF Terminal
  <2> QED
    BY <2>1, <2>2, <2>3, CloseStep
<1> QED
  BY <1>1, <1>2, <1>3, ConsumeStep, CronStep, OperatorStep, PlatformStep DEF Next

\* Rows, tokens, leases, redelivery, cancellation and the reaper implement
\* exclusive work on jobs that open once and close once.
THEOREM Implements == Spec => ImplementsExclusion
<1>1. Init => Abs!Init
  <2> SUFFICES ASSUME Init PROVE Life = [j \in Job |-> "absent"] /\ Working = [i \in Inv |-> NULL]
    BY DEF Abs!Init
  <2>1. (\A j \in Job : rows[j].status = "absent") /\ (\A i \in Inv : ~Executing(i))
    BY DEF Init, AbsentRow, Idle, Executing
  <2>2. Life = [j \in Job |-> "absent"]
    BY <2>1, LifeParts
  <2>3. Working = [i \in Inv |-> NULL]
    BY <2>1, WorkParts
  <2> QED
    BY <2>2, <2>3
<1>2. IInv /\ [Next]_vars => [Abs!Next]_Abs!absVars
  BY StepImplements
<1> QED
  BY <1>1, <1>2, Invariant, PTL DEF Spec, ImplementsExclusion, Abs!Spec
=============================================================================
