---------------------------- MODULE UpdatePlanner ----------------------------
(***************************************************************************)
(* The Worker's auto-update planner (worker_entry/src/scheduler.rs) over    *)
(* its checkpoint row in D1 (worker_entry/src/ledger.rs, the transitions of *)
(* src/application/jobs.rs).  Cron starts a probe every minute.  A probe    *)
(* claims the running generation, or opens a new one when a scheduled time  *)
(* has passed, sends one page of update jobs and saves the moved cursor,    *)
(* each by a conditional write of the one row.                              *)
(*                                                                          *)
(* Every await on D1 or a queue is a step of its own.  Time is relative:    *)
(* `lease' is what is left of the stored lease, `age' how long ago a probe  *)
(* read its clock; a scheduled time is counted when it passes.              *)
(*                                                                         *)
(* A definition marked MUTANT is a plausible mistake in the one that       *)
(* follows it; the specification does not use it.                          *)
(***************************************************************************)
EXTENDS Integers, FiniteSets, Sequences, SequencesExt

CONSTANTS
  Novel,       \* ids the library may hold
  Allowed,     \* those whose site allows automatic updates
  Probe,       \* cron invocations that may be under way at once
  PageSize,    \* AUTO_UPDATE_PAGE_SIZE
  NoToken,     \* the token of a row nobody owns
  Lease,       \* ticks a planner lease lasts
  MaxSlots,    \* bound: scheduled times that pass
  MaxFaults,   \* bound: crashes, failed calls, ticks a planner works through
  MaxChanges   \* bound: edits of the library and of the settings

ASSUME PlannerAssumption ==
  /\ Novel \subseteq Nat \ {0} /\ IsFiniteSet(Novel) /\ Allowed \subseteq Novel
  /\ NoToken \notin Probe
  /\ PageSize \in Nat \ {0} /\ Lease \in Nat \ {0}
  /\ MaxSlots \in Nat /\ MaxFaults \in Nat /\ MaxChanges \in Nat

Keys == {"id", "sorted"}

VARIABLES
  checkpoint,  \* the stored row, the lease apart
  lease,       \* ticks left of the stored lease, negative once it is over
  probe,       \* what each invocation has read and decided
  shelf,       \* the novels in the order of the configurable sort
  frozen,      \* the novels the user froze
  sortBy,      \* update.sort-by
  slots,       \* scheduled times passed so far
  changes, faults,
  eligible,    \* novels to be updated ever since the generation was opened
  enqueued,    \* novels its planners have sent
  drift        \* the order moved while one of its pages went by offset

vars == <<checkpoint, lease, probe, shelf, frozen, sortBy, slots, changes,
          faults, eligible, enqueued, drift>>
library == <<shelf, frozen, sortBy, changes>>
ghosts == <<eligible, enqueued, drift>>

(* The checkpoint of a run that never happened: a missing row reads so.     *)
Fresh == [generation |-> 0, state |-> "done", cursor |-> 0, key |-> "id",
          lastRun |-> 0, token |-> NoToken]

Idle == [pc |-> "idle", age |-> 0, cp |-> Fresh, base |-> 0,
         key |-> "id", plans |-> {}, next |-> 0, full |-> FALSE]

-----------------------------------------------------------------------------
(* Transitions of the checkpoint.                                           *)

Due(c) == c.lastRun < slots

(* MUTANT: a lease without its end.                                      *)
LeaseHeld(p) == checkpoint.token # NoToken

LeaseActive(p) == checkpoint.token # NoToken /\ lease + probe[p].age > 0

NewGeneration(c, generation, p) ==
  [c EXCEPT !.generation = generation, !.state = "running", !.cursor = 0,
            !.key = "id", !.token = p]

Reclaimed(c, p) == [c EXCEPT !.token = p]

Advanced(c, key, cursor) == [c EXCEPT !.key = key, !.cursor = cursor]

(* MUTANT: the finished run keeps its owner.                             *)
FinishedOwned(c) ==
  [c EXCEPT !.state = "done", !.cursor = 0, !.key = "id", !.lastRun = slots]

Finished(c) ==
  [c EXCEPT !.state = "done", !.cursor = 0, !.key = "id",
            !.lastRun = slots, !.token = NoToken]

-----------------------------------------------------------------------------
(* A page of the scan.                                                      *)

Present == ToSet(shelf)

FirstIds(S) == {n \in S : Cardinality({m \in S : m <= n}) <= PageSize}

IdPage(cursor) == FirstIds({n \in Present : n > cursor})

SortedPage(cursor) ==
  {shelf[i] : i \in {j \in DOMAIN shelf : j > cursor /\ j <= cursor + PageSize}}

(* MUTANT: a cursor is used under any key.                               *)
ScanStartAnyKey(c, key) == c.cursor

ScanStart(c, key) == IF c.key = key THEN c.cursor ELSE 0

ScanPage(key, cursor) ==
  IF key = "id" THEN IdPage(cursor) ELSE SortedPage(cursor)

NextCursor(key, cursor, page) ==
  IF key = "id"
  THEN IF page = {} THEN cursor ELSE CHOOSE n \in page : \A m \in page : m <= n
  ELSE cursor + Cardinality(page)

-----------------------------------------------------------------------------
Init ==
  /\ checkpoint = Fresh /\ lease = 0
  /\ probe = [p \in Probe |-> Idle]
  /\ shelf \in {s \in SetToAllKPermutations(Novel) : s # << >>}
  /\ frozen = {} /\ sortBy \in Keys
  /\ slots = 0 /\ changes = 0 /\ faults = 0
  /\ eligible = {} /\ enqueued = {} /\ drift = FALSE

(* A planner keeps the checkpoint it claimed and forgets what it read.      *)
Planning(pc, cp) == [Idle EXCEPT !.pc = pc, !.cp = cp]

Leave(p) == probe' = [probe EXCEPT ![p] = Idle]

Fault == faults < MaxFaults /\ faults' = faults + 1

(* plan_auto_update reads the row and its clock.  A generation is opened     *)
(* only when a scheduled time has passed; a running one is read again by    *)
(* claim_running_probe, which leaves it to a live owner.                    *)
Begin(p) ==
  /\ probe[p].pc = "idle"
  /\ \/ /\ checkpoint.state = "running" /\ ~LeaseActive(p)
        /\ probe' = [probe EXCEPT ![p].pc = "reclaim",
                                  ![p].base = checkpoint.generation,
                                  ![p].cp = Reclaimed(checkpoint, p)]
     \/ /\ checkpoint.state = "done" /\ Due(checkpoint)
        /\ probe' = [probe EXCEPT ![p].pc = "open",
                                  ![p].base = checkpoint.generation]
  /\ UNCHANGED <<checkpoint, lease, library, slots, faults, ghosts>>

(* MUTANT: the generation opened is the next of what is read now.        *)
OpenLatest(p) ==
  /\ probe[p].pc = "open"
  /\ IF checkpoint.state = "done"
     THEN probe' = [probe EXCEPT ![p].pc = "claim",
                      ![p].base = checkpoint.generation,
                      ![p].cp = NewGeneration(checkpoint,
                                              checkpoint.generation + 1, p)]
     ELSE Leave(p)
  /\ UNCHANGED <<checkpoint, lease, library, slots, faults, ghosts>>

(* claim_new_generation reads it again too: it must still be the finished   *)
(* generation the schedule was decided for.                                 *)
OpenRun(p) ==
  /\ probe[p].pc = "open"
  /\ IF checkpoint.state = "done" /\ checkpoint.generation = probe[p].base
     THEN probe' = [probe EXCEPT ![p].pc = "claim",
                      ![p].cp = NewGeneration(checkpoint, probe[p].base + 1, p)]
     ELSE Leave(p)
  /\ UNCHANGED <<checkpoint, lease, library, slots, faults, ghosts>>

(* The condition of persist_claim's write, for both kinds of claim.         *)
ReclaimMatches(p) ==
  /\ checkpoint.generation = probe[p].base
  /\ checkpoint.state = "running" /\ ~LeaseActive(p)

ClaimMatches(p) ==
  checkpoint.generation = probe[p].base /\ checkpoint.state = "done"

Take(p) ==
  /\ checkpoint' = probe[p].cp
  /\ lease' = Lease - probe[p].age
  /\ probe' = [probe EXCEPT ![p] = Planning("scan", probe[p].cp)]

PersistReclaim(p) ==
  /\ probe[p].pc = "reclaim"
  /\ IF ReclaimMatches(p) THEN Take(p)
     ELSE Leave(p) /\ UNCHANGED <<checkpoint, lease>>
  /\ UNCHANGED <<library, slots, faults, ghosts>>

PersistClaim(p) ==
  /\ probe[p].pc = "claim"
  /\ IF ClaimMatches(p)
     THEN /\ Take(p)
          /\ eligible' = (Present \cap Allowed) \ frozen
          /\ enqueued' = {} /\ drift' = FALSE
     ELSE Leave(p) /\ UNCHANGED <<checkpoint, lease, ghosts>>
  /\ UNCHANGED <<library, slots, faults>>

(* plan_page takes the frozen ids and a page, from the start when the key   *)
(* is not the one the generation was paged by.  An unreadable setting scans *)
(* by id.                                                                   *)
Scanned(p, key) ==
  LET cursor == ScanStart(probe[p].cp, key)
      page == ScanPage(key, cursor)
  IN  [probe[p] EXCEPT
         !.pc = IF page = {} THEN "authors" ELSE "send",
         !.key = key, !.plans = (page \cap Allowed) \ frozen,
         !.next = NextCursor(key, cursor, page),
         !.full = Cardinality(page) = PageSize]

Scan(p) ==
  /\ probe[p].pc = "scan"
  /\ \E key \in {sortBy, "id"} :
       /\ IF key = sortBy THEN UNCHANGED faults ELSE Fault
       /\ probe' = [probe EXCEPT ![p] = Scanned(p, key)]
  /\ UNCHANGED <<checkpoint, lease, library, slots, ghosts>>

(* Jobs sent count for the generation they were planned in.                 *)
Note(p, plans) ==
  /\ enqueued' = IF probe[p].cp.generation = checkpoint.generation
                 THEN enqueued \cup plans ELSE enqueued
  /\ UNCHANGED <<eligible, drift>>

(* enqueue_batch attempts every plan; apply_page_dispatch moves the cursor  *)
(* only when all were sent.                                                 *)
Dispatched(p) ==
  Planning(IF probe[p].full THEN "save" ELSE "authors",
           Advanced(probe[p].cp, probe[p].key, probe[p].next))

Send(p) ==
  /\ probe[p].pc = "send"
  /\ Note(p, probe[p].plans)
  /\ probe' = [probe EXCEPT ![p] = Dispatched(p)]
  /\ UNCHANGED <<checkpoint, lease, library, slots, faults>>

Undispatched(p) == Idle

SendFails(p) ==
  /\ probe[p].pc = "send" /\ probe[p].plans # {} /\ Fault
  /\ \E sent \in SUBSET probe[p].plans : sent # probe[p].plans /\ Note(p, sent)
  /\ probe' = [probe EXCEPT ![p] = Undispatched(p)]
  /\ UNCHANGED <<checkpoint, lease, library, slots>>

(* The last page is followed by the author checks; only then the run is     *)
(* over, at the time it is over.                                            *)
Authors(p) ==
  /\ probe[p].pc = "authors"
  /\ probe' = [probe EXCEPT ![p] = Planning("save", Finished(@.cp))]
  /\ UNCHANGED <<checkpoint, lease, library, slots, faults, ghosts>>

(* save_owned: the write of a planner that lost the row changes nothing.    *)
Owned(p) ==
  /\ checkpoint.generation = probe[p].cp.generation
  /\ checkpoint.token = p

Save(p) ==
  /\ probe[p].pc = "save"
  /\ IF Owned(p)
     THEN checkpoint' = probe[p].cp
     ELSE UNCHANGED checkpoint
  /\ Leave(p)
  /\ UNCHANGED <<lease, library, slots, faults, ghosts>>

(* An invocation is evicted, or one of its calls fails: the row stays as it *)
(* was last written, with its lease.                                        *)
Crash(p) ==
  /\ probe[p].pc # "idle" /\ Fault /\ Leave(p)
  /\ UNCHANGED <<checkpoint, lease, library, slots, ghosts>>

-----------------------------------------------------------------------------
(* Claims are made with the clock read before them.                         *)
Claiming(p) == probe[p].pc \in {"open", "claim", "reclaim"}

(* Time.  Cron probes a minute apart and a page takes seconds: a tick that   *)
(* finds a planner at work is a fault.                                      *)
Tick ==
  /\ IF \E p \in Probe : probe[p].pc # "idle" THEN Fault ELSE UNCHANGED faults
  /\ lease' = IF lease > -MaxFaults THEN lease - 1 ELSE lease
  /\ probe' = [p \in Probe |-> IF Claiming(p) THEN [probe[p] EXCEPT !.age = @ + 1]
                               ELSE probe[p]]
  /\ UNCHANGED <<checkpoint, library, slots, ghosts>>

SlotPasses ==
  /\ slots < MaxSlots /\ slots' = slots + 1
  /\ UNCHANGED <<checkpoint, lease, probe, library, faults, ghosts>>

-----------------------------------------------------------------------------
(* The library and its settings change while planners are at work.          *)

Offsets ==
  \/ checkpoint.key = "sorted"
  \/ \E p \in Probe : "sorted" \in {probe[p].key, probe[p].cp.key}

Change == changes < MaxChanges /\ changes' = changes + 1

Reordered(s) ==
  /\ shelf' = s
  /\ drift' = (drift \/ Offsets)

AddNovel(n) ==
  /\ n \notin Present /\ Change
  /\ \E i \in 1..Len(shelf) + 1 : Reordered(InsertAt(shelf, i, n))
  /\ UNCHANGED <<frozen, sortBy, eligible>>

RemoveNovel(n) ==
  /\ Change
  /\ \E i \in DOMAIN shelf : shelf[i] = n /\ Reordered(RemoveAt(shelf, i))
  /\ eligible' = eligible \ {n}
  /\ UNCHANGED <<frozen, sortBy>>

Updated(n) ==
  /\ Change
  /\ \E i \in DOMAIN shelf \ {1} :
       shelf[i] = n /\ Reordered(<<n>> \o RemoveAt(shelf, i))
  /\ UNCHANGED <<frozen, sortBy, eligible>>

Freeze(n) ==
  /\ Change
  /\ frozen' = IF n \in frozen THEN frozen \ {n} ELSE frozen \cup {n}
  /\ eligible' = eligible \ {n}
  /\ UNCHANGED <<shelf, sortBy, drift>>

ChooseSort ==
  /\ Change /\ sortBy' \in Keys \ {sortBy}
  /\ UNCHANGED <<shelf, frozen, eligible, drift>>

Edit ==
  /\ \/ \E n \in Novel : AddNovel(n) \/ RemoveNovel(n) \/ Updated(n) \/ Freeze(n)
     \/ ChooseSort
  /\ UNCHANGED <<checkpoint, lease, probe, slots, faults, enqueued>>

-----------------------------------------------------------------------------
Step(p) ==
  \/ Begin(p) \/ OpenRun(p)
  \/ PersistReclaim(p) \/ PersistClaim(p)
  \/ Scan(p) \/ Send(p) \/ Authors(p) \/ Save(p)

Next ==
  \/ \E p \in Probe : Step(p) \/ SendFails(p) \/ Crash(p)
  \/ Tick \/ SlotPasses \/ Edit

(* Cron fires every minute and the platform runs what it started.           *)
Fairness == WF_vars(Tick) /\ \A p \in Probe : WF_vars(Step(p))

Spec == Init /\ [][Next]_vars /\ Fairness

-----------------------------------------------------------------------------
Checkpoint ==
  [generation : 0..MaxSlots, state : {"running", "done"}, cursor : Nat,
   key : Keys, lastRun : 0..MaxSlots, token : Probe \cup {NoToken}]

(* Type invariant of the planner's state, and what a token says of the row: *)
(* it names an owner exactly while a generation runs                        *)
(* (application/jobs.rs begin_with_lease, finish).                          *)
TypeOK ==
  /\ checkpoint \in Checkpoint
  /\ checkpoint.token = NoToken <=> checkpoint.state = "done"
  /\ lease \in -MaxFaults..Lease
  /\ \A p \in Probe :
       /\ probe[p].cp \in Checkpoint
       /\ probe[p].age \in 0..MaxFaults /\ probe[p].base \in 0..MaxSlots
       /\ probe[p].plans \subseteq Novel
       /\ probe[p].key \in Keys /\ probe[p].full \in BOOLEAN
       /\ probe[p].next \in Nat
  /\ Present \subseteq Novel /\ Len(shelf) = Cardinality(Present)
  /\ frozen \subseteq Novel /\ eligible \subseteq Novel /\ enqueued \subseteq Novel

(* A finished generation has sent an update for every novel that was there  *)
(* and not frozen from its opening on, whatever crashed, failed, lost its   *)
(* lease or changed meanwhile (scheduler.rs plan_page, apply_page_dispatch, *)
(* the key comparison of scan_page), unless the order itself moved under    *)
(* an offset.                                                               *)
Covered ==
  checkpoint.state = "done" /\ checkpoint.generation > 0 /\ ~drift
    => eligible \subseteq enqueued

(* However many probes decide on one scheduled time, it opens at most one   *)
(* generation (claim_new_generation, persist_claim).                        *)
OncePerSlot == checkpoint.generation <= slots

(* An opened generation is finished although planners crash, fail and are   *)
(* slow, as long as they do not for ever: its lease runs out and a later    *)
(* probe takes it up at its cursor (claim_running_probe).                   *)
GenerationEnds == checkpoint.state = "running" ~> checkpoint.state = "done"
=============================================================================
