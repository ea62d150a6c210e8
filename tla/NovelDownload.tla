--------------------------- MODULE NovelDownload ---------------------------
(***************************************************************************)
(* One novel's download and update runs (src/src/downloader/mod.rs,        *)
(* download_novel_with_execution_options), the objects they store and the  *)
(* cursor with which a Worker run continues an interrupted one             *)
(* (worker_entry/src/executor.rs, budget.rs).                              *)
(*                                                                         *)
(* A run reads the site's listing once and then fetches section after      *)
(* section; between two of its steps the author may update, rename, add or *)
(* remove sections.  A section's body is the date of the text it holds.    *)
(* On the Worker a run may yield, fail and be retried, or be killed, and   *)
(* continues from the cursor in the job's row, with the index of completed *)
(* sections (.download_resume) when the interrupted run could save it.     *)
(* Native runs have neither cursor nor index and move a replaced body to   *)
(* the history before the new one is saved.                                *)
(*                                                                         *)
(* The row's claim, lease and retry policy are WorkerLedger's; here a run  *)
(* that died is claimed again, and a superseded run writes no more than    *)
(* the periodic checkpoints it had already sent.  Logins, illustrations,   *)
(* digests and the choice of the novel's directory are left out.           *)
(*                                                                         *)
(* Definitions marked MUTANT are plausible mistakes in the definition that *)
(* follows them; the specification does not use them.                      *)
(***************************************************************************)
EXTENDS Integers, Sequences

CONSTANTS
    Runtime,         \* the builds considered, among "worker" and "native"
    Name,            \* file_subtitle values: the part of a key a rename changes
    MaxLength,       \* bound: sections of the novel
    CheckpointEvery, \* CHECKPOINT_EVERY_SECTIONS
    MaxChanges,      \* bound: changes the author makes
    MaxJobs,         \* bound: jobs for the novel
    MaxInterrupts    \* bound: runs that exhaust their budget, fail or are killed

ASSUME RuntimeAssumption == Runtime \subseteq {"worker", "native"}
ASSUME NameAssumption == Name # {}
ASSUME BoundAssumption ==
    /\ {MaxLength, CheckpointEvery} \subseteq Nat \ {0}
    /\ {MaxChanges, MaxJobs, MaxInterrupts} \subseteq Nat

VARIABLES
    runtime, \* the build
    site,    \* the listing the site would show now
    store,   \* per section index and name: date of the stored body, 0 if none
    toc,     \* toc.yaml, empty before the first
    resume,  \* .download_resume, empty if absent
    record,  \* whether the novel has a database record
    row,     \* the job: status, cursor and force
    exec,    \* the run
    writes,  \* cursors of the periodic checkpoints under way, sent with the row's token
    used,    \* how much of each bound is used
    adopted  \* history: bodies (index, name) a run took by the cursor alone

vars == <<runtime, site, store, toc, resume, record, row, exec, writes, used, adopted>>

Index   == 1..MaxLength
Date    == 1..MaxChanges + 1
Entry   == [date : Date, name : Name]
Listing == UNION {[1..n -> Entry] : n \in 0..MaxLength}
None    == -1
Worker  == runtime = "worker"

Idle == [pc |-> "idle", toc |-> <<>>, old |-> <<>>, plan |-> {}, from |-> 0, restored |-> 0,
         at |-> 0, boundary |-> None, saved |-> 0, body |-> 0]
Step == {"idle", "open", "boundary", "section", "cache", "save", "yield", "yielded",
         "drain", "attempt", "unsaved", "toc", "supersede", "record", "clear", "settle"}
NoJob == [status |-> "none", cursor |-> 0, force |-> FALSE]
Bounds == {"changes", "jobs", "interrupts"}

TypeOK ==
    /\ runtime \in Runtime
    /\ site \in Listing /\ toc \in Listing /\ resume \in Listing
    /\ store \in [Index -> [Name -> Date \union {0}]]
    /\ record \in BOOLEAN
    /\ row \in [status : {"none", "queued", "running"}, cursor : 0..MaxLength, force : BOOLEAN]
    /\ exec \in [pc : Step, toc : Listing, old : Listing, plan : SUBSET Index,
                 from : 0..MaxLength, restored : 0..MaxLength, at : 0..MaxLength,
                 boundary : 0..MaxLength \union {None}, saved : 0..MaxLength, body : Date \union {0}]
    /\ writes \subseteq 0..MaxLength
    /\ used \in [Bounds -> Nat]
    /\ adopted \subseteq Index \X Name

(***************************************************************************)
(* The author's changes.                                                   *)
(***************************************************************************)
Changes(listing) ==
    /\ used.changes < MaxChanges
    /\ site' = listing
    /\ used' = [used EXCEPT !.changes = @ + 1]
    /\ UNCHANGED <<runtime, store, toc, resume, record, row, exec, writes, adopted>>

\* A change is dated later than all before it
Now == used.changes + 2

SectionUpdated == \E i \in DOMAIN site : Changes([site EXCEPT ![i].date = Now])
SectionRenamed == \E i \in DOMAIN site, n \in Name :
    n # site[i].name /\ Changes([site EXCEPT ![i].name = n])
SectionAdded == \E n \in Name :
    Len(site) < MaxLength /\ Changes(Append(site, [date |-> Now, name |-> n]))
LastSectionRemoved ==
    Len(site) > 1 /\ Changes(SubSeq(site, 1, Len(site) - 1))

(***************************************************************************)
(* Reading the store.                                                      *)
(***************************************************************************)
Stored(i, n) == store[i][n] # 0
\* existing_section_indices looks at the index of a file name only
Existed(i) == \E n \in Name : Stored(i, n)
\* Native reads fall back to another name of the same index
Body(i, n) ==
    IF Stored(i, n) \/ Worker \/ ~Existed(i) THEN {store[i][n]}
    ELSE {store[i][m] : m \in {m \in Name : Stored(i, m)}}

(***************************************************************************)
(* Jobs and claims.                                                        *)
(***************************************************************************)
Submit == \E force \in BOOLEAN :
    /\ row.status = "none" /\ exec.pc = "idle" /\ used.jobs < MaxJobs
    /\ row' = [NoJob EXCEPT !.status = "queued", !.force = force]
    /\ used' = [used EXCEPT !.jobs = @ + 1]
    /\ UNCHANGED <<runtime, site, store, toc, resume, record, exec, writes, adopted>>

\* A running row without a run belongs to one that was killed.  The claim sets a
\* new token: the writes still under way match the row no longer.
Claim ==
    /\ row.status \in {"queued", "running"} /\ exec.pc = "idle"
    /\ row' = [row EXCEPT !.status = "running"]
    /\ exec' = [Idle EXCEPT !.pc = "open", !.from = row.cursor]
    /\ writes' = {}
    /\ UNCHANGED <<runtime, site, store, toc, resume, record, used, adopted>>

(***************************************************************************)
(* Reading the listing and planning the sections.                          *)
(***************************************************************************)
\* The entries of .download_resume this run may rely on
Restored == IF Len(resume) < exec.from THEN Len(resume) ELSE exec.from

\* MUTANT: the update date of a completed section is not compared
SameSectionUndated(saved, latest) == saved.name = latest.name

SameSection(saved, latest) == saved.name = latest.name /\ saved.date = latest.date

\* Otherwise DownloadResumeCorrupt
Resumable ==
    /\ exec.from <= Len(site)
    /\ \A i \in 1..Restored : SameSection(resume[i], site[i]) /\ Stored(i, resume[i].name)
    /\ \A i \in Restored + 1..exec.from : Stored(i, site[i].name)

NeedsDownload(i) ==
    \/ i \notin DOMAIN toc
    \/ toc[i].name # site[i].name
    \/ ~Existed(i)
    \/ site[i].date > toc[i].date

\* MUTANT: the restart keeps the corrupt cursor
RestartInPlace == [exec EXCEPT !.boundary = 0]

\* The executor starts over, once, with a new budget at boundary 0
Restarted == [exec EXCEPT !.from = 0, !.boundary = 0, !.saved = 0]

RestartCorrupt ==
    /\ exec.pc = "open" /\ ~Resumable
    /\ exec' = Restarted
    /\ UNCHANGED <<runtime, site, store, toc, resume, record, row, writes, used, adopted>>

\* Where the loop goes when `done` sections are behind it
Looped(run, done) ==
    [run EXCEPT !.at = done, !.pc = IF done < Len(run.toc) THEN "boundary" ELSE "toc"]

Open ==
    /\ exec.pc = "open" /\ Resumable
    /\ exec' = Looped([exec EXCEPT
            !.toc = site, !.old = toc, !.restored = Restored,
            !.plan = {i \in DOMAIN site : i > exec.from /\ (row.force \/ NeedsDownload(i))}],
          Restored)
    /\ resume' = IF Worker /\ exec.from = 0 THEN <<>> ELSE resume
    /\ adopted' = adopted \union {<<i, site[i].name>> : i \in Restored + 1..exec.from}
    /\ UNCHANGED <<runtime, site, store, toc, record, row, writes, used>>

\* Fewer sections than the stored listing: the digest may keep the old novel.
Digest ==
    /\ exec.pc = "open" /\ Len(toc) > Len(site) /\ ~row.force
    /\ exec' = Idle /\ row' = [row EXCEPT !.status = "none"]
    /\ UNCHANGED <<runtime, site, store, toc, resume, record, writes, used, adopted>>

(***************************************************************************)
(* The section loop.                                                       *)
(***************************************************************************)
\* MUTANT: the boundary counts the section that is about to start
BoundaryAhead(run) == [run EXCEPT !.boundary = run.at + 1]

\* CheckpointSink::save
AtBoundary(run) == [run EXCEPT !.boundary = run.at,
    !.saved = IF run.at >= run.saved + CheckpointEvery THEN run.at ELSE run.saved]

Sent(run) == LET next == AtBoundary(run) IN
    IF next.saved = run.saved THEN {} ELSE {next.boundary}

MayYield == Worker /\ used.interrupts < MaxInterrupts

Bounded(next) ==
    /\ exec' = [AtBoundary(exec) EXCEPT !.pc = next]
    /\ writes' = writes \union Sent(exec)

Boundary ==
    /\ exec.pc = "boundary"
    /\ \/ Worker /\ Bounded("section")
       \/ MayYield /\ Bounded("yield")
       \/ /\ ~Worker \/ exec.at < exec.from
          /\ exec' = [exec EXCEPT !.pc = "section"] /\ UNCHANGED writes
    /\ UNCHANGED <<runtime, site, store, toc, resume, record, row, used, adopted>>

Here == exec.at + 1

\* Nothing to fetch: a resumed section or one that did not change
KeepSection ==
    /\ exec.pc = "section" /\ Here \notin exec.plan
    /\ exec' = Looped(exec, Here)
    /\ UNCHANGED <<runtime, site, store, toc, resume, record, row, writes, used, adopted>>

FetchSection ==
    /\ exec.pc = "section" /\ Here \in exec.plan /\ Here \in DOMAIN site
    /\ exec' = [exec EXCEPT !.body = site[Here].date,
                            !.pc = IF Existed(Here) THEN "cache" ELSE "save"]
    /\ UNCHANGED <<runtime, site, store, toc, resume, record, row, writes, used, adopted>>

PreviousName == IF Here \in DOMAIN exec.old THEN exec.old[Here].name ELSE exec.toc[Here].name

\* MUTANT: the previous body is moved to the history on the Worker too
CacheMoves == {n \in Name : Stored(Here, n) /\ (Stored(Here, PreviousName) => n = PreviousName)}

\* The names the history takes away: the Worker copies
CacheTakes == IF Worker THEN {} ELSE
    {n \in Name : Stored(Here, n) /\ (Stored(Here, PreviousName) => n = PreviousName)}

CacheSection ==
    /\ exec.pc = "cache"
    /\ \/ CacheTakes = {} /\ UNCHANGED store
       \/ \E n \in CacheTakes : store' = [store EXCEPT ![Here][n] = 0]
    /\ exec' = [exec EXCEPT !.pc = "save"]
    /\ UNCHANGED <<runtime, site, toc, resume, record, row, writes, used, adopted>>

\* The body is saved; its illustrations may exhaust the budget
SaveSection ==
    /\ exec.pc = "save"
    /\ store' = [store EXCEPT ![Here][exec.toc[Here].name] = exec.body]
    /\ adopted' = adopted \ {<<Here, exec.toc[Here].name>>}
    /\ \/ exec' = Looped([exec EXCEPT !.body = 0], Here)
       \/ MayYield /\ exec' = [exec EXCEPT !.body = 0, !.pc = "yield"]
    /\ UNCHANGED <<runtime, site, toc, resume, record, row, writes, used>>

(***************************************************************************)
(* The budget is exhausted.                                                *)
(***************************************************************************)
\* The index is saved unless the illustration index could not be
SaveResume ==
    /\ exec.pc = "yield"
    /\ resume' \in {SubSeq(exec.toc, 1, exec.at), resume}
    /\ exec' = [exec EXCEPT !.pc = "yielded"]
    /\ UNCHANGED <<runtime, site, store, toc, record, row, writes, used, adopted>>

YieldExecution ==
    /\ exec.pc = "yielded"
    /\ row' = [row EXCEPT !.status = "queued", !.cursor = exec.at]
    /\ exec' = Idle
    /\ used' = [used EXCEPT !.interrupts = @ + 1]
    /\ UNCHANGED <<runtime, site, store, toc, resume, record, writes, adopted>>

(***************************************************************************)
(* The new listing and the record.                                         *)
(***************************************************************************)
SaveToc ==
    /\ exec.pc = "toc"
    /\ toc' = exec.toc
    /\ exec' = [exec EXCEPT !.pc = "supersede"]
    /\ UNCHANGED <<runtime, site, store, resume, record, row, writes, used, adopted>>

\* Bodies under the names the old listing used (portable builds delete them)
Superseded == IF ~Worker THEN {} ELSE
    {i \in DOMAIN exec.toc \intersect DOMAIN exec.old :
        exec.old[i].name # exec.toc[i].name /\ Stored(i, exec.old[i].name)}

DeleteSuperseded ==
    /\ exec.pc = "supersede"
    /\ \/ \E i \in Superseded :
            store' = [store EXCEPT ![i][exec.old[i].name] = 0] /\ UNCHANGED exec
       \/ Superseded = {} /\ exec' = [exec EXCEPT !.pc = "record"] /\ UNCHANGED store
    /\ UNCHANGED <<runtime, site, toc, resume, record, row, writes, used, adopted>>

UpsertRecord ==
    /\ exec.pc = "record"
    /\ record' = TRUE
    /\ exec' = [exec EXCEPT !.pc = "clear"]
    /\ UNCHANGED <<runtime, site, store, toc, resume, row, writes, used, adopted>>

ClearResume ==
    /\ exec.pc = "clear"
    /\ resume' = IF Worker THEN <<>> ELSE resume
    /\ exec' = [exec EXCEPT !.pc = "settle"]
    /\ UNCHANGED <<runtime, site, store, toc, record, row, writes, used, adopted>>

Settle ==
    /\ exec.pc = "settle"
    /\ row' = [row EXCEPT !.status = "none"]
    /\ exec' = Idle
    /\ UNCHANGED <<runtime, site, store, toc, resume, record, writes, used, adopted>>

(***************************************************************************)
(* Errors, retries and crashes.                                            *)
(***************************************************************************)
Failing == Step \ {"idle", "boundary", "yielded", "drain", "attempt", "unsaved", "settle"}

\* classify_failure: the job is retried or closed
Failed ==
    \/ exec' = [exec EXCEPT !.pc = "drain"] /\ UNCHANGED row
    \/ exec' = Idle /\ row' = [row EXCEPT !.status = "none"]

Fail ==
    /\ exec.pc \in Failing /\ used.interrupts < MaxInterrupts
    /\ used' = [used EXCEPT !.interrupts = @ + 1]
    /\ Failed
    /\ UNCHANGED <<runtime, site, store, toc, resume, record, writes, adopted>>

\* The section was removed after the listing was read
SectionGone ==
    /\ exec.pc = "section" /\ Here \in exec.plan /\ Here \notin DOMAIN site
    /\ Failed
    /\ UNCHANGED <<runtime, site, store, toc, resume, record, writes, used, adopted>>

\* MUTANT: the last write does not wait for the periodic ones
DrainedAtOnce == TRUE

Drained == writes = {}

\* MUTANT: a run that reached no boundary writes one
SaveNoBoundary ==
    /\ exec.pc = "drain" /\ (Worker => Drained)
    /\ row' = [row EXCEPT !.cursor = exec.boundary]
    /\ exec' = [exec EXCEPT !.pc = "attempt"]
    /\ UNCHANGED <<runtime, site, store, toc, resume, record, writes, used, adopted>>

\* save_retry_progress.  When its write is reported failed, landed or not, the
\* retry is recorded all the same.
SaveRetryProgress ==
    /\ exec.pc = "drain" /\ (Worker => Drained)
    /\ \/ /\ row' = IF exec.boundary = None THEN row ELSE [row EXCEPT !.cursor = exec.boundary]
          /\ exec' = [exec EXCEPT !.pc = "attempt"]
       \/ /\ exec.boundary # None /\ row' \in {row, [row EXCEPT !.cursor = exec.boundary]}
          /\ exec' = [exec EXCEPT !.pc = "unsaved"]
    /\ UNCHANGED <<runtime, site, store, toc, resume, record, writes, used, adopted>>

RecordAttempt ==
    /\ exec.pc \in {"attempt", "unsaved"}
    /\ row' \in {[row EXCEPT !.status = "queued"], [row EXCEPT !.status = "none"]}
    /\ exec' = Idle
    /\ UNCHANGED <<runtime, site, store, toc, resume, record, writes, used, adopted>>

\* save_checkpoint: the row must still be running
Land == \E w \in writes :
    /\ row' = IF row.status = "running" THEN [row EXCEPT !.cursor = w] ELSE row
    /\ writes' = writes \ {w}
    /\ UNCHANGED <<runtime, site, store, toc, resume, record, exec, used, adopted>>

\* A periodic write that fails is logged
Lose == \E w \in writes :
    /\ writes' = writes \ {w}
    /\ UNCHANGED <<runtime, site, store, toc, resume, record, row, exec, used, adopted>>

Crash ==
    /\ exec.pc # "idle" /\ used.interrupts < MaxInterrupts
    /\ exec' = Idle
    /\ used' = [used EXCEPT !.interrupts = @ + 1]
    /\ UNCHANGED <<runtime, site, store, toc, resume, record, row, writes, adopted>>

(***************************************************************************)
(* Specification.                                                          *)
(***************************************************************************)
Init ==
    /\ runtime \in Runtime
    /\ site \in {[i \in 1..n |-> [date |-> 1, name |-> CHOOSE m \in Name : TRUE]] : n \in 1..MaxLength}
    /\ store = [i \in Index |-> [n \in Name |-> 0]]
    /\ toc = <<>> /\ resume = <<>> /\ record = FALSE
    /\ row = NoJob /\ exec = Idle /\ writes = {}
    /\ used = [b \in Bounds |-> 0]
    /\ adopted = {}

Author == SectionUpdated \/ SectionRenamed \/ SectionAdded \/ LastSectionRemoved

Run == \/ RestartCorrupt \/ Open \/ Digest
       \/ Boundary \/ KeepSection \/ FetchSection \/ CacheSection \/ SaveSection
       \/ SaveResume \/ YieldExecution
       \/ SaveToc \/ DeleteSuperseded \/ UpsertRecord \/ ClearResume \/ Settle
       \/ Fail \/ SectionGone \/ SaveRetryProgress \/ RecordAttempt

Next == Author \/ Submit \/ Claim \/ Run \/ Land \/ Lose \/ Crash

\* Claims follow from the queue's delivery and the reaper (WorkerLedger), the
\* run's steps from its executor, and every write sent is answered.
Fairness == WF_vars(Claim) /\ WF_vars(Run) /\ WF_vars(Land \/ Lose)

Spec == Init /\ [][Next]_vars /\ Fairness

(***************************************************************************)
(* Properties.                                                             *)
(***************************************************************************)
\* Checkpoint writes are spawned without order (budget.rs:105), runs die and
\* the author renames and removes sections: the cursor of a job never passes
\* a section whose body was never stored, or the next run would skip it.
CursorBacked == Worker => \A i \in 1..row.cursor : Existed(i)

\* A Worker library stays readable while it is updated and after a crash at
\* any step: the stored listing finds each of its bodies under the name it
\* gives, across copies to the history, renames and superseded deletions.
TocReadable == Worker => \A i \in DOMAIN toc : Stored(i, toc[i].name)

\* An update the author made is not lost: a section whose date the stored
\* listing gives has a body at least that new, under whatever name, or none
\* (then the next run fetches it); and so does a completed section of
\* .download_resume.  Whatever yields, errors, crashes and changes of the
\* listing the runs met, except in the sections one of them took by the
\* cursor alone (mod.rs:2052).
UpdatesKept ==
    /\ \A i \in DOMAIN toc : (Existed(i) /\ <<i, toc[i].name>> \notin adopted)
        => \A b \in Body(i, toc[i].name) : b >= toc[i].date
    /\ \A i \in DOMAIN resume : (Stored(i, resume[i].name) /\ <<i, resume[i].name>> \notin adopted)
        => store[i][resume[i].name] >= resume[i].date

\* "Retry progress": a recorded retry continues from the last boundary its
\* run reached when its last save was acknowledged, and otherwise from the
\* cursor that save left (executor.rs:411); no periodic write that was sent
\* earlier replaces either.
RetryKeepsProgress == [][
    (exec.pc \in {"attempt", "unsaved"} /\ row'.status = "queued" /\ Worker /\ exec.boundary # None)
        => row'.cursor = IF exec.pc = "attempt" THEN exec.boundary ELSE row.cursor]_vars

\* Whatever changes on the site between the runs, a corrupt resume is not
\* met twice: every job ends, with the bounded yields, errors and crashes.
JobEnds == (row.status = "queued") ~> (row.status = "none")

\* docs/cloudflare-workers-migration-plan.md:503: a changed update date is
\* treated as a corrupt checkpoint.  So a published listing never gives a
\* section a date newer than the stored body.
TocCurrent == \A i \in DOMAIN toc : Stored(i, toc[i].name) => store[i][toc[i].name] >= toc[i].date

=============================================================================
