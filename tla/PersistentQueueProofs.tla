----------------------- MODULE PersistentQueueProofs -----------------------
(***************************************************************************)
(* Proofs about PersistentQueue, for every set of jobs and web threads and *)
(* every limit.  A job is in one list of memory, of the file and of every  *)
(* reading (OneList), and the job a worker executes stays in the running   *)
(* list until the worker settles it (RunningOwned).  While the server does *)
(* not crash, a job it accepted is in some list (PushedKept) and a job     *)
(* parked for a retry waits out its backoff (BackoffKept).  Two active     *)
(* jobs never have one target (OneActivePerTarget), and a recorded backup  *)
(* is not made again (BackupOnce).                                         *)
(***************************************************************************)
EXTENDS PersistentQueue, FiniteSetTheorems, TLAPS

Pushing  == {"push", "push_batch"}
AnyOp    == Request \union Settling \union {"pop"}
WorkerOp == Settling \union {"pop", "flush"}

\* Jobs whose id was generated by a push that has not appended them yet.
UnbornOf(r) == IF r.op \in Pushing /\ r.pc \in {"merge", "act"} THEN r.jobs ELSE {}

\* The ids some list may hold.
Born == {j \in used : \A t \in Thread : j \notin UnbornOf(thread[t])}

Lists(b) == {m \in [List -> SUBSET b] : Disjoint(m)}
Files(b) == {f \in [Section -> SUBSET b] : Disjoint(f)}

Task(u, b) == [pc : Step, op : AnyOp, jobs : SUBSET u, lane : Lane, file : Files(b)]

OpOf(t) == IF t = Worker THEN WorkerOp ELSE Request

ThreadsOK ==
    /\ thread \in [Thread -> Task(used, Born)]
    /\ \A t \in Thread : thread[t].op \in OpOf(t)
    /\ \A t \in Thread : thread[t].pc = "read" => thread[t].op = "pop"
    /\ \A t \in Thread : thread[t].op \in Removing /\ thread[t].pc \in {"save", "write"}
                             => thread[t].jobs \subseteq cleared
    /\ \A s, t \in Thread : s # t => UnbornOf(thread[s]) \intersect UnbornOf(thread[t]) = {}
    /\ ~up => \A t \in Thread : thread[t].pc = "idle"

StoresOK ==
    /\ mem \in Lists(Born)
    /\ disk \in Files(Born)
    /\ child \in [pc : {"idle", "push", "write"}, jobs : SUBSET used, file : Files(Born)]

SetsOK ==
    /\ up \in BOOLEAN /\ crashes \in 0..MaxCrashes
    /\ used \subseteq Job
    /\ sentinel \subseteq Backup /\ backedUp \subseteq Backup
    /\ executing \subseteq used /\ (~up => executing = {})
    /\ held \subseteq cooling /\ cooling \subseteq used
    /\ accepted \subseteq used /\ sent \subseteq used /\ overflowed \subseteq used
    /\ cleared \subseteq used

\* The inductive invariant behind TypeOK and OneList.
StoreInv == ThreadsOK /\ StoresOK /\ SetsOK

----------------------------------------------------------------------------
(* Lists and files. *)

LEMMA EmptyIsLists == ASSUME NEW b PROVE Empty \in Lists(b)
BY DEF Empty, Lists, Disjoint

LEMMA NoFileIsFile == ASSUME NEW b PROVE NoFile \in Files(b)
BY DEF NoFile, Files, Disjoint

LEMMA ListsGrow ==
    ASSUME NEW b, NEW c, b \subseteq c
    PROVE  Lists(b) \subseteq Lists(c) /\ Files(b) \subseteq Files(c)
BY DEF Lists, Files

LEMMA SerializeIsFile ==
    ASSUME NEW b, NEW m \in Lists(b)
    PROVE  Serialize(m) \in Files(b)
<1> DEFINE f == Serialize(m)
<1>1. f \in [Section -> SUBSET b]
  BY DEF Serialize, Lists, Waiting, Section, List, History
<1>2. ASSUME NEW x \in Section, NEW y \in Section, x # y PROVE f[x] \intersect f[y] = {}
  BY <1>2 DEF Serialize, Lists, Waiting, Section, List, History, Disjoint
<1> QED
  BY <1>1, <1>2 DEF Files, Disjoint

LEMMA LoadIsLists ==
    ASSUME NEW b, NEW f \in Files(b)
    PROVE  Load(f) \in Lists(b)
<1> DEFINE m == Load(f)
<1>1. m \in [List -> SUBSET b]
  BY DEF Load, Files, Section, List, History
<1>2. ASSUME NEW x \in List, NEW y \in List, x # y PROVE m[x] \intersect m[y] = {}
  BY <1>2 DEF Load, Files, Section, List, History, Disjoint
<1> QED
  BY <1>1, <1>2 DEF Lists, Disjoint

LEMMA MergedIsLists ==
    ASSUME NEW b, NEW m \in Lists(b), NEW f \in Files(b)
    PROVE  Merged(m, f) \in Lists(b)
<1> DEFINE n == Merged(m, f)
<1>1. n \in [List -> SUBSET b]
  BY DEF Merged, Lists, Files, List, Section
<1>2. \A x \in List : m[x] \subseteq Known(m)
  BY DEF Known
<1>3. ASSUME NEW x \in List, NEW y \in List, x # y PROVE n[x] \intersect n[y] = {}
  BY <1>2, <1>3 DEF Merged, Lists, Disjoint
<1> QED
  BY <1>1, <1>3 DEF Lists, Disjoint

LEMMA MovedIsLists ==
    ASSUME NEW b, NEW m \in Lists(b), NEW S \in SUBSET b, NEW x \in List
    PROVE  Moved(m, S, x) \in Lists(b)
BY DEF Moved, Lists, Disjoint

LEMMA WithoutIsLists ==
    ASSUME NEW b, NEW m \in Lists(b), NEW S
    PROVE  Without(m, S) \in Lists(b)
BY DEF Without, Lists, Disjoint

----------------------------------------------------------------------------
(* Steps of one thread. *)

AtPc(r, p)        == [r EXCEPT !.pc = p]
Taking(r, p, S)   == [r EXCEPT !.pc = p, !.jobs = S]
Holding(r, p, f)  == [r EXCEPT !.pc = p, !.file = f]

LEMMA AtPcIsTask ==
    ASSUME NEW u, NEW b, NEW r \in Task(u, b), NEW p \in Step
    PROVE  /\ AtPc(r, p) \in Task(u, b)
           /\ AtPc(r, p).pc = p /\ AtPc(r, p).op = r.op /\ AtPc(r, p).jobs = r.jobs
BY DEF Task, AtPc

LEMMA TakingIsTask ==
    ASSUME NEW u, NEW b, NEW r \in Task(u, b), NEW p \in Step, NEW S \in SUBSET u
    PROVE  /\ Taking(r, p, S) \in Task(u, b)
           /\ Taking(r, p, S).pc = p /\ Taking(r, p, S).op = r.op
           /\ Taking(r, p, S).jobs = S
BY DEF Task, Taking

LEMMA HoldingIsTask ==
    ASSUME NEW u, NEW b, NEW r \in Task(u, b), NEW p \in Step, NEW f \in Files(b)
    PROVE  /\ Holding(r, p, f) \in Task(u, b)
           /\ Holding(r, p, f).pc = p /\ Holding(r, p, f).op = r.op
           /\ Holding(r, p, f).jobs = r.jobs
BY DEF Task, Holding

LEMMA Steps == {"read", "merge", "act", "save", "write"} \subseteq Step
BY DEF Step

LEMMA IdleIsTask ==
    ASSUME NEW u, NEW b
    PROVE  Idle \in Task(u, b) /\ UnbornOf(Idle) = {}
BY NoFileIsFile DEF Idle, Task, UnbornOf, Step, AnyOp, Request, Lane

LEMMA StartingIsTask ==
    ASSUME StoreInv, NEW u, NEW op \in AnyOp, NEW S \in SUBSET u, NEW l \in Lane
    PROVE  Starting(op, S, l) \in Task(u, Born)
<1>1. disk \in Files(Born) /\ NoFile \in Files(Born)
  BY NoFileIsFile DEF StoreInv, StoresOK
<1> QED
  BY <1>1 DEF Starting, Task, Step

LEMMA StartingFields ==
    ASSUME NEW op, NEW S, NEW l
    PROVE  /\ Starting(op, S, l).pc \in {"merge", "act"}
           /\ Starting(op, S, l).op = op
           /\ Starting(op, S, l).jobs = S
           /\ op \in Pushing => UnbornOf(Starting(op, S, l)) = S
           /\ op \notin Pushing => UnbornOf(Starting(op, S, l)) = {}
BY DEF Starting, UnbornOf

\* What is left to show when a step replaces the record of one thread.
LEMMA TaskStep ==
    ASSUME StoreInv, up' = up, up, used \subseteq used', cleared \subseteq cleared',
           NEW t \in Thread, NEW r \in Task(used', Born),
           thread' = [thread EXCEPT ![t] = r],
           r.op \in OpOf(t), r.pc = "read" => r.op = "pop",
           r.op \in Removing /\ r.pc \in {"save", "write"} => r.jobs \subseteq cleared',
           UnbornOf(r) \subseteq UnbornOf(thread[t]) \union (used' \ used)
    PROVE  /\ ThreadsOK'
           /\ Born \subseteq Born'
           /\ UnbornOf(thread[t]) \ UnbornOf(r) \subseteq Born'
           /\ \A s \in Thread \ {t} : thread'[s] = thread[s]
           /\ thread'[t] = r
<1> USE DEF StoreInv, ThreadsOK
<1>1. /\ \A s \in Thread \ {t} : thread'[s] = thread[s]
      /\ thread'[t] = r
  OBVIOUS
<1>2. \A s \in Thread : UnbornOf(thread[s]) \subseteq used
  BY DEF Task, UnbornOf
<1>3. \A s \in Thread \ {t} : UnbornOf(thread'[s]) = UnbornOf(thread[s])
  BY <1>1
<1>4. UnbornOf(thread'[t]) \subseteq UnbornOf(thread[t]) \union (used' \ used)
  BY <1>1
<1>5. Born' = {j \in used' : \A s \in Thread : j \notin UnbornOf(thread'[s])}
  BY DEF Born, UnbornOf
<1>6. Born \subseteq Born'
  BY <1>3, <1>4, <1>5 DEF Born
<1>7. UnbornOf(thread[t]) \ UnbornOf(r) \subseteq Born'
  BY <1>1, <1>2, <1>3, <1>5
<1>8. \A q \in Task(used, Born) \union Task(used', Born) : q \in Task(used', Born')
  BY <1>6, ListsGrow DEF Task
<1>9. thread' \in [Thread -> Task(used', Born')]
  BY <1>8
<1>10. \A s \in Thread : /\ thread'[s].op \in OpOf(s)
                           /\ thread'[s].pc = "read" => thread'[s].op = "pop"
  BY <1>1
<1>11. \A s \in Thread : thread'[s].op \in Removing /\ thread'[s].pc \in {"save", "write"}
                              => thread'[s].jobs \subseteq cleared'
  BY <1>1
<1>12. ASSUME NEW s1 \in Thread, NEW s2 \in Thread, s1 # s2
       PROVE  UnbornOf(thread'[s1]) \intersect UnbornOf(thread'[s2]) = {}
  BY <1>2, <1>3, <1>4, <1>12
<1> QED
  <2>1. ThreadsOK'
    BY <1>9, <1>10, <1>11, <1>12 DEF UnbornOf, OpOf
  <2> QED
    BY <2>1, <1>1, <1>6, <1>7

LEMMA StoresStep ==
    ASSUME StoreInv, used \subseteq used', Born \subseteq Born',
           mem' \in Lists(Born) \union Lists(Born'),
           disk' \in Files(Born),
           child' = child
    PROVE  StoresOK'
<1>1. Lists(Born) \subseteq Lists(Born') /\ Files(Born) \subseteq Files(Born')
  BY ListsGrow
<1>2. child' \in [pc : {"idle", "push", "write"}, jobs : SUBSET (used'), file : Files(Born')]
  BY <1>1 DEF StoreInv, StoresOK
<1>3. mem' \in Lists(Born') /\ disk' \in Files(Born')
  BY <1>1
<1> QED
  BY <1>2, <1>3 DEF StoresOK

LEMMA WebRequestKeeps ==
    ASSUME StoreInv, NEW t \in Web, WebRequest(t)
    PROVE  StoreInv'
<1>1. PICK op \in Request, S \in SUBSET Job, l \in Lane :
          /\ Start(t, op, S, l)
          /\ \/ used' = used \union S /\ S \intersect used = {}
             \/ used' = used /\ S \subseteq used /\ op \notin Pushing
  <2>1. Requests \subseteq Request
    BY UseAssumption
  <2>2. CASE \E op \in Requests \intersect {"push", "push_batch"} :
             \E S \in SUBSET Fresh :
                 Start(t, op, S, "default") /\ used' = used \union S
    BY <2>1, <2>2 DEF Fresh, Lane
  <2>3. CASE "remove_pending" \in Requests /\ used' = used /\
             \E j \in Waiting(mem) : Start(t, "remove_pending", {j}, "default")
    <3>1. PICK j \in Waiting(mem) : Start(t, "remove_pending", {j}, "default")
      BY <2>3
    <3>2. j \in used /\ j \in Job
      BY <3>1 DEF StoreInv, StoresOK, SetsOK, Lists, List, Waiting, Born
    <3> QED
      BY <2>3, <3>1, <3>2, <2>1 DEF Pushing, Lane
  <2>4. CASE "cancel_pending_in_lane" \in Requests /\ used' = used /\
             \E l \in Lane : Start(t, "cancel_pending_in_lane", {}, l)
    BY <2>1, <2>4 DEF Pushing
  <2>5. CASE used' = used /\
             \E op \in Requests \ {"push", "push_batch", "remove_pending",
                                   "cancel_pending_in_lane"} :
                 Start(t, op, {}, "default")
    BY <2>1, <2>5 DEF Pushing, Lane
  <2> QED
    BY <2>2, <2>3, <2>4, <2>5 DEF WebRequest
<1> DEFINE r == Starting(op, S, l)
<1>2. /\ up /\ thread[t].pc = "idle" /\ thread' = [thread EXCEPT ![t] = r]
      /\ UNCHANGED <<mem, executing, held>>
      /\ UNCHANGED <<disk, sentinel, child, up, crashes, ghosts>>
  BY <1>1 DEF Start, WebRequest
<1>3. used \subseteq used' /\ S \subseteq used' /\ used' \subseteq Job
  BY <1>1 DEF StoreInv, SetsOK
<1>4. /\ r \in Task(used', Born)
      /\ op \in Pushing => UnbornOf(r) = S
      /\ op \notin Pushing => UnbornOf(r) = {}
      /\ r.pc \in {"merge", "act"} /\ r.op = op
  <2>1. op \in AnyOp /\ S \in SUBSET (used')
    BY <1>3 DEF AnyOp
  <2> QED
    BY <2>1, StartingIsTask, StartingFields
<1>5. r.op \in OpOf(t) /\ t \in Thread
  BY <1>4, ThreadAssumption DEF OpOf, Thread
<1>6. UnbornOf(r) \subseteq used' \ used
  BY <1>1, <1>4
<1> HIDE DEF r
<1>7. ThreadsOK' /\ Born \subseteq Born'
  BY <1>2, <1>3, <1>4, <1>5, <1>6, TaskStep DEF ghosts
<1>8. StoresOK'
  BY <1>2, <1>3, <1>7, StoresStep DEF StoreInv, StoresOK
<1>9. SetsOK'
  BY <1>2, <1>3 DEF ghosts, StoreInv, SetsOK
<1> QED
  BY <1>7, <1>8, <1>9 DEF StoreInv

\* A step that changes neither lists nor sets but only what a thread does.
LEMMA LocalStep ==
    ASSUME StoreInv, up, NEW t \in Thread, NEW r \in Task(used, Born),
           thread' = [thread EXCEPT ![t] = r],
           r.op \in OpOf(t), r.pc = "read" => r.op = "pop",
           r.op \in Removing /\ r.pc \in {"save", "write"} => r.jobs \subseteq cleared,
           UnbornOf(r) \subseteq UnbornOf(thread[t]),
           UNCHANGED <<mem, held, disk, sentinel, child, up, crashes, used, ghosts>>,
           executing' \subseteq executing
    PROVE  StoreInv'
<1>1. ThreadsOK' /\ Born \subseteq Born'
  BY TaskStep DEF ghosts
<1>2. StoresOK'
  BY <1>1, StoresStep DEF StoreInv, StoresOK
<1>3. SetsOK'
  BY DEF ghosts, StoreInv, SetsOK
<1> QED
  BY <1>1, <1>2, <1>3 DEF StoreInv

LEMMA Awake ==
    ASSUME StoreInv, NEW t \in Thread, thread[t].pc # "idle"
    PROVE  up /\ thread[t] \in Task(used, Born) /\ thread[t].op \in OpOf(t)
BY DEF StoreInv, ThreadsOK

LEMMA ReadKeeps ==
    ASSUME StoreInv, NEW t \in Thread, Read(t)
    PROVE  StoreInv'
<1> DEFINE r == Holding(thread[t], "merge", disk)
<1>1. up /\ thread[t] \in Task(used, Born) /\ disk \in Files(Born)
  BY Awake DEF Read, StoreInv, StoresOK
<1>2. /\ r \in Task(used, Born) /\ r.op = thread[t].op /\ r.pc = "merge"
      /\ r.jobs = thread[t].jobs
  BY <1>1, Steps, HoldingIsTask
<1>3. thread[t].op = "pop" /\ thread[t].op \in OpOf(t)
  BY DEF Read, StoreInv, ThreadsOK
<1>4. UnbornOf(r) = {}
  BY <1>2, <1>3 DEF UnbornOf, Pushing
<1>5. thread' = [thread EXCEPT ![t] = r]
  BY <1>1 DEF Read, Holding, StoreInv, ThreadsOK
<1> HIDE DEF r
<1> QED
  BY <1>1, <1>2, <1>3, <1>4, <1>5, LocalStep DEF Read

LEMMA SaveKeeps ==
    ASSUME StoreInv, NEW t \in Thread, Save(t)
    PROVE  StoreInv'
<1> DEFINE r == Holding(thread[t], "write", Serialize(mem))
<1>1. up /\ thread[t] \in Task(used, Born) /\ thread[t].op \in OpOf(t)
  BY Awake DEF Save
<1>2. Serialize(mem) \in Files(Born)
  BY SerializeIsFile DEF StoreInv, StoresOK
<1>3. /\ r \in Task(used, Born) /\ r.op = thread[t].op /\ r.pc = "write"
      /\ r.jobs = thread[t].jobs
  BY <1>1, <1>2, Steps, HoldingIsTask
<1>4. UnbornOf(r) = {}
  BY <1>3 DEF UnbornOf
<1>5. thread' = [thread EXCEPT ![t] = r]
  BY <1>1 DEF Save, Holding, StoreInv, ThreadsOK
<1>6. r.op \in Removing => r.jobs \subseteq cleared
  BY <1>3 DEF Save, StoreInv, ThreadsOK
<1> HIDE DEF r
<1> QED
  BY <1>1, <1>3, <1>4, <1>5, <1>6, LocalStep DEF Save

LEMMA FinishJobKeeps ==
    ASSUME StoreInv, FinishJob
    PROVE  StoreInv'
<1>1. PICK j \in executing, outcome \in Outcomes :
          Start(Worker, outcome, {j}, "default") /\ executing' = executing \ {j}
  BY DEF FinishJob
<1> DEFINE r == Starting(outcome, {j}, "default")
<1>2. /\ outcome \in Settling /\ outcome \in AnyOp /\ outcome \notin Pushing
      /\ {j} \in SUBSET used /\ "default" \in Lane
  BY <1>1, UseAssumption DEF StoreInv, SetsOK, Lane, AnyOp, Pushing, Settling, History
<1>3. /\ r \in Task(used, Born) /\ UnbornOf(r) = {} /\ r.op = outcome
      /\ r.pc \in {"merge", "act"}
  BY <1>2, StartingIsTask, StartingFields
<1>4. /\ Worker \in Thread /\ up /\ thread' = [thread EXCEPT ![Worker] = r]
      /\ r.op \in OpOf(Worker)
  BY <1>1, <1>2, <1>3 DEF Start, Thread, OpOf, WorkerOp
<1> HIDE DEF r
<1> QED
  BY <1>1, <1>3, <1>4, LocalStep DEF FinishJob

LEMMA PopJobKeeps ==
    ASSUME StoreInv, PopJob
    PROVE  StoreInv'
<1>1. PICK l \in Lane : thread' = [thread EXCEPT ![Worker] =
             [Starting("pop", {}, l) EXCEPT !.pc = IF Runnable(l) = {} THEN "read"
                                                                       ELSE "act"]]
  BY DEF PopJob, Lane
<1> DEFINE q == Starting("pop", {}, l)
           p == IF Runnable(l) = {} THEN "read" ELSE "act"
           r == AtPc(q, p)
<1>2. q \in Task(used, Born) /\ q.op = "pop"
  <2>1. "pop" \in AnyOp /\ {} \in SUBSET used
    BY DEF AnyOp
  <2> QED
    BY <2>1, StartingIsTask, StartingFields
<1>5. thread' = [thread EXCEPT ![Worker] = r]
  BY <1>1 DEF AtPc
<1>6. p \in {"read", "act"}
  OBVIOUS
<1> HIDE DEF q, p
<1>3. r \in Task(used, Born) /\ r.op = "pop" /\ r.pc \in {"read", "act"}
  <2>1. p \in Step
    BY <1>6, Steps
  <2>2. r \in Task(used, Born) /\ r.op = q.op /\ r.pc = p
    BY <1>2, <2>1, AtPcIsTask
  <2> QED
    BY <1>2, <1>6, <2>2
<1>4. UnbornOf(r) = {} /\ r.op \in OpOf(Worker) /\ Worker \in Thread
  BY <1>3 DEF UnbornOf, Pushing, OpOf, WorkerOp, Thread
<1> HIDE DEF r
<1> QED
  BY <1>3, <1>4, <1>5, LocalStep DEF PopJob

----------------------------------------------------------------------------
(* Operations. *)

\* What a thread may put into memory: what lists hold, and the jobs it pushes.
Within(t) == Born \union UnbornOf(thread[t])

LEMMA MemoryWithin ==
    ASSUME StoreInv, NEW t \in Thread
    PROVE  /\ mem \in Lists(Within(t))
           /\ Waiting(mem) \subseteq Born /\ Active(mem) \subseteq Born
           /\ \A x \in List : mem[x] \subseteq Born
           /\ Born \subseteq used /\ Within(t) \subseteq used
<1>1. mem \in Lists(Born) /\ thread[t] \in Task(used, Born)
  BY DEF StoreInv, StoresOK, ThreadsOK
<1>2. Born \subseteq used /\ UnbornOf(thread[t]) \subseteq used
  BY <1>1 DEF Born, Task, UnbornOf
<1>3. mem \in Lists(Within(t))
  BY <1>1, ListsGrow DEF Within
<1>4. \A x \in List : mem[x] \subseteq Born
  BY <1>1 DEF Lists
<1> QED
  BY <1>2, <1>3, <1>4 DEF Within, Waiting, Active, List

LEMMA ActStep ==
    ASSUME StoreInv, up, NEW t \in Thread, NEW r \in Task(used, Born),
           thread' = [thread EXCEPT ![t] = r],
           r.op \in OpOf(t), r.pc # "read",
           r.op \in Removing /\ r.pc \in {"save", "write"} => r.jobs \subseteq cleared',
           UnbornOf(r) \subseteq UnbornOf(thread[t]),
           mem' \in Lists(Born \union (UnbornOf(thread[t]) \ UnbornOf(r))),
           disk' \in Files(Born), UNCHANGED <<child, up, used>>,
           cleared \subseteq cleared', SetsOK'
    PROVE  StoreInv'
<1>1. /\ ThreadsOK' /\ Born \subseteq Born'
      /\ UnbornOf(thread[t]) \ UnbornOf(r) \subseteq Born'
  BY TaskStep
<1>2. mem' \in Lists(Born')
  BY <1>1, ListsGrow
<1>3. StoresOK'
  BY <1>1, <1>2, StoresStep
<1> QED
  BY <1>1, <1>3 DEF StoreInv

LEMMA SavingStep ==
    ASSUME StoreInv, NEW t \in Thread, thread[t].pc = "act",
           NEW S \in SUBSET used, Saving(t, S),
           thread[t].op \in Removing => S \subseteq cleared',
           mem' \in Lists(Within(t)), UNCHANGED <<disk, child, up, used>>,
           cleared \subseteq cleared', SetsOK'
    PROVE  StoreInv'
<1> DEFINE r == Taking(thread[t], "save", S)
<1>1. up /\ thread[t] \in Task(used, Born) /\ thread[t].op \in OpOf(t)
  BY Awake
<1>2. /\ r \in Task(used, Born) /\ r.op = thread[t].op /\ r.pc = "save" /\ r.jobs = S
  BY <1>1, Steps, TakingIsTask
<1>3. thread' = [thread EXCEPT ![t] = r]
  BY DEF Saving, Taking, StoreInv, ThreadsOK
<1>4. UnbornOf(r) = {}
  BY <1>2 DEF UnbornOf
<1>5. disk' \in Files(Born)
  BY DEF StoreInv, StoresOK
<1> HIDE DEF r
<1>6. mem' \in Lists(Born \union (UnbornOf(thread[t]) \ UnbornOf(r)))
  BY <1>4 DEF Within
<1> QED
  BY <1>1, <1>2, <1>3, <1>4, <1>5, <1>6, ActStep

LEMMA ReturnStep ==
    ASSUME StoreInv, NEW t \in Thread, thread[t].pc # "idle", Return(t),
           mem' \in Lists(Within(t)), disk' \in Files(Born), UNCHANGED <<child, up, used>>,
           cleared \subseteq cleared', SetsOK'
    PROVE  StoreInv'
<1>1. up
  BY Awake
<1>2. Idle \in Task(used, Born) /\ UnbornOf(Idle) = {}
  BY IdleIsTask
<1>3. Idle.op \in OpOf(t) /\ Idle.pc = "idle"
  BY DEF Idle, OpOf, WorkerOp, Request
<1>4. thread' = [thread EXCEPT ![t] = Idle]
  BY DEF Return
<1>5. mem' \in Lists(Born \union (UnbornOf(thread[t]) \ UnbornOf(Idle)))
  BY <1>2 DEF Within
<1> QED
  BY <1>1, <1>2, <1>3, <1>4, <1>5, ActStep

LEMMA MergeKeeps ==
    ASSUME StoreInv, NEW t \in Thread, Merge(t)
    PROVE  StoreInv'
<1>1. up /\ thread[t] \in Task(used, Born) /\ thread[t].op \in OpOf(t)
  BY Awake DEF Merge
<1>2. /\ mem \in Lists(Born) /\ disk \in Files(Born) /\ thread[t].file \in Files(Born)
      /\ NoFile \in Files(Born)
  BY <1>1, NoFileIsFile DEF StoreInv, StoresOK, Task
<1>3. mem' \in Lists(Born)
  BY <1>2, MergedIsLists DEF Merge
<1>4. SetsOK'
  BY DEF Merge, ghosts, StoreInv, SetsOK
<1>5. CASE thread' = [thread EXCEPT ![t] = Idle]
  <2>1. mem' \in Lists(Within(t))
    BY <1>3, ListsGrow DEF Within
  <2> QED
    BY <1>2, <1>4, <1>5, <2>1, ReturnStep DEF Return, Merge, ghosts
<1>6. CASE thread' = [thread EXCEPT ![t] = [@ EXCEPT !.pc = "act", !.file = NoFile]]
  <2> DEFINE r == Holding(thread[t], "act", NoFile)
  <2>1. /\ r \in Task(used, Born) /\ r.op = thread[t].op /\ r.pc = "act"
        /\ r.jobs = thread[t].jobs
    <3>1. "act" \in Step
      BY Steps
    <3> QED
      BY <1>1, <1>2, <3>1, HoldingIsTask
  <2>2. thread' = [thread EXCEPT ![t] = r]
    BY <1>6 DEF Holding, StoreInv, ThreadsOK
  <2>3. UnbornOf(r) \subseteq UnbornOf(thread[t])
    BY <2>1 DEF UnbornOf, Merge
  <2> HIDE DEF r
  <2>4. mem' \in Lists(Born \union (UnbornOf(thread[t]) \ UnbornOf(r)))
    BY <1>3, ListsGrow
  <2> QED
    BY <1>1, <1>2, <1>4, <2>1, <2>2, <2>3, <2>4, ActStep DEF Merge, ghosts
<1> QED
  <2>1. thread \in [Thread -> Task(used, Born)]
    BY DEF StoreInv, ThreadsOK
  <2> QED
    BY <1>5, <1>6, <2>1 DEF Merge

LEMMA WriteKeeps ==
    ASSUME StoreInv, NEW t \in Thread, Write(t)
    PROVE  StoreInv'
<1>1. up /\ thread[t] \in Task(used, Born)
  BY Awake DEF Write
<1>2. disk' \in Files(Born) /\ thread[t].jobs \subseteq used
  BY <1>1 DEF Task, Write
<1>3. mem' \in Lists(Within(t))
  BY MemoryWithin DEF Write
<1>4. thread[t].op \in Removing => thread[t].jobs \subseteq cleared
  BY DEF Write, StoreInv, ThreadsOK
<1>5. SetsOK'
  BY <1>1, <1>2, <1>4 DEF Write, Reporting, StoreInv, SetsOK
<1> QED
  BY <1>2, <1>3, <1>5, ReturnStep DEF Write, Return

LEMMA PushKeeps ==
    ASSUME StoreInv, NEW t \in Thread, Push(t)
    PROVE  StoreInv'
<1>1. thread[t].jobs = UnbornOf(thread[t]) /\ thread[t].pc = "act"
  BY DEF Push, Acting, UnbornOf, Pushing
<1>2. thread[t].jobs \subseteq Within(t) /\ thread[t].jobs \subseteq used
  BY <1>1, MemoryWithin DEF Within
<1>3. SetsOK' /\ UNCHANGED <<disk, child, up, used, cleared>>
  BY DEF Push, ghosts, StoreInv, SetsOK
<1>4. CASE Return(t) /\ mem' = mem
  BY <1>1, <1>3, <1>4, MemoryWithin, ReturnStep DEF StoreInv, StoresOK
<1>5. CASE mem' = Moved(mem, thread[t].jobs, "pending") /\ Saving(t, thread[t].jobs)
  <2>1. mem' \in Lists(Within(t))
    BY <1>2, <1>5, MemoryWithin, MovedIsLists DEF List
  <2>2. thread[t].op \notin Removing
    BY DEF Push, Acting, Removing
  <2> QED
    BY <1>1, <1>2, <1>3, <1>5, <2>1, <2>2, SavingStep
<1> QED
  BY <1>4, <1>5 DEF Push

LEMMA PushBatchKeeps ==
    ASSUME StoreInv, NEW t \in Thread, PushBatch(t)
    PROVE  StoreInv'
<1>1. thread[t].jobs = UnbornOf(thread[t]) /\ thread[t].pc = "act"
  BY DEF PushBatch, Acting, UnbornOf, Pushing
<1>2. thread[t].jobs \subseteq Within(t) /\ thread[t].jobs \subseteq used
  BY <1>1, MemoryWithin DEF Within
<1>3. SetsOK' /\ UNCHANGED <<disk, child, up, used, cleared>>
  BY DEF PushBatch, ghosts, StoreInv, SetsOK
<1>4. CASE Return(t) /\ mem' = mem
  BY <1>1, <1>3, <1>4, MemoryWithin, ReturnStep DEF StoreInv, StoresOK
<1>5. CASE \E N \in Appended(thread[t].jobs) :
               mem' = Moved(mem, N, "pending") /\ Saving(t, N)
  <2>1. PICK N \in SUBSET thread[t].jobs : mem' = Moved(mem, N, "pending") /\ Saving(t, N)
    BY <1>5 DEF Appended
  <2>2. mem' \in Lists(Within(t))
    BY <1>2, <2>1, MemoryWithin, MovedIsLists DEF List
  <2>3. thread[t].op \notin Removing
    BY DEF PushBatch, Acting, Removing
  <2> QED
    BY <1>1, <1>2, <1>3, <2>1, <2>2, <2>3, SavingStep
<1> QED
  BY <1>4, <1>5 DEF PushBatch

LEMMA CancelKeeps ==
    ASSUME StoreInv, NEW t \in Thread, CancelPendingInLane(t)
    PROVE  StoreInv'
<1> DEFINE S == {j \in Waiting(mem) : LaneOf[j] = thread[t].lane}
<1>1. SetsOK' /\ UNCHANGED <<disk, child, up, used, cleared>>
  BY DEF CancelPendingInLane, ghosts, StoreInv, SetsOK
<1>2. thread[t].pc = "act" /\ thread[t].op \notin Removing
  BY DEF CancelPendingInLane, Acting, Removing
<1>3. CASE Return(t) /\ mem' = mem
  BY <1>1, <1>2, <1>3, MemoryWithin, ReturnStep DEF StoreInv, StoresOK
<1>4. CASE mem' = Moved(mem, S, "cancelled") /\ Saving(t, {})
  <2>1. S \subseteq Within(t) /\ mem \in Lists(Within(t))
    BY MemoryWithin DEF Within
  <2> HIDE DEF S
  <2>2. mem' \in Lists(Within(t))
    BY <1>4, <2>1, MovedIsLists DEF List, History
  <2> QED
    BY <1>1, <1>2, <1>4, <2>2, SavingStep
<1> QED
  BY <1>3, <1>4 DEF CancelPendingInLane

LEMMA RequeueFailedKeeps ==
    ASSUME StoreInv, NEW t \in Thread, RequeueFailed(t)
    PROVE  StoreInv'
<1>1. SetsOK' /\ UNCHANGED <<disk, child, up, used, cleared>>
  BY DEF RequeueFailed, ghosts, StoreInv, SetsOK
<1>2. thread[t].pc = "act" /\ thread[t].op \notin Removing
  BY DEF RequeueFailed, Acting, Removing
<1>3. CASE Return(t) /\ mem' = mem
  BY <1>1, <1>2, <1>3, MemoryWithin, ReturnStep DEF StoreInv, StoresOK
<1>4. CASE mem' = Moved(mem, mem.failed, "pending") /\ Saving(t, {})
  <2>1. mem.failed \subseteq Within(t) /\ mem \in Lists(Within(t))
    BY MemoryWithin DEF Within, List, History
  <2>2. mem' \in Lists(Within(t))
    BY <1>4, <2>1, MovedIsLists DEF List
  <2> QED
    BY <1>1, <1>2, <1>4, <2>2, SavingStep
<1> QED
  BY <1>3, <1>4 DEF RequeueFailed

LEMMA RemoveKeeps ==
    ASSUME StoreInv, NEW t \in Thread, Remove(t)
    PROVE  StoreInv'
<1> DEFINE S == Removable(t)
<1>1. /\ mem' = Without(mem, S) /\ held' = held \ S /\ cleared' = cleared \union S
      /\ Return(t) \/ Saving(t, {})
      /\ thread[t].pc = "act" /\ thread[t].op \in Removing
      /\ UNCHANGED <<executing, disk, sentinel, child, up, crashes, used>>
      /\ UNCHANGED <<cooling, accepted, sent, overflowed, backedUp>>
  BY DEF Remove, Acting
<1>2. S \subseteq Born /\ Born \subseteq used
  BY <1>1, MemoryWithin DEF Removable, Removing, List, History
<1>3. mem' \in Lists(Within(t))
  BY <1>1, MemoryWithin, WithoutIsLists
<1> HIDE DEF S
<1>4. SetsOK'
  BY <1>1, <1>2 DEF StoreInv, SetsOK
<1>5. CASE Return(t)
  BY <1>1, <1>3, <1>4, <1>5, ReturnStep DEF StoreInv, StoresOK
<1>6. CASE Saving(t, {})
  BY <1>1, <1>2, <1>3, <1>4, <1>6, SavingStep
<1> QED
  BY <1>1, <1>5, <1>6

LEMMA RestoreKeeps ==
    ASSUME StoreInv, NEW t \in Thread, ActivateRestorable(t) \/ DeferRestorable(t)
    PROVE  StoreInv'
<1>1. SetsOK' /\ UNCHANGED <<disk, child, up, used, cleared>>
  BY DEF ActivateRestorable, DeferRestorable, ghosts, StoreInv, SetsOK
<1>2. thread[t].pc = "act" /\ thread[t].op \notin Removing /\ Saving(t, {})
  BY DEF ActivateRestorable, DeferRestorable, Acting, Removing
<1>3. /\ mem \in Lists(Within(t)) /\ mem.resumed \subseteq Within(t)
      /\ mem.deferred \subseteq Within(t)
  BY MemoryWithin DEF Within, List
<1>4. mem' \in Lists(Within(t))
  <2>1. CASE ActivateRestorable(t)
    <3> DEFINE S == mem.resumed \union mem.deferred
               Done == Backed(S)
               m == Moved(mem, S \ Done, "pending")
    <3>1. S \subseteq Within(t) /\ Done \subseteq S
      BY <1>3 DEF Backed, NeedsSentinel
    <3>2. mem' = Moved(m, Done, "completed")
      BY <2>1 DEF ActivateRestorable
    <3>3. m \in Lists(Within(t))
      BY <1>3, <3>1, MovedIsLists DEF List
    <3> HIDE DEF m, S
    <3> QED
      BY <3>1, <3>2, <3>3, MovedIsLists DEF List, History
  <2>2. CASE DeferRestorable(t)
    BY <1>3, <2>2, MovedIsLists DEF DeferRestorable, List
  <2> QED
    BY <2>1, <2>2
<1> QED
  BY <1>1, <1>2, <1>4, SavingStep

LEMMA FlushKeeps ==
    ASSUME StoreInv, NEW t \in Thread, Flush(t)
    PROVE  StoreInv'
<1>1. SetsOK' /\ UNCHANGED <<disk, child, up, used, cleared>>
  BY DEF Flush, ghosts, StoreInv, SetsOK
<1>2. /\ thread[t].pc = "act" /\ thread[t].op \notin Removing /\ Saving(t, {})
      /\ mem' \in Lists(Within(t))
  BY MemoryWithin DEF Flush, Acting, Removing
<1> QED
  BY <1>1, <1>2, SavingStep

LEMMA PopKeeps ==
    ASSUME StoreInv, NEW t \in Thread, Pop(t)
    PROVE  StoreInv'
<1>1. SetsOK' /\ UNCHANGED <<disk, child, up, used, cleared>>
  BY DEF Pop, ghosts, StoreInv, SetsOK
<1>2. thread[t].pc = "act" /\ thread[t].op \notin Removing
  BY DEF Pop, Acting, Removing
<1>3. CASE Return(t) /\ mem' = mem
  BY <1>1, <1>2, <1>3, MemoryWithin, ReturnStep DEF StoreInv, StoresOK
<1>4. CASE \E j \in Candidates(thread[t].lane) :
               mem' = Moved(mem, {j}, "running") /\ Saving(t, {j})
  <2>1. PICK j \in mem.pending : mem' = Moved(mem, {j}, "running") /\ Saving(t, {j})
    BY <1>4 DEF Candidates, Runnable
  <2>2. {j} \subseteq Within(t) /\ {j} \subseteq used /\ mem \in Lists(Within(t))
    BY MemoryWithin DEF Within, List
  <2>3. mem' \in Lists(Within(t))
    BY <2>1, <2>2, MovedIsLists DEF List
  <2> QED
    BY <1>1, <1>2, <2>1, <2>2, <2>3, SavingStep
<1> QED
  BY <1>3, <1>4 DEF Pop

LEMMA SettleKeeps ==
    ASSUME StoreInv, NEW t \in Thread, Settle(t)
    PROVE  StoreInv'
<1> DEFINE S == Found(t)
           Marked == IF thread[t].op = "completed" THEN NeedsSentinel(S) ELSE {}
<1>1. /\ thread[t].pc = "act" /\ thread[t].op \in History /\ Saving(t, {})
      /\ mem' = Moved(mem, S, thread[t].op)
      /\ sentinel' = sentinel \union Marked
      /\ backedUp' = backedUp \union Marked
      /\ UNCHANGED <<executing, held, disk, child, up, crashes, used>>
      /\ UNCHANGED <<cooling, accepted, sent, cleared, overflowed>>
  BY DEF Settle, Acting
<1>2. Marked \subseteq Backup
  BY DEF NeedsSentinel
<1>3. S \subseteq Within(t) /\ mem \in Lists(Within(t))
  BY MemoryWithin DEF Found, Within, List
<1> HIDE DEF S, Marked
<1>4. SetsOK'
  BY <1>1, <1>2 DEF StoreInv, SetsOK
<1>5. mem' \in Lists(Within(t))
  BY <1>1, <1>3, MovedIsLists DEF List
<1>6. thread[t].op \notin Removing
  BY <1>1 DEF History, Removing
<1> QED
  BY <1>1, <1>4, <1>5, <1>6, SavingStep

LEMMA RequeueKeeps ==
    ASSUME StoreInv, NEW t \in Thread, Requeue(t)
    PROVE  StoreInv'
<1> DEFINE S == Found(t)
<1>1. /\ thread[t].pc = "act" /\ thread[t].op = "requeue"
      /\ mem' = Moved(mem, S, "pending") \/ mem' = Without(mem, S)
      /\ \/ held' = held /\ cooling' = cooling
         \/ held' = held \union S /\ cooling' = cooling \union S
      /\ overflowed' = overflowed \/ overflowed' = overflowed \union S
      /\ \/ thread' = [thread EXCEPT ![t] = Starting("failed", @.jobs, "default")]
         \/ Saving(t, {})
         \/ Return(t)
      /\ UNCHANGED <<executing, disk, sentinel, child, up, crashes, used>>
      /\ UNCHANGED <<accepted, sent, cleared, backedUp>>
  BY DEF Requeue, Acting
<1>2. up /\ thread[t] \in Task(used, Born) /\ thread[t].op \in OpOf(t)
  BY <1>1, Awake
<1>3. S \subseteq Within(t) /\ S \subseteq used /\ mem \in Lists(Within(t))
  BY MemoryWithin DEF Found, Within, List
<1> HIDE DEF S
<1>4. SetsOK' /\ thread[t].op \notin Removing
  BY <1>1, <1>3 DEF StoreInv, SetsOK, Removing
<1>5. mem' \in Lists(Within(t))
  BY <1>1, <1>3, MovedIsLists, WithoutIsLists DEF List
<1>6. CASE thread' = [thread EXCEPT ![t] = Starting("failed", @.jobs, "default")]
  <2> DEFINE r == Starting("failed", thread[t].jobs, "default")
  <2>1. /\ "failed" \in AnyOp /\ "failed" \notin Pushing /\ "failed" \notin Removing
        /\ thread[t].jobs \in SUBSET used /\ "default" \in Lane
    BY <1>2 DEF AnyOp, Settling, History, Pushing, Removing, Lane, Task
  <2>2. /\ r \in Task(used, Born) /\ r.op = "failed" /\ r.pc \in {"merge", "act"}
        /\ UnbornOf(r) = {}
    BY <2>1, StartingIsTask, StartingFields
  <2>3. "failed" \in OpOf(t)
    BY <1>1, <1>2 DEF OpOf, WorkerOp, Settling, History, Request, Removing
  <2>4. thread' = [thread EXCEPT ![t] = r]
    BY <1>6 DEF StoreInv, ThreadsOK
  <2> HIDE DEF r
  <2>5. mem' \in Lists(Born \union (UnbornOf(thread[t]) \ UnbornOf(r)))
    BY <1>5, <2>2 DEF Within
  <2> QED
    BY <1>1, <1>2, <1>4, <2>1, <2>2, <2>3, <2>4, <2>5, ActStep DEF StoreInv, StoresOK
<1>7. CASE Saving(t, {})
  BY <1>1, <1>4, <1>5, <1>7, SavingStep
<1>8. CASE Return(t)
  BY <1>1, <1>4, <1>5, <1>8, ReturnStep DEF StoreInv, StoresOK
<1> QED
  BY <1>1, <1>6, <1>7, <1>8

----------------------------------------------------------------------------
(* The child process, crashes and restarts. *)

\* What no thread does leaves the threads as they are, and may generate ids.
LEMMA ThreadsStay ==
    ASSUME StoreInv, UNCHANGED <<thread, up>>, cleared \subseteq cleared',
           used \subseteq used'
    PROVE  /\ ThreadsOK' /\ Born \subseteq Born'
           /\ used' \ used \subseteq Born'
<1> USE DEF StoreInv, ThreadsOK
<1>1. \A s \in Thread : UnbornOf(thread[s]) \subseteq used
  BY DEF Task, UnbornOf
<1>2. Born' = {j \in used' : \A s \in Thread : j \notin UnbornOf(thread[s])}
  BY DEF Born, UnbornOf
<1>3. Born \subseteq Born' /\ used' \ used \subseteq Born'
  BY <1>1, <1>2 DEF Born
<1>4. \A q \in Task(used, Born) : q \in Task(used', Born')
  BY <1>3, ListsGrow DEF Task
<1>5. thread' \in [Thread -> Task(used', Born')]
  BY <1>4
<1>6. ThreadsOK'
  BY <1>5 DEF UnbornOf, OpOf
<1> QED
  BY <1>3, <1>6

LEMMA BackoffOverKeeps ==
    ASSUME StoreInv, BackoffOver
    PROVE  StoreInv'
<1>1. ThreadsOK' /\ Born \subseteq Born'
  BY ThreadsStay DEF BackoffOver
<1>2. StoresOK'
  BY <1>1, StoresStep DEF BackoffOver, StoreInv, StoresOK
<1>3. SetsOK'
  BY DEF BackoffOver, StoreInv, SetsOK
<1> QED
  BY <1>1, <1>2, <1>3 DEF StoreInv

LEMMA ChildOpenKeeps ==
    ASSUME StoreInv, ChildOpen
    PROVE  StoreInv'
<1>1. ThreadsOK' /\ Born' = Born
  BY ThreadsStay DEF ChildOpen, server, ghosts, Born
<1>2. StoresOK'
  BY <1>1 DEF ChildOpen, server, StoreInv, StoresOK
<1>3. SetsOK'
  BY DEF ChildOpen, server, ghosts, StoreInv, SetsOK
<1> QED
  BY <1>1, <1>2, <1>3 DEF StoreInv

LEMMA ChildPushKeeps ==
    ASSUME StoreInv, ChildPush
    PROVE  StoreInv'
<1> DEFINE m == Merged(Load(child.file), disk)
<1>1. PICK j \in Fresh :
          /\ used' = used \union {j}
          /\ \/ child' = [pc |-> "write", jobs |-> {j},
                          file |-> Serialize(Moved(m, {j}, "pending"))]
             \/ child' = [pc |-> "idle", jobs |-> {}, file |-> NoFile]
  BY DEF ChildPush
<1>2. /\ UNCHANGED <<mem, thread, executing, held>>
      /\ UNCHANGED <<disk, sentinel, up, crashes, ghosts>>
  BY DEF ChildPush, server
<1>3. ThreadsOK' /\ Born \subseteq Born' /\ j \in Born'
  BY <1>1, <1>2, ThreadsStay DEF Fresh, ghosts
<1>4. /\ mem' \in Lists(Born') /\ disk \in Files(Born') /\ disk' \in Files(Born')
      /\ child.file \in Files(Born') /\ NoFile \in Files(Born')
  BY <1>2, <1>3, ListsGrow, NoFileIsFile DEF StoreInv, StoresOK
<1>5. m \in Lists(Born')
  <2>1. Load(child.file) \in Lists(Born')
    BY <1>4, LoadIsLists
  <2> QED
    BY <1>4, <2>1, MergedIsLists
<1> HIDE DEF m
<1>6. Moved(m, {j}, "pending") \in Lists(Born')
  BY <1>3, <1>5, MovedIsLists DEF List
<1>7. Serialize(Moved(m, {j}, "pending")) \in Files(Born')
  BY <1>6, SerializeIsFile
<1>8. child' \in [pc : {"idle", "push", "write"}, jobs : SUBSET (used'), file : Files(Born')]
  BY <1>1, <1>4, <1>7
<1>9. StoresOK'
  BY <1>4, <1>8 DEF StoresOK
<1>10. SetsOK'
  BY <1>1, <1>2 DEF Fresh, ghosts, StoreInv, SetsOK
<1> QED
  BY <1>3, <1>9, <1>10 DEF StoreInv

LEMMA ChildWriteKeeps ==
    ASSUME StoreInv, ChildWrite
    PROVE  StoreInv'
<1>1. ThreadsOK' /\ Born' = Born
  BY ThreadsStay DEF ChildWrite, server, Born
<1>2. StoresOK'
  BY <1>1, NoFileIsFile DEF ChildWrite, server, StoreInv, StoresOK
<1>3. SetsOK'
  BY DEF ChildWrite, server, StoreInv, StoresOK, SetsOK
<1> QED
  BY <1>1, <1>2, <1>3 DEF StoreInv

LEMMA CrashKeeps ==
    ASSUME StoreInv, Crash
    PROVE  StoreInv'
<1>1. thread' = [t \in Thread |-> Idle] /\ used' = used /\ up' = FALSE
  BY DEF Crash
<1>2. \A t \in Thread : thread'[t] = Idle
  BY <1>1
<1>3. /\ Idle.op = "flush" /\ Idle.pc = "idle" /\ UnbornOf(Idle) = {}
      /\ Idle \in Task(used, Born')
  BY IdleIsTask DEF Idle
<1>4. Born' = used
  BY <1>1, <1>2, <1>3 DEF Born, UnbornOf
<1>5. Born \subseteq Born'
  BY <1>4 DEF Born
<1>6. ThreadsOK'
  <2>1. thread' \in [Thread -> Task(used', Born')]
    BY <1>1, <1>3
  <2>2. \A t \in Thread : /\ thread'[t].op = "flush" /\ thread'[t].pc = "idle"
                          /\ UnbornOf(thread'[t]) = {}
    BY <1>2, <1>3
  <2> QED
    BY <1>1, <2>1, <2>2 DEF ThreadsOK, OpOf, WorkerOp, Request, Removing, UnbornOf
<1>7. StoresOK'
  <2>1. mem' \in Lists(Born')
    BY EmptyIsLists DEF Crash
  <2> QED
    BY <1>1, <1>5, <2>1, StoresStep DEF Crash, StoreInv, StoresOK
<1>8. SetsOK'
  <2>1. crashes' \in 0..MaxCrashes
    BY LimitAssumption DEF Crash, StoreInv, SetsOK
  <2>2. /\ executing' = {} /\ held' = {} /\ up' \in BOOLEAN /\ used' = used
        /\ sentinel' = sentinel /\ backedUp' = backedUp /\ cooling' = cooling
        /\ accepted' = accepted /\ sent' = sent /\ overflowed' = overflowed
        /\ cleared' = cleared
    BY DEF Crash, ghosts
  <2> QED
    BY <2>1, <2>2 DEF StoreInv, SetsOK
<1> QED
  BY <1>6, <1>7, <1>8 DEF StoreInv

LEMMA BootKeeps ==
    ASSUME StoreInv, Boot
    PROVE  StoreInv'
<1>1. ThreadsOK' /\ Born' = Born
  BY DEF Boot, StoreInv, ThreadsOK, Born, ghosts, UnbornOf, OpOf
<1>2. mem' \in Lists(Born)
  BY LoadIsLists DEF Boot, StoreInv, StoresOK
<1>3. StoresOK'
  BY <1>1, <1>2 DEF Boot, StoreInv, StoresOK
<1>4. SetsOK'
  BY DEF Boot, ghosts, StoreInv, SetsOK
<1> QED
  BY <1>1, <1>3, <1>4 DEF StoreInv

----------------------------------------------------------------------------

LEMMA InitStores == Init => StoreInv
<1> SUFFICES ASSUME Init PROVE StoreInv
  OBVIOUS
<1>1. /\ Idle.op = "flush" /\ Idle.pc = "idle" /\ UnbornOf(Idle) = {}
      /\ Idle \in Task(used, Born)
  BY IdleIsTask DEF Idle
<1>2. \A t \in Thread : thread[t] = Idle
  BY DEF Init
<1>3. ThreadsOK
  <2>1. thread \in [Thread -> Task(used, Born)]
    BY <1>1 DEF Init
  <2>2. \A t \in Thread : thread[t].op = "flush" /\ UnbornOf(thread[t]) = {}
    BY <1>1, <1>2
  <2> QED
    BY <1>1, <1>2, <2>1, <2>2 DEF Init, ThreadsOK, OpOf, WorkerOp, Request, Removing
<1>4. StoresOK
  BY EmptyIsLists, NoFileIsFile DEF Init, StoresOK
<1>5. SetsOK
  BY LimitAssumption DEF Init, SetsOK
<1> QED
  BY <1>3, <1>4, <1>5 DEF StoreInv

LEMMA StutterKeeps == StoreInv /\ UNCHANGED vars => StoreInv'
<1> SUFFICES ASSUME StoreInv, UNCHANGED vars PROVE StoreInv'
  OBVIOUS
<1>1. ThreadsOK' /\ Born' = Born
  BY ThreadsStay DEF vars, server, ghosts, Born
<1>2. StoresOK' /\ SetsOK'
  BY <1>1 DEF vars, server, ghosts, StoreInv, StoresOK, SetsOK
<1> QED
  BY <1>1, <1>2 DEF StoreInv

LEMMA StoreStep == StoreInv /\ [Next]_vars => StoreInv'
<1> SUFFICES ASSUME StoreInv, [Next]_vars PROVE StoreInv'
  OBVIOUS
<1>1. ASSUME NEW t \in Web, WebRequest(t) PROVE StoreInv'
  BY <1>1, WebRequestKeeps
<1>2. CASE PopJob \/ FinishJob \/ BackoffOver
  BY <1>2, PopJobKeeps, FinishJobKeeps, BackoffOverKeeps
<1>3. ASSUME NEW t \in Thread, Read(t) \/ Merge(t) \/ Save(t) \/ Write(t) PROVE StoreInv'
  BY <1>3, ReadKeeps, MergeKeeps, SaveKeeps, WriteKeeps
<1>4. ASSUME NEW t \in Thread, Operation(t) PROVE StoreInv'
  BY <1>4, PushKeeps, PushBatchKeeps, CancelKeeps, RequeueFailedKeeps, RemoveKeeps,
     RestoreKeeps, FlushKeeps, PopKeeps, SettleKeeps, RequeueKeeps DEF Operation
<1>5. CASE ChildOpen \/ ChildPush \/ ChildWrite \/ Crash \/ Boot
  BY <1>5, ChildOpenKeeps, ChildPushKeeps, ChildWriteKeeps, CrashKeeps, BootKeeps
<1>6. CASE UNCHANGED vars
  BY <1>6, StutterKeeps
<1> QED
  BY <1>1, <1>2, <1>3, <1>4, <1>5, <1>6 DEF Next

\* The inductive invariant: every list, file and reading is typed and keeps a job in
\* one place, and holds no job of a push still under way.
THEOREM StoreInvariant == Spec => []StoreInv
<1>1. Init => StoreInv
  BY InitStores
<1>2. StoreInv /\ [Next]_vars => StoreInv'
  BY StoreStep
<1> QED
  BY <1>1, <1>2, PTL DEF Spec

\* Jobs are rebuilt from a file or a reading of it.
LEMMA RebuiltStep ==
    ASSUME StoreInv, rebuilt \subseteq Job, [Next]_vars
    PROVE  rebuilt' \subseteq Job
<1>1. Born \subseteq Job
  BY DEF StoreInv, SetsOK, Born
<1>2. ASSUME NEW t \in Thread, Merge(t) PROVE rebuilt' \subseteq Job
  <2>1. thread[t].file \in Files(Born)
    BY DEF StoreInv, ThreadsOK, Task
  <2>2. thread[t].file.waiting \subseteq Job
    BY <1>1, <2>1 DEF Files, Section
  <2> QED
    BY <1>2, <2>2 DEF Merge
<1>3. CASE Boot
  <2>1. \A x \in Section : disk[x] \subseteq Job
    BY <1>1 DEF StoreInv, StoresOK, Files
  <2>2. /\ disk.waiting \union disk.running \subseteq Job
        /\ UNION {disk[x] : x \in History} \subseteq Job
    BY <2>1 DEF Section
  <2> QED
    BY <1>3, <2>2 DEF Boot
<1>4. CASE Crash
  BY <1>4 DEF Crash
<1>5. CASE \E t \in Web : WebRequest(t)
  BY <1>5 DEF WebRequest
<1>6. CASE PopJob \/ FinishJob \/ BackoffOver
  BY <1>6 DEF PopJob, FinishJob, BackoffOver
<1>7. CASE \E t \in Thread : Read(t) \/ Save(t) \/ Write(t)
  BY <1>7 DEF Read, Save, Write
<1>8. CASE \E t \in Thread : Operation(t)
  <2>1. CASE \E t \in Thread : Push(t) \/ PushBatch(t) \/ CancelPendingInLane(t) \/ RequeueFailed(t)
    BY <2>1 DEF Push, PushBatch, CancelPendingInLane, RequeueFailed
  <2>2. CASE \E t \in Thread : Remove(t) \/ ActivateRestorable(t) \/ DeferRestorable(t) \/ Flush(t)
    BY <2>2 DEF Remove, ActivateRestorable, DeferRestorable, Flush
  <2>3. CASE \E t \in Thread : Pop(t) \/ Settle(t) \/ Requeue(t)
    BY <2>3 DEF Pop, Settle, Requeue
  <2> QED
    BY <1>8, <2>1, <2>2, <2>3 DEF Operation
<1>9. CASE ChildOpen \/ ChildPush \/ ChildWrite \/ UNCHANGED vars
  BY <1>9 DEF ChildOpen, ChildPush, ChildWrite, vars
<1> QED
  BY <1>2, <1>3, <1>4, <1>5, <1>6, <1>7, <1>8, <1>9 DEF Next

\* Every variable keeps its type.
THEOREM TypeCorrect == Spec => []TypeOK
<1>1. StoreInv /\ rebuilt \subseteq Job => TypeOK
  <2> SUFFICES ASSUME StoreInv, rebuilt \subseteq Job PROVE TypeOK
    OBVIOUS
  <2>1. Born \subseteq Job /\ used \subseteq Job
    BY DEF StoreInv, SetsOK, Born
  <2>2. Files(Born) \subseteq [Section -> SUBSET Job] /\ Lists(Born) \subseteq [List -> SUBSET Job]
    BY <2>1 DEF Files, Lists
  <2>3. \A q \in Task(used, Born) :
            q \in [pc : Step, op : Request \union Settling \union {"pop"},
                   jobs : SUBSET Job, lane : Lane, file : [Section -> SUBSET Job]]
    BY <2>1, <2>2 DEF Task, AnyOp
  <2>4. thread \in [Thread -> [pc : Step, op : Request \union Settling \union {"pop"},
                               jobs : SUBSET Job, lane : Lane,
                               file : [Section -> SUBSET Job]]]
    BY <2>3 DEF StoreInv, ThreadsOK
  <2>5. child \in [pc : {"idle", "push", "write"}, jobs : SUBSET Job,
                   file : [Section -> SUBSET Job]]
    BY <2>1, <2>2 DEF StoreInv, StoresOK
  <2> QED
    BY <2>1, <2>2, <2>4, <2>5 DEF TypeOK, StoreInv, StoresOK, SetsOK
<1>2. Init => StoreInv /\ rebuilt \subseteq Job
  BY InitStores DEF Init
<1>3. (StoreInv /\ rebuilt \subseteq Job) /\ [Next]_vars => (StoreInv /\ rebuilt \subseteq Job)'
  BY StoreStep, RebuiltStep
<1> QED
  BY <1>1, <1>2, <1>3, PTL DEF Spec

\* A job is in one list of memory, of the file and of every reading.
THEOREM JobInOneList == Spec => []OneList
<1>1. StoreInv => OneList
  <2> SUFFICES ASSUME StoreInv PROVE OneList
    OBVIOUS
  <2>1. \A t \in Thread : thread[t].file \in Files(Born)
    BY DEF StoreInv, ThreadsOK, Task
  <2>2. Disjoint(mem) /\ Disjoint(disk) /\ Disjoint(child.file)
    BY DEF StoreInv, StoresOK, Lists, Files
  <2> QED
    BY <2>1, <2>2 DEF OneList, Files
<1> QED
  BY <1>1, StoreInvariant, PTL

----------------------------------------------------------------------------
(* The running list. *)

\* Jobs a worker has popped or is about to settle.
ClaimOf(r) ==
    IF \/ r.op \in Settling /\ r.pc \in {"merge", "act"}
       \/ r.op = "pop" /\ r.pc \in {"save", "write"}
    THEN r.jobs ELSE {}

Claimed == ClaimOf(thread[Worker])

OwnInv ==
    /\ executing \union Claimed \subseteq mem.running
    /\ executing \intersect Claimed = {}

\* Steps that leave the workers' thread alone and the running list as large.
LEMMA OthersStep ==
    ASSUME OwnInv, thread'[Worker] = thread[Worker], executing' = executing,
           mem.running \subseteq mem'.running
    PROVE  OwnInv'
BY DEF OwnInv, Claimed, ClaimOf

LEMMA Separate ==
    ASSUME StoreInv, NEW x \in List, x # "running"
    PROVE  mem[x] \intersect mem.running = {} /\ mem.running \subseteq Born
BY DEF StoreInv, StoresOK, Lists, Disjoint, List

\* A move of jobs that are not running, and no move into memory, shrinks it.
LEMMA MovedKeepsRunning ==
    ASSUME NEW S, NEW x, S \intersect mem.running = {}
    PROVE  /\ mem.running \subseteq Moved(mem, S, x).running
           /\ mem.running \subseteq Without(mem, S).running
BY DEF Moved, Without, List

LEMMA OperationOfWeb ==
    ASSUME StoreInv, NEW t \in Thread,
           \/ Push(t) \/ PushBatch(t) \/ CancelPendingInLane(t) \/ RequeueFailed(t)
           \/ Remove(t) \/ ActivateRestorable(t) \/ DeferRestorable(t)
    PROVE  t # Worker /\ executing' = executing /\ mem.running \subseteq mem'.running
<1>1. t # Worker
  BY DEF Push, PushBatch, CancelPendingInLane, RequeueFailed, Remove, ActivateRestorable,
         DeferRestorable, Acting, StoreInv, ThreadsOK, OpOf, WorkerOp, Settling, History,
         Removing
<1>2. executing' = executing
  BY DEF Push, PushBatch, CancelPendingInLane, RequeueFailed, Remove, ActivateRestorable,
         DeferRestorable
<1>3. /\ \A j \in UnbornOf(thread[t]) : j \notin mem.running
      /\ mem.pending \intersect mem.running = {} /\ mem.deferred \intersect mem.running = {}
      /\ mem.resumed \intersect mem.running = {} /\ mem.failed \intersect mem.running = {}
      /\ mem.cancelled \intersect mem.running = {}
  BY Separate DEF Born, List, History
<1>4. mem.running \subseteq mem'.running
  <2>1. CASE Push(t)
    <3>1. thread[t].jobs \intersect mem.running = {}
      BY <1>3, <2>1 DEF Push, Acting, UnbornOf, Pushing
    <3> QED
      BY <2>1, <3>1, MovedKeepsRunning DEF Push
  <2>2. CASE PushBatch(t)
    <3>1. thread[t].jobs \intersect mem.running = {}
      BY <1>3, <2>2 DEF PushBatch, Acting, UnbornOf, Pushing
    <3>2. mem' = mem \/ \E N \in SUBSET thread[t].jobs : mem' = Moved(mem, N, "pending")
      BY <2>2 DEF PushBatch, Appended
    <3> QED
      BY <3>1, <3>2, MovedKeepsRunning
  <2>3. CASE CancelPendingInLane(t)
    <3>1. mem' = mem \/ \E S \in SUBSET Waiting(mem) : mem' = Moved(mem, S, "cancelled")
      BY <2>3 DEF CancelPendingInLane
    <3> QED
      BY <1>3, <3>1, MovedKeepsRunning DEF Waiting
  <2>4. CASE RequeueFailed(t)
    BY <1>3, <2>4, MovedKeepsRunning DEF RequeueFailed
  <2>5. CASE Remove(t)
    <3>1. mem' = Without(mem, Removable(t)) /\ thread[t].op \in Removing
      BY <2>5 DEF Remove, Acting
    <3>2. Removable(t) \subseteq Waiting(mem) \union mem.cancelled
      BY <3>1 DEF Removable, Removing
    <3>3. Removable(t) \intersect mem.running = {}
      BY <1>3, <3>2 DEF Waiting
    <3> QED
      BY <3>1, <3>3, MovedKeepsRunning
  <2>6. CASE ActivateRestorable(t)
    <3>1. \E A, B \in SUBSET (mem.resumed \union mem.deferred) :
              mem' = Moved(Moved(mem, A, "pending"), B, "completed")
      BY <2>6 DEF ActivateRestorable, Backed, NeedsSentinel
    <3>2. PICK A \in SUBSET (mem.resumed \union mem.deferred),
               B \in SUBSET (mem.resumed \union mem.deferred) :
              mem' = Moved(Moved(mem, A, "pending"), B, "completed")
      BY <3>1
    <3> QED
      BY <1>3, <3>2 DEF Moved, List, History
  <2>7. CASE DeferRestorable(t)
    BY <1>3, <2>7, MovedKeepsRunning DEF DeferRestorable
  <2> QED
    BY <2>1, <2>2, <2>3, <2>4, <2>5, <2>6, <2>7
<1> QED
  BY <1>1, <1>2, <1>4

\* Steps of a thread other than the workers'.
LEMMA OtherThread ==
    ASSUME OwnInv, NEW t \in Thread, t # Worker, StoreInv,
           \E r : thread' = [thread EXCEPT ![t] = r],
           executing' = executing, mem.running \subseteq mem'.running
    PROVE  OwnInv'
<1>1. thread'[Worker] = thread[Worker]
  BY DEF StoreInv, ThreadsOK
<1> QED
  BY <1>1, OthersStep

LEMMA WorkerStep ==
    ASSUME OwnInv, executing' \subseteq executing, mem.running \subseteq mem'.running,
           ClaimOf(thread'[Worker]) \subseteq Claimed
    PROVE  OwnInv'
BY DEF OwnInv, Claimed, ClaimOf

LEMMA WorkerThread ==
    ASSUME StoreInv
    PROVE  /\ Worker \in Thread /\ thread[Worker].op \in WorkerOp
           /\ \A r : thread' = [thread EXCEPT ![Worker] = r] => thread'[Worker] = r
BY DEF StoreInv, ThreadsOK, Thread, OpOf

LEMMA IdleClaims == ClaimOf(Idle) = {}
BY DEF ClaimOf, Idle

LEMMA ReadOwns ==
    ASSUME StoreInv, OwnInv, NEW t \in Thread, Read(t)
    PROVE  OwnInv'
<1>1. /\ thread' = [thread EXCEPT ![t] = Holding(thread[t], "merge", disk)]
      /\ executing' = executing /\ mem' = mem
  BY DEF Read, Holding, StoreInv, ThreadsOK
<1>2. CASE t # Worker
  BY <1>1, <1>2, OtherThread
<1>3. CASE t = Worker
  <2> DEFINE r == Holding(thread[t], "merge", disk)
  <2>1. thread[t].op = "pop" /\ thread[t] \in Task(used, Born) /\ disk \in Files(Born)
    BY DEF Read, StoreInv, ThreadsOK, StoresOK
  <2>2. r.op = "pop" /\ r.pc = "merge"
    BY <2>1, Steps, HoldingIsTask
  <2>3. ClaimOf(r) = {}
    BY <2>2 DEF ClaimOf, Settling, History
  <2>4. thread'[Worker] = r
    BY <1>1, <1>3, WorkerThread
  <2> HIDE DEF r
  <2> QED
    BY <1>1, <2>3, <2>4, WorkerStep
<1> QED
  BY <1>2, <1>3

LEMMA SaveOwns ==
    ASSUME StoreInv, OwnInv, NEW t \in Thread, Save(t)
    PROVE  OwnInv'
<1> DEFINE r == Holding(thread[t], "write", Serialize(mem))
<1>1. /\ thread' = [thread EXCEPT ![t] = r]
      /\ executing' = executing /\ mem' = mem
  BY DEF Save, Holding, StoreInv, ThreadsOK
<1>2. r.op = thread[t].op /\ r.pc = "write" /\ r.jobs = thread[t].jobs
  <2>1. thread[t] \in Task(used, Born) /\ Serialize(mem) \in Files(Born)
    BY SerializeIsFile DEF StoreInv, ThreadsOK, StoresOK
  <2> QED
    BY <2>1, Steps, HoldingIsTask
<1> HIDE DEF r
<1>3. CASE t # Worker
  BY <1>1, <1>3, OtherThread
<1>4. CASE t = Worker
  <2>1. thread'[Worker] = r
    BY <1>1, <1>4, WorkerThread
  <2>2. ClaimOf(r) \subseteq Claimed
    BY <1>2, <1>4 DEF ClaimOf, Claimed, Save
  <2> QED
    BY <1>1, <2>1, <2>2, WorkerStep
<1> QED
  BY <1>3, <1>4

LEMMA MergeOwns ==
    ASSUME StoreInv, OwnInv, NEW t \in Thread, Merge(t)
    PROVE  OwnInv'
<1> DEFINE r == Holding(thread[t], "act", NoFile)
<1>1. /\ \/ thread' = [thread EXCEPT ![t] = Idle]
         \/ thread' = [thread EXCEPT ![t] = r]
      /\ executing' = executing
  BY DEF Merge, Holding, StoreInv, ThreadsOK
<1>2. mem.running \subseteq mem'.running
  BY DEF Merge, Merged, StoreInv, StoresOK, Lists, List
<1>3. r.op = thread[t].op /\ r.pc = "act" /\ r.jobs = thread[t].jobs
  <2>1. thread[t] \in Task(used, Born) /\ NoFile \in Files(Born) /\ "act" \in Step
    BY Steps, NoFileIsFile DEF StoreInv, ThreadsOK
  <2> QED
    BY <2>1, HoldingIsTask
<1> HIDE DEF r
<1>4. CASE t # Worker
  BY <1>1, <1>2, <1>4, OtherThread
<1>5. CASE t = Worker
  <2>1. thread'[Worker] = r \/ thread'[Worker] = Idle
    BY <1>1, <1>5, WorkerThread
  <2>2. ClaimOf(r) \subseteq Claimed
    BY <1>3, <1>5 DEF ClaimOf, Claimed, Merge
  <2> QED
    BY <1>1, <1>2, <2>1, <2>2, IdleClaims, WorkerStep
<1> QED
  BY <1>4, <1>5

LEMMA WriteOwns ==
    ASSUME StoreInv, OwnInv, NEW t \in Thread, Write(t)
    PROVE  OwnInv'
<1>1. thread' = [thread EXCEPT ![t] = Idle] /\ mem' = mem /\ thread[t].pc = "write"
  BY DEF Write
<1>2. CASE t # Worker
  <2>1. thread[t].op # "pop"
    BY <1>2 DEF StoreInv, ThreadsOK, OpOf, Request, Removing
  <2>2. executing' = executing
    BY <2>1 DEF Write, Reporting
  <2> QED
    BY <1>1, <1>2, <2>2, OtherThread
<1>3. CASE t = Worker
  <2>1. Claimed' = {}
    BY <1>1, <1>3, WorkerThread, IdleClaims DEF Claimed
  <2>2. executing' \subseteq executing \union Claimed
    BY <1>1, <1>3 DEF Write, Reporting, Claimed, ClaimOf
  <2> QED
    BY <1>1, <2>1, <2>2 DEF OwnInv
<1> QED
  BY <1>2, <1>3

LEMMA FlushOwns ==
    ASSUME StoreInv, OwnInv, NEW t \in Thread, Flush(t)
    PROVE  OwnInv'
<1> DEFINE r == Taking(thread[t], "save", {})
<1>1. thread' = [thread EXCEPT ![t] = r] /\ executing' = executing /\ mem' = mem
  BY DEF Flush, Saving, Taking, StoreInv, ThreadsOK
<1>2. r.jobs = {}
  BY DEF Taking, StoreInv, ThreadsOK, Task
<1> HIDE DEF r
<1>3. CASE t # Worker
  BY <1>1, <1>3, OtherThread
<1>4. CASE t = Worker
  <2>1. thread'[Worker] = r
    BY <1>1, <1>4, WorkerThread
  <2>2. ClaimOf(r) = {}
    BY <1>2 DEF ClaimOf
  <2> QED
    BY <1>1, <2>1, <2>2, WorkerStep
<1> QED
  BY <1>3, <1>4

LEMMA PopOwns ==
    ASSUME StoreInv, OwnInv, NEW t \in Thread, Pop(t)
    PROVE  OwnInv'
<1>1. t = Worker
  BY DEF Pop, Acting, StoreInv, ThreadsOK, OpOf, Request, Removing
<1>2. executing' = executing
  BY DEF Pop
<1>3. CASE Return(t) /\ mem' = mem
  <2>1. thread'[Worker] = Idle
    BY <1>1, <1>3, WorkerThread DEF Return
  <2> QED
    BY <1>2, <1>3, <2>1, IdleClaims, WorkerStep
<1>4. CASE \E j \in Candidates(thread[t].lane) :
               mem' = Moved(mem, {j}, "running") /\ Saving(t, {j})
  <2>1. PICK j \in mem.pending : mem' = Moved(mem, {j}, "running") /\ Saving(t, {j})
    BY <1>4 DEF Candidates, Runnable
  <2> DEFINE r == Taking(thread[t], "save", {j})
  <2>2. thread'[Worker] = r
    <3>1. thread' = [thread EXCEPT ![Worker] = r]
      BY <1>1, <2>1 DEF Saving, Taking, StoreInv, ThreadsOK
    <3> QED
      BY <3>1, WorkerThread
  <2>3. r.jobs = {j}
    BY DEF Taking, StoreInv, ThreadsOK, Task
  <2> HIDE DEF r
  <2>4. Claimed' \subseteq {j}
    BY <2>2, <2>3 DEF Claimed, ClaimOf
  <2>5. mem'.running = mem.running \union {j} /\ j \notin mem.running
    BY <2>1, Separate DEF Moved, List
  <2> QED
    BY <1>2, <2>4, <2>5 DEF OwnInv
<1> QED
  BY <1>3, <1>4 DEF Pop

\* A settlement moves exactly the jobs the worker claims.
LEMMA FoundIsClaimed ==
    ASSUME StoreInv, OwnInv, thread[Worker].pc = "act", thread[Worker].op \in Settling
    PROVE  /\ thread[Worker].jobs = Claimed /\ Found(Worker) = Claimed
           /\ executing \subseteq mem.running \ Claimed
BY DEF OwnInv, Claimed, ClaimOf, Found

LEMMA SettleOwns ==
    ASSUME StoreInv, OwnInv, NEW t \in Thread, Settle(t)
    PROVE  OwnInv'
<1>1. /\ thread[t].pc = "act" /\ thread[t].op \in History
      /\ mem' = Moved(mem, Found(t), thread[t].op) /\ Saving(t, {})
      /\ executing' = executing
  BY DEF Settle, Acting
<1>2. t = Worker
  BY <1>1 DEF StoreInv, ThreadsOK, OpOf, Request, Removing, History
<1>3. executing \subseteq mem.running \ Found(Worker)
  BY <1>1, <1>2, FoundIsClaimed DEF Settling
<1>4. executing' \subseteq mem'.running
  BY <1>1, <1>2, <1>3 DEF Moved, List, History
<1>5. Claimed' = {}
  <2> DEFINE r == Taking(thread[t], "save", {})
  <2>1. thread' = [thread EXCEPT ![Worker] = r]
    BY <1>1, <1>2 DEF Saving, Taking, StoreInv, ThreadsOK
  <2>2. r.jobs = {}
    BY DEF Taking, StoreInv, ThreadsOK, Task
  <2> HIDE DEF r
  <2> QED
    BY <2>1, <2>2, WorkerThread DEF Claimed, ClaimOf
<1> QED
  BY <1>4, <1>5 DEF OwnInv

LEMMA RequeueOwns ==
    ASSUME StoreInv, OwnInv, NEW t \in Thread, Requeue(t)
    PROVE  OwnInv'
<1> DEFINE S == Found(t)
<1>1. /\ thread[t].pc = "act" /\ thread[t].op = "requeue"
      /\ mem' = Moved(mem, S, "pending") \/ mem' = Without(mem, S)
      /\ \/ S = {} /\ thread' = [thread EXCEPT ![t] = Starting("failed", @.jobs, "default")]
         \/ Saving(t, {})
         \/ Return(t)
      /\ executing' = executing
  BY DEF Requeue, Acting
<1>2. t = Worker
  BY <1>1 DEF StoreInv, ThreadsOK, OpOf, Request, Removing
<1>3. S = Claimed /\ S = thread[t].jobs /\ executing \subseteq mem.running \ S
  BY <1>1, <1>2, FoundIsClaimed DEF Settling
<1> HIDE DEF S
<1>4. executing' \subseteq mem'.running
  BY <1>1, <1>3 DEF Moved, Without, List
<1>5. Claimed' = {}
  <2>1. CASE S = {} /\ thread' = [thread EXCEPT ![t] = Starting("failed", @.jobs, "default")]
    <3>1. thread' = [thread EXCEPT ![Worker] = Starting("failed", thread[t].jobs, "default")]
      BY <1>2, <2>1 DEF StoreInv, ThreadsOK
    <3>2. Starting("failed", thread[t].jobs, "default").jobs = {}
      BY <1>3, <2>1, StartingFields
    <3> QED
      BY <3>1, <3>2, WorkerThread DEF Claimed, ClaimOf
  <2>2. CASE Saving(t, {})
    <3> DEFINE r == Taking(thread[t], "save", {})
    <3>1. thread' = [thread EXCEPT ![Worker] = r]
      BY <1>2, <2>2 DEF Saving, Taking, StoreInv, ThreadsOK
    <3>2. r.jobs = {}
      BY DEF Taking, StoreInv, ThreadsOK, Task
    <3> HIDE DEF r
    <3> QED
      BY <3>1, <3>2, WorkerThread DEF Claimed, ClaimOf
  <2>3. CASE Return(t)
    BY <1>2, <2>3, WorkerThread, IdleClaims DEF Return, Claimed
  <2> QED
    BY <1>1, <2>1, <2>2, <2>3
<1> QED
  BY <1>4, <1>5 DEF OwnInv

LEMMA FinishJobOwns ==
    ASSUME StoreInv, OwnInv, FinishJob
    PROVE  OwnInv'
<1>1. PICK j \in executing, outcome \in Outcomes :
          Start(Worker, outcome, {j}, "default") /\ executing' = executing \ {j}
  BY DEF FinishJob
<1>2. mem' = mem
  BY DEF FinishJob
<1>3. thread'[Worker] = Starting(outcome, {j}, "default")
  BY <1>1, WorkerThread DEF Start
<1>4. Claimed' \subseteq {j}
  BY <1>3, StartingFields DEF Claimed, ClaimOf
<1> QED
  BY <1>1, <1>2, <1>4 DEF OwnInv

LEMMA PopJobOwns ==
    ASSUME StoreInv, OwnInv, PopJob
    PROVE  OwnInv'
<1>1. PICK l \in Lane : thread' = [thread EXCEPT ![Worker] =
             [Starting("pop", {}, l) EXCEPT !.pc = IF Runnable(l) = {} THEN "read"
                                                                       ELSE "act"]]
  BY DEF PopJob, Lane
<1>2. thread'[Worker].jobs = {}
  BY <1>1, WorkerThread DEF Starting
<1>3. Claimed' = {}
  BY <1>2 DEF Claimed, ClaimOf
<1> QED
  BY <1>3, WorkerStep DEF PopJob, Claimed

LEMMA RestartOwns ==
    ASSUME StoreInv, OwnInv, Crash \/ Boot
    PROVE  OwnInv'
<1>1. executing' = {}
  BY DEF Crash, Boot, StoreInv, SetsOK
<1>2. thread'[Worker].pc = "idle"
  BY WorkerThread DEF Crash, Boot, StoreInv, ThreadsOK, Idle
<1>3. Claimed' = {}
  BY <1>2 DEF Claimed, ClaimOf
<1> QED
  BY <1>1, <1>3 DEF OwnInv

LEMMA OwnStep == StoreInv /\ OwnInv /\ [Next]_vars => OwnInv'
<1> SUFFICES ASSUME StoreInv, OwnInv, [Next]_vars PROVE OwnInv'
  OBVIOUS
<1>1. ASSUME NEW t \in Web, WebRequest(t) PROVE OwnInv'
  <2>1. t \in Thread /\ t # Worker
    BY ThreadAssumption DEF Thread
  <2>2. (\E r : thread' = [thread EXCEPT ![t] = r]) /\ UNCHANGED <<mem, executing>>
    BY <1>1 DEF WebRequest, Start
  <2> QED
    BY <2>1, <2>2, OtherThread
<1>2. CASE PopJob \/ FinishJob
  BY <1>2, PopJobOwns, FinishJobOwns
<1>3. ASSUME NEW t \in Thread, Read(t) \/ Merge(t) \/ Save(t) \/ Write(t) PROVE OwnInv'
  BY <1>3, ReadOwns, MergeOwns, SaveOwns, WriteOwns
<1>4. ASSUME NEW t \in Thread, Operation(t) PROVE OwnInv'
  <2>1. CASE \/ Push(t) \/ PushBatch(t) \/ CancelPendingInLane(t) \/ RequeueFailed(t)
             \/ Remove(t) \/ ActivateRestorable(t) \/ DeferRestorable(t)
    <3>1. \E r : thread' = [thread EXCEPT ![t] = r]
      BY <2>1 DEF Push, PushBatch, CancelPendingInLane, RequeueFailed, Remove,
                  ActivateRestorable, DeferRestorable, Saving, Return
    <3> QED
      BY <2>1, <3>1, OperationOfWeb, OtherThread
  <2> QED
    BY <1>4, <2>1, FlushOwns, PopOwns, SettleOwns, RequeueOwns DEF Operation
<1>5. CASE BackoffOver \/ ChildOpen \/ ChildPush \/ ChildWrite \/ UNCHANGED vars
  <2>1. UNCHANGED <<mem, thread, executing>>
    BY <1>5 DEF BackoffOver, ChildOpen, ChildPush, ChildWrite, vars, server
  <2> QED
    BY <2>1, OthersStep
<1>6. CASE Crash \/ Boot
  BY <1>6, RestartOwns
<1> QED
  BY <1>1, <1>2, <1>3, <1>4, <1>5, <1>6 DEF Next

\* The job a worker executes stays in the running list, whatever requests do, until
\* the worker settles it.
THEOREM RunningStays == Spec => []RunningOwned
<1>1. Init => StoreInv /\ OwnInv
  <2> SUFFICES ASSUME Init PROVE StoreInv /\ OwnInv
    OBVIOUS
  <2>1. Claimed = {} /\ executing = {}
    BY DEF Init, Claimed, ClaimOf, Idle, Thread
  <2> QED
    BY <2>1, InitStores DEF OwnInv
<1>2. (StoreInv /\ OwnInv) /\ [Next]_vars => (StoreInv /\ OwnInv)'
  BY StoreStep, OwnStep
<1>3. OwnInv => RunningOwned
  BY DEF OwnInv, RunningOwned, Claimed, ClaimOf
<1> QED
  BY <1>1, <1>2, <1>3, PTL DEF Spec

----------------------------------------------------------------------------
(* What memory knows. *)

\* Ids that are in a list, or whose loss is accounted for.
Kept == Known(mem) \union cleared \union overflowed

LEMMA KnownMoved ==
    ASSUME NEW b, NEW m \in Lists(b), NEW S, NEW x \in List, NEW f
    PROVE  /\ Known(Moved(m, S, x)) = Known(m) \union S
           /\ Known(Without(m, S)) = Known(m) \ S
           /\ Known(m) \subseteq Known(Merged(m, f))
           /\ Known(Merged(m, f)) = Known(m) \union f.waiting
<1>1. Known(m) = UNION {m[y] : y \in List} /\ DOMAIN m = List
  BY DEF Known, Lists
<1>2. Known(Moved(m, S, x)) = Known(m) \union S
  <2>1. \A j : j \in Known(Moved(m, S, x)) <=> j \in Known(m) \union S
    BY DEF Known, Moved
  <2> QED
    BY <2>1
<1>3. Known(Without(m, S)) = Known(m) \ S
  <2>1. \A j : j \in Known(Without(m, S)) <=> j \in Known(m) \ S
    BY DEF Known, Without
  <2> QED
    BY <2>1
<1>4. Known(Merged(m, f)) = Known(m) \union f.waiting
  <2> DEFINE A == f.waiting \ Known(m)
             n == [m EXCEPT !.pending = @ \union A]
  <2> HIDE DEF A
  <2>1. \A y \in List : n[y] = IF y = "pending" THEN m[y] \union A ELSE m[y]
    BY <1>1
  <2>2. "pending" \in List
    BY DEF List
  <2> HIDE DEF n
  <2>3. Known(n) = Known(m) \union A
    <3>1. \A j : j \in Known(n) <=> j \in Known(m) \union A
      BY <2>1, <2>2 DEF Known
    <3> QED
      BY <3>1
  <2>4. Merged(m, f) = n
    BY DEF Merged, A, n
  <2> QED
    BY <2>3, <2>4 DEF A
<1> QED
  BY <1>2, <1>3, <1>4

\* The part of it about removals.
LEMMA KnownWithout ==
    ASSUME NEW b, NEW m \in Lists(b), NEW S
    PROVE  Known(Without(m, S)) = Known(m) \ S
<1>1. "pending" \in List
  BY DEF List
<1> QED
  BY <1>1, KnownMoved, Zenon

LEMMA MemIsLists == ASSUME StoreInv PROVE mem \in Lists(Born)
BY DEF StoreInv, StoresOK

\* An operation takes out of memory only what it reports as removed, or what it
\* refuses.
LEMMA KeptGrows ==
    ASSUME StoreInv, NEW t \in Thread, Operation(t) \/ Merge(t)
    PROVE  /\ Kept \subseteq Kept' /\ cleared \subseteq cleared'
           /\ overflowed \subseteq overflowed' /\ UNCHANGED <<up, crashes, disk, child, used>>
<1>1. mem \in Lists(Born) /\ {"pending", "cancelled", "running", "completed", "deferred"} \subseteq List
  BY MemIsLists DEF List, History
<1>2. CASE Merge(t)
  BY <1>1, <1>2, KnownMoved DEF Merge, Kept, ghosts
<1>3. CASE Push(t)
  BY <1>1, <1>3, KnownMoved DEF Push, Kept, ghosts
<1>4. CASE PushBatch(t)
  BY <1>1, <1>4, KnownMoved DEF PushBatch, Kept, ghosts
<1>5. CASE CancelPendingInLane(t)
  <2>1. \E S : mem' \in {mem, Moved(mem, S, "cancelled")}
    BY <1>5 DEF CancelPendingInLane
  <2> QED
    BY <1>1, <1>5, <2>1, KnownMoved DEF CancelPendingInLane, Kept, ghosts
<1>6. CASE RequeueFailed(t)
  BY <1>1, <1>6, KnownMoved DEF RequeueFailed, Kept, ghosts
<1>7. CASE Remove(t)
  <2>1. PICK S : mem' = Without(mem, S) /\ cleared' = cleared \union S
    BY <1>7 DEF Remove
  <2>2. UNCHANGED <<up, crashes, disk, child, used, overflowed>>
    BY <1>7 DEF Remove
  <2>3. Known(mem') = Known(mem) \ S
    BY <1>1, <2>1, KnownWithout
  <2> QED
    BY <2>1, <2>2, <2>3 DEF Kept
<1>8. CASE ActivateRestorable(t)
  <2>1. PICK A, B : /\ mem' = Moved(Moved(mem, A, "pending"), B, "completed")
                    /\ A \subseteq Born
    <3> DEFINE S == mem.resumed \union mem.deferred
    <3>1. S \subseteq Born
      BY MemoryWithin DEF List
    <3>2. mem' = Moved(Moved(mem, S \ Backed(S), "pending"), Backed(S), "completed")
      BY <1>8 DEF ActivateRestorable
    <3> HIDE DEF S
    <3> QED
      BY <3>1, <3>2
  <2>2. Moved(mem, A, "pending") \in Lists(Born)
    BY <1>1, <2>1, MovedIsLists
  <2>3. Known(mem) \subseteq Known(mem')
    BY <1>1, <2>1, <2>2, KnownMoved
  <2> QED
    BY <1>8, <2>3 DEF ActivateRestorable, Kept, ghosts
<1>9. CASE DeferRestorable(t)
  BY <1>1, <1>9, KnownMoved DEF DeferRestorable, Kept, ghosts
<1>10. CASE Flush(t)
  BY <1>10 DEF Flush, Kept, ghosts
<1>11. CASE Pop(t)
  <2>1. \E S : mem' \in {mem, Moved(mem, S, "running")}
    BY <1>11 DEF Pop
  <2>2. Known(mem) \subseteq Known(mem')
    BY <1>1, <2>1, KnownMoved
  <2>3. UNCHANGED <<up, crashes, disk, child, used, cleared, overflowed>>
    BY <1>11 DEF Pop, ghosts
  <2> QED
    BY <2>2, <2>3 DEF Kept
<1>12. CASE Settle(t)
  <2>1. thread[t].op \in List
    BY <1>12 DEF Settle, Acting, List
  <2> QED
    BY <1>1, <1>12, <2>1, KnownMoved DEF Settle, Kept, ghosts
<1>13. CASE Requeue(t)
  <2>1. \/ mem' = Moved(mem, Found(t), "pending") /\ overflowed' = overflowed
        \/ mem' = Without(mem, Found(t)) /\ overflowed' = overflowed \union Found(t)
    BY <1>13 DEF Requeue
  <2>2. UNCHANGED <<up, crashes, disk, child, used, cleared>>
    BY <1>13 DEF Requeue
  <2>3. PICK S : \/ Known(mem') = Known(mem) \union S /\ overflowed' = overflowed
                 \/ Known(mem') = Known(mem) \ S /\ overflowed' = overflowed \union S
    BY <1>1, <2>1, KnownMoved
  <2> QED
    BY <2>2, <2>3 DEF Kept
<1> QED
  BY <1>2, <1>3, <1>4, <1>5, <1>6, <1>7, <1>8, <1>9, <1>10, <1>11, <1>12, <1>13 DEF Operation

\* Every other step of a server that keeps running leaves memory alone.
LEMMA QuietStep ==
    ASSUME [Next]_vars, ~Crash, ~Boot, \A t \in Thread : ~Operation(t) /\ ~Merge(t)
    PROVE  UNCHANGED <<mem, up, crashes, cleared, overflowed>> /\ Kept' = Kept
<1>1. CASE \E t \in Web : WebRequest(t)
  BY <1>1 DEF WebRequest, ghosts, Kept
<1>2. CASE PopJob \/ FinishJob \/ BackoffOver
  BY <1>2 DEF PopJob, FinishJob, BackoffOver, ghosts, Kept
<1>3. CASE \E t \in Thread : Read(t) \/ Save(t) \/ Write(t)
  BY <1>3 DEF Read, Save, Write, ghosts, Kept
<1>4. CASE ChildOpen \/ ChildPush \/ ChildWrite \/ UNCHANGED vars
  BY <1>4 DEF ChildOpen, ChildPush, ChildWrite, vars, server, ghosts, Kept
<1> QED
  BY <1>1, <1>2, <1>3, <1>4 DEF Next

----------------------------------------------------------------------------
(* What a push returned. *)

\* Jobs that a push has put into memory and has not returned yet.
PushedOf(r) == IF r.op \in Pushing /\ r.pc \in {"save", "write"} THEN r.jobs ELSE {}

PushInv ==
    crashes = 0 => /\ up
                   /\ accepted \subseteq Kept
                   /\ \A t \in Thread : PushedOf(thread[t]) \subseteq Kept

\* A step replaces the record of one thread at most.
LEMMA OneThread ==
    ASSUME StoreInv, NEW t \in Thread, NEW r, thread' = [thread EXCEPT ![t] = r]
    PROVE  thread'[t] = r /\ \A s \in Thread \ {t} : thread'[s] = thread[s]
BY DEF StoreInv, ThreadsOK

LEMMA PushedFields ==
    ASSUME NEW r
    PROVE  /\ PushedOf(Idle) = {}
           /\ r.pc \notin {"save", "write"} => PushedOf(r) = {}
           /\ r.op \notin Pushing => PushedOf(r) = {}
           /\ PushedOf(r) \subseteq r.jobs
BY DEF PushedOf, Idle

\* An operation ends with a save or returns; the requeue of a job that is not
\* running becomes a failure.
LEMMA OperationTask ==
    ASSUME StoreInv, NEW t \in Thread, Operation(t)
    PROVE  /\ thread[t].pc = "act"
           /\ \/ Return(t)
              \/ \E S : Saving(t, S)
              \/ /\ thread[t].op = "requeue"
                 /\ thread' = [thread EXCEPT ![t] =
                                  Starting("failed", thread[t].jobs, "default")]
<1> USE DEF Acting, Saving, Return
<1>1. CASE Push(t) \/ PushBatch(t) \/ CancelPendingInLane(t) \/ RequeueFailed(t)
  BY <1>1 DEF Push, PushBatch, CancelPendingInLane, RequeueFailed
<1>2. CASE Remove(t) \/ ActivateRestorable(t) \/ DeferRestorable(t) \/ Flush(t)
  BY <1>2 DEF Remove, ActivateRestorable, DeferRestorable, Flush
<1>3. CASE Pop(t) \/ Settle(t)
  BY <1>3 DEF Pop, Settle
<1>4. CASE Requeue(t)
  <2>1. /\ thread[t].pc = "act" /\ thread[t].op = "requeue"
        /\ \/ thread' = [thread EXCEPT ![t] = Starting("failed", @.jobs, "default")]
           \/ Saving(t, {}) \/ Return(t)
    BY <1>4 DEF Requeue
  <2>2. [thread EXCEPT ![t] = Starting("failed", @.jobs, "default")]
          = [thread EXCEPT ![t] = Starting("failed", thread[t].jobs, "default")]
    BY DEF StoreInv, ThreadsOK
  <2> QED
    BY <2>1, <2>2
<1> QED
  BY <1>1, <1>2, <1>3, <1>4 DEF Operation

LEMMA SavingTask ==
    ASSUME StoreInv, NEW t \in Thread, NEW S, Saving(t, S)
    PROVE  /\ thread' = [thread EXCEPT ![t] = Taking(thread[t], "save", S)]
           /\ Taking(thread[t], "save", S).pc = "save"
           /\ Taking(thread[t], "save", S).op = thread[t].op
           /\ Taking(thread[t], "save", S).jobs = S
           /\ Taking(thread[t], "save", S).file = thread[t].file
<1>1. thread[t] \in Task(used, Born) /\ thread \in [Thread -> Task(used, Born)]
  BY DEF StoreInv, ThreadsOK
<1> QED
  BY <1>1 DEF Saving, Taking, Task

\* What a merge leaves of the record of its thread.
LEMMA MergeTask ==
    ASSUME StoreInv, NEW t \in Thread, Merge(t)
    PROVE  \E r : /\ thread' = [thread EXCEPT ![t] = r]
                  /\ r.pc \in {"idle", "act"} /\ r.file = NoFile
<1>1. thread[t] \in Task(used, Born) /\ thread \in [Thread -> Task(used, Born)]
  BY DEF StoreInv, ThreadsOK
<1> DEFINE h == Holding(thread[t], "act", NoFile)
           r == IF Loadable(thread[t].file) \/ thread[t].op = "pop" THEN h ELSE Idle
<1>2. thread' = [thread EXCEPT ![t] = r]
  BY <1>1 DEF Merge, Holding
<1>3. h.pc = "act" /\ h.file = NoFile
  BY <1>1 DEF Holding, Task
<1>4. Idle.pc = "idle" /\ Idle.file = NoFile
  BY DEF Idle
<1> HIDE DEF h
<1> QED
  BY <1>2, <1>3, <1>4

LEMMA OperationPushes ==
    ASSUME StoreInv, NEW t \in Thread, Operation(t) \/ Merge(t)
    PROVE  /\ \A s \in Thread : PushedOf(thread'[s]) \subseteq PushedOf(thread[s]) \union Kept'
           /\ accepted' = accepted
<1>1. accepted' = accepted
  BY DEF Operation, Merge, Push, PushBatch, CancelPendingInLane, RequeueFailed, Remove,
         ActivateRestorable, DeferRestorable, Flush, Pop, Settle, Requeue, ghosts
<1>2. mem \in Lists(Born) /\ "pending" \in List
  BY MemIsLists DEF List
<1>3. \E r : thread' = [thread EXCEPT ![t] = r] /\ PushedOf(r) \subseteq Kept'
  <2>1. CASE Merge(t)
    <3>1. PICK r : thread' = [thread EXCEPT ![t] = r] /\ r.pc \in {"idle", "act"}
      BY <2>1, MergeTask
    <3>2. PushedOf(r) = {}
      BY <3>1 DEF PushedOf
    <3> QED
      BY <3>1, <3>2
  <2>2. CASE Return(t)
    BY <2>2, PushedFields DEF Return
  <2>3. ASSUME Operation(t), NEW S, Saving(t, S)
        PROVE  \E r : thread' = [thread EXCEPT ![t] = r] /\ PushedOf(r) \subseteq Kept'
    <3> DEFINE r == Taking(thread[t], "save", S)
    <3>1. /\ thread' = [thread EXCEPT ![t] = r]
          /\ r.pc = "save" /\ r.op = thread[t].op /\ r.jobs = S
      BY <2>3, SavingTask
    <3>2. thread[t].op \in Pushing => S \subseteq Kept'
      <4>1. thread'[t].pc = "save" /\ thread'[t].jobs = S
        BY <3>1, OneThread
      <4>2. ~Return(t)
        <5>1. Return(t) => thread'[t] = Idle
          BY OneThread DEF Return
        <5> QED
          BY <4>1, <5>1 DEF Idle
      <4>3. ASSUME NEW N, mem' = Moved(mem, N, "pending"), Saving(t, N)
            PROVE  S \subseteq Kept'
        <5>1. N = S
          BY <4>1, <4>3, SavingTask, OneThread
        <5>2. S \subseteq Known(mem')
          BY <1>2, <4>3, <5>1, KnownMoved
        <5> QED
          BY <5>2 DEF Kept
      <4>4. CASE Push(t)
        BY <4>2, <4>3, <4>4 DEF Push
      <4>5. CASE PushBatch(t)
        <5>1. \E N : mem' = Moved(mem, N, "pending") /\ Saving(t, N)
          BY <4>2, <4>5 DEF PushBatch
        <5> QED
          BY <4>3, <5>1
      <4>6. CASE ~(Push(t) \/ PushBatch(t))
        BY <2>3, <4>6 DEF Operation, CancelPendingInLane, RequeueFailed, Remove,
           ActivateRestorable, DeferRestorable, Flush, Pop, Settle, Requeue, Acting,
           Pushing, Removing, History
      <4> QED
        BY <4>4, <4>5, <4>6
    <3> HIDE DEF r
    <3>3. PushedOf(r) \subseteq Kept'
      BY <3>1, <3>2, PushedFields
    <3> QED
      BY <3>1, <3>3
  <2>4. CASE /\ thread[t].op = "requeue"
             /\ thread' = [thread EXCEPT ![t] =
                              Starting("failed", thread[t].jobs, "default")]
    <3>1. PushedOf(Starting("failed", thread[t].jobs, "default")) = {}
      BY StartingFields, PushedFields
    <3> QED
      BY <2>4, <3>1
  <2> QED
    BY <2>1, <2>2, <2>3, <2>4, OperationTask
<1> QED
  BY <1>1, <1>3, OneThread

\* Other steps push nothing, and a push returns what it has pushed.
LEMMA QuietPushes ==
    ASSUME StoreInv, [Next]_vars, ~Crash, ~Boot, \A t \in Thread : ~Operation(t) /\ ~Merge(t)
    PROVE  /\ \A s \in Thread : PushedOf(thread'[s]) \subseteq PushedOf(thread[s])
           /\ accepted' \subseteq accepted \union UNION {PushedOf(thread[s]) : s \in Thread}
<1>1. ASSUME NEW t \in Thread, NEW r, thread' = [thread EXCEPT ![t] = r],
             PushedOf(r) \subseteq PushedOf(thread[t]), accepted' = accepted
      PROVE  /\ \A s \in Thread : PushedOf(thread'[s]) \subseteq PushedOf(thread[s])
             /\ accepted' \subseteq accepted \union UNION {PushedOf(thread[s]) : s \in Thread}
  BY <1>1, OneThread
<1>2. ASSUME NEW t \in Thread, NEW op, NEW S, NEW l, Start(t, op, S, l), accepted' = accepted
      PROVE  \E r : thread' = [thread EXCEPT ![t] = r] /\ PushedOf(r) \subseteq PushedOf(thread[t])
  <2>1. PushedOf(Starting(op, S, l)) = {}
    BY StartingFields, PushedFields
  <2> QED
    BY <1>2, <2>1 DEF Start
<1>3. ASSUME NEW t \in Web, WebRequest(t)
      PROVE  \E r : thread' = [thread EXCEPT ![t] = r] /\ PushedOf(r) \subseteq PushedOf(thread[t])
  <2>1. \E op, S, l : Start(t, op, S, l)
    BY <1>3 DEF WebRequest
  <2>2. t \in Thread /\ accepted' = accepted
    BY <1>3 DEF Thread, WebRequest, ghosts
  <2> QED
    BY <1>2, <2>1, <2>2
<1>4. CASE FinishJob
  <2>1. \E op, S, l : Start(Worker, op, S, l)
    BY <1>4 DEF FinishJob
  <2>2. Worker \in Thread /\ accepted' = accepted
    BY <1>4 DEF Thread, FinishJob, ghosts
  <2> QED
    BY <1>1, <1>2, <2>1, <2>2
<1>5. CASE PopJob
  <2>1. PICK l : thread' = [thread EXCEPT ![Worker] =
             [Starting("pop", {}, l) EXCEPT !.pc = IF Runnable(l) = {} THEN "read"
                                                                       ELSE "act"]]
    BY <1>5 DEF PopJob
  <2> DEFINE r == [Starting("pop", {}, l) EXCEPT !.pc = IF Runnable(l) = {} THEN "read"
                                                                            ELSE "act"]
  <2>2. r.jobs = {}
    BY DEF Starting
  <2>3. PushedOf(r) = {}
    BY <2>2, PushedFields
  <2>4. Worker \in Thread /\ accepted' = accepted
    BY <1>5 DEF Thread, PopJob, ghosts
  <2> HIDE DEF r
  <2> QED
    BY <1>1, <2>1, <2>3, <2>4 DEF r
<1>6. ASSUME NEW t \in Thread, Read(t) \/ Save(t)
      PROVE  \E r : thread' = [thread EXCEPT ![t] = r] /\ PushedOf(r) \subseteq PushedOf(thread[t])
  <2>1. thread[t] \in Task(used, Born) /\ thread \in [Thread -> Task(used, Born)]
    BY DEF StoreInv, ThreadsOK
  <2>2. CASE Read(t)
    <3> DEFINE r == Holding(thread[t], "merge", disk)
    <3>1. thread' = [thread EXCEPT ![t] = r] /\ r.pc = "merge"
      BY <2>1, <2>2 DEF Read, Holding, Task
    <3> QED
      BY <3>1, PushedFields
  <2>3. CASE Save(t)
    <3> DEFINE r == Holding(thread[t], "write", Serialize(mem))
    <3>1. /\ thread' = [thread EXCEPT ![t] = r]
          /\ r.pc = "write" /\ r.op = thread[t].op /\ r.jobs = thread[t].jobs
      BY <2>1, <2>3 DEF Save, Holding, Task
    <3>2. thread[t].pc = "save"
      BY <2>3 DEF Save
    <3> HIDE DEF r
    <3>3. PushedOf(r) = PushedOf(thread[t])
      BY <3>1, <3>2 DEF PushedOf
    <3> QED
      BY <3>1, <3>3
  <2> QED
    BY <1>6, <2>2, <2>3
<1>7. ASSUME NEW t \in Thread, Write(t)
      PROVE  /\ \A s \in Thread : PushedOf(thread'[s]) \subseteq PushedOf(thread[s])
             /\ accepted' \subseteq accepted \union UNION {PushedOf(thread[s]) : s \in Thread}
  <2>1. thread' = [thread EXCEPT ![t] = Idle]
    BY <1>7 DEF Write
  <2>2. accepted' \subseteq accepted \union PushedOf(thread[t])
    BY <1>7 DEF Write, Reporting, PushedOf, Pushing
  <2> QED
    BY <2>1, <2>2, OneThread, PushedFields
<1>8. CASE BackoffOver \/ ChildOpen \/ ChildPush \/ ChildWrite \/ UNCHANGED vars
  BY <1>8 DEF BackoffOver, ChildOpen, ChildPush, ChildWrite, vars, server, ghosts
<1>9. ASSUME NEW t \in Thread, Read(t) \/ Save(t) PROVE accepted' = accepted
  BY <1>9 DEF Read, Save, ghosts
<1>10. ASSUME NEW t \in Web, WebRequest(t) PROVE accepted' = accepted /\ t \in Thread
  BY <1>10 DEF WebRequest, ghosts, Thread
<1>11. CASE \E t \in Web : WebRequest(t)
  BY <1>1, <1>3, <1>10, <1>11
<1>12. CASE \E t \in Thread : Read(t) \/ Save(t)
  BY <1>1, <1>6, <1>9, <1>12
<1>13. CASE \E t \in Thread : Write(t)
  BY <1>7, <1>13
<1> QED
  BY <1>4, <1>5, <1>8, <1>11, <1>12, <1>13 DEF Next

LEMMA PushedStep == StoreInv /\ PushInv /\ [Next]_vars => PushInv'
<1> SUFFICES ASSUME StoreInv, PushInv, [Next]_vars PROVE PushInv'
  OBVIOUS
<1>1. CASE Crash \/ Boot
  BY <1>1 DEF Crash, Boot, PushInv, StoreInv, SetsOK
<1>2. CASE \E t \in Thread : Operation(t) \/ Merge(t)
  BY <1>2, KeptGrows, OperationPushes DEF PushInv
<1>3. CASE ~Crash /\ ~Boot /\ \A t \in Thread : ~Operation(t) /\ ~Merge(t)
  BY <1>3, QuietStep, QuietPushes DEF PushInv
<1> QED
  BY <1>1, <1>2, <1>3

\* A job a push returned is in memory, unless it was removed or met a full queue.  A
\* crash is left out: between an older serialization and the file there is no lock, so
\* the file a restart loads may be the older of two.
THEOREM PushStays == Spec => [](crashes = 0 => PushedKept)
<1>1. Init => StoreInv /\ PushInv
  <2> SUFFICES ASSUME Init PROVE PushInv
    BY InitStores
  <2>1. \A t \in Thread : thread[t] = Idle
    BY DEF Init
  <2> QED
    BY <2>1, PushedFields DEF Init, PushInv
<1>2. (StoreInv /\ PushInv) /\ [Next]_vars => (StoreInv /\ PushInv)'
  BY StoreStep, PushedStep
<1>3. PushInv => (crashes = 0 => PushedKept)
  BY DEF PushInv, PushedKept, Kept
<1> QED
  BY <1>1, <1>2, <1>3, PTL DEF Spec

----------------------------------------------------------------------------
(* The backoff of a retry. *)

\* Where a job is whose backoff is not over.
Parked == (held \intersect mem.pending) \union mem.cancelled \union cleared

BackoffInv == crashes = 0 => cooling \subseteq Parked

\* Moving jobs that are neither pending nor cancelled moves no parked job.
LEMMA MovedKeepsParked ==
    ASSUME NEW b, NEW m \in Lists(b), NEW S, NEW x \in List,
           S \intersect (m.pending \union m.cancelled) = {}
    PROVE  /\ m.pending \subseteq Moved(m, S, x).pending
           /\ m.cancelled \subseteq Moved(m, S, x).cancelled
           /\ Without(m, S).pending = m.pending
           /\ Without(m, S).cancelled = m.cancelled
BY DEF Moved, Without, Lists, List, History

LEMMA ParkedWithin ==
    ASSUME StoreInv
    PROVE  /\ \A x \in {"running", "resumed", "deferred", "failed"} :
                  mem[x] \intersect (mem.pending \union mem.cancelled) = {}
           /\ \A t \in Thread : UnbornOf(thread[t]) \intersect
                                   (mem.pending \union mem.cancelled) = {}
<1>1. mem \in Lists(Born)
  BY MemIsLists
<1>2. \A x \in {"running", "resumed", "deferred", "failed"} :
          mem[x] \intersect (mem.pending \union mem.cancelled) = {}
  BY <1>1 DEF Lists, Disjoint, List, History
<1>3. mem.pending \subseteq Born /\ mem.cancelled \subseteq Born
  BY <1>1 DEF Lists, List, History
<1> QED
  BY <1>2, <1>3 DEF Born

LEMMA OperationParks ==
    ASSUME StoreInv, cooling \subseteq Parked, NEW t \in Thread, Operation(t) \/ Merge(t)
    PROVE  cooling' \subseteq Parked'
<1> USE DEF Parked
<1>1. mem \in Lists(Born) /\ {"pending", "cancelled", "running", "completed", "deferred"} \subseteq List
  BY MemIsLists DEF List, History
<1>2. cleared \subseteq cleared'
  BY KeptGrows
<1>3. ASSUME NEW S, NEW x \in List, mem' = Moved(mem, S, x),
             S \intersect (mem.pending \union mem.cancelled) = {},
             UNCHANGED <<held, cooling>>
      PROVE  cooling' \subseteq Parked'
  BY <1>1, <1>2, <1>3, MovedKeepsParked
<1>4. CASE Merge(t)
  <2>1. mem.pending \subseteq mem'.pending /\ mem.cancelled = mem'.cancelled
    BY <1>1, <1>4 DEF Merge, Merged, Lists, List, History
  <2> QED
    BY <1>2, <1>4, <2>1 DEF Merge, ghosts
<1>5. CASE Push(t) \/ PushBatch(t)
  <2>1. thread[t].jobs = UnbornOf(thread[t])
    BY <1>5 DEF Push, PushBatch, Acting, UnbornOf, Pushing
  <2>2. \/ UNCHANGED mem
        \/ \E S \in SUBSET thread[t].jobs : mem' = Moved(mem, S, "pending")
    BY <1>5 DEF Push, PushBatch, Appended
  <2>3. UNCHANGED <<held, cooling>>
    BY <1>5 DEF Push, PushBatch, ghosts
  <2>4. ASSUME NEW S \in SUBSET thread[t].jobs, mem' = Moved(mem, S, "pending")
        PROVE  cooling' \subseteq Parked'
    <3>1. S \intersect (mem.pending \union mem.cancelled) = {}
      BY <2>1, ParkedWithin
    <3> QED
      BY <1>1, <1>3, <2>3, <2>4, <3>1
  <2> QED
    BY <1>2, <2>2, <2>3, <2>4
<1>6. CASE CancelPendingInLane(t)
  <2>1. CASE UNCHANGED <<mem, held>>
    BY <1>2, <1>6, <2>1 DEF CancelPendingInLane, ghosts
  <2>2. CASE \E S : mem' = Moved(mem, S, "cancelled") /\ held' = held \ S
    <3>1. PICK S : mem' = Moved(mem, S, "cancelled") /\ held' = held \ S
      BY <2>2
    <3>2. mem.pending \ S = mem'.pending /\ mem'.cancelled = mem.cancelled \union S
      BY <3>1 DEF Moved, List, History
    <3>3. cooling' = cooling
      BY <1>6 DEF CancelPendingInLane, ghosts
    <3> QED
      BY <1>2, <3>1, <3>2, <3>3
  <2> QED
    BY <1>6, <2>1, <2>2 DEF CancelPendingInLane
<1>7. CASE RequeueFailed(t)
  <2>1. mem' = Moved(mem, mem.failed, "pending") \/ UNCHANGED mem
    BY <1>7 DEF RequeueFailed
  <2>2. UNCHANGED <<held, cooling>>
    BY <1>7 DEF RequeueFailed, ghosts
  <2>3. mem.failed \intersect (mem.pending \union mem.cancelled) = {}
    BY ParkedWithin
  <2> QED
    BY <1>1, <1>2, <1>3, <2>1, <2>2, <2>3
<1>8. CASE Remove(t)
  <2>1. PICK S : mem' = Without(mem, S) /\ held' = held \ S /\ cleared' = cleared \union S
    BY <1>8 DEF Remove
  <2>2. mem'.pending = mem.pending \ S /\ mem'.cancelled = mem.cancelled \ S
    BY <2>1 DEF Without, List, History
  <2>3. cooling' = cooling
    BY <1>8 DEF Remove
  <2> QED
    BY <2>1, <2>2, <2>3
<1>9. CASE ActivateRestorable(t)
  <2> DEFINE S == mem.resumed \union mem.deferred
             m == Moved(mem, S \ Backed(S), "pending")
  <2>1. mem' = Moved(m, Backed(S), "completed") /\ UNCHANGED <<held, cooling>>
    BY <1>9 DEF ActivateRestorable, ghosts
  <2>2. S \intersect (mem.pending \union mem.cancelled) = {} /\ Backed(S) \subseteq S
    BY ParkedWithin DEF Backed, NeedsSentinel
  <2>3. S \subseteq Born
    BY MemoryWithin DEF List
  <2> HIDE DEF S
  <2>4. m \in Lists(Born)
    BY <1>1, <2>3, MovedIsLists
  <2>5. mem.pending \subseteq m.pending /\ mem.cancelled \subseteq m.cancelled
    BY <1>1, <2>2, MovedKeepsParked
  <2>6. mem'.pending = m.pending \ Backed(S) /\ mem'.cancelled = m.cancelled \ Backed(S)
    BY <2>1 DEF Moved, List, History
  <2> HIDE DEF m
  <2> QED
    BY <1>2, <2>1, <2>2, <2>5, <2>6
<1>10. CASE DeferRestorable(t)
  <2>1. mem' = Moved(mem, mem.resumed, "deferred") /\ UNCHANGED <<held, cooling>>
    BY <1>10 DEF DeferRestorable, ghosts
  <2>2. mem.resumed \intersect (mem.pending \union mem.cancelled) = {}
    BY ParkedWithin
  <2> QED
    BY <1>1, <1>3, <2>1, <2>2
<1>11. CASE Flush(t)
  BY <1>2, <1>11 DEF Flush, ghosts
<1>12. CASE Pop(t)
  <2>1. UNCHANGED <<held, cooling>>
    BY <1>12 DEF Pop, ghosts
  <2>2. UNCHANGED mem \/ \E j \in Candidates(thread[t].lane) : mem' = Moved(mem, {j}, "running")
    BY <1>12 DEF Pop
  <2>3. ASSUME NEW j \in Candidates(thread[t].lane), mem' = Moved(mem, {j}, "running")
        PROVE  cooling' \subseteq Parked'
    <3>1. j \in mem.pending \ held
      BY DEF Candidates, Runnable
    <3>2. mem'.pending = mem.pending \ {j} /\ mem'.cancelled = mem.cancelled \ {j}
      BY <2>3 DEF Moved, List, History
    <3>3. j \notin mem.cancelled
      BY <1>1, <3>1 DEF Lists, Disjoint, List, History
    <3> QED
      BY <1>2, <2>1, <3>1, <3>2, <3>3
  <2> QED
    BY <1>2, <2>1, <2>2, <2>3
<1>13. CASE Settle(t)
  <2>1. mem' = Moved(mem, Found(t), thread[t].op) /\ UNCHANGED <<held, cooling>>
    BY <1>13 DEF Settle
  <2>2. thread[t].op \in List
    BY <1>13 DEF Settle, Acting, List
  <2>3. Found(t) \intersect (mem.pending \union mem.cancelled) = {}
    BY ParkedWithin DEF Found
  <2> QED
    BY <1>3, <2>1, <2>2, <2>3
<1>14. CASE Requeue(t)
  <2>1. Found(t) \intersect (mem.pending \union mem.cancelled) = {}
    BY ParkedWithin DEF Found
  <2>2. \/ /\ mem' = Moved(mem, Found(t), "pending")
           /\ held' = held \union Found(t) /\ cooling' = cooling \union Found(t)
        \/ mem' = Without(mem, Found(t)) /\ UNCHANGED <<held, cooling>>
    BY <1>14 DEF Requeue
  <2>3. CASE /\ mem' = Moved(mem, Found(t), "pending")
             /\ held' = held \union Found(t) /\ cooling' = cooling \union Found(t)
    <3>1. mem'.pending = mem.pending \union Found(t) /\ mem'.cancelled = mem.cancelled \ Found(t)
      BY <2>3 DEF Moved, List, History
    <3> QED
      BY <1>2, <2>1, <2>3, <3>1
  <2>4. CASE mem' = Without(mem, Found(t)) /\ UNCHANGED <<held, cooling>>
    <3>1. mem'.pending = mem.pending \ Found(t) /\ mem'.cancelled = mem.cancelled \ Found(t)
      BY <2>4 DEF Without, List, History
    <3> QED
      BY <1>2, <2>1, <2>4, <3>1
  <2> QED
    BY <2>2, <2>3, <2>4
<1> QED
  BY <1>4, <1>5, <1>6, <1>7, <1>8, <1>9, <1>10, <1>11, <1>12, <1>13, <1>14 DEF Operation

LEMMA BackoffStep == StoreInv /\ PushInv /\ BackoffInv /\ [Next]_vars => BackoffInv'
<1> SUFFICES ASSUME StoreInv, PushInv, BackoffInv, [Next]_vars PROVE BackoffInv'
  OBVIOUS
<1>1. CASE Crash
  BY <1>1 DEF Crash, BackoffInv, StoreInv, SetsOK
<1>2. CASE Boot
  BY <1>2 DEF Boot, PushInv, BackoffInv
<1>3. ASSUME NEW t \in Thread, Operation(t) \/ Merge(t) PROVE BackoffInv'
  BY <1>3, KeptGrows, OperationParks DEF BackoffInv
<1>4. CASE ~Crash /\ ~Boot /\ \A t \in Thread : ~Operation(t) /\ ~Merge(t)
  <2>1. UNCHANGED <<mem, crashes, cleared>>
    BY <1>4, QuietStep
  <2>2. \/ UNCHANGED <<held, cooling>>
        \/ \E j \in cooling : cooling' = cooling \ {j} /\ held' = held \ {j}
    <3>1. CASE \E t \in Web : WebRequest(t)
      BY <3>1 DEF WebRequest, ghosts
    <3>2. CASE PopJob \/ FinishJob \/ BackoffOver
      BY <3>2 DEF PopJob, FinishJob, BackoffOver, ghosts
    <3>3. CASE \E t \in Thread : Read(t) \/ Save(t) \/ Write(t)
      BY <3>3 DEF Read, Save, Write, ghosts
    <3>4. CASE ChildOpen \/ ChildPush \/ ChildWrite \/ UNCHANGED vars
      BY <3>4 DEF ChildOpen, ChildPush, ChildWrite, vars, server, ghosts
    <3> QED
      BY <1>4, <3>1, <3>2, <3>3, <3>4 DEF Next
  <2> QED
    BY <2>1, <2>2 DEF BackoffInv, Parked
<1> QED
  BY <1>1, <1>2, <1>3, <1>4

\* A job parked for retry is not executed before its backoff is over, unless it was
\* removed.  A crash is left out: the file does not keep available_at.
THEOREM BackoffHolds == Spec => [](crashes = 0 => BackoffKept)
<1>1. Init => (StoreInv /\ OwnInv) /\ PushInv /\ BackoffInv
  <2> SUFFICES ASSUME Init PROVE OwnInv /\ PushInv /\ BackoffInv
    BY InitStores
  <2>1. \A t \in Thread : thread[t] = Idle
    BY DEF Init
  <2>2. Claimed = {} /\ executing = {}
    <3>1. thread[Worker] = Idle
      BY <2>1 DEF Thread
    <3> QED
      BY <3>1, IdleClaims DEF Init, Claimed
  <2>3. PushInv
    BY <2>1, PushedFields DEF Init, PushInv
  <2> QED
    BY <2>2, <2>3 DEF Init, OwnInv, BackoffInv
<1>2. /\ (StoreInv /\ OwnInv) /\ PushInv /\ BackoffInv /\ [Next]_vars
      => ((StoreInv /\ OwnInv) /\ PushInv /\ BackoffInv)'
  BY StoreStep, OwnStep, PushedStep, BackoffStep
<1>3. (StoreInv /\ OwnInv) /\ BackoffInv => (crashes = 0 => BackoffKept)
  <2> SUFFICES ASSUME StoreInv, OwnInv, BackoffInv, crashes = 0
               PROVE  executing \intersect cooling \subseteq cleared
    BY DEF BackoffKept
  <2>1. mem.running \intersect (mem.pending \union mem.cancelled) = {}
    BY ParkedWithin
  <2> QED
    BY <2>1 DEF OwnInv, BackoffInv, Parked
<1> QED
  BY <1>1, <1>2, <1>3, PTL DEF Spec

----------------------------------------------------------------------------
(* The files threads hold. *)

\* A step that is no restart leaves a thread a file it had, the one on disk, none, or
\* memory as it is.  Only the last of them, or an old one, is about to be written.
Files4(r, q) ==
    \/ /\ q.file \in {r.file, NoFile, disk}
       /\ q.pc = "write" => q = r
    \/ q.file = Serialize(mem) /\ mem' = mem

\* What a thread does is what a request may ask for, one job at a time for a push.
OpOK(r) ==
    /\ r.op # "requeue_failed"
    /\ r.op = "push" /\ r.pc \in {"merge", "act"} => \A j, k \in r.jobs : j = k

LEMMA RecordStep ==
    ASSUME StoreInv, NEW t \in Thread, NEW r, thread' = [thread EXCEPT ![t] = r],
           Files4(thread[t], r), OpOK(thread[t]) => OpOK(r)
    PROVE  \A s \in Thread : /\ Files4(thread[s], thread'[s])
                             /\ OpOK(thread[s]) => OpOK(thread'[s])
BY OneThread DEF Files4

LEMMA StartingRecord ==
    ASSUME NEW op, NEW S, NEW l, NEW q, op # "requeue_failed",
           op = "push" => \A j, k \in S : j = k
    PROVE  Files4(q, Starting(op, S, l)) /\ OpOK(Starting(op, S, l))
BY DEF Files4, OpOK, Starting

LEMMA IdleRecord == ASSUME NEW q PROVE Files4(q, Idle) /\ OpOK(Idle)
BY DEF Files4, OpOK, Idle

LEMMA OperationRecord ==
    ASSUME StoreInv, NEW t \in Thread, Operation(t) \/ Merge(t)
    PROVE  \E r : /\ thread' = [thread EXCEPT ![t] = r]
                  /\ Files4(thread[t], r) /\ (OpOK(thread[t]) => OpOK(r))
                  /\ r.pc # "write"
<1>1. CASE Operation(t)
  <2>1. thread[t].pc = "act"
    BY <1>1, OperationTask
  <2>2. CASE Return(t)
    <3>1. Idle.pc # "write"
      BY DEF Idle
    <3>2. thread' = [thread EXCEPT ![t] = Idle]
      BY <2>2 DEF Return
    <3> QED
      BY <3>1, <3>2, IdleRecord
  <2>3. ASSUME NEW S, Saving(t, S)
        PROVE  \E r : /\ thread' = [thread EXCEPT ![t] = r]
                      /\ Files4(thread[t], r) /\ (OpOK(thread[t]) => OpOK(r))
                      /\ r.pc # "write"
    <3> DEFINE r == Taking(thread[t], "save", S)
    <3>1. /\ thread' = [thread EXCEPT ![t] = r] /\ r.pc = "save"
          /\ r.op = thread[t].op /\ r.file = thread[t].file
      BY <2>3, SavingTask
    <3> HIDE DEF r
    <3>2. Files4(thread[t], r) /\ (OpOK(thread[t]) => OpOK(r))
      BY <3>1 DEF Files4, OpOK
    <3> QED
      BY <3>1, <3>2
  <2>4. CASE thread' = [thread EXCEPT ![t] = Starting("failed", thread[t].jobs, "default")]
    <3>1. Starting("failed", thread[t].jobs, "default").pc # "write"
      BY StartingFields
    <3> QED
      BY <2>4, <3>1, StartingRecord
  <2> QED
    BY <1>1, <2>2, <2>3, <2>4, OperationTask
<1>2. CASE Merge(t)
  <2>1. thread[t] \in Task(used, Born) /\ thread \in [Thread -> Task(used, Born)]
    BY DEF StoreInv, ThreadsOK
  <2> DEFINE h == Holding(thread[t], "act", NoFile)
             r == IF Loadable(thread[t].file) \/ thread[t].op = "pop" THEN h ELSE Idle
  <2>2. thread' = [thread EXCEPT ![t] = r]
    BY <1>2, <2>1 DEF Merge, Holding
  <2>3. h.pc = "act" /\ h.file = NoFile /\ h.op = thread[t].op /\ h.jobs = thread[t].jobs
    BY <2>1 DEF Holding, Task
  <2>4. thread[t].pc = "merge"
    BY <1>2 DEF Merge
  <2> HIDE DEF h
  <2>5. Files4(thread[t], h) /\ (OpOK(thread[t]) => OpOK(h))
    BY <2>3, <2>4 DEF Files4, OpOK
  <2>6. Idle.pc # "write"
    BY DEF Idle
  <2> HIDE DEF r
  <2>7. r = h \/ r = Idle
    BY DEF r
  <2> QED
    BY <2>2, <2>3, <2>5, <2>6, <2>7, IdleRecord
<1> QED
  BY <1>1, <1>2

LEMMA RequestRecord ==
    ASSUME StoreInv, "requeue_failed" \notin Requests, NEW t \in Web, WebRequest(t)
    PROVE  \E r : /\ thread' = [thread EXCEPT ![t] = r]
                  /\ Files4(thread[t], r) /\ OpOK(r)
<1>1. PICK op, S, l : /\ Start(t, op, S, l) /\ op # "requeue_failed"
                      /\ op = "push" => \A j, k \in S : j = k
  <2>1. CASE \E op \in Requests \intersect {"push", "push_batch"} :
             \E S \in SUBSET Fresh :
                 /\ IF op = "push" THEN Cardinality(S) = 1 ELSE Cardinality(S) = 2
                 /\ Start(t, op, S, "default")
    <3>1. PICK op \in Requests \intersect {"push", "push_batch"}, S \in SUBSET Fresh :
                 /\ op = "push" => Cardinality(S) = 1
                 /\ Start(t, op, S, "default")
      BY <2>1
    <3>2. IsFiniteSet(S)
      BY JobAssumption, FS_Subset DEF Fresh
    <3>3. Cardinality(S) = 1 => \E x : S = {x}
      BY <3>2, FS_Singleton
    <3>4. op = "push" => \A j, k \in S : j = k
      BY <3>1, <3>3
    <3> QED
      BY <3>1, <3>4
  <2>2. CASE ~\E op \in Requests \intersect {"push", "push_batch"} :
             \E S \in SUBSET Fresh :
                 /\ IF op = "push" THEN Cardinality(S) = 1 ELSE Cardinality(S) = 2
                 /\ Start(t, op, S, "default")
    <3>1. \/ \E j \in Waiting(mem) : Start(t, "remove_pending", {j}, "default")
          \/ \E l \in Lane : Start(t, "cancel_pending_in_lane", {}, l)
          \/ \E op \in Requests \ {"push", "push_batch", "remove_pending",
                                 "cancel_pending_in_lane"} :
                 Start(t, op, {}, "default")
      BY <2>2 DEF WebRequest
    <3>2. ASSUME NEW op, NEW S, NEW l, Start(t, op, S, l),
                 op \in Requests \union {"remove_pending", "cancel_pending_in_lane"},
                 op \notin {"push", "push_batch"}
          PROVE  \E o, T, m : /\ Start(t, o, T, m) /\ o # "requeue_failed"
                               /\ o = "push" => \A j, k \in T : j = k
      BY <3>2
    <3>3. CASE \E j \in Waiting(mem) : Start(t, "remove_pending", {j}, "default")
      BY <3>2, <3>3
    <3>4. CASE \E l \in Lane : Start(t, "cancel_pending_in_lane", {}, l)
      BY <3>2, <3>4
    <3>5. CASE \E op \in Requests \ {"push", "push_batch", "remove_pending",
                                      "cancel_pending_in_lane"} :
                   Start(t, op, {}, "default")
      BY <3>2, <3>5
    <3> QED
      BY <3>1, <3>3, <3>4, <3>5
  <2> QED
    BY <2>1, <2>2
<1> QED
  BY <1>1, StartingRecord DEF Start

LEMMA ReadSaveRecord ==
    ASSUME StoreInv, NEW t \in Thread, Read(t) \/ Save(t) \/ Write(t)
    PROVE  \E r : /\ thread' = [thread EXCEPT ![t] = r]
                  /\ Files4(thread[t], r) /\ (OpOK(thread[t]) => OpOK(r))
<1>1. thread[t] \in Task(used, Born) /\ thread \in [Thread -> Task(used, Born)]
  BY DEF StoreInv, ThreadsOK
<1>2. CASE Read(t)
  <2> DEFINE r == Holding(thread[t], "merge", disk)
  <2>1. /\ thread' = [thread EXCEPT ![t] = r] /\ r.pc = "merge" /\ r.file = disk
        /\ r.op = thread[t].op
    BY <1>1, <1>2 DEF Read, Holding, Task
  <2>2. thread[t].op = "pop"
    BY <1>2 DEF Read, StoreInv, ThreadsOK
  <2> HIDE DEF r
  <2>3. Files4(thread[t], r) /\ OpOK(r)
    BY <2>1, <2>2 DEF Files4, OpOK
  <2> QED
    BY <2>1, <2>3
<1>3. CASE Save(t)
  <2> DEFINE r == Holding(thread[t], "write", Serialize(mem))
  <2>1. /\ thread' = [thread EXCEPT ![t] = r] /\ r.pc = "write" /\ r.file = Serialize(mem)
        /\ r.op = thread[t].op
    BY <1>1, <1>3 DEF Save, Holding, Task
  <2>2. mem' = mem
    BY <1>3 DEF Save
  <2> HIDE DEF r
  <2>3. Files4(thread[t], r) /\ (OpOK(thread[t]) => OpOK(r))
    BY <2>1, <2>2 DEF Files4, OpOK
  <2> QED
    BY <2>1, <2>3
<1>4. CASE Write(t)
  BY <1>4, IdleRecord DEF Write
<1> QED
  BY <1>2, <1>3, <1>4

LEMMA PopRecord ==
    ASSUME PopJob
    PROVE  \E r : /\ thread' = [thread EXCEPT ![Worker] = r]
                  /\ Files4(thread[Worker], r) /\ OpOK(r)
<1>1. PICK l : thread' = [thread EXCEPT ![Worker] =
             [Starting("pop", {}, l) EXCEPT !.pc = IF Runnable(l) = {} THEN "read"
                                                                       ELSE "act"]]
  BY DEF PopJob
<1> DEFINE r == [Starting("pop", {}, l) EXCEPT !.pc = IF Runnable(l) = {} THEN "read"
                                                                          ELSE "act"]
<1>2. r.op = "pop" /\ r.pc # "write" /\ r.file \in {NoFile, disk}
  BY DEF Starting
<1> HIDE DEF r
<1>3. Files4(thread[Worker], r) /\ OpOK(r)
  BY <1>2 DEF Files4, OpOK
<1> QED
  BY <1>1, <1>3 DEF r

LEMMA FilesStep ==
    ASSUME StoreInv, "requeue_failed" \notin Requests, [Next]_vars, ~Crash, ~Boot
    PROVE  \A s \in Thread : /\ Files4(thread[s], thread'[s])
                             /\ OpOK(thread[s]) => OpOK(thread'[s])
<1>1. ASSUME NEW t \in Thread,
             \E r : /\ thread' = [thread EXCEPT ![t] = r]
                    /\ Files4(thread[t], r) /\ (OpOK(thread[t]) => OpOK(r))
      PROVE  \A s \in Thread : /\ Files4(thread[s], thread'[s])
                               /\ OpOK(thread[s]) => OpOK(thread'[s])
  <2>1. PICK r : /\ thread' = [thread EXCEPT ![t] = r]
                 /\ Files4(thread[t], r) /\ (OpOK(thread[t]) => OpOK(r))
    BY <1>1
  <2> QED
    BY <2>1, RecordStep
<1>2. CASE \E t \in Web : WebRequest(t)
  BY <1>1, <1>2, RequestRecord DEF Thread
<1>3. CASE PopJob
  BY <1>1, <1>3, PopRecord DEF Thread
<1>4. CASE FinishJob
  <2>1. PICK op \in Settling, j \in executing : Start(Worker, op, {j}, "default")
    BY <1>4, UseAssumption DEF FinishJob
  <2>2. op \notin {"push", "requeue_failed"}
    BY DEF Settling, History
  <2> QED
    BY <1>1, <2>1, <2>2, StartingRecord DEF Start, Thread
<1>5. CASE \E t \in Thread : Read(t) \/ Save(t) \/ Write(t)
  BY <1>1, <1>5, ReadSaveRecord
<1>6. CASE \E t \in Thread : Operation(t) \/ Merge(t)
  BY <1>1, <1>6, OperationRecord
<1>7. CASE BackoffOver \/ ChildOpen \/ ChildPush \/ ChildWrite \/ UNCHANGED vars
  <2>1. thread' = thread
    BY <1>7 DEF BackoffOver, ChildOpen, ChildPush, ChildWrite, vars, server
  <2> QED
    BY <2>1 DEF Files4
<1> QED
  BY <1>2, <1>3, <1>4, <1>5, <1>6, <1>7 DEF Next

----------------------------------------------------------------------------
(* One active job per target. *)

Distinct(S) == \A j, k \in S \intersect Faithful : TargetOf[j] = TargetOf[k] => j = k

\* Jobs the comparison of targets does not cover.
Exempt == cleared \union overflowed \union ChildJob

\* A merge of the file brings only jobs back that memory has, or exempt ones.
FileKept(f) == f.waiting \subseteq Kept \union ChildJob

LEMMA ActiveMoved ==
    ASSUME NEW b, NEW m \in Lists(b), NEW S, NEW x \in List
    PROVE  /\ Active(Moved(m, S, x)) \subseteq Active(m) \union S
           /\ Active(Without(m, S)) \subseteq Active(m)
BY DEF Active, Waiting, Moved, Without, Lists, List, History

LEMMA MergeFields ==
    ASSUME StoreInv, NEW t \in Thread, Merge(t)
    PROVE  /\ mem'.pending \subseteq mem.pending \union (thread[t].file.waiting \ Known(mem))
           /\ mem'.running = mem.running /\ mem'.deferred = mem.deferred
           /\ mem'.resumed = mem.resumed
<1>1. DOMAIN mem = List /\ {"pending", "running", "deferred", "resumed"} \subseteq List
  BY MemIsLists DEF Lists, List
<1>2. CASE mem' = mem
  BY <1>2
<1>3. CASE mem' = Merged(mem, thread[t].file)
  BY <1>1, <1>3 DEF Merged
<1> QED
  BY <1>2, <1>3 DEF Merge

\* Only a push and a retry by an operator make an inactive job active.
LEMMA OperationActive ==
    ASSUME StoreInv, NEW t \in Thread, Operation(t), thread[t].op # "requeue_failed",
           ~Push(t), ~PushBatch(t)
    PROVE  Active(mem') \subseteq Active(mem)
<1>1. mem \in Lists(Born) /\ {"pending", "cancelled", "running", "completed", "deferred"} \subseteq List
  BY MemIsLists DEF List, History
<1>2. ASSUME NEW S, NEW x \in List, S \subseteq Active(mem), mem' = Moved(mem, S, x)
      PROVE  Active(mem') \subseteq Active(mem)
  BY <1>1, <1>2, ActiveMoved
<1>3. CASE CancelPendingInLane(t)
  <2>1. \/ mem' = mem
        \/ \E S \in SUBSET Waiting(mem) : mem' = Moved(mem, S, "cancelled")
    BY <1>3 DEF CancelPendingInLane
  <2> QED
    BY <1>1, <1>2, <2>1 DEF Active
<1>4. CASE RequeueFailed(t)
  BY <1>4 DEF RequeueFailed, Acting
<1>5. CASE Remove(t)
  <2>1. PICK S : mem' = Without(mem, S)
    BY <1>5 DEF Remove
  <2>2. "pending" \in List
    BY <1>1
  <2>3. Active(Without(mem, S)) \subseteq Active(mem)
    BY <1>1, <2>2, ActiveMoved, Zenon
  <2> QED
    BY <2>1, <2>3
<1>6. CASE ActivateRestorable(t)
  <2> DEFINE S == mem.resumed \union mem.deferred
             m == Moved(mem, S \ Backed(S), "pending")
  <2>1. mem' = Moved(m, Backed(S), "completed")
    BY <1>6 DEF ActivateRestorable
  <2>2. Backed(S) \subseteq S /\ S \subseteq Active(mem)
    BY DEF Backed, NeedsSentinel, Active, Waiting
  <2>3. S \subseteq Born
    BY MemoryWithin DEF List
  <2> HIDE DEF S
  <2>4. m \in Lists(Born)
    BY <1>1, <2>3, MovedIsLists
  <2>5. Active(m) \subseteq Active(mem)
    BY <1>1, <2>2, ActiveMoved
  <2> HIDE DEF m
  <2>6. Active(mem') \subseteq Active(m) \union Backed(S)
    BY <1>1, <2>1, <2>4, ActiveMoved
  <2> QED
    BY <2>2, <2>5, <2>6
<1>7. CASE DeferRestorable(t)
  <2>1. mem' = Moved(mem, mem.resumed, "deferred") /\ mem.resumed \subseteq Active(mem)
    BY <1>7 DEF DeferRestorable, Active
  <2> QED
    BY <1>1, <1>2, <2>1
<1>8. CASE Flush(t)
  BY <1>8 DEF Flush
<1>9. CASE Pop(t)
  <2>1. \/ mem' = mem
        \/ \E j \in mem.pending : mem' = Moved(mem, {j}, "running")
    BY <1>9 DEF Pop, Candidates, Runnable
  <2> QED
    BY <1>1, <1>2, <2>1 DEF Active, Waiting
<1>10. CASE Settle(t) \/ Requeue(t)
  <2>1. Found(t) \subseteq Active(mem)
    BY DEF Found, Active
  <2>2. \/ mem' = Without(mem, Found(t))
        \/ \E x \in List : mem' = Moved(mem, Found(t), x)
    BY <1>1, <1>10 DEF Settle, Requeue, Acting, List
  <2>3. CASE mem' = Without(mem, Found(t))
    <3>1. "pending" \in List
      BY <1>1
    <3>2. Active(Without(mem, Found(t))) \subseteq Active(mem)
      BY <1>1, <3>1, ActiveMoved, Zenon
    <3> QED
      BY <2>3, <3>2
  <2> QED
    BY <1>2, <2>1, <2>2, <2>3
<1> QED
  BY <1>3, <1>4, <1>5, <1>6, <1>7, <1>8, <1>9, <1>10 DEF Operation

LEMMA ExemptGrows ==
    ASSUME StoreInv, NEW t \in Thread, Operation(t) \/ Merge(t)
    PROVE  Exempt \subseteq Exempt'
BY KeptGrows DEF Exempt

LEMMA OperationDistinct ==
    ASSUME StoreInv, NEW t \in Thread, OpOK(thread[t]), Operation(t) \/ Merge(t),
           FileKept(thread[t].file), Distinct(Active(mem) \ Exempt)
    PROVE  Distinct(Active(mem') \ Exempt')
<1>1. mem \in Lists(Born) /\ {"pending", "cancelled", "running", "completed", "deferred"} \subseteq List
  BY MemIsLists DEF List, History
<1>2. Exempt \subseteq Exempt'
  BY ExemptGrows
<1>3. CASE Merge(t)
  <2>1. Active(mem') \subseteq Active(mem) \union (thread[t].file.waiting \ Known(mem))
    BY <1>3, MergeFields DEF Active, Waiting
  <2>2. thread[t].file.waiting \ Known(mem) \subseteq Exempt
    BY DEF FileKept, Kept, Exempt
  <2> QED
    BY <1>2, <2>1, <2>2 DEF Distinct
<1>4. CASE Push(t)
  <2>1. CASE mem' = mem
    BY <1>2, <2>1 DEF Distinct
  <2>2. CASE mem' = Moved(mem, thread[t].jobs, "pending") /\
             ~\E j \in thread[t].jobs : Duplicate(mem, rebuilt, j)
    <3>1. Active(mem') \subseteq Active(mem) \union thread[t].jobs
      BY <1>1, <2>2, ActiveMoved
    <3>2. \A j, k \in thread[t].jobs : j = k
      BY <1>4 DEF OpOK, Push, Acting
    <3>3. \A j \in thread[t].jobs, k \in Active(mem) \intersect Faithful :
              TargetOf[k] # TargetOf[j]
      BY <2>2 DEF Duplicate, WorkOf, Faithful
    <3> QED
      BY <1>2, <3>1, <3>2, <3>3 DEF Distinct
  <2> QED
    BY <1>4, <2>1, <2>2 DEF Push
<1>5. CASE PushBatch(t)
  <2>1. CASE mem' = mem
    BY <1>2, <2>1 DEF Distinct
  <2>2. CASE \E N \in Appended(thread[t].jobs) : mem' = Moved(mem, N, "pending")
    <3>1. PICK N \in Appended(thread[t].jobs) : mem' = Moved(mem, N, "pending")
      BY <2>2
    <3>2. Active(mem') \subseteq Active(mem) \union N
      BY <1>1, <3>1, ActiveMoved
    <3>3. /\ \A j, k \in N : TargetOf[j] = TargetOf[k] => j = k
          /\ \A j \in N, k \in Active(mem) \intersect Faithful : TargetOf[k] # TargetOf[j]
      BY DEF Duplicate, Appended, WorkOf, Faithful
    <3> QED
      BY <1>2, <3>2, <3>3 DEF Distinct
  <2> QED
    BY <1>5, <2>1, <2>2 DEF PushBatch
<1>6. CASE Operation(t) /\ ~Push(t) /\ ~PushBatch(t)
  <2>1. Active(mem') \subseteq Active(mem)
    BY <1>6, OperationActive DEF OpOK
  <2> QED
    BY <1>2, <2>1 DEF Distinct
<1> QED
  BY <1>3, <1>4, <1>5, <1>6

ActiveOf(f) == f.waiting \union f.running

TargetInv ==
    /\ \A t \in Thread : OpOK(thread[t])
    /\ ~up => \A t \in Thread : thread[t].file = NoFile
    /\ ChildJob = {} => child.pc # "write"
    /\ crashes = 0 => FileKept(child.file)
    /\ ChildJob = {} \/ crashes = 0 =>
           /\ Distinct(Active(mem) \ Exempt)
           /\ up => FileKept(disk) /\ \A t \in Thread : FileKept(thread[t].file)
    /\ ChildJob = {} =>
           /\ Distinct(ActiveOf(disk) \ Exempt)
           /\ \A t \in Thread : thread[t].pc = "write"
                                    => Distinct(ActiveOf(thread[t].file) \ Exempt)

LEMMA FileFacts ==
    /\ NoFile.waiting = {}
    /\ \A m : /\ ActiveOf(Serialize(m)) = Active(m)
              /\ Serialize(m).waiting \subseteq Known(m)
    /\ \A f : Active(Load(f)) = ActiveOf(f) /\ f.waiting \subseteq Known(Load(f))
<1>1. NoFile.waiting = {}
  BY DEF NoFile, Section
<1>2. ASSUME NEW m PROVE /\ ActiveOf(Serialize(m)) = Active(m)
                         /\ Serialize(m).waiting \subseteq Known(m)
  <2>1. Serialize(m).waiting = Waiting(m) /\ Serialize(m).running = m.running \union m.resumed
    BY DEF Serialize, Section
  <2>2. m.pending \subseteq Known(m) /\ m.deferred \subseteq Known(m)
    BY DEF Known, List
  <2> QED
    BY <2>1, <2>2 DEF ActiveOf, Active, Waiting
<1>3. ASSUME NEW f PROVE Active(Load(f)) = ActiveOf(f) /\ f.waiting \subseteq Known(Load(f))
  <2>1. /\ Load(f).deferred = f.waiting /\ Load(f).resumed = f.running
        /\ Load(f).pending = {} /\ Load(f).running = {}
    BY DEF Load, List, History
  <2>2. Load(f).deferred \subseteq Known(Load(f))
    BY DEF Known, List
  <2> QED
    BY <2>1, <2>2 DEF ActiveOf, Active, Waiting
<1> QED
  BY <1>1, <1>2, <1>3

\* What a step that is no restart writes to the file, and what it does to the child.
LEMMA DiskStep ==
    ASSUME StoreInv, [Next]_vars
    PROVE  \/ disk' = disk
           \/ \E t \in Thread : thread[t].pc = "write" /\ disk' = thread[t].file
           \/ child.pc = "write" /\ disk' = child.file
<1>1. CASE \E t \in Web : WebRequest(t)
  BY <1>1 DEF WebRequest
<1>2. CASE PopJob \/ FinishJob \/ BackoffOver \/ Crash \/ Boot
  BY <1>2 DEF PopJob, FinishJob, BackoffOver, Crash, Boot
<1>3. CASE \E t \in Thread : Read(t) \/ Save(t) \/ Write(t)
  BY <1>3 DEF Read, Save, Write
<1>4. CASE ChildOpen \/ ChildPush \/ ChildWrite \/ UNCHANGED vars
  BY <1>4 DEF ChildOpen, ChildPush, ChildWrite, vars
<1>5. CASE \E t \in Thread : Operation(t) \/ Merge(t)
  BY <1>5, KeptGrows
<1> QED
  BY <1>1, <1>2, <1>3, <1>4, <1>5 DEF Next

LEMMA ChildStep ==
    ASSUME StoreInv, [Next]_vars
    PROVE  \/ child' = child
           \/ child'.pc # "write" /\ child'.file \in {NoFile, disk}
           \/ /\ ChildJob # {}
              /\ child'.file.waiting \subseteq child.file.waiting \union disk.waiting \union ChildJob
<1>1. CASE \E t \in Web : WebRequest(t)
  BY <1>1 DEF WebRequest
<1>2. CASE PopJob \/ FinishJob \/ BackoffOver \/ Crash \/ Boot
  BY <1>2 DEF PopJob, FinishJob, BackoffOver, Crash, Boot
<1>3. CASE \E t \in Thread : Read(t) \/ Save(t) \/ Write(t)
  BY <1>3 DEF Read, Save, Write
<1>4. CASE ChildOpen
  BY <1>4 DEF ChildOpen, StoreInv, StoresOK
<1>5. CASE ChildWrite \/ UNCHANGED vars
  BY <1>5 DEF ChildWrite, vars
<1>6. CASE ChildPush
  <2>1. PICK j \in ChildJob :
            \/ child' = [pc |-> "idle", jobs |-> {}, file |-> NoFile]
            \/ child' = [pc |-> "write", jobs |-> {j},
                         file |-> Serialize(Moved(Merged(Load(child.file), disk),
                                                  {j}, "pending"))]
    BY <1>6, Zenon DEF ChildPush
  <2> DEFINE m == Merged(Load(child.file), disk)
             n == Moved(m, {j}, "pending")
  <2>2. Waiting(n) \subseteq Waiting(m) \union {j}
    BY DEF Waiting, Moved, List
  <2>3. m.pending \subseteq disk.waiting /\ m.deferred = child.file.waiting
    <3> DEFINE l == Load(child.file)
    <3>1. /\ l.pending = {} /\ l.deferred = child.file.waiting
          /\ DOMAIN l = List /\ {"pending", "deferred"} \subseteq List
      BY DEF Load, List, History
    <3> HIDE DEF l
    <3>2. Merged(l, disk).pending \subseteq disk.waiting /\ Merged(l, disk).deferred = l.deferred
      BY <3>1 DEF Merged
    <3> QED
      BY <3>1, <3>2 DEF l
  <2>4. Serialize(n).waiting = Waiting(n)
    BY DEF Serialize, Section
  <2> HIDE DEF m
  <2>5. Serialize(n).waiting \subseteq child.file.waiting \union disk.waiting \union ChildJob
    BY <2>2, <2>3, <2>4 DEF Waiting
  <2> QED
    BY <2>1, <2>5 DEF m
<1>7. CASE \E t \in Thread : Operation(t) \/ Merge(t)
  BY <1>7, KeptGrows
<1> QED
  BY <1>1, <1>2, <1>3, <1>4, <1>5, <1>6, <1>7 DEF Next

\* Between two restarts, what is exempt stays exempt.
LEMMA RunningStep ==
    ASSUME StoreInv, [Next]_vars, ~Crash, ~Boot
    PROVE  Kept \subseteq Kept' /\ Exempt \subseteq Exempt' /\ UNCHANGED <<up, crashes>>
<1>1. CASE \E t \in Thread : Operation(t) \/ Merge(t)
  BY <1>1, KeptGrows, ExemptGrows
<1>2. CASE \A t \in Thread : ~Operation(t) /\ ~Merge(t)
  BY <1>2, QuietStep DEF Exempt
<1> QED
  BY <1>1, <1>2

LEMMA FilesKeep ==
    ASSUME StoreInv, "requeue_failed" \notin Requests, [Next]_vars, ~Crash, ~Boot,
           FileKept(disk), \A t \in Thread : FileKept(thread[t].file)
    PROVE  \A t \in Thread : thread'[t].file.waiting \subseteq Kept' \union ChildJob
<1> SUFFICES ASSUME NEW t \in Thread
             PROVE  thread'[t].file.waiting \subseteq Kept' \union ChildJob
  OBVIOUS
<1>1. Kept \subseteq Kept'
  BY RunningStep
<1>2. Known(mem) \subseteq Kept
  BY DEF Kept
<1>3. thread'[t].file \in {thread[t].file, NoFile, disk, Serialize(mem)}
  BY FilesStep DEF Files4
<1> QED
  BY <1>1, <1>2, <1>3, FileFacts DEF FileKept

LEMMA WritesDistinct ==
    ASSUME StoreInv, "requeue_failed" \notin Requests, [Next]_vars, ~Crash, ~Boot,
           Distinct(Active(mem) \ Exempt),
           \A t \in Thread : thread[t].pc = "write"
                                 => Distinct(ActiveOf(thread[t].file) \ Exempt)
    PROVE  \A t \in Thread : thread'[t].pc = "write"
                                 => Distinct(ActiveOf(thread'[t].file) \ Exempt')
<1> SUFFICES ASSUME NEW t \in Thread, thread'[t].pc = "write"
             PROVE  Distinct(ActiveOf(thread'[t].file) \ Exempt')
  OBVIOUS
<1>1. Exempt \subseteq Exempt'
  BY RunningStep
<1>2. thread'[t] = thread[t] \/ thread'[t].file = Serialize(mem)
  BY FilesStep DEF Files4
<1>3. Distinct(ActiveOf(thread'[t].file) \ Exempt)
  BY <1>2, FileFacts
<1> QED
  BY <1>1, <1>3 DEF Distinct

LEMMA TargetStep ==
    ASSUME "requeue_failed" \notin Requests, StoreInv, PushInv, TargetInv, [Next]_vars
    PROVE  TargetInv'
<1>1. CASE Crash
  <2>1. /\ ~up' /\ crashes' # 0 /\ mem' = Empty /\ thread' = [t \in Thread |-> Idle]
        /\ UNCHANGED <<disk, child, cleared, overflowed>>
    BY <1>1 DEF Crash, ghosts, StoreInv, SetsOK
  <2>2. \A t \in Thread : thread'[t] = Idle
    BY <2>1
  <2>3. OpOK(Idle) /\ Idle.file = NoFile /\ Idle.pc # "write"
    BY DEF OpOK, Idle
  <2>4. Active(mem') = {}
    BY <2>1 DEF Active, Waiting, Empty, List
  <2>5. Exempt' = Exempt
    BY <2>1 DEF Exempt
  <2>6. Distinct(Active(mem') \ Exempt')
    BY <2>4 DEF Distinct
  <2>7. ChildJob = {} => Distinct(ActiveOf(disk') \ Exempt')
    BY <2>1, <2>5 DEF TargetInv
  <2>8. ChildJob = {} => child'.pc # "write"
    BY <2>1 DEF TargetInv
  <2> QED
    BY <2>1, <2>2, <2>3, <2>6, <2>7, <2>8 DEF TargetInv, OpOK
<1>2. CASE Boot
  <2>1. /\ ~up /\ up' /\ mem' = Load(disk)
        /\ UNCHANGED <<thread, disk, child, cleared, overflowed, crashes>>
    BY <1>2 DEF Boot, ghosts
  <2>2. crashes # 0
    BY <2>1 DEF PushInv
  <2>3. Active(mem') = ActiveOf(disk) /\ disk'.waiting \subseteq Known(mem') /\ Exempt' = Exempt
    BY <2>1, FileFacts DEF Exempt
  <2>4. \A t \in Thread : thread'[t].file.waiting = {}
    BY <2>1, FileFacts DEF TargetInv
  <2>5. ChildJob = {} => Distinct(Active(mem') \ Exempt')
    BY <2>3 DEF TargetInv
  <2>6. FileKept(disk)' /\ \A t \in Thread : FileKept(thread[t].file)'
    BY <2>3, <2>4 DEF FileKept, Kept
  <2>7. /\ \A t \in Thread : OpOK(thread[t])'
        /\ ChildJob = {} => child'.pc # "write"
    BY <2>1 DEF TargetInv, OpOK
  <2>8. ChildJob = {} => /\ Distinct(ActiveOf(disk') \ Exempt')
                         /\ \A t \in Thread : thread'[t].pc = "write"
                                    => Distinct(ActiveOf(thread'[t].file) \ Exempt')
    BY <2>1, <2>3 DEF TargetInv
  <2> QED
    BY <2>1, <2>2, <2>5, <2>6, <2>7, <2>8 DEF TargetInv
<1>3. CASE ~Crash /\ ~Boot
  <2>1. Kept \subseteq Kept' /\ Exempt \subseteq Exempt' /\ UNCHANGED <<up, crashes>>
    BY <1>3, RunningStep
  <2>2. \A t \in Thread : Files4(thread[t], thread'[t]) /\ OpOK(thread'[t])
    BY <1>3, FilesStep DEF TargetInv
  <2>3. ~up => \A t \in Thread : thread'[t].file = NoFile
    <3>1. SUFFICES ASSUME ~up, NEW t \in Thread PROVE thread'[t].file = NoFile
      OBVIOUS
    <3>2. thread' = thread
      <4>1. \A s \in Thread : thread[s].pc = "idle"
        BY <3>1 DEF StoreInv, ThreadsOK
      <4>2. CASE \E s \in Web : WebRequest(s)
        BY <3>1, <4>2 DEF WebRequest, Start
      <4>3. CASE PopJob \/ FinishJob
        BY <3>1, <4>3 DEF PopJob, FinishJob, Start
      <4>4. CASE \E s \in Thread : Read(s) \/ Save(s) \/ Write(s) \/ Merge(s)
        BY <4>1, <4>4 DEF Read, Save, Write, Merge
      <4>5. CASE \E s \in Thread : Operation(s)
        BY <4>1, <4>5, OperationTask
      <4>6. CASE BackoffOver \/ ChildOpen \/ ChildPush \/ ChildWrite \/ UNCHANGED vars
        BY <4>6 DEF BackoffOver, ChildOpen, ChildPush, ChildWrite, vars, server
      <4> QED
        BY <1>3, <4>2, <4>3, <4>4, <4>5, <4>6 DEF Next
    <3> QED
      BY <3>1, <3>2 DEF TargetInv
  <2>4. ChildJob = {} => child'.pc # "write"
    BY ChildStep DEF TargetInv
  <2>5. ASSUME crashes = 0 PROVE child'.file.waiting \subseteq Kept' \union ChildJob
    <3>1. up /\ FileKept(disk) /\ FileKept(child.file)
      BY <2>5 DEF PushInv, TargetInv
    <3>2. \/ child'.file \in {child.file, NoFile, disk}
          \/ child'.file.waiting \subseteq child.file.waiting \union disk.waiting \union ChildJob
      BY ChildStep
    <3> QED
      BY <2>1, <3>1, <3>2, FileFacts DEF FileKept
  <2>6. ASSUME ChildJob = {} \/ crashes = 0
        PROVE  Distinct(Active(mem') \ Exempt')
    <3>1. CASE \E t \in Thread : Operation(t) \/ Merge(t)
      <4>1. PICK t \in Thread : Operation(t) \/ Merge(t)
        BY <3>1
      <4>2. thread[t].pc # "idle"
        BY <4>1, OperationTask DEF Merge
      <4>3. up /\ FileKept(thread[t].file) /\ OpOK(thread[t]) /\ Distinct(Active(mem) \ Exempt)
        BY <2>6, <4>2, Awake DEF TargetInv
      <4> QED
        BY <4>1, <4>3, OperationDistinct
    <3>2. CASE \A t \in Thread : ~Operation(t) /\ ~Merge(t)
      <4>1. mem' = mem /\ Distinct(Active(mem) \ Exempt)
        BY <1>3, <2>6, <3>2, QuietStep DEF TargetInv
      <4> QED
        BY <2>1, <4>1 DEF Distinct
    <3> QED
      BY <3>1, <3>2
  <2>7. ASSUME ChildJob = {} \/ crashes = 0, up
        PROVE  /\ disk'.waiting \subseteq Kept' \union ChildJob
               /\ \A t \in Thread : thread'[t].file.waiting \subseteq Kept' \union ChildJob
    <3>1. FileKept(disk) /\ \A t \in Thread : FileKept(thread[t].file)
      BY <2>7 DEF TargetInv
    <3>2. child.pc = "write" => FileKept(child.file)
      BY <2>7 DEF TargetInv
    <3>3. disk'.waiting \subseteq Kept \union ChildJob
      BY <3>1, <3>2, DiskStep DEF FileKept
    <3> QED
      BY <1>3, <2>1, <3>1, <3>3, FilesKeep
  <2>8. ASSUME ChildJob = {}
        PROVE  /\ Distinct(ActiveOf(disk') \ Exempt')
               /\ \A t \in Thread : thread'[t].pc = "write"
                                    => Distinct(ActiveOf(thread'[t].file) \ Exempt')
    <3>1. /\ Distinct(Active(mem) \ Exempt) /\ Distinct(ActiveOf(disk) \ Exempt)
          /\ \A t \in Thread : thread[t].pc = "write"
                                    => Distinct(ActiveOf(thread[t].file) \ Exempt)
          /\ child.pc # "write"
      BY <2>8 DEF TargetInv
    <3>2. Distinct(ActiveOf(disk') \ Exempt)
      BY <3>1, DiskStep
    <3>3. Distinct(ActiveOf(disk') \ Exempt')
      BY <2>1, <3>2 DEF Distinct
    <3> QED
      BY <1>3, <3>1, <3>3, WritesDistinct
  <2> QED
    BY <2>1, <2>2, <2>3, <2>4, <2>5, <2>6, <2>7, <2>8 DEF TargetInv, FileKept, OpOK
<1> QED
  BY <1>1, <1>2, <1>3

LEMMA InitTargets == Init => PushInv /\ TargetInv
<1> SUFFICES ASSUME Init PROVE PushInv /\ TargetInv
  OBVIOUS
<1>1. \A t \in Thread : thread[t] = Idle
  BY DEF Init
<1>2. PushInv
  BY <1>1, PushedFields DEF Init, PushInv
<1>3. OpOK(Idle) /\ Idle.file = NoFile /\ Idle.pc # "write"
  BY DEF OpOK, Idle
<1>4. Active(mem) = {} /\ ActiveOf(NoFile) = {}
  BY DEF Init, Active, Waiting, Empty, List, ActiveOf, NoFile, Section
<1>5. FileKept(NoFile)
  BY FileFacts DEF FileKept
<1>6. Distinct(Active(mem) \ Exempt) /\ Distinct(ActiveOf(NoFile) \ Exempt)
  BY <1>4 DEF Distinct
<1>7. disk = NoFile /\ child.pc = "idle" /\ child.file = NoFile /\ up
  BY DEF Init
<1>8. TargetInv
  BY <1>1, <1>3, <1>5, <1>6, <1>7 DEF TargetInv
<1> QED
  BY <1>2, <1>8

\* Of jobs that the file keeps faithfully, two active ones of the server never do
\* the same thing, until an operator's retry asks for it: with children as long as
\* nothing crashed, without children across any number of crashes.  Other jobs may
\* be in memory as something else than what they were pushed as.  A child serializes
\* what it read before, so that the file a restart loads may hold a job that has
\* ended, beside its successor.
THEOREM TargetsDiffer ==
    ASSUME "requeue_failed" \notin Requests
    PROVE  Spec => [](ChildJob = {} \/ crashes = 0 => OneActivePerTarget)
<1>1. Init => StoreInv /\ PushInv /\ TargetInv
  BY InitStores, InitTargets
<1>2. (StoreInv /\ PushInv /\ TargetInv) /\ [Next]_vars => (StoreInv /\ PushInv /\ TargetInv)'
  BY StoreStep, PushedStep, TargetStep
<1>3. TargetInv => (ChildJob = {} \/ crashes = 0 => OneActivePerTarget)
  BY DEF TargetInv, OneActivePerTarget, Distinct, Exempt
<1> QED
  BY <1>1, <1>2, <1>3, PTL DEF Spec

----------------------------------------------------------------------------
(* Backups. *)

\* A job is unborn from the request that generates its id until it is appended.
Later(r, q) ==
    /\ q.op \in {r.op, "flush", "pop"} \union Settling \union Requests
    /\ UnbornOf(q) \subseteq UnbornOf(r) \union (used' \ used)

LEMMA LaterStep ==
    ASSUME StoreInv, NEW t \in Thread, NEW r, thread' = [thread EXCEPT ![t] = r],
           Later(thread[t], r)
    PROVE  \A s \in Thread : Later(thread[s], thread'[s])
BY OneThread DEF Later

LEMMA IdleLater == ASSUME NEW r PROVE Later(r, Idle)
BY DEF Later, Idle, UnbornOf

LEMMA BirthStep ==
    ASSUME StoreInv, [Next]_vars
    PROVE  /\ \A s \in Thread : Later(thread[s], thread'[s])
           /\ Born \subseteq Born'
<1>1. \A s \in Thread : Later(thread[s], thread'[s])
  <2>1. ASSUME NEW t \in Thread, NEW op \in Settling \union Requests, NEW S, NEW l,
               thread' = [thread EXCEPT ![t] = Starting(op, S, l)],
               op \in Pushing => S \subseteq used' \ used
        PROVE  \A s \in Thread : Later(thread[s], thread'[s])
    <3>1. Later(thread[t], Starting(op, S, l))
      BY <2>1, StartingFields DEF Later
    <3> QED
      BY <2>1, <3>1, LaterStep
  <2>2. ASSUME NEW t \in Web, WebRequest(t)
        PROVE  \A s \in Thread : Later(thread[s], thread'[s])
    <3>1. t \in Thread
      BY DEF Thread
    <3>2. CASE \E op \in Requests \intersect {"push", "push_batch"} :
               \E S \in SUBSET Fresh : Start(t, op, S, "default") /\ used' = used \union S
      <4>1. PICK op \in Requests \intersect {"push", "push_batch"}, S \in SUBSET Fresh :
                   Start(t, op, S, "default") /\ used' = used \union S
        BY <3>2
      <4>2. S \subseteq used' \ used
        BY <4>1 DEF Fresh
      <4> QED
        BY <2>1, <3>1, <4>1, <4>2 DEF Start
    <3>3. CASE "remove_pending" \in Requests /\
               \E j \in Waiting(mem) : Start(t, "remove_pending", {j}, "default")
      <4>1. PICK j \in Waiting(mem) : Start(t, "remove_pending", {j}, "default")
        BY <3>3
      <4>2. "remove_pending" \notin Pushing /\ "remove_pending" \in Settling \union Requests
        BY <3>3 DEF Pushing
      <4>3. thread' = [thread EXCEPT ![t] = Starting("remove_pending", {j}, "default")]
        BY <4>1 DEF Start
      <4> QED
        BY <2>1, <3>1, <4>2, <4>3
    <3>4. CASE "cancel_pending_in_lane" \in Requests /\
               \E l \in Lane : Start(t, "cancel_pending_in_lane", {}, l)
      BY <2>1, <3>1, <3>4 DEF Start, Pushing
    <3>5. CASE \E op \in Requests \ {"push", "push_batch", "remove_pending",
                                   "cancel_pending_in_lane"} :
                   Start(t, op, {}, "default")
      BY <2>1, <3>1, <3>5 DEF Start, Pushing
    <3> QED
      BY <2>2, <3>2, <3>3, <3>4, <3>5 DEF WebRequest
  <2>3. CASE PopJob
    <3>1. PICK l : thread' = [thread EXCEPT ![Worker] =
                 [Starting("pop", {}, l) EXCEPT !.pc = IF Runnable(l) = {} THEN "read"
                                                                           ELSE "act"]]
      BY <2>3 DEF PopJob
    <3> DEFINE r == [Starting("pop", {}, l) EXCEPT !.pc = IF Runnable(l) = {} THEN "read"
                                                                              ELSE "act"]
    <3>2. r.op = "pop"
      BY DEF Starting
    <3> HIDE DEF r
    <3>3. Later(thread[Worker], r)
      BY <3>2 DEF Later, UnbornOf, Pushing
    <3> QED
      BY <3>1, <3>3, LaterStep DEF r, Thread
  <2>4. CASE FinishJob
    <3>1. PICK op \in Settling, j \in executing : Start(Worker, op, {j}, "default")
      BY <2>4, UseAssumption DEF FinishJob
    <3>2. op \notin Pushing
      BY DEF Settling, History, Pushing
    <3> QED
      BY <2>1, <3>1, <3>2 DEF Start, Thread
  <2>5. ASSUME NEW t \in Thread, Read(t) \/ Save(t) \/ Write(t)
        PROVE  \A s \in Thread : Later(thread[s], thread'[s])
    <3>1. thread[t] \in Task(used, Born) /\ thread \in [Thread -> Task(used, Born)]
      BY DEF StoreInv, ThreadsOK
    <3>2. CASE Read(t)
      <4> DEFINE r == Holding(thread[t], "merge", disk)
      <4>1. /\ thread' = [thread EXCEPT ![t] = r] /\ r.op = thread[t].op
            /\ thread[t].op = "pop"
        BY <3>1, <3>2 DEF Read, Holding, Task, StoreInv, ThreadsOK
      <4> HIDE DEF r
      <4>2. Later(thread[t], r)
        BY <4>1 DEF Later, UnbornOf, Pushing
      <4> QED
        BY <4>1, <4>2, LaterStep
    <3>3. CASE Save(t)
      <4> DEFINE r == Holding(thread[t], "write", Serialize(mem))
      <4>1. thread' = [thread EXCEPT ![t] = r] /\ r.op = thread[t].op /\ r.pc = "write"
        BY <3>1, <3>3 DEF Save, Holding, Task
      <4> HIDE DEF r
      <4>2. Later(thread[t], r)
        BY <4>1 DEF Later, UnbornOf
      <4> QED
        BY <4>1, <4>2, LaterStep
    <3>4. CASE Write(t)
      BY <3>4, IdleLater, LaterStep DEF Write
    <3> QED
      BY <2>5, <3>2, <3>3, <3>4
  <2>6. ASSUME NEW t \in Thread, Merge(t)
        PROVE  \A s \in Thread : Later(thread[s], thread'[s])
    <3>1. thread[t] \in Task(used, Born) /\ thread \in [Thread -> Task(used, Born)]
      BY DEF StoreInv, ThreadsOK
    <3> DEFINE h == Holding(thread[t], "act", NoFile)
               r == IF Loadable(thread[t].file) \/ thread[t].op = "pop" THEN h ELSE Idle
    <3>2. thread' = [thread EXCEPT ![t] = r] /\ thread[t].pc = "merge"
      BY <2>6, <3>1 DEF Merge, Holding
    <3>3. h.pc = "act" /\ h.op = thread[t].op /\ h.jobs = thread[t].jobs
      BY <3>1 DEF Holding, Task
    <3> HIDE DEF h
    <3>4. Later(thread[t], h)
      BY <3>2, <3>3 DEF Later, UnbornOf
    <3> HIDE DEF r
    <3>5. r = h \/ r = Idle
      BY DEF r
    <3> QED
      BY <3>2, <3>4, <3>5, IdleLater, LaterStep
  <2>7. ASSUME NEW t \in Thread, Operation(t)
        PROVE  \A s \in Thread : Later(thread[s], thread'[s])
    <3>1. CASE Return(t)
      BY <3>1, IdleLater, LaterStep DEF Return
    <3>2. ASSUME NEW S, Saving(t, S)
          PROVE  \A s \in Thread : Later(thread[s], thread'[s])
      <4> DEFINE r == Taking(thread[t], "save", S)
      <4>1. thread' = [thread EXCEPT ![t] = r] /\ r.pc = "save" /\ r.op = thread[t].op
        BY <3>2, SavingTask
      <4> HIDE DEF r
      <4>2. Later(thread[t], r)
        BY <4>1 DEF Later, UnbornOf
      <4> QED
        BY <4>1, <4>2, LaterStep
    <3>3. CASE thread' = [thread EXCEPT ![t] = Starting("failed", thread[t].jobs, "default")]
      BY <2>1, <3>3 DEF Settling, History, Pushing
    <3> QED
      BY <2>7, <3>1, <3>2, <3>3, OperationTask
  <2>8. CASE Crash
    <3>1. \A s \in Thread : thread'[s] = Idle
      BY <2>8 DEF Crash
    <3> QED
      BY <3>1, IdleLater
  <2>9. CASE BackoffOver \/ ChildOpen \/ ChildPush \/ ChildWrite \/ Boot \/ UNCHANGED vars
    <3>1. thread' = thread
      BY <2>9 DEF BackoffOver, ChildOpen, ChildPush, ChildWrite, Boot, vars, server
    <3> QED
      BY <3>1 DEF Later
  <2> QED
    BY <2>2, <2>3, <2>4, <2>5, <2>6, <2>7, <2>8, <2>9 DEF Next
<1>2. used \subseteq used'
  <2>1. CASE \E t \in Web : WebRequest(t)
    BY <2>1 DEF WebRequest
  <2>2. CASE PopJob \/ FinishJob \/ BackoffOver \/ Crash \/ Boot
    BY <2>2 DEF PopJob, FinishJob, BackoffOver, Crash, Boot
  <2>3. CASE \E t \in Thread : Read(t) \/ Save(t) \/ Write(t)
    BY <2>3 DEF Read, Save, Write
  <2>4. CASE ChildOpen \/ ChildPush \/ ChildWrite \/ UNCHANGED vars
    BY <2>4 DEF ChildOpen, ChildPush, ChildWrite, vars
  <2>5. CASE \E t \in Thread : Operation(t) \/ Merge(t)
    BY <2>5, KeptGrows
  <2> QED
    BY <2>1, <2>2, <2>3, <2>4, <2>5 DEF Next
<1>3. Born' = {j \in used' : \A s \in Thread : j \notin UnbornOf(thread'[s])}
  BY DEF Born, UnbornOf
<1>4. Born \subseteq Born'
  BY <1>1, <1>2, <1>3 DEF Born, Later
<1> QED
  BY <1>1, <1>4

\* A worker settles only jobs of the running list.
LEMMA FoundRuns ==
    ASSUME StoreInv, OwnInv, NEW t \in Thread, Settle(t) \/ Requeue(t)
    PROVE  Found(t) \subseteq mem.running
<1>1. thread[t].pc = "act" /\ thread[t].op \in Settling
  BY DEF Settle, Requeue, Acting, Settling
<1>2. t = Worker
  BY <1>1 DEF StoreInv, ThreadsOK, OpOf, Request, Removing, History, Settling
<1>3. Found(t) = Claimed
  BY <1>1, <1>2, FoundIsClaimed
<1> QED
  BY <1>3 DEF OwnInv

\* Where an operation may take a job that is neither pending nor running.
Lies(m, j) == j \in m.pending \union m.running
Rests(m, j) == j \in m.deferred \union m.resumed

LEMMA MovedCalm ==
    ASSUME StoreInv, NEW S, NEW x \in List, NEW j, mem' = Moved(mem, S, x), ~Lies(mem, j),
           j \in S => (x \in History \/ (x = "deferred" /\ Rests(mem, j)))
    PROVE  /\ ~Lies(mem', j)
           /\ Rests(mem', j) => Rests(mem, j)
           /\ j \in Known(mem) => j \in Known(mem')
<1>1. {"pending", "running", "deferred", "resumed"} \subseteq List
  BY DEF List
<1>2. \A y \in List : mem'[y] = IF y = x THEN mem[y] \union S ELSE mem[y] \ S
  BY DEF Moved
<1>3. History \intersect {"pending", "running", "deferred", "resumed"} = {}
  BY DEF History
<1>4. Known(mem') = Known(mem) \union S
  BY MemIsLists, KnownMoved
<1>5. ~Lies(mem', j)
  BY <1>1, <1>2, <1>3 DEF Lies
<1>6. Rests(mem', j) => Rests(mem, j)
  BY <1>1, <1>2, <1>3 DEF Rests
<1> QED
  BY <1>4, <1>5, <1>6

\* An operation makes no job pending or restorable that was neither.
LEMMA OperationCalm ==
    ASSUME StoreInv, OwnInv, NEW t \in Thread, Operation(t) \/ Merge(t),
           thread[t].op \notin {"push_batch", "requeue_failed"}, ~ActivateRestorable(t),
           NEW j \in Born, j \notin cleared', ~Lies(mem, j),
           j \in Known(mem) \/ j \notin thread[t].file.waiting
    PROVE  /\ ~Lies(mem', j)
           /\ Rests(mem', j) => Rests(mem, j)
           /\ j \in Known(mem) => j \in Known(mem')
           /\ sentinel \subseteq sentinel'
<1>1. mem \in Lists(Born) /\ {"pending", "cancelled", "running", "completed", "deferred"} \subseteq List
  BY MemIsLists DEF List, History
<1>2. "cancelled" \in History /\ History \subseteq List
  BY DEF List, History
<1>3. CASE Merge(t)
  <2>1. /\ j \in mem'.pending => j \in mem.pending
        /\ mem'.running = mem.running /\ mem'.deferred = mem.deferred
        /\ mem'.resumed = mem.resumed
    BY <1>3, MergeFields
  <2>3. sentinel' = sentinel
    BY <1>3 DEF Merge
  <2>2. Known(mem) \subseteq Known(mem')
    BY <1>1, <1>3, KnownMoved DEF Merge
  <2> QED
    BY <2>1, <2>2, <2>3 DEF Lies, Rests
<1>4. CASE Push(t)
  <2>1. mem' = mem \/ mem' = Moved(mem, thread[t].jobs, "pending")
    BY <1>4 DEF Push
  <2>2. j \notin thread[t].jobs
    BY <1>4 DEF Push, Acting, Born, UnbornOf, Pushing
  <2>3. sentinel' = sentinel
    BY <1>4 DEF Push
  <2>4. CASE mem' = mem
    BY <2>3, <2>4 DEF Lies, Rests
  <2>5. CASE mem' = Moved(mem, thread[t].jobs, "pending")
    BY <1>1, <2>2, <2>3, <2>5, MovedCalm
  <2> QED
    BY <2>1, <2>4, <2>5
<1>5. CASE CancelPendingInLane(t)
  <2>1. mem' = mem \/ \E S : mem' = Moved(mem, S, "cancelled")
    BY <1>5 DEF CancelPendingInLane
  <2>2. sentinel' = sentinel
    BY <1>5 DEF CancelPendingInLane
  <2>3. CASE mem' = mem
    BY <2>2, <2>3 DEF Lies, Rests
  <2>4. CASE \E S : mem' = Moved(mem, S, "cancelled")
    BY <1>1, <1>2, <2>2, <2>4, MovedCalm
  <2> QED
    BY <2>1, <2>3, <2>4
<1>6. CASE Remove(t)
  <2>1. PICK S : mem' = Without(mem, S) /\ cleared' = cleared \union S /\ sentinel' = sentinel
    BY <1>6 DEF Remove
  <2>2. \A y \in List : mem'[y] = mem[y] \ S
    BY <2>1 DEF Without
  <2>3. {"pending", "running", "deferred", "resumed"} \subseteq List
    BY DEF List
  <2>4. Known(Without(mem, S)) = Known(mem) \ S
    BY <1>1, KnownWithout, Zenon
  <2> QED
    BY <2>1, <2>2, <2>3, <2>4 DEF Lies, Rests
<1>7. CASE DeferRestorable(t)
  <2>1. mem' = Moved(mem, mem.resumed, "deferred") /\ sentinel' = sentinel
    BY <1>7 DEF DeferRestorable
  <2>2. j \in mem.resumed => Rests(mem, j)
    BY DEF Rests
  <2>3. "deferred" \in List
    BY <1>1
  <2> QED
    BY <2>1, <2>2, <2>3, MovedCalm
<1>8. CASE Flush(t)
  BY <1>8 DEF Flush, Lies, Rests
<1>9. CASE Pop(t)
  <2>1. mem' = mem \/ \E i \in mem.pending : mem' = Moved(mem, {i}, "running")
    BY <1>9 DEF Pop, Candidates, Runnable
  <2>2. sentinel' = sentinel
    BY <1>9 DEF Pop
  <2>3. CASE mem' = mem
    BY <2>2, <2>3 DEF Lies, Rests
  <2>4. ASSUME NEW i \in mem.pending, mem' = Moved(mem, {i}, "running")
        PROVE  /\ ~Lies(mem', j)
               /\ Rests(mem', j) => Rests(mem, j)
               /\ j \in Known(mem) => j \in Known(mem')
    <3>1. j \notin {i}
      BY DEF Lies
    <3> QED
      BY <1>1, <2>4, <3>1, MovedCalm
  <2> QED
    BY <2>1, <2>2, <2>3, <2>4
<1>10. CASE Settle(t)
  <2>1. /\ mem' = Moved(mem, Found(t), thread[t].op) /\ thread[t].op \in History
        /\ sentinel \subseteq sentinel'
    BY <1>10 DEF Settle, Acting
  <2> QED
    BY <1>2, <2>1, MovedCalm
<1>11. CASE Requeue(t)
  <2>1. /\ mem' = Moved(mem, Found(t), "pending") \/ mem' = Without(mem, Found(t))
        /\ sentinel' = sentinel
    BY <1>11 DEF Requeue
  <2>2. j \notin Found(t)
    BY <1>11, FoundRuns DEF Lies
  <2>3. CASE mem' = Moved(mem, Found(t), "pending")
    BY <1>1, <2>1, <2>2, <2>3, MovedCalm
  <2>4. CASE mem' = Without(mem, Found(t))
    <3>1. \A y \in List : mem'[y] = mem[y] \ Found(t)
      BY <2>4 DEF Without
    <3>2. {"pending", "running", "deferred", "resumed"} \subseteq List
      BY DEF List
    <3>3. Known(Without(mem, Found(t))) = Known(mem) \ Found(t)
      BY <1>1, KnownWithout, Zenon
    <3> QED
      BY <2>1, <2>2, <2>4, <3>1, <3>2, <3>3 DEF Lies, Rests
  <2> QED
    BY <2>1, <2>3, <2>4
<1>12. ~PushBatch(t) /\ ~RequeueFailed(t)
  BY DEF PushBatch, RequeueFailed, Acting
<1> QED
  BY <1>3, <1>4, <1>5, <1>6, <1>7, <1>8, <1>9, <1>10, <1>11, <1>12 DEF Operation

\* An activation completes the backups that have a sentinel, and starts no other.
LEMMA ActivateCalm ==
    ASSUME StoreInv, NEW t \in Thread, ActivateRestorable(t), NEW j \in Backup,
           ~Lies(mem, j), Rests(mem, j) => j \in sentinel
    PROVE  /\ ~Lies(mem', j) /\ ~Rests(mem', j)
           /\ j \in Known(mem) => j \in Known(mem')
<1> DEFINE S == mem.resumed \union mem.deferred
           m == Moved(mem, S \ Backed(S), "pending")
<1>1. mem' = Moved(m, Backed(S), "completed")
  BY DEF ActivateRestorable
<1>2. /\ j \in S => j \in Backed(S)
      /\ Backed(S) \subseteq S
  BY DEF Backed, NeedsSentinel, Rests
<1>3. S \subseteq Born /\ mem \in Lists(Born)
  BY MemoryWithin, MemIsLists DEF List
<1>4. j \in S <=> Rests(mem, j)
  BY DEF Rests
<1> HIDE DEF S
<1>5. {"pending", "running", "deferred", "resumed", "completed"} \subseteq List
  BY DEF List, History
<1>6. m \in Lists(Born)
  BY <1>3, <1>5, MovedIsLists
<1>7. \A y \in List : m[y] = IF y = "pending" THEN mem[y] \union (S \ Backed(S))
                                              ELSE mem[y] \ (S \ Backed(S))
  BY DEF Moved
<1>8. Known(m) = Known(mem) \union (S \ Backed(S))
  BY <1>3, <1>5, KnownMoved
<1> HIDE DEF m
<1>9. \A y \in List : mem'[y] = IF y = "completed" THEN m[y] \union Backed(S)
                                                   ELSE m[y] \ Backed(S)
  BY <1>1 DEF Moved
<1>10. Known(mem') = Known(m) \union Backed(S)
  BY <1>1, <1>5, <1>6, KnownMoved
<1>11. ~Lies(mem', j)
  BY <1>2, <1>5, <1>7, <1>9 DEF Lies
<1>12. ~Rests(mem', j)
  BY <1>2, <1>4, <1>5, <1>7, <1>9 DEF Rests
<1> QED
  BY <1>8, <1>10, <1>11, <1>12

\* A completed job stays completed, and its sentinel stays.
LEMMA OperationCompletes ==
    ASSUME StoreInv, NEW t \in Thread, Operation(t) \/ Merge(t),
           thread[t].op # "push_batch"
    PROVE  /\ mem.completed \subseteq mem'.completed
           /\ sentinel \intersect mem.completed \subseteq sentinel'
           /\ backedUp' \subseteq backedUp \union (sentinel' \intersect mem'.completed)
<1>1. mem \in Lists(Born) /\ {"pending", "completed", "running", "deferred", "cancelled"} \subseteq List
  BY MemIsLists DEF List, History
<1>2. /\ Active(mem) \intersect mem.completed = {}
      /\ mem.failed \intersect mem.completed = {} /\ mem.cancelled \intersect mem.completed = {}
      /\ UnbornOf(thread[t]) \intersect mem.completed = {}
  <2>1. /\ Active(mem) \intersect mem.completed = {}
        /\ mem.failed \intersect mem.completed = {} /\ mem.cancelled \intersect mem.completed = {}
    BY <1>1 DEF Lists, Disjoint, List, History, Active, Waiting
  <2>2. mem.completed \subseteq Born
    BY <1>1 DEF Lists
  <2> QED
    BY <2>1, <2>2 DEF Born
<1>3. ASSUME NEW S, NEW x, mem' = Moved(mem, S, x), S \intersect mem.completed = {}
      PROVE  mem.completed \subseteq mem'.completed
  BY <1>1, <1>3 DEF Moved
<1>4. CASE Push(t) \/ CancelPendingInLane(t) \/ RequeueFailed(t)
  <2>1. UNCHANGED <<sentinel, backedUp>>
    BY <1>4 DEF Push, CancelPendingInLane, RequeueFailed, ghosts
  <2>2. \/ mem' = mem
        \/ \E x : mem' = Moved(mem, mem.failed, x)
        \/ \E S \in SUBSET Waiting(mem) : \E x : mem' = Moved(mem, S, x)
        \/ Push(t) /\ \E x : mem' = Moved(mem, thread[t].jobs, x)
    BY <1>4 DEF Push, CancelPendingInLane, RequeueFailed
  <2>3. Push(t) => thread[t].jobs \subseteq UnbornOf(thread[t])
    BY DEF Push, Acting, UnbornOf, Pushing
  <2> QED
    BY <1>2, <1>3, <2>1, <2>2, <2>3 DEF Active
<1>5. CASE Remove(t)
  <2>1. Removable(t) \intersect mem.completed = {}
    <3>1. Removable(t) \subseteq Waiting(mem) \union mem.cancelled
      BY <1>5 DEF Remove, Removable, Acting, Removing
    <3> QED
      BY <1>2, <3>1 DEF Active
  <2>2. mem' = Without(mem, Removable(t)) /\ UNCHANGED <<sentinel, backedUp>>
    BY <1>5 DEF Remove
  <2>3. mem'.completed = mem.completed \ Removable(t)
    BY <1>1, <2>2 DEF Without
  <2> QED
    BY <2>1, <2>2, <2>3
<1>6. CASE ActivateRestorable(t)
  <2> DEFINE S == mem.resumed \union mem.deferred
             m == Moved(mem, S \ Backed(S), "pending")
  <2>1. /\ mem' = Moved(m, Backed(S), "completed") /\ sentinel' = sentinel \ Backed(S)
        /\ backedUp' = backedUp
    BY <1>6 DEF ActivateRestorable, ghosts
  <2>2. S \intersect mem.completed = {} /\ Backed(S) \subseteq S
    BY <1>2 DEF Active, Waiting, Backed, NeedsSentinel
  <2> HIDE DEF S
  <2>3. m.completed = mem.completed \ (S \ Backed(S))
    BY <1>1 DEF Moved
  <2> HIDE DEF m
  <2>4. m.completed \subseteq mem'.completed
    BY <1>1, <2>1 DEF Moved
  <2> QED
    BY <2>1, <2>2, <2>3, <2>4
<1>7. CASE DeferRestorable(t) \/ Flush(t) \/ Pop(t)
  <2>1. UNCHANGED <<sentinel, backedUp>>
    BY <1>7 DEF DeferRestorable, Flush, Pop, ghosts
  <2>2. mem' = mem \/ \E S \in SUBSET Active(mem) : \E x : mem' = Moved(mem, S, x)
    <3>1. CASE DeferRestorable(t)
      <4>1. mem' = Moved(mem, mem.resumed, "deferred") /\ mem.resumed \in SUBSET Active(mem)
        BY <3>1 DEF DeferRestorable, Active
      <4> QED
        BY <4>1
    <3>2. CASE Flush(t)
      BY <3>2 DEF Flush
    <3>3. CASE Pop(t)
      <4>1. mem' = mem \/ \E i \in mem.pending : mem' = Moved(mem, {i}, "running")
        BY <3>3 DEF Pop, Candidates, Runnable
      <4>2. \A i \in mem.pending : {i} \in SUBSET Active(mem)
        BY DEF Active, Waiting
      <4> QED
        BY <4>1, <4>2
    <3> QED
      BY <1>7, <3>1, <3>2, <3>3
  <2> QED
    BY <1>2, <1>3, <2>1, <2>2
<1>8. CASE Settle(t)
  <2>1. Found(t) \intersect mem.completed = {}
    BY <1>2 DEF Found, Active
  <2>2. mem' = Moved(mem, Found(t), thread[t].op)
    BY <1>8 DEF Settle
  <2>3. \E M : /\ M \subseteq Found(t)
               /\ M # {} => thread[t].op = "completed"
               /\ sentinel' = sentinel \union M /\ backedUp' = backedUp \union M
    <3> DEFINE M == IF thread[t].op = "completed" THEN NeedsSentinel(Found(t)) ELSE {}
    <3>1. /\ M \subseteq Found(t)
          /\ M # {} => thread[t].op = "completed"
      BY DEF NeedsSentinel
    <3>2. sentinel' = sentinel \union M /\ backedUp' = backedUp \union M
      BY <1>8 DEF Settle
    <3> QED
      BY <3>1, <3>2
  <2>4. thread[t].op = "completed" => Found(t) \subseteq mem'.completed
    BY <1>1, <2>2 DEF Moved
  <2> QED
    BY <1>3, <2>1, <2>2, <2>3, <2>4
<1>9. CASE Requeue(t)
  <2>1. UNCHANGED <<sentinel, backedUp>>
    BY <1>9 DEF Requeue
  <2>2. Found(t) \intersect mem.completed = {}
    BY <1>2 DEF Found, Active
  <2>3. mem' = Moved(mem, Found(t), "pending") \/ mem' = Without(mem, Found(t))
    BY <1>9 DEF Requeue
  <2>4. mem.completed \ Found(t) \subseteq mem'.completed
    BY <1>1, <2>3 DEF Moved, Without
  <2> QED
    BY <2>1, <2>2, <2>4
<1>10. CASE Merge(t)
  <2>1. UNCHANGED <<sentinel, backedUp>>
    BY <1>10 DEF Merge, ghosts
  <2>2. mem'.completed = mem.completed
    BY <1>1, <1>10 DEF Merge, Merged, Lists
  <2> QED
    BY <2>1, <2>2
<1>11. ~PushBatch(t)
  BY DEF PushBatch, Acting
<1> QED
  BY <1>4, <1>5, <1>6, <1>7, <1>8, <1>9, <1>10, <1>11 DEF Operation

\* A completed backup that is restored is found by its sentinel, and one that memory
\* forgot is in no file a merge might bring it back from.
Settled(j) ==
    /\ ~Lies(mem, j)
    /\ Rests(mem, j) => j \in sentinel
    /\ j \notin Known(mem) => /\ j \notin disk.waiting
                              /\ \A t \in Thread : j \notin thread[t].file.waiting

BackupInv ==
    /\ \A t \in Thread : thread[t].op # "push_batch"
    /\ backedUp \subseteq Born
    /\ crashes = 0 => backedUp \subseteq sentinel \intersect mem.completed
    /\ crashes = 1 /\ ~up => backedUp \subseteq sentinel
    /\ crashes = 1 /\ up => \A j \in backedUp \ cleared : Settled(j)

LEMMA CompletedApart ==
    ASSUME StoreInv, NEW j \in mem.completed
    PROVE  ~Lies(mem, j) /\ ~Rests(mem, j) /\ j \in Known(mem) /\ j \in Born
<1>1. mem \in Lists(Born) /\ {"pending", "running", "deferred", "resumed", "completed"} \subseteq List
  BY MemIsLists DEF List, History
<1>2. ~Lies(mem, j) /\ ~Rests(mem, j)
  BY <1>1 DEF Lists, Disjoint, Lies, Rests
<1>3. j \in Known(mem) /\ j \in Born
  BY <1>1 DEF Known, Lists
<1> QED
  BY <1>2, <1>3

\* One operation of a server that restarted once.
LEMMA OperationSettled ==
    ASSUME StoreInv, OwnInv, StoreInv', BackupInv, NEW t \in Thread,
           Operation(t) \/ Merge(t), thread[t].op # "requeue_failed",
           crashes = 1, up, NEW j \in backedUp' \ cleared'
    PROVE  /\ ~Lies(mem', j)
           /\ Rests(mem', j) => j \in sentinel'
           /\ j \notin Known(mem') => j \in backedUp \ cleared /\ j \notin Known(mem)
<1>1. thread[t].op # "push_batch" /\ backedUp \subseteq Born /\ backedUp \subseteq Backup
  BY DEF BackupInv, StoreInv, SetsOK
<1>2. cleared \subseteq cleared'
  BY KeptGrows
<1>3. CASE j \notin backedUp
  <2>1. j \in mem'.completed
    BY <1>1, <1>3, OperationCompletes
  <2>2. mem' \in Lists(Born')
    BY DEF StoreInv, StoresOK
  <2>3. ~Lies(mem', j) /\ ~Rests(mem', j) /\ j \in Known(mem')
    BY <2>1, <2>2 DEF Lists, Disjoint, List, History, Lies, Rests, Known
  <2> QED
    BY <2>3
<1>4. CASE j \in backedUp
  <2>1. Settled(j) /\ j \notin cleared
    BY <1>2, <1>4 DEF BackupInv
  <2>2. /\ ~Lies(mem, j) /\ (Rests(mem, j) => j \in sentinel)
        /\ j \in Known(mem) \/ j \notin thread[t].file.waiting
    BY <2>1 DEF Settled
  <2>3. j \in Born /\ j \in Backup /\ j \notin cleared'
    BY <1>1, <1>4
  <2>4. CASE ActivateRestorable(t)
    <3>1. /\ ~Lies(mem', j) /\ ~Rests(mem', j)
          /\ j \in Known(mem) => j \in Known(mem')
      BY <2>2, <2>3, <2>4, ActivateCalm
    <3> QED
      BY <1>4, <2>1, <3>1
  <2>5. CASE ~ActivateRestorable(t)
    <3>2. /\ ~Lies(mem', j)
          /\ Rests(mem', j) => Rests(mem, j)
          /\ j \in Known(mem) => j \in Known(mem')
          /\ sentinel \subseteq sentinel'
      BY <1>1, <2>2, <2>3, <2>5, OperationCalm
    <3> QED
      BY <1>4, <2>1, <2>2, <3>2
  <2> QED
    BY <2>4, <2>5
<1> QED
  BY <1>3, <1>4

LEMMA QuietBacked ==
    ASSUME [Next]_vars, \A t \in Thread : ~Operation(t) /\ ~Merge(t)
    PROVE  UNCHANGED <<sentinel, backedUp>>
<1>1. CASE \E t \in Web : WebRequest(t)
  BY <1>1 DEF WebRequest, ghosts
<1>2. CASE PopJob \/ FinishJob \/ BackoffOver \/ Crash \/ Boot
  BY <1>2 DEF PopJob, FinishJob, BackoffOver, Crash, Boot, ghosts
<1>3. CASE \E t \in Thread : Read(t) \/ Save(t) \/ Write(t)
  BY <1>3 DEF Read, Save, Write, ghosts
<1>4. CASE ChildOpen \/ ChildPush \/ ChildWrite \/ UNCHANGED vars
  BY <1>4 DEF ChildOpen, ChildPush, ChildWrite, vars, server, ghosts
<1> QED
  BY <1>1, <1>2, <1>3, <1>4 DEF Next

\* What no file and no list has, no step that is no restart puts into a file.
LEMMA FilesStayClear ==
    ASSUME StoreInv, "requeue_failed" \notin Requests, child.pc # "write",
           [Next]_vars, ~Crash, ~Boot,
           NEW j, j \notin Known(mem), j \notin disk.waiting,
           \A t \in Thread : j \notin thread[t].file.waiting
    PROVE  j \notin disk'.waiting /\ \A t \in Thread : j \notin thread'[t].file.waiting
<1>1. j \notin disk'.waiting
  BY DiskStep
<1>2. ASSUME NEW t \in Thread PROVE j \notin thread'[t].file.waiting
  <2>1. thread'[t].file \in {thread[t].file, NoFile, disk, Serialize(mem)}
    BY FilesStep DEF Files4
  <2> QED
    BY <2>1, FileFacts
<1> QED
  BY <1>1, <1>2

LEMMA BackupStep ==
    ASSUME Requests \intersect {"push_batch", "requeue_failed"} = {}, ChildJob = {},
           StoreInv, StoreInv', OwnInv, PushInv, TargetInv, BackupInv, [Next]_vars
    PROVE  BackupInv'
<1>1. \A t \in Thread : thread'[t].op # "push_batch"
  BY BirthStep DEF BackupInv, Later, Settling, History
<1>2. backedUp' \subseteq Born'
  <2>1. Born \subseteq Born'
    BY BirthStep
  <2>2. CASE \E t \in Thread : Operation(t) \/ Merge(t)
    <3>1. backedUp' \subseteq backedUp \union mem'.completed
      BY <2>2, OperationCompletes DEF BackupInv
    <3>2. mem' \in Lists(Born') /\ "completed" \in List
      BY DEF StoreInv, StoresOK, List, History
    <3>3. mem'.completed \subseteq Born'
      BY <3>2 DEF Lists
    <3> QED
      BY <2>1, <3>1, <3>3 DEF BackupInv
  <2>3. CASE \A t \in Thread : ~Operation(t) /\ ~Merge(t)
    BY <2>1, <2>3, QuietBacked DEF BackupInv
  <2> QED
    BY <2>2, <2>3
<1>3. CASE Crash
  <2>1. /\ ~up' /\ crashes' = crashes + 1 /\ UNCHANGED <<sentinel, backedUp>>
        /\ crashes \in Nat
    BY <1>3, LimitAssumption DEF Crash, ghosts, StoreInv, SetsOK
  <2>2. crashes' = 1 => backedUp' \subseteq sentinel'
    BY <2>1 DEF BackupInv
  <2>3. crashes' # 0
    BY <2>1
  <2> QED
    BY <1>1, <1>2, <2>1, <2>2, <2>3 DEF BackupInv
<1>4. CASE Boot
  <2>1. /\ ~up /\ up' /\ mem' = Load(disk)
        /\ UNCHANGED <<thread, disk, crashes, sentinel, backedUp, cleared>>
    BY <1>4 DEF Boot, ghosts
  <2>2. crashes # 0
    BY <2>1 DEF PushInv
  <2>3. ASSUME crashes = 1, NEW j \in backedUp PROVE Settled(j)'
    <3>1. j \in sentinel'
      BY <2>1, <2>3 DEF BackupInv
    <3>2. ~Lies(mem', j)
      BY <2>1 DEF Lies, Load, List, History
    <3>3. j \notin Known(mem') => j \notin disk'.waiting
      BY <2>1, FileFacts
    <3>4. \A t \in Thread : j \notin thread'[t].file.waiting
      BY <2>1, FileFacts DEF TargetInv
    <3> QED
      BY <3>1, <3>2, <3>3, <3>4 DEF Settled, Lies, Rests
  <2>4. ASSUME crashes = 1 PROVE \A j \in backedUp' \ cleared' : Settled(j)'
    BY <2>1, <2>3, <2>4
  <2> QED
    BY <1>1, <1>2, <2>1, <2>2, <2>4 DEF BackupInv
<1>5. CASE ~Crash /\ ~Boot
  <2>1. UNCHANGED <<up, crashes>>
    BY <1>5, RunningStep
  <2>2. ASSUME crashes = 0 PROVE backedUp' \subseteq sentinel' \intersect mem'.completed
    <3>1. backedUp \subseteq sentinel \intersect mem.completed
      BY <2>2 DEF BackupInv
    <3>2. CASE \E t \in Thread : Operation(t) \/ Merge(t)
      BY <3>1, <3>2, OperationCompletes DEF BackupInv
    <3>3. CASE \A t \in Thread : ~Operation(t) /\ ~Merge(t)
      BY <1>5, <3>1, <3>3, QuietStep, QuietBacked
    <3> QED
      BY <3>2, <3>3
  <2>3. ASSUME crashes = 1, ~up PROVE backedUp' \subseteq sentinel'
    <3>1. ASSUME NEW t \in Thread PROVE ~Operation(t) /\ ~Merge(t)
      <4>1. thread[t].pc = "idle"
        BY <2>3 DEF StoreInv, ThreadsOK
      <4> QED
        BY <4>1, OperationTask DEF Merge
    <3> QED
      BY <2>3, <3>1, QuietBacked DEF BackupInv
  <2>4. ASSUME crashes = 1, up, NEW j \in backedUp' \ cleared'
        PROVE  Settled(j)'
    <3>1. /\ ~Lies(mem', j)
          /\ Rests(mem', j) => j \in sentinel'
          /\ j \notin Known(mem') => j \in backedUp \ cleared /\ j \notin Known(mem)
      <4>1. CASE \E t \in Thread : Operation(t) \/ Merge(t)
        BY <2>4, <4>1, OperationSettled DEF TargetInv, OpOK
      <4>2. CASE \A t \in Thread : ~Operation(t) /\ ~Merge(t)
        <5>1. /\ mem' = mem /\ cleared' = cleared /\ sentinel' = sentinel
              /\ backedUp' = backedUp
          BY <1>5, <4>2, QuietStep, QuietBacked
        <5>2. Settled(j)
          BY <2>4, <5>1 DEF BackupInv
        <5> QED
          BY <2>4, <5>1, <5>2 DEF Settled
      <4> QED
        BY <4>1, <4>2
    <3>2. ASSUME j \notin Known(mem')
          PROVE  j \notin disk'.waiting /\ \A t \in Thread : j \notin thread'[t].file.waiting
      <4>1. Settled(j) /\ j \notin Known(mem)
        BY <2>4, <3>1, <3>2 DEF BackupInv
      <4>2. /\ j \notin disk.waiting
            /\ \A t \in Thread : j \notin thread[t].file.waiting
        BY <4>1 DEF Settled
      <4>3. child.pc # "write" /\ "requeue_failed" \notin Requests
        BY DEF TargetInv
      <4> QED
        BY <1>5, <4>1, <4>2, <4>3, FilesStayClear
    <3> QED
      BY <3>1, <3>2 DEF Settled, Lies, Rests
  <2> QED
    BY <1>1, <1>2, <2>1, <2>2, <2>3, <2>4 DEF BackupInv
<1> QED
  BY <1>3, <1>4, <1>5

\* A backup whose completion was recorded is not executed again, unless it was removed:
\* before a restart and after one.  The batch push is left out, which clears the sentinel
\* of a restored job it meets; so is an operator's retry; and children, whose older file
\* may bring a completed job back.
THEOREM BackupsRunOnce ==
    ASSUME Requests \intersect {"push_batch", "requeue_failed"} = {}, ChildJob = {}
    PROVE  Spec => []BackupOnce
<1>1. Init => (StoreInv /\ OwnInv) /\ (PushInv /\ TargetInv) /\ BackupInv
  <2> SUFFICES ASSUME Init PROVE OwnInv /\ BackupInv
    BY InitStores, InitTargets
  <2>1. \A t \in Thread : thread[t] = Idle
    BY DEF Init
  <2>2. Claimed = {} /\ executing = {}
    <3>1. thread[Worker] = Idle
      BY <2>1 DEF Thread
    <3> QED
      BY <3>1, IdleClaims DEF Init, Claimed
  <2>3. Idle.op # "push_batch"
    BY DEF Idle
  <2>4. up /\ crashes = 0 /\ backedUp = {}
    BY DEF Init
  <2>5. BackupInv
    BY <2>1, <2>3, <2>4 DEF BackupInv
  <2> QED
    BY <2>2, <2>5 DEF OwnInv
<1>2. /\ (StoreInv /\ OwnInv) /\ (PushInv /\ TargetInv) /\ BackupInv /\ [Next]_vars
      => ((StoreInv /\ OwnInv) /\ (PushInv /\ TargetInv) /\ BackupInv)'
  <2>1. "requeue_failed" \notin Requests
    OBVIOUS
  <2> QED
    BY <2>1, StoreStep, OwnStep, PushedStep, TargetStep, BackupStep
<1>3. (StoreInv /\ OwnInv) /\ BackupInv => BackupOnce
  <2> SUFFICES ASSUME StoreInv, OwnInv, BackupInv, crashes < 2,
                      NEW j \in executing, j \in backedUp
               PROVE  j \in cleared
    BY DEF BackupOnce
  <2>1. j \in mem.running
    BY DEF OwnInv
  <2>2. Lies(mem, j)
    BY <2>1 DEF Lies
  <2>3. crashes = 0 \/ crashes = 1
    BY LimitAssumption DEF StoreInv, SetsOK
  <2>4. up
    BY DEF StoreInv, SetsOK
  <2>5. CASE crashes = 0
    BY <2>2, <2>5, CompletedApart DEF BackupInv
  <2>6. CASE crashes = 1
    BY <2>2, <2>4, <2>6 DEF BackupInv, Settled
  <2> QED
    BY <2>3, <2>5, <2>6
<1> QED
  BY <1>1, <1>2, <1>3, PTL DEF Spec

=============================================================================
