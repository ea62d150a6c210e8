--------------------------- MODULE JobExclusion ---------------------------
(***************************************************************************)
(* What the Worker's job ledger promises, whatever its mechanism: a job    *)
(* opens once and closes once, work on it starts only while it is open,    *)
(* and two workers never work at the same time on one job, on jobs that    *)
(* clash (the same novel), or against one site.  A job may close while its *)
(* work still drains.                                                      *)
(***************************************************************************)
CONSTANTS Job, Worker, Site, NULL,
          Clash   \* pairs of jobs that must not be worked on together

VARIABLES life,   \* per job: "absent", "open" or "closed"
          work    \* per worker: the job and the site it works on, or NULL

absVars == <<life, work>>

Work == [job : Job, site : Site \union {NULL}]

TypeInv == /\ life \in [Job -> {"absent", "open", "closed"}]
           /\ work \in [Worker -> Work \union {NULL}]

Compatible(w, v) == /\ w.job # v.job
                    /\ <<w.job, v.job>> \notin Clash
                    /\ w.site = NULL \/ w.site # v.site

Init == /\ life = [j \in Job |-> "absent"]
        /\ work = [i \in Worker |-> NULL]

Open(j) == /\ life[j] = "absent"
           /\ life' = [life EXCEPT ![j] = "open"]
           /\ UNCHANGED work

Start(i, w) == /\ work[i] = NULL /\ life[w.job] = "open"
               /\ \A k \in Worker \ {i} : work[k] # NULL => Compatible(w, work[k])
               /\ work' = [work EXCEPT ![i] = w]
               /\ UNCHANGED life

\* The worker gives up, fails, yields or dies: the job may be started again.
Stop(i) == /\ work[i] # NULL
           /\ work' = [work EXCEPT ![i] = NULL]
           /\ UNCHANGED life

\* Jobs are settled from outside; work on them may still drain.
Close(js) == /\ \A j \in js : life[j] = "open"
             /\ life' = [j \in Job |-> IF j \in js THEN "closed" ELSE life[j]]
             /\ UNCHANGED work

\* The worker settles its own job.
Finish(i) == /\ work[i] # NULL /\ life[work[i].job] = "open"
             /\ life' = [life EXCEPT ![work[i].job] = "closed"]
             /\ work' = [work EXCEPT ![i] = NULL]

Next == \/ \E j \in Job : Open(j)
        \/ \E i \in Worker : (\E w \in Work : Start(i, w)) \/ Stop(i) \/ Finish(i)
        \/ \E js \in SUBSET Job : Close(js)

Spec == Init /\ [][Next]_absVars

\* No two workers overlap on a job, a novel or a site: the exclusion the
\* ledger's claim statement is there for.
Exclusion == \A i, k \in Worker :
    i # k /\ work[i] # NULL /\ work[k] # NULL => Compatible(work[i], work[k])
=============================================================================
