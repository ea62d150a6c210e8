------------------------- MODULE QueueWorkersProofs -------------------------
(***************************************************************************)
(* Two jobs of one site each never run for the same site, their children   *)
(* never hold the lock of one novel, and a job of which a request killed a *)
(* child ends cancelled, for any jobs, workers, cancel requests and limits.*)
(***************************************************************************)
EXTENDS QueueWorkers, SequenceTheorems, FiniteSetTheorems, WellFoundedInduction,
        TLAPS

(* The lists: a job waits once, in its own lane, and does not run; a job   *)
(* not yet pushed neither waits nor runs.                                  *)
Listed(p) == UNION {ToSet(p[l]) : l \in Lane}

ListsOK(p) ==
  /\ p \in [Lane -> Seq(Job)]
  /\ \A l \in Lane : IsInjective(p[l]) /\ \A j \in ToSet(p[l]) : LaneOf(j) = l

QueueOK ==
  /\ ListsOK(pending)
  /\ backoff \subseteq Listed(pending)
  /\ running \subseteq Job \ Listed(pending)
  /\ retries \in [Job -> Nat] /\ \A j \in Job : retries[j] <= MaxRetries(j)
  /\ outcome \in [Job -> {"new", "none", "completed", "cancelled", "failed", "cleared"}]
  /\ \A j \in Job : outcome[j] = "new" => j \notin running \cup Listed(pending)

(* The workers: each has a running job of its own.                         *)
Busy(w) == worker[w].pc # "idle"

WorkersOK ==
  /\ worker \in [Worker -> WorkerRecord]
  /\ \A w \in Worker : Busy(w) => worker[w].job \in running
  /\ \A v, w \in Worker : Busy(v) /\ Busy(w) /\ worker[v].job = worker[w].job => v = w

(* The children: each has a worker that waits for it, and locks novels of  *)
(* its own job only.                                                       *)
Attended(j) ==
  \E w \in Worker : worker[w].job = j /\ worker[w].pc \in {"register", "wait"}

ChildrenOK ==
  /\ child \in [Job -> ChildRecord]
  /\ \A j \in Job : child[j].status # "none" => Attended(j)
  /\ \A j \in Job : child[j].holds \in Works(j) \cup {NULL} /\ child[j].todo \subseteq Works(j)

(* The cancel requests: the one of a lane knows its lane.                  *)
CancellerRecord ==
  {r \in [pc : CancelPc, kind : {"all", "lane"}, lane : Lane \cup {NULL},
          left : SUBSET Pid, current : Pid \cup {NULL}, killed : SUBSET Pid,
          novels : SUBSET Novel] :
     (r.kind = "lane" => r.lane \in Lane) /\ (r.pc = "clear" => r.kind = "lane")}

CancellersOK == canceller \in [Canceller -> CancellerRecord]

RestOK ==
  /\ pids \subseteq Pid /\ cancelled \subseteq Job
  /\ locks \in [Novel -> {"none", "fresh", "stale"}]
  /\ CancellersOK
  /\ cancels \in 0..MaxCancels

WorkersInv == QueueOK /\ WorkersOK /\ ChildrenOK /\ RestOK /\ SiteAlone

-----------------------------------------------------------------------------
(* Numbers and sequences.                                                  *)
LEMMA HasLeast ==
  ASSUME NEW S \in SUBSET Nat, S # {}
  PROVE  \E x \in S : \A y \in S : x <= y
<1>1. PICK x \in S : \A y \in S : <<y, x>> \notin OpToRel(<, Nat)
  BY WFMin, NatLessThanWellFounded
<1>2. \A y \in S : ~(y < x)
  BY <1>1 DEF OpToRel
<1> QED
  BY <1>2

LEMMA LeastIn ==
  ASSUME NEW S \in SUBSET Nat, S # {}
  PROVE  Min(S) \in S
BY HasLeast DEF Min

LEMMA Appended ==
  ASSUME NEW s \in Seq(Job), IsInjective(s), NEW j \in Job, j \notin ToSet(s)
  PROVE  /\ Append(s, j) \in Seq(Job) /\ IsInjective(Append(s, j))
         /\ ToSet(Append(s, j)) = ToSet(s) \cup {j}
<1> DEFINE t == Append(s, j)
<1>1. /\ t \in Seq(Job) /\ Len(t) = Len(s) + 1 /\ t[Len(s) + 1] = j
      /\ \A i \in 1..Len(s) : t[i] = s[i]
  BY AppendProperties
<1>2. DOMAIN s = 1..Len(s) /\ DOMAIN t = 1..Len(s) + 1 /\ Len(s) \in Nat
  BY <1>1
<1> HIDE DEF t
<1>3. \A i \in DOMAIN t : (i \in DOMAIN s /\ t[i] = s[i]) \/ (i = Len(s) + 1 /\ t[i] = j)
  BY <1>1, <1>2
<1>4. IsInjective(t)
  BY <1>2, <1>3 DEF IsInjective, ToSet
<1>5. ToSet(t) = ToSet(s) \cup {j}
  BY <1>1, <1>2, <1>3 DEF ToSet
<1> QED
  BY <1>1, <1>4, <1>5 DEF t

LEMMA Removed ==
  ASSUME NEW s \in Seq(Job), IsInjective(s), NEW i \in 1..Len(s)
  PROVE  /\ RemoveAt(s, i) \in Seq(Job) /\ IsInjective(RemoveAt(s, i))
         /\ ToSet(RemoveAt(s, i)) = ToSet(s) \ {s[i]}
         /\ s[i] \in ToSet(s)
<1> DEFINE a == SubSeq(s, 1, i - 1)
           b == SubSeq(s, i + 1, Len(s))
           t == RemoveAt(s, i)
<1>1. Len(s) \in Nat /\ DOMAIN s = 1..Len(s) /\ \A k \in 1..Len(s) : s[k] \in Job
  BY ElementOfSeq
<1>0. Len(s) \in Nat /\ i \in Nat /\ i <= Len(s)
  OBVIOUS
<1>2. /\ a \in Seq(Job) /\ Len(a) = i - 1
      /\ \A k \in 1..i - 1 : a[k] = s[k]
  <2>1. 1 \in Int /\ i - 1 \in Int /\ \A k \in 1..i - 1 : s[k] \in Job
    BY <1>1
  <2>2. /\ a \in Seq(Job) /\ Len(a) = (IF 1 <= i - 1 THEN i - 1 - 1 + 1 ELSE 0)
        /\ \A k \in 1..i - 1 - 1 + 1 : a[k] = s[1 + k - 1]
    BY <2>1, SubSeqProperties
  <2> HIDE DEF a
  <2>3. i - 1 - 1 + 1 = i - 1 /\ \A k \in 1..i - 1 : 1 + k - 1 = k
    BY <1>1
  <2> QED
    BY <2>2, <2>3
<1>3. /\ b \in Seq(Job) /\ Len(b) = Len(s) - i
      /\ \A k \in 1..Len(s) - i : b[k] = s[k + i]
  <2>1. i + 1 \in Int /\ Len(s) \in Int /\ \A k \in i + 1..Len(s) : s[k] \in Job
    BY <1>1
  <2>2. /\ b \in Seq(Job)
        /\ Len(b) = (IF i + 1 <= Len(s) THEN Len(s) - (i + 1) + 1 ELSE 0)
        /\ \A k \in 1..Len(s) - (i + 1) + 1 : b[k] = s[(i + 1) + k - 1]
    BY <2>1, SubSeqProperties
  <2> HIDE DEF b
  <2>3. Len(s) - (i + 1) + 1 = Len(s) - i /\ \A k \in 1..Len(s) - i : (i + 1) + k - 1 = k + i
    BY <1>1
  <2>4. i + 1 <= Len(s) \/ Len(s) - i = 0
    BY <1>0
  <2>5. Len(b) = Len(s) - i
    BY <1>0, <2>2, <2>3, <2>4
  <2>6. \A k \in 1..Len(s) - i : b[k] = s[k + i]
    BY <2>2, <2>3
  <2> QED
    BY <2>2, <2>5, <2>6
<1>4. t = a \o b
  BY DEF RemoveAt
<1> HIDE DEF a, b, t
<1>5. /\ t \in Seq(Job) /\ Len(t) = Len(s) - 1 /\ DOMAIN t = 1..Len(s) - 1
      /\ \A k \in 1..Len(s) - 1 : t[k] = IF k <= i - 1 THEN a[k] ELSE b[k - (i - 1)]
  <2>1. /\ t \in Seq(Job) /\ Len(t) = Len(a) + Len(b)
        /\ \A k \in 1..Len(a) + Len(b) : t[k] = IF k <= Len(a) THEN a[k] ELSE b[k - Len(a)]
    BY <1>2, <1>3, <1>4, ConcatProperties
  <2>2. Len(a) + Len(b) = Len(s) - 1
    BY <1>1, <1>2, <1>3
  <2> QED
    BY <1>2, <2>1, <2>2
<1>6. \A k \in 1..Len(s) - 1 : t[k] = IF k < i THEN s[k] ELSE s[k + 1]
  <2> TAKE k \in 1..Len(s) - 1
  <2>1. CASE k < i
    BY <1>1, <1>2, <1>5, <2>1
  <2>2. CASE ~(k < i)
    <3>1. k - (i - 1) \in 1..Len(s) - i /\ k - (i - 1) + i = k + 1 /\ ~(k <= i - 1)
      BY <1>1, <2>2
    <3> QED
      BY <1>3, <1>5, <2>2, <3>1
  <2> QED
    BY <2>1, <2>2
<1> DEFINE at(k) == IF k < i THEN k ELSE k + 1
<1>7. \A k \in DOMAIN t : at(k) \in DOMAIN s /\ at(k) # i /\ t[k] = s[at(k)]
  BY <1>1, <1>5, <1>6
<1>8. \A k \in DOMAIN s : k # i => \E m \in DOMAIN t : at(m) = k
  <2> TAKE k \in DOMAIN s
  <2>1. CASE k < i
    <3>1. k \in DOMAIN t /\ at(k) = k
      BY <1>1, <1>5, <2>1
    <3> QED
      BY <3>1
  <2>2. CASE i < k
    <3>1. k - 1 \in DOMAIN t /\ at(k - 1) = k
      BY <1>1, <1>5, <2>2
    <3> QED
      BY <3>1
  <2> QED
    BY <1>1, <2>1, <2>2
<1>9. \A k, m \in DOMAIN t : at(k) = at(m) => k = m
  BY <1>1, <1>5
<1> HIDE DEF at
<1>10. IsInjective(t)
  BY <1>7, <1>9 DEF IsInjective
<1>11. i \in DOMAIN s
  BY <1>1
<1>12. ToSet(t) = ToSet(s) \ {s[i]}
  <2>1. \A x \in ToSet(t) : x \in ToSet(s) \ {s[i]}
    BY <1>7, <1>11 DEF ToSet, IsInjective
  <2>2. \A x \in ToSet(s) \ {s[i]} : x \in ToSet(t)
    BY <1>7, <1>8 DEF ToSet
  <2> QED
    BY <2>1, <2>2
<1> QED
  BY <1>5, <1>10, <1>11, <1>12 DEF t, ToSet

-----------------------------------------------------------------------------
(* Lists of both lanes.                                                    *)
LEMMA ListedIn ==
  ASSUME NEW p, ListsOK(p)
  PROVE  /\ \A l \in Lane : \A j \in ToSet(p[l]) : j \in Listed(p) /\ j \in Job
         /\ \A j \in Listed(p) : j \in Job /\ LaneOf(j) \in Lane /\ j \in ToSet(p[LaneOf(j)])
<1>1. \A l \in Lane : ToSet(p[l]) \subseteq Job
  BY ElementOfSeq DEF ListsOK, ToSet
<1> QED
  BY <1>1 DEF ListsOK, Listed

LEMMA PushedLists ==
  ASSUME WorkersAssumption, NEW p, ListsOK(p), NEW j \in Job, j \notin Listed(p)
  PROVE  LET q == [p EXCEPT ![LaneOf(j)] = Append(@, j)]
         IN  ListsOK(q) /\ Listed(q) = Listed(p) \cup {j}
<1> DEFINE q == [p EXCEPT ![LaneOf(j)] = Append(@, j)]
           m == LaneOf(j)
<1>1. m \in Lane /\ p \in [Lane -> Seq(Job)]
  BY DEF WorkersAssumption, ListsOK
<1>2. /\ \A l \in Lane : l # m => q[l] = p[l]
      /\ q[m] = Append(p[m], j)
  BY <1>1
<1>3. j \notin ToSet(p[m])
  BY <1>1 DEF Listed
<1>4. /\ Append(p[m], j) \in Seq(Job) /\ IsInjective(Append(p[m], j))
      /\ ToSet(Append(p[m], j)) = ToSet(p[m]) \cup {j}
  BY <1>1, <1>3, Appended DEF ListsOK
<1>5. q \in [Lane -> Seq(Job)]
  BY <1>1, <1>4
<1> HIDE DEF q
<1>6. \A l \in Lane : IsInjective(q[l]) /\ \A k \in ToSet(q[l]) : LaneOf(k) = l
  <2> TAKE l \in Lane
  <2>1. CASE l = m
    BY <1>1, <1>2, <1>4, <2>1 DEF ListsOK
  <2>2. CASE l # m
    BY <1>2, <2>2 DEF ListsOK
  <2> QED
    BY <2>1, <2>2
<1>7. Listed(q) = Listed(p) \cup {j}
  <2>1. \A l \in Lane : ToSet(q[l]) = IF l = m THEN ToSet(p[m]) \cup {j} ELSE ToSet(p[l])
    BY <1>2, <1>4
  <2>2. ASSUME NEW x \in Listed(q) PROVE x \in Listed(p) \cup {j}
    <3>1. PICK l \in Lane : x \in ToSet(q[l])
      BY DEF Listed
    <3>2. x \in ToSet(p[l]) \/ x = j
      BY <2>1, <3>1
    <3> QED
      BY <3>2 DEF Listed
  <2>3. \A x \in Listed(p) \cup {j} : \E l \in Lane : x \in ToSet(q[l])
    BY <2>1, <1>1 DEF Listed
  <2>4. Listed(p) \cup {j} \subseteq Listed(q)
    BY <2>3 DEF Listed
  <2> QED
    BY <2>2, <2>4
<1> QED
  BY <1>5, <1>6, <1>7 DEF q, ListsOK

LEMMA PoppedLists ==
  ASSUME NEW p, ListsOK(p), NEW m \in Lane, NEW i \in 1..Len(p[m])
  PROVE  LET q == [p EXCEPT ![m] = RemoveAt(@, i)]
         IN  /\ ListsOK(q) /\ Listed(q) = Listed(p) \ {p[m][i]}
             /\ p[m][i] \in Listed(p)
<1> DEFINE q == [p EXCEPT ![m] = RemoveAt(@, i)]
           j == p[m][i]
<1>1. p \in [Lane -> Seq(Job)]
  BY DEF ListsOK
<1>2. /\ \A l \in Lane : l # m => q[l] = p[l]
      /\ q[m] = RemoveAt(p[m], i)
  BY <1>1
<1>3. /\ RemoveAt(p[m], i) \in Seq(Job) /\ IsInjective(RemoveAt(p[m], i))
      /\ ToSet(RemoveAt(p[m], i)) = ToSet(p[m]) \ {j}
      /\ j \in ToSet(p[m])
  BY <1>1, Removed DEF ListsOK
<1>4. q \in [Lane -> Seq(Job)]
  BY <1>1, <1>3
<1> HIDE DEF q, j
<1>5. \A l \in Lane : ToSet(q[l]) = ToSet(p[l]) \ {j}
  <2> TAKE l \in Lane
  <2>1. CASE l = m
    BY <1>2, <1>3, <2>1
  <2>2. CASE l # m
    BY <1>2, <1>3, <2>2 DEF ListsOK
  <2> QED
    BY <2>1, <2>2
<1>6. \A l \in Lane : IsInjective(q[l]) /\ \A k \in ToSet(q[l]) : LaneOf(k) = l
  <2> TAKE l \in Lane
  <2>1. IsInjective(q[l])
    BY <1>2, <1>3 DEF ListsOK
  <2> QED
    BY <1>5, <2>1 DEF ListsOK
<1>7. Listed(q) = Listed(p) \ {j} /\ j \in Listed(p)
  <2>1. \A x : x \in Listed(q) <=> \E l \in Lane : x \in ToSet(q[l])
    BY DEF Listed
  <2>2. \A x : x \in Listed(p) <=> \E l \in Lane : x \in ToSet(p[l])
    BY DEF Listed
  <2>3. \A x : x \in Listed(q) <=> x \in Listed(p) /\ x # j
    BY <1>5, <2>1, <2>2
  <2>4. Listed(q) = Listed(p) \ {j}
    BY <2>3
  <2> QED
    BY <1>3, <2>2, <2>4
<1> QED
  BY <1>4, <1>6, <1>7 DEF q, j, ListsOK

LEMMA ClearedLists ==
  ASSUME NEW p, ListsOK(p), NEW L \in SUBSET Lane
  PROVE  LET q == [l \in Lane |-> IF l \in L THEN <<>> ELSE p[l]]
         IN  ListsOK(q) /\ Listed(q) = Listed(p) \ UNION {ToSet(p[l]) : l \in L}
<1> DEFINE q == [l \in Lane |-> IF l \in L THEN <<>> ELSE p[l]]
<1>1. p \in [Lane -> Seq(Job)] /\ <<>> \in Seq(Job)
  BY DEF ListsOK
<1>2. ToSet(<<>>) = {} /\ IsInjective(<<>>)
  BY DEF ToSet, IsInjective
<1>3. q \in [Lane -> Seq(Job)]
  BY <1>1
<1>4. \A l \in Lane : q[l] = IF l \in L THEN <<>> ELSE p[l]
  OBVIOUS
<1> HIDE DEF q
<1>5. \A l \in Lane : ToSet(q[l]) = IF l \in L THEN {} ELSE ToSet(p[l])
  BY <1>2, <1>4
<1>6. \A l \in Lane : IsInjective(q[l]) /\ \A k \in ToSet(q[l]) : LaneOf(k) = l
  BY <1>2, <1>4, <1>5 DEF ListsOK
<1>7. Listed(q) = Listed(p) \ UNION {ToSet(p[l]) : l \in L}
  <2>1. \A l \in Lane, k \in L : ToSet(p[l]) \cap ToSet(p[k]) # {} => l = k
    BY DEF ListsOK
  <2> QED
    BY <1>5, <2>1 DEF Listed
<1> QED
  BY <1>3, <1>6, <1>7 DEF q, ListsOK

-----------------------------------------------------------------------------
(* A job of one site has that name whichever of its novels is asked.       *)
LEMMA FamiliesFinite ==
  ASSUME WorkersAssumption, NEW j \in Job
  PROVE  IsFiniteSet(Families(j))
<1> DEFINE F == {SiteOf(n) : n \in TargetsOf(j)}
           f == [n \in TargetsOf(j) |-> SiteOf(n)]
<1>1. IsFiniteSet(TargetsOf(j))
  BY FS_Subset DEF WorkersAssumption
<1>2. f \in Surjection(TargetsOf(j), F)
  BY DEF Surjection
<1>3. IsFiniteSet(F)
  BY <1>1, <1>2, FS_Surjection
<1>4. IsFiniteSet({UrlSite(j)}) /\ IsFiniteSet({UNKNOWN_SITE_FAMILY})
  BY FS_Singleton
<1> QED
  BY <1>3, <1>4 DEF Families

LEMMA NamedAlone ==
  ASSUME WorkersAssumption, NEW f \in Namings, NEW j \in Job, OneSite(j)
  PROVE  Families(j) = {f[j]}
<1>1. PICK x : Families(j) = {x}
  BY FamiliesFinite, FS_Singleton DEF OneSite
<1>2. f[j] \in Families(j)
  BY DEF Namings
<1> QED
  BY <1>1, <1>2

LEMMA SitesApart ==
  ASSUME WorkersAssumption, SiteAlone, running \subseteq Job,
         NEW f \in Namings, NEW j \in Job, ~SiteFamilyConflicts(f, j),
         running' = running \cup {j}
  PROVE  SiteAlone'
<1> DEFINE Apart(a, b) == Families(a) # Families(b) /\ UNKNOWN_SITE_FAMILY \notin Families(a)
<1>1. ASSUME NEW a \in running, a # j, OneSite(a), OneSite(j)
      PROVE  Apart(a, j) /\ Apart(j, a)
  <2>1. Families(a) = {f[a]} /\ Families(j) = {f[j]}
    BY <1>1, NamedAlone
  <2>2. f[a] \in {f[r] : r \in running}
    BY <1>1
  <2>3. /\ UNKNOWN_SITE_FAMILY \notin {f[r] : r \in running}
        /\ f[j] # UNKNOWN_SITE_FAMILY
        /\ f[j] \notin {f[r] : r \in running}
    BY <2>2 DEF SiteFamilyConflicts
  <2> QED
    BY <2>1, <2>2, <2>3
<1>2. \A a, b \in running : a # b /\ OneSite(a) /\ OneSite(b) => Apart(a, b)
  BY DEF SiteAlone
<1> HIDE DEF Apart
<1>3. \A a, b \in running' : a # b /\ OneSite(a) /\ OneSite(b) => Apart(a, b)
  BY <1>1, <1>2
<1> QED
  BY <1>3 DEF SiteAlone, Apart

LEMMA SitesStay ==
  ASSUME SiteAlone, running' \subseteq running
  PROVE  SiteAlone'
BY DEF SiteAlone

LEMMA WaitingListed == Waiting(Lane) = Listed(pending)
BY DEF Waiting, Listed

-----------------------------------------------------------------------------
(* Parts that a step leaves alone.                                         *)
LEMMA QueueSame ==
  ASSUME QueueOK, UNCHANGED queueVars
  PROVE  QueueOK'
BY DEF QueueOK, queueVars, ListsOK, Listed

LEMMA WorkersSame ==
  ASSUME WorkersOK, UNCHANGED <<worker, running>>
  PROVE  WorkersOK'
BY DEF WorkersOK, WorkerRecord, Busy

LEMMA ChildrenSame ==
  ASSUME ChildrenOK, UNCHANGED <<child, worker>>
  PROVE  ChildrenOK'
BY DEF ChildrenOK, ChildRecord, Attended

LEMMA RestSame ==
  ASSUME RestOK, UNCHANGED <<pids, cancelled, locks, canceller, cancels>>
  PROVE  RestOK'
BY DEF RestOK, CancellersOK

-----------------------------------------------------------------------------
(* What each step does to the invariant.                                   *)
LEMMA PushKeeps ==
  ASSUME WorkersAssumption, WorkersInv, NEW j \in Job, Push(j)
  PROVE  WorkersInv'
<1>1. ListsOK(pending') /\ Listed(pending') = Listed(pending) \cup {j}
  BY PushedLists DEF Push, WorkersInv, QueueOK
<1>2. QueueOK'
  BY <1>1 DEF Push, WorkersInv, QueueOK
<1>3. WorkersOK' /\ ChildrenOK' /\ RestOK' /\ SiteAlone'
  BY WorkersSame, ChildrenSame, RestSame, SitesStay DEF Push, WorkersInv
<1> QED
  BY <1>2, <1>3 DEF WorkersInv

(* What a pop takes: a job that waited in the lane and passed the checks.  *)
LEMMA PopTakes ==
  ASSUME WorkersAssumption, WorkersInv, NEW w \in Worker, Pop(w)
  PROVE  \E f \in Namings : \E i \in 1..Len(pending[LaneOf(w)]) :
            LET j == pending[LaneOf(w)][i]
            IN  /\ Poppable(f, j)
                /\ pending' = [pending EXCEPT ![LaneOf(w)] = RemoveAt(@, i)]
                /\ running' = running \cup {j}
                /\ worker' = [worker EXCEPT ![w] =
                      Taken(j)]
<1> DEFINE s == pending[LaneOf(w)]
           I(f) == {k \in 1..Len(s) : Poppable(f, s[k])}
           i(f) == IF I(f) # {} THEN Min(I(f)) ELSE 0
<1>1. PICK f \in Namings :
        /\ i(f) # 0
        /\ pending' = [pending EXCEPT ![LaneOf(w)] = RemoveAt(@, i(f))]
        /\ running' = running \cup {s[i(f)]}
        /\ worker' = [worker EXCEPT ![w] =
              Taken(s[i(f)])]
  BY Zenon DEF Pop, SelectInSeq
<1>2. I(f) # {} /\ i(f) = Min(I(f))
  BY <1>1
<1>3. s \in Seq(Job)
  BY DEF WorkersAssumption, WorkersInv, QueueOK, ListsOK
<1>4. I(f) \in SUBSET Nat
  BY <1>3
<1>5. i(f) \in I(f)
  <2> HIDE DEF I
  <2> QED
    BY <1>2, <1>4, LeastIn
<1>6. i(f) \in 1..Len(s) /\ Poppable(f, s[i(f)])
  <2> HIDE DEF i
  <2> QED
    BY <1>5
<1> HIDE DEF i
<1> QED
  BY <1>1, <1>6

LEMMA PopKeeps ==
  ASSUME WorkersAssumption, WorkersInv, NEW w \in Worker, Pop(w)
  PROVE  WorkersInv'
<1>1. PICK f \in Namings, i \in 1..Len(pending[LaneOf(w)]) :
        /\ Poppable(f, pending[LaneOf(w)][i])
        /\ pending' = [pending EXCEPT ![LaneOf(w)] = RemoveAt(@, i)]
        /\ running' = running \cup {pending[LaneOf(w)][i]}
        /\ worker' = [worker EXCEPT ![w] =
              Taken(pending[LaneOf(w)][i])]
  BY PopTakes
<1> DEFINE j == pending[LaneOf(w)][i]
<1>2. LaneOf(w) \in Lane /\ ListsOK(pending)
  BY DEF WorkersAssumption, WorkersInv, QueueOK
<1>3. ListsOK(pending') /\ Listed(pending') = Listed(pending) \ {j} /\ j \in Listed(pending)
  BY <1>1, <1>2, PoppedLists
<1>4. j \in Job /\ j \notin running /\ running' = running \cup {j}
  BY <1>1, <1>2, <1>3, ListedIn DEF WorkersInv, QueueOK
<1>5. j \notin backoff /\ ~SiteFamilyConflicts(f, j)
  BY <1>1 DEF Poppable
<1>6. worker' = [worker EXCEPT ![w] =
              Taken(j)]
  BY <1>1
<1>7. worker[w].pc = "idle" /\ UNCHANGED <<backoff, retries, outcome, child, pids,
                                           cancelled, locks, canceller, cancels>>
  BY DEF Pop
<1> HIDE DEF j
<1>8. QueueOK'
  BY <1>3, <1>4, <1>5, <1>7 DEF WorkersInv, QueueOK
<1>9. WorkersOK'
  <2>1. worker'[w] = Taken(j)
    BY <1>6 DEF WorkersInv, WorkersOK, WorkerRecord
  <2>2. \A v \in Worker : v # w => worker'[v] = worker[v]
    BY <1>6 DEF WorkersInv, WorkersOK, WorkerRecord
  <2>3. worker' \in [Worker -> WorkerRecord]
    <3>1. Taken(j) \in WorkerRecord
      BY <1>4 DEF Taken, WorkerRecord, WorkerPc
    <3> QED
      BY <1>6, <3>1 DEF WorkersInv, WorkersOK
  <2>4. \A v \in Worker : v # w /\ worker'[v].pc # "idle" =>
           worker'[v].job = worker[v].job /\ worker[v].job \in running
    BY <2>2 DEF WorkersInv, WorkersOK, WorkerRecord, Busy
  <2>5. worker'[w].job = j
    BY <2>1 DEF Taken
  <2>6. \A v \in Worker : worker'[v].pc # "idle" => worker'[v].job \in running'
    BY <1>4, <2>4, <2>5
  <2>7. \A v, u \in Worker : worker'[v].pc # "idle" /\ worker'[u].pc # "idle"
                                /\ worker'[v].job = worker'[u].job => v = u
    BY <1>4, <2>2, <2>4, <2>5 DEF WorkersInv, WorkersOK, WorkerRecord, Busy
  <2> QED
    BY <2>3, <2>6, <2>7 DEF WorkersOK, WorkerRecord, Busy
<1>10. ChildrenOK'
  BY <1>6, <1>7 DEF WorkersInv, ChildrenOK, ChildRecord, Attended, WorkersOK, WorkerRecord
<1>11. RestOK'
  BY <1>7, RestSame DEF WorkersInv
<1>12. SiteAlone'
  BY <1>4, <1>5, SitesApart DEF WorkersInv, QueueOK
<1> QED
  BY <1>8, <1>9, <1>10, <1>11, <1>12 DEF WorkersInv

LEMMA BackoffOverKeeps ==
  ASSUME WorkersAssumption, WorkersInv, NEW j \in Job, BackoffOver(j)
  PROVE  WorkersInv'
<1>1. QueueOK'
  BY DEF BackoffOver, WorkersInv, QueueOK
<1>2. WorkersOK' /\ ChildrenOK' /\ RestOK' /\ SiteAlone'
  BY WorkersSame, ChildrenSame, RestSame, SitesStay DEF BackoffOver, WorkersInv
<1> QED
  BY <1>1, <1>2 DEF WorkersInv

LEMMA SettleKeeps ==
  ASSUME WorkersAssumption, WorkersInv, NEW w \in Worker, Settle(w)
  PROVE  WorkersInv'
<1> DEFINE j == worker[w].job
<1>1. /\ worker[w].pc \in {"completed", "cancelled", "failed"}
      /\ running' = running \ {j}
      /\ worker' = [worker EXCEPT ![w] = Idle]
      /\ UNCHANGED <<child, pids, cancelled, locks, canceller, cancels>>
  BY DEF Settle, Unregistered
<1>2. j \in Job /\ j \in running /\ j \notin Listed(pending)
  BY <1>1 DEF WorkersInv, WorkersOK, WorkerRecord, QueueOK, Busy
<1>3. QueueOK'
  <2>1. CASE /\ worker[w].pc = "failed" /\ Retries(j)
             /\ pending' = [pending EXCEPT ![LaneOf(j)] = Append(@, j)]
             /\ backoff' = backoff \cup {j}
             /\ retries' = [retries EXCEPT ![j] = @ + 1]
             /\ UNCHANGED outcome
    <3> HIDE DEF j
    <3>1. ListsOK(pending') /\ Listed(pending') = Listed(pending) \cup {j}
      BY <1>2, <2>1, PushedLists DEF WorkersInv, QueueOK
    <3>2. retries' \in [Job -> Nat] /\ \A k \in Job : retries'[k] <= MaxRetries(k)
      BY <1>2, <2>1 DEF WorkersInv, QueueOK, Retries, WorkersAssumption
    <3> QED
      BY <1>1, <1>2, <2>1, <3>1, <3>2 DEF WorkersInv, QueueOK
  <2>2. CASE /\ outcome' = [outcome EXCEPT ![j] = worker[w].pc]
             /\ UNCHANGED <<pending, backoff, retries>>
    <3> HIDE DEF j
    <3> QED
      BY <1>1, <1>2, <2>2 DEF WorkersInv, QueueOK
  <2> QED
    BY <2>1, <2>2 DEF Settle
<1> HIDE DEF j
<1>4. worker'[w] = Idle /\ \A v \in Worker : v # w => worker'[v] = worker[v]
  BY <1>1 DEF WorkersInv, WorkersOK, WorkerRecord
<1>5. \A v \in Worker : v # w /\ Busy(v) => worker[v].job # j
  BY <1>1 DEF WorkersInv, WorkersOK, WorkerRecord, Busy, j
<1>6. WorkersOK'
  <2>1. worker' \in [Worker -> WorkerRecord]
    BY <1>1 DEF WorkersInv, WorkersOK, WorkerRecord, WorkerPc, Idle
  <2>2. ~Busy(w)'
    BY <1>4 DEF Busy, Idle
  <2>3. \A v \in Worker : worker'[v].pc # "idle" =>
           Busy(v) /\ v # w /\ worker'[v] = worker[v] /\ worker[v].job # j
    BY <1>4, <1>5, <2>2 DEF Busy
  <2>4. \A v \in Worker : worker'[v].pc # "idle" => worker'[v].job \in running'
    BY <1>1, <2>3 DEF WorkersInv, WorkersOK, WorkerRecord
  <2>5. \A v, u \in Worker : worker'[v].pc # "idle" /\ worker'[u].pc # "idle"
                                /\ worker'[v].job = worker'[u].job => v = u
    BY <2>3 DEF WorkersInv, WorkersOK, WorkerRecord
  <2> QED
    BY <2>1, <2>4, <2>5 DEF WorkersOK, WorkerRecord, Busy
<1>7. ChildrenOK'
  BY <1>1, <1>4 DEF WorkersInv, ChildrenOK, ChildRecord, Attended
<1>8. RestOK' /\ SiteAlone'
  BY <1>1, RestSame, SitesStay DEF WorkersInv
<1> QED
  BY <1>3, <1>6, <1>7, <1>8 DEF WorkersInv

LEMMA ClearsKeep ==
  ASSUME WorkersInv, NEW L \in SUBSET Lane, Clears(L), UNCHANGED <<running, retries>>
  PROVE  QueueOK'
<1>1. ListsOK(pending') /\ Listed(pending') = Listed(pending) \ Waiting(L)
  BY ClearedLists DEF Clears, WorkersInv, QueueOK, Waiting
<1>2. Waiting(L) \subseteq Listed(pending)
  BY DEF Waiting, Listed
<1> QED
  BY <1>1, <1>2 DEF Clears, WorkersInv, QueueOK

(* A worker that goes on with its job: it stays busy with the same one.    *)
LEMMA OnwardKeeps ==
  ASSUME WorkersInv, NEW w \in Worker, Busy(w), UNCHANGED running,
         NEW r \in WorkerRecord,
         r.job = worker[w].job, worker' = [worker EXCEPT ![w] = r]
  PROVE  WorkersOK'
<1>1. worker'[w] = r /\ \A v \in Worker : v # w => worker'[v] = worker[v]
  BY DEF WorkersInv, WorkersOK, WorkerRecord
<1>2. worker' \in [Worker -> WorkerRecord]
  BY DEF WorkersInv, WorkersOK, WorkerRecord
<1>3. \A v \in Worker : Busy(v)' => Busy(v) /\ worker'[v].job = worker[v].job
  BY <1>1 DEF Busy
<1> QED
  BY <1>2, <1>3 DEF WorkersInv, WorkersOK, WorkerRecord, Busy

LEMMA GoesOnward ==
  ASSUME WorkersInv, NEW w \in Worker, Busy(w), UNCHANGED running,
         NEW pc \in WorkerPc, Goes(w, pc)
  PROVE  WorkersOK'
<1>1. /\ [worker[w] EXCEPT !.pc = pc].job = worker[w].job
      /\ [worker[w] EXCEPT !.pc = pc] \in
            WorkerRecord
      /\ worker' = [worker EXCEPT ![w] = [worker[w] EXCEPT !.pc = pc]]
  BY DEF WorkersInv, WorkersOK, WorkerRecord, Goes
<1> QED
  BY <1>1, OnwardKeeps

(* A worker whose child ended goes on with its job, or is to settle it.    *)
LEMMA EndedMoves ==
  ASSUME WorkersInv, NEW w \in Worker, NEW end \in {"completed", "cancelled", "failed"},
         Ended(w, end)
  PROVE  /\ worker'[w] \in WorkerRecord /\ worker'[w].job = worker[w].job
         /\ worker'[w].killed = worker[w].killed
         /\ worker'[w].ends = worker[w].ends \cup {end}
         /\ worker'[w].pc \in {"spawn", "completed", "cancelled", "failed"}
         /\ worker'[w].pc \in {"completed", "failed"} => "cancelled" \notin worker'[w].ends
         /\ worker' = [worker EXCEPT ![w] = worker'[w]]
         /\ \A v \in Worker : v # w => worker'[v] = worker[v]
<1> DEFINE phase == IF GoesOn(w, end) THEN worker[w].phase + 1 ELSE worker[w].phase
           ends == worker[w].ends \cup {end}
           pc == Following(w, end)
           r == [worker[w] EXCEPT !.pc = pc, !.ends = ends, !.phase = phase]
<1>1. worker \in [Worker -> WorkerRecord] /\ worker[w] \in WorkerRecord
  BY DEF WorkersInv, WorkersOK
<1>2. /\ pc \in {"spawn", "completed", "cancelled", "failed"}
      /\ pc \in {"completed", "failed"} => "cancelled" \notin ends
  <2>1. CASE GoesOn(w, end)
    BY <2>1 DEF Following
  <2>2. CASE ~GoesOn(w, end)
    <3>1. pc = JobOutcome(ends)
      BY <2>2 DEF Following
    <3> HIDE DEF pc, ends
    <3>2. CASE "cancelled" \in ends
      BY <3>1, <3>2 DEF JobOutcome
    <3>3. CASE "cancelled" \notin ends
      BY <3>1, <3>3 DEF JobOutcome
    <3> QED
      BY <3>2, <3>3
  <2> QED
    BY <2>1, <2>2
<1>3. phase \in Nat
  BY <1>1 DEF WorkerRecord
<1>4. ends \in SUBSET {"completed", "cancelled", "failed"}
  BY <1>1 DEF WorkerRecord
<1>5. worker' = [worker EXCEPT ![w] = r]
  BY <1>1 DEF Ended
<1> HIDE DEF pc, phase, ends
<1>6. r \in WorkerRecord
  BY <1>1, <1>2, <1>3, <1>4 DEF WorkerRecord, WorkerPc
<1>7. /\ r.pc = pc /\ r.job = worker[w].job /\ r.killed = worker[w].killed
      /\ r.ends = ends
  BY <1>1 DEF WorkerRecord
<1> HIDE DEF r
<1>8. worker'[w] = r /\ \A v \in Worker : v # w => worker'[v] = worker[v]
  BY <1>1, <1>5
<1> QED
  BY <1>2, <1>5, <1>6, <1>7, <1>8 DEF ends

LEMMA EndedOnward ==
  ASSUME WorkersInv, NEW w \in Worker, Busy(w), UNCHANGED running,
         NEW end \in {"completed", "cancelled", "failed"}, Ended(w, end)
  PROVE  WorkersOK'
<1>1. PICK r \in WorkerRecord : r.job = worker[w].job /\ worker' = [worker EXCEPT ![w] = r]
  BY EndedMoves
<1> QED
  BY <1>1, OnwardKeeps

(* The children that are attended stay so.                                 *)
LEMMA EndedAttends ==
  ASSUME WorkersInv, NEW w \in Worker, worker[w].pc \in {"spawn", "check"}, UNCHANGED child,
         NEW end \in {"completed", "cancelled", "failed"}, Ended(w, end)
  PROVE  ChildrenOK'
<1>1. \A v \in Worker : v # w => worker'[v] = worker[v]
  BY EndedMoves
<1>2. \A j \in Job : Attended(j) => Attended(j)'
  BY <1>1 DEF Attended
<1> QED
  BY <1>2 DEF WorkersInv, ChildrenOK

(* What the other steps of a run do to their worker.                       *)
LEMMA GoesMoves ==
  ASSUME WorkersInv, NEW w \in Worker, NEW pc \in WorkerPc, Goes(w, pc)
  PROVE  /\ worker'[w].pc = pc /\ worker'[w].job = worker[w].job
         /\ worker'[w].ends = worker[w].ends /\ worker'[w].killed = worker[w].killed
         /\ \A v \in Worker : v # w => worker'[v] = worker[v]
BY DEF Goes, WorkersInv, WorkersOK, WorkerRecord

LEMMA WaitMoves ==
  ASSUME WorkersInv, NEW w \in Worker, Wait(w)
  PROVE  /\ worker'[w] \in WorkerRecord /\ worker'[w].job = worker[w].job
         /\ worker'[w].pc = "reaped" /\ worker'[w].ends = worker[w].ends
         /\ worker'[w].killed => worker[w].killed \/ child[worker[w].job].status = "killed"
         /\ worker' = [worker EXCEPT ![w] = worker'[w]]
         /\ \A v \in Worker : v # w => worker'[v] = worker[v]
<1> DEFINE status == child[worker[w].job].status
           killed == worker[w].killed \/ status = "killed"
           r == [worker[w] EXCEPT !.pc = "reaped", !.exit = status, !.killed = killed]
<1>1. worker \in [Worker -> WorkerRecord] /\ worker[w] \in WorkerRecord
  BY DEF WorkersInv, WorkersOK
<1>2. status \in {"none", "ok", "failed", "killed"}
  BY DEF Wait, Busy, WorkersInv, WorkersOK, QueueOK, ChildrenOK, ChildRecord
<1>3. killed \in BOOLEAN
  BY <1>1 DEF WorkerRecord
<1>4. killed => worker[w].killed \/ status = "killed"
  OBVIOUS
<1>5. worker' = [worker EXCEPT ![w] = r]
  BY <1>1 DEF Wait
<1> HIDE DEF killed, status
<1>6. r \in WorkerRecord
  BY <1>1, <1>2, <1>3 DEF WorkerRecord, WorkerPc
<1>7. r.pc = "reaped" /\ r.job = worker[w].job /\ r.ends = worker[w].ends /\ r.killed = killed
  BY <1>1 DEF WorkerRecord
<1> HIDE DEF r
<1>8. worker'[w] = r /\ \A v \in Worker : v # w => worker'[v] = worker[v]
  BY <1>1, <1>5
<1> QED
  BY <1>4, <1>5, <1>6, <1>7, <1>8 DEF status

(* The child of a job is attended by the worker of the job alone.          *)
LEMMA Attendant ==
  ASSUME WorkersInv, NEW w \in Worker, NEW j \in Job, child[j].status # "none",
         Busy(w), worker[w].job = j
  PROVE  worker[w].pc \in {"register", "wait"}
BY DEF WorkersInv, WorkersOK, WorkerRecord, ChildrenOK, ChildRecord, Attended, Busy

(* A process id names a job.                                               *)
LEMMA PidKnown ==
  ASSUME WorkersInv, NEW w \in Worker, Busy(w)
  PROVE  PidOf(w) \in Pid
BY DEF PidOf, Pid, WorkersInv, WorkersOK, WorkerRecord, QueueOK

LEMMA SpawnKeeps ==
  ASSUME WorkersAssumption, WorkersInv, NEW w \in Worker, Spawn(w)
  PROVE  WorkersInv'
<1> DEFINE j == worker[w].job
<1>1. Busy(w) /\ j \in Job /\ worker[w].pc = "spawn" /\ UNCHANGED running
  BY DEF Spawn, Busy, WorkersInv, WorkersOK, WorkerRecord, QueueOK, queueVars
<1>2. QueueOK' /\ RestOK' /\ SiteAlone'
  BY QueueSame, RestSame, SitesStay DEF Spawn, WorkersInv, queueVars
<1>3. CASE /\ child' = [child EXCEPT ![j] =
                  [status |-> "alive", pid |-> PidOf(w), todo |-> Works(j), holds |-> NULL]]
           /\ Goes(w, "register")
  <2>1. WorkersOK'
    BY <1>1, <1>3, GoesOnward DEF WorkerPc
  <2>2. Works(j) \subseteq Novel
    BY <1>1 DEF Works, WorkersAssumption
  <2>0. PidOf(w) \in Pid
    BY <1>1, PidKnown
  <2>3. worker'[w].job = j /\ worker'[w].pc = "register"
        /\ \A v \in Worker : v # w => worker'[v] = worker[v]
    BY <1>3 DEF Goes, WorkersInv, WorkersOK, WorkerRecord
  <2> HIDE DEF j
  <2>4. child'[j] = [status |-> "alive", pid |-> PidOf(w), todo |-> Works(j), holds |-> NULL]
        /\ \A k \in Job : k # j => child'[k] = child[k]
    BY <1>1, <1>3 DEF WorkersInv, ChildrenOK, ChildRecord
  <2>5. child' \in [Job -> ChildRecord]
    BY <1>1, <1>3, <2>0, <2>2 DEF WorkersInv, ChildrenOK, ChildRecord
  <2>6. \A k \in Job : child'[k].status # "none" => Attended(k)'
    BY <1>1, <2>3, <2>4 DEF WorkersInv, ChildrenOK, ChildRecord, Attended
  <2>7. \A k \in Job : child'[k].holds \in Works(k) \cup {NULL} /\ child'[k].todo \subseteq Works(k)
    BY <2>4 DEF WorkersInv, ChildrenOK, ChildRecord
  <2> QED
    BY <1>2, <2>1, <2>5, <2>6, <2>7 DEF WorkersInv, ChildrenOK, ChildRecord
<1>4. CASE Ended(w, "failed") /\ UNCHANGED child
  <2>1. WorkersOK' /\ ChildrenOK'
    BY <1>1, <1>4, EndedOnward, EndedAttends
  <2> QED
    BY <1>2, <2>1 DEF WorkersInv
<1> QED
  BY <1>3, <1>4 DEF Spawn

LEMMA RegisterPidKeeps ==
  ASSUME WorkersAssumption, WorkersInv, NEW w \in Worker, RegisterPid(w)
  PROVE  WorkersInv'
<1>1. Busy(w) /\ worker[w].job \in Job /\ UNCHANGED running
  BY DEF RegisterPid, Busy, WorkersInv, WorkersOK, WorkerRecord, QueueOK, queueVars
<1>2. QueueOK' /\ SiteAlone'
  BY QueueSame, SitesStay DEF RegisterPid, WorkersInv, queueVars
<1>3. WorkersOK'
  BY <1>1, GoesOnward DEF RegisterPid, WorkerPc
<1>4. ChildrenOK'
  BY DEF RegisterPid, Goes, WorkersInv, WorkersOK, WorkerRecord, ChildrenOK, ChildRecord, Attended
<1>5. RestOK'
  <2>1. PidOf(w) \in Pid
    BY <1>1, PidKnown
  <2> QED
    BY <1>1, <2>1 DEF RegisterPid, Without, WorkersInv, RestOK, CancellersOK
<1> QED
  BY <1>2, <1>3, <1>4, <1>5 DEF WorkersInv

LEMMA WaitKeeps ==
  ASSUME WorkersAssumption, WorkersInv, NEW w \in Worker, Wait(w)
  PROVE  WorkersInv'
<1> DEFINE j == worker[w].job
<1>1. /\ Busy(w) /\ j \in Job /\ worker[w].pc = "wait" /\ UNCHANGED running
      /\ child[j].status \in {"none", "ok", "failed", "killed"}
  BY DEF Wait, Busy, WorkersInv, WorkersOK, ChildrenOK, ChildRecord, QueueOK, queueVars
<1>2. QueueOK' /\ RestOK' /\ SiteAlone'
  BY QueueSame, RestSame, SitesStay DEF Wait, WorkersInv, queueVars
<1>3. WorkersOK'
  BY <1>1, WaitMoves, OnwardKeeps
<1>4. \A v \in Worker : v # w => worker'[v] = worker[v]
  BY WaitMoves
<1> HIDE DEF j
<1>5. child' = [child EXCEPT ![j] = NoChild]
  BY DEF Wait, j
<1>6. child'[j] = NoChild /\ \A k \in Job : k # j => child'[k] = child[k]
  BY <1>1, <1>5 DEF WorkersInv, ChildrenOK, ChildRecord
<1>7. child' \in [Job -> ChildRecord]
  BY <1>1, <1>5 DEF NoChild, WorkersInv, ChildrenOK, ChildRecord
<1>8. ASSUME NEW k \in Job, child'[k].status # "none" PROVE Attended(k)'
  <2>1. k # j /\ child[k].status # "none"
    BY <1>6, <1>8 DEF NoChild
  <2>2. PICK v \in Worker : worker[v].job = k /\ worker[v].pc \in {"register", "wait"}
    BY <2>1 DEF WorkersInv, ChildrenOK, ChildRecord, Attended
  <2>3. v # w
    BY <2>1, <2>2 DEF j
  <2> QED
    BY <1>4, <2>2, <2>3 DEF Attended
<1>9. \A k \in Job : child'[k].holds \in Works(k) \cup {NULL} /\ child'[k].todo \subseteq Works(k)
  BY <1>6 DEF NoChild, WorkersInv, ChildrenOK, ChildRecord
<1> QED
  BY <1>2, <1>3, <1>7, <1>8, <1>9 DEF WorkersInv, ChildrenOK, ChildRecord

LEMMA UnregisterPidKeeps ==
  ASSUME WorkersAssumption, WorkersInv, NEW w \in Worker, UnregisterPid(w)
  PROVE  WorkersInv'
<1>1. Busy(w) /\ UNCHANGED running
  BY DEF UnregisterPid, Busy, queueVars
<1>2. QueueOK' /\ SiteAlone'
  BY QueueSame, SitesStay DEF UnregisterPid, WorkersInv, queueVars
<1>3. WorkersOK'
  BY <1>1, GoesOnward DEF UnregisterPid, WorkerPc
<1>4. ChildrenOK'
  BY DEF UnregisterPid, Goes, WorkersInv, WorkersOK, WorkerRecord, ChildrenOK, ChildRecord, Attended
<1>5. RestOK'
  BY DEF UnregisterPid, Without, WorkersInv, RestOK, CancellersOK
<1> QED
  BY <1>2, <1>3, <1>4, <1>5 DEF WorkersInv

LEMMA VerdictOf ==
  ASSUME NEW w
  PROVE  /\ Verdict(w) \in {"completed", "cancelled", "failed"}
         /\ Asks(worker[w].job) /\ worker[w].job \in cancelled => Verdict(w) = "cancelled"
<1>1. CASE Asks(worker[w].job) /\ worker[w].job \in cancelled
  BY <1>1 DEF Verdict
<1>2. CASE ~(Asks(worker[w].job) /\ worker[w].job \in cancelled) /\ worker[w].exit # "ok"
  BY <1>2 DEF Verdict
<1>3. CASE ~(Asks(worker[w].job) /\ worker[w].job \in cancelled) /\ worker[w].exit = "ok"
  BY <1>3 DEF Verdict
<1> QED
  BY <1>1, <1>2, <1>3

LEMMA CheckKeeps ==
  ASSUME WorkersAssumption, WorkersInv, NEW w \in Worker, Check(w)
  PROVE  WorkersInv'
<1>1. Busy(w) /\ UNCHANGED running
  BY DEF Check, Busy, queueVars
<1>2. Verdict(w) \in {"completed", "cancelled", "failed"}
  BY VerdictOf
<1>3. QueueOK' /\ SiteAlone'
  BY QueueSame, SitesStay DEF Check, WorkersInv, queueVars
<1>4. WorkersOK' /\ ChildrenOK'
  BY <1>1, <1>2, EndedOnward, EndedAttends DEF Check
<1>5. RestOK'
  BY DEF Check, WorkersInv, RestOK, CancellersOK
<1> QED
  BY <1>3, <1>4, <1>5 DEF WorkersInv

(* A child that goes on stays attended.                                    *)
LEMMA ChildMoves ==
  ASSUME ChildrenOK, UNCHANGED worker, NEW j \in Job, child[j].status # "none",
         NEW r \in ChildRecord,
         r.status # "none", r.holds \in Works(j) \cup {NULL}, r.todo \subseteq Works(j),
         child' = [child EXCEPT ![j] = r]
  PROVE  ChildrenOK'
<1>1. child'[j] = r /\ \A k \in Job : k # j => child'[k] = child[k]
  BY DEF ChildrenOK, ChildRecord
<1>2. child' \in [Job -> ChildRecord]
  BY DEF ChildrenOK, ChildRecord
<1>3. \A k \in Job : child'[k].status # "none" => Attended(k)'
  BY <1>1 DEF ChildrenOK, ChildRecord, Attended
<1>4. \A k \in Job : child'[k].holds \in Works(k) \cup {NULL} /\ child'[k].todo \subseteq Works(k)
  BY <1>1 DEF ChildrenOK, ChildRecord
<1> QED
  BY <1>2, <1>3, <1>4 DEF ChildrenOK, ChildRecord

LEMMA AcquireKeeps ==
  ASSUME WorkersInv, NEW j \in Job, Acquire(j)
  PROVE  WorkersInv'
<1>1. PICK n \in child[j].todo :
        /\ child' = [child EXCEPT ![j].holds = n, ![j].todo = @ \ {n}]
        /\ locks' = [locks EXCEPT ![n] = "fresh"]
  BY DEF Acquire
<1> DEFINE r == [child[j] EXCEPT !.holds = n, !.todo = @ \ {n}]
<1>2. child[j].status = "alive" /\ child[j].todo \subseteq Works(j) /\ n \in Novel
  BY DEF Acquire, WorkersInv, ChildrenOK, ChildRecord
<1>3. /\ r \in ChildRecord
      /\ r.status = "alive" /\ r.holds = n /\ r.todo \subseteq child[j].todo
      /\ child' = [child EXCEPT ![j] = r]
  BY <1>1, <1>2 DEF WorkersInv, ChildrenOK, ChildRecord
<1> HIDE DEF r
<1>4. ChildrenOK'
  BY <1>2, <1>3, ChildMoves DEF Acquire, queueVars, WorkersInv
<1>5. RestOK'
  BY <1>1, <1>2 DEF Acquire, WorkersInv, RestOK, CancellersOK
<1>6. QueueOK' /\ WorkersOK' /\ SiteAlone'
  BY QueueSame, WorkersSame, SitesStay DEF Acquire, WorkersInv, queueVars
<1> QED
  BY <1>4, <1>5, <1>6 DEF WorkersInv

LEMMA DropGuardKeeps ==
  ASSUME WorkersInv, NEW j \in Job, DropGuard(j)
  PROVE  WorkersInv'
<1> DEFINE r == [child[j] EXCEPT !.holds = NULL]
<1>1. /\ r \in ChildRecord
      /\ r.status = "alive" /\ r.holds = NULL /\ r.todo = child[j].todo
      /\ child' = [child EXCEPT ![j] = r] /\ child[j].status = "alive"
      /\ child[j].todo \subseteq Works(j)
  BY DEF DropGuard, WorkersInv, ChildrenOK, ChildRecord
<1> HIDE DEF r
<1>2. ChildrenOK'
  BY <1>1, ChildMoves DEF DropGuard, queueVars, WorkersInv
<1>3. RestOK'
  BY DEF DropGuard, WorkersInv, RestOK, CancellersOK
<1>4. QueueOK' /\ WorkersOK' /\ SiteAlone'
  BY QueueSame, WorkersSame, SitesStay DEF DropGuard, WorkersInv, queueVars
<1> QED
  BY <1>2, <1>3, <1>4 DEF WorkersInv

LEMMA ExitKeeps ==
  ASSUME WorkersInv, NEW j \in Job, NEW result \in {"ok", "failed"}, Exit(j, result)
  PROVE  WorkersInv'
<1> DEFINE r == [child[j] EXCEPT !.status = result]
<1>1. /\ r \in ChildRecord
      /\ r.status = result /\ r.holds = child[j].holds /\ r.todo = child[j].todo
      /\ child' = [child EXCEPT ![j] = r] /\ child[j].status = "alive"
      /\ child[j].todo \subseteq Works(j) /\ child[j].holds \in Works(j) \cup {NULL}
  BY DEF Exit, WorkersInv, ChildrenOK, ChildRecord
<1> HIDE DEF r
<1>2. ChildrenOK'
  BY <1>1, ChildMoves DEF Exit, queueVars, WorkersInv
<1>3. QueueOK' /\ WorkersOK' /\ RestOK' /\ SiteAlone'
  BY QueueSame, WorkersSame, RestSame, SitesStay DEF Exit, WorkersInv, queueVars
<1> QED
  BY <1>2, <1>3 DEF WorkersInv

LEMMA LockAgesKeeps ==
  ASSUME WorkersInv, NEW n \in Novel, LockAges(n)
  PROVE  WorkersInv'
<1>1. RestOK'
  BY DEF LockAges, WorkersInv, RestOK, CancellersOK
<1>2. QueueOK' /\ WorkersOK' /\ ChildrenOK' /\ SiteAlone'
  BY QueueSame, WorkersSame, ChildrenSame, SitesStay DEF LockAges, WorkersInv, queueVars
<1> QED
  BY <1>1, <1>2 DEF WorkersInv

-----------------------------------------------------------------------------
(* Cancel requests.                                                        *)
LEMMA CancellerMoves ==
  ASSUME RestOK, NEW c \in Canceller, NEW r \in CancellerRecord,
         canceller' = [canceller EXCEPT ![c] = r],
         pids' \subseteq pids, cancelled' \subseteq Job,
         locks' \in [Novel -> {"none", "fresh", "stale"}], cancels' \in 0..MaxCancels
  PROVE  RestOK'
BY DEF RestOK, CancellersOK

LEMMA CancellerKnown ==
  ASSUME RestOK, NEW c \in Canceller
  PROVE  canceller[c] \in CancellerRecord
BY DEF RestOK, CancellersOK

LEMMA AskedKeeps ==
  ASSUME WorkersAssumption, WorkersInv, NEW c \in Canceller,
         QueueCancel(c) \/ ApiCancel(c) \/ \E j \in Job : CancelRunningTask(c, j)
  PROVE  WorkersInv'
<1>1. Asked(c)
  BY DEF QueueCancel, ApiCancel, CancelRunningTask
<1>2. WorkersOK' /\ ChildrenOK' /\ SiteAlone'
  BY <1>1, WorkersSame, ChildrenSame, SitesStay DEF Asked, WorkersInv
<1>3. QueueOK'
  <2>1. CASE QueueCancel(c)
    BY <1>1, <2>1, ClearsKeep DEF Asked, QueueCancel
  <2>2. CASE ApiCancel(c) \/ \E j \in Job : CancelRunningTask(c, j)
    BY <1>1, <2>2, QueueSame DEF Asked, ApiCancel, CancelRunningTask, queueVars, WorkersInv
  <2> QED
    BY <2>1, <2>2
<1>4. canceller[c] \in CancellerRecord
  BY CancellerKnown DEF WorkersInv
<1>5. PICK r \in CancellerRecord : canceller' = [canceller EXCEPT ![c] = r]
  <2>1. CASE QueueCancel(c) \/ ApiCancel(c)
    <3>1. [canceller[c] EXCEPT !.pc = "take"] \in CancellerRecord
      BY <1>4 DEF CancellerRecord, CancelPc
    <3>2. canceller' = [canceller EXCEPT ![c] = [canceller[c] EXCEPT !.pc = "take"]]
      BY <2>1 DEF QueueCancel, ApiCancel
    <3> QED
      BY <3>1, <3>2
  <2>2. ASSUME NEW j \in Job, CancelRunningTask(c, j)
        PROVE  \E r \in CancellerRecord : canceller' = [canceller EXCEPT ![c] = r]
    <3> DEFINE r == [canceller[c] EXCEPT !.pc = "take", !.kind = "lane", !.lane = LaneOf(j)]
    <3>1. LaneOf(j) \in Lane
      BY DEF WorkersAssumption
    <3>2. r \in CancellerRecord
      BY <1>4, <3>1 DEF CancellerRecord, CancelPc
    <3>3. canceller' = [canceller EXCEPT ![c] = r]
      BY <2>2 DEF CancelRunningTask
    <3> QED
      BY <3>2, <3>3
  <2> QED
    BY <2>1, <2>2
<1>6. RestOK'
  <2>1. cancels' \in 0..MaxCancels
    BY <1>1 DEF Asked, WorkersInv, RestOK, WorkersAssumption
  <2> QED
    BY <1>1, <1>5, <2>1, CancellerMoves DEF Asked, WorkersInv, RestOK
<1> QED
  BY <1>2, <1>3, <1>6 DEF WorkersInv

LEMMA TakePidsKeeps ==
  ASSUME WorkersInv, NEW c \in Canceller, TakePids(c)
  PROVE  WorkersInv'
<1> DEFINE taken == IF canceller[c].kind = "all" THEN pids
                    ELSE {p \in pids : p.job \in running /\ LaneOf(p.job) = canceller[c].lane}
           pc == IF canceller[c].kind = "all" THEN "kill" ELSE "clear"
           r == [canceller[c] EXCEPT !.pc = pc, !.left = taken, !.killed = taken]
<1>1. taken \subseteq Pid /\ pids' = pids \ taken
  BY DEF TakePids, WorkersInv, RestOK
<1>2. canceller' = [canceller EXCEPT ![c] = r]
  BY DEF TakePids
<1>3. /\ canceller[c] \in CancellerRecord /\ pc \in CancelPc
      /\ pc = "clear" => canceller[c].kind = "lane"
  BY CancellerKnown DEF WorkersInv, CancelPc, CancellerRecord
<1> HIDE DEF taken, pc
<1>4. r \in CancellerRecord
  BY <1>1, <1>3 DEF CancellerRecord
<1> HIDE DEF r
<1>5. RestOK'
  BY <1>1, <1>2, <1>4, CancellerMoves DEF TakePids, WorkersInv, RestOK
<1>6. QueueOK' /\ WorkersOK' /\ ChildrenOK' /\ SiteAlone'
  BY QueueSame, WorkersSame, ChildrenSame, SitesStay DEF TakePids, WorkersInv, queueVars
<1> QED
  BY <1>5, <1>6 DEF WorkersInv

LEMMA CancelPendingInLaneKeeps ==
  ASSUME WorkersAssumption, WorkersInv, NEW c \in Canceller, CancelPendingInLane(c)
  PROVE  WorkersInv'
<1> DEFINE r == [canceller[c] EXCEPT !.pc = "kill"]
<1>1. QueueOK'
  <2>1. {canceller[c].lane} \in SUBSET Lane
    BY CancellerKnown DEF CancelPendingInLane, WorkersInv, CancellerRecord
  <2> QED
    BY <2>1, ClearsKeep DEF CancelPendingInLane
<1>2. r \in CancellerRecord /\ canceller' = [canceller EXCEPT ![c] = r]
  BY CancellerKnown DEF CancelPendingInLane, WorkersInv, CancellerRecord, CancelPc
<1> HIDE DEF r
<1>3. RestOK'
  BY <1>2, CancellerMoves DEF CancelPendingInLane, WorkersInv, RestOK
<1>4. WorkersOK' /\ ChildrenOK' /\ SiteAlone'
  BY WorkersSame, ChildrenSame, SitesStay DEF CancelPendingInLane, WorkersInv
<1> QED
  BY <1>1, <1>3, <1>4 DEF WorkersInv

LEMMA MarkKeeps ==
  ASSUME WorkersInv, NEW c \in Canceller, Mark(c)
  PROVE  WorkersInv'
<1>1. PICK p \in canceller[c].left :
        /\ cancelled' = cancelled \cup {p.job}
        /\ canceller' = [canceller EXCEPT ![c].pc = "signal", ![c].current = p,
                                           ![c].left = @ \ {p}]
  BY DEF Mark
<1> DEFINE r == [canceller[c] EXCEPT !.pc = "signal", !.current = p, !.left = @ \ {p}]
<1>2. canceller[c] \in CancellerRecord
  BY CancellerKnown DEF WorkersInv
<1>3. p.job \in Job /\ r \in CancellerRecord /\ canceller' = [canceller EXCEPT ![c] = r]
  BY <1>1, <1>2 DEF CancellerRecord, CancelPc, Pid
<1> HIDE DEF r
<1>4. RestOK'
  <2>1. RestOK /\ cancelled' \subseteq Job
    BY <1>1, <1>3 DEF WorkersInv, RestOK
  <2>2. pids' \subseteq pids /\ UNCHANGED <<locks, cancels>>
    BY DEF Mark
  <2>3. locks' \in [Novel -> {"none", "fresh", "stale"}] /\ cancels' \in 0..MaxCancels
    BY <2>1, <2>2 DEF RestOK
  <2> QED
    BY <1>3, <2>1, <2>2, <2>3, CancellerMoves
<1>5. QueueOK' /\ WorkersOK' /\ ChildrenOK' /\ SiteAlone'
  BY QueueSame, WorkersSame, ChildrenSame, SitesStay DEF Mark, WorkersInv, queueVars
<1> QED
  BY <1>4, <1>5 DEF WorkersInv

LEMMA SignalKeeps ==
  ASSUME WorkersInv, NEW c \in Canceller, Signal(c)
  PROVE  WorkersInv'
<1> DEFINE j == canceller[c].current.job
           r == [canceller[c] EXCEPT !.pc = "gone"]
           s == [child[j] EXCEPT !.status = "killed"]
<1>1. canceller[c] \in CancellerRecord
  BY CancellerKnown DEF WorkersInv
<1>2. r \in CancellerRecord /\ canceller' = [canceller EXCEPT ![c] = r]
  BY <1>1 DEF Signal, CancellerRecord, CancelPc
<1>3. \/ child[j].status = "alive" /\ child' = [child EXCEPT ![j].status = "killed"]
      \/ UNCHANGED child
  BY DEF Signal, Alive
<1> HIDE DEF r, j
<1>4. RestOK'
  BY <1>2, CancellerMoves DEF Signal, WorkersInv, RestOK
<1>5. ChildrenOK'
  <2>1. CASE j \in Job /\ child[j].status = "alive"
             /\ child' = [child EXCEPT ![j].status = "killed"]
    <3>1. /\ s \in ChildRecord
          /\ s.status = "killed" /\ s.holds = child[j].holds /\ s.todo = child[j].todo
          /\ child' = [child EXCEPT ![j] = s]
          /\ child[j].todo \subseteq Works(j) /\ child[j].holds \in Works(j) \cup {NULL}
      BY <2>1 DEF WorkersInv, ChildrenOK, ChildRecord
    <3> HIDE DEF s
    <3> QED
      BY <2>1, <3>1, ChildMoves DEF Signal, queueVars, WorkersInv
  <2>2. CASE child' = child
    BY <2>2, ChildrenSame DEF Signal, WorkersInv
  <2>3. CASE j \notin Job /\ child' = [child EXCEPT ![j].status = "killed"]
    <3>1. child' = child
      BY <2>3 DEF WorkersInv, ChildrenOK
    <3> QED
      BY <2>2, <3>1
  <2> QED
    BY <1>3, <2>1, <2>2, <2>3
<1>6. QueueOK' /\ WorkersOK' /\ SiteAlone'
  BY QueueSame, WorkersSame, SitesStay DEF Signal, WorkersInv, queueVars
<1> QED
  BY <1>4, <1>5, <1>6 DEF WorkersInv

LEMMA GoneKeeps ==
  ASSUME WorkersInv, NEW c \in Canceller, Gone(c)
  PROVE  WorkersInv'
<1> DEFINE r == [canceller[c] EXCEPT !.pc = "kill"]
<1>1. r \in CancellerRecord /\ canceller' = [canceller EXCEPT ![c] = r]
  BY CancellerKnown DEF Gone, WorkersInv, CancellerRecord, CancelPc
<1> HIDE DEF r
<1>2. RestOK'
  BY <1>1, CancellerMoves DEF Gone, WorkersInv, RestOK
<1>3. QueueOK' /\ WorkersOK' /\ ChildrenOK' /\ SiteAlone'
  BY QueueSame, WorkersSame, ChildrenSame, SitesStay DEF Gone, WorkersInv, queueVars
<1> QED
  BY <1>2, <1>3 DEF WorkersInv

LEMMA ReadNovelsKeeps ==
  ASSUME WorkersAssumption, WorkersInv, NEW c \in Canceller, ReadNovels(c)
  PROVE  WorkersInv'
<1> DEFINE r == [canceller[c] EXCEPT !.pc = "release", !.novels = CancelledNovels(c)]
<1>1. canceller[c] \in CancellerRecord
  BY CancellerKnown DEF WorkersInv
<1>2. CancelledNovels(c) \subseteq Novel
  BY DEF CancelledNovels, WorkersInv, QueueOK, WorkersAssumption
<1>3. r \in CancellerRecord /\ canceller' = [canceller EXCEPT ![c] = r]
  BY <1>1, <1>2 DEF ReadNovels, CancellerRecord, CancelPc
<1> HIDE DEF r
<1>4. RestOK'
  BY <1>3, CancellerMoves DEF ReadNovels, WorkersInv, RestOK
<1>5. QueueOK' /\ WorkersOK' /\ ChildrenOK' /\ SiteAlone'
  BY QueueSame, WorkersSame, ChildrenSame, SitesStay DEF ReadNovels, WorkersInv, queueVars
<1> QED
  BY <1>4, <1>5 DEF WorkersInv

LEMMA ReleaseLocksKeeps ==
  ASSUME WorkersInv, NEW c \in Canceller, ReleaseLocks(c)
  PROVE  WorkersInv'
<1>1. Resting \in CancellerRecord
  BY DEF Resting, CancellerRecord, CancelPc
<1>2. RestOK'
  BY <1>1, CancellerMoves DEF ReleaseLocks, WorkersInv, RestOK
<1>3. QueueOK' /\ WorkersOK' /\ ChildrenOK' /\ SiteAlone'
  BY QueueSame, WorkersSame, ChildrenSame, SitesStay DEF ReleaseLocks, WorkersInv, queueVars
<1> QED
  BY <1>2, <1>3 DEF WorkersInv

-----------------------------------------------------------------------------
LEMMA InitHolds ==
  ASSUME WorkersAssumption, Init
  PROVE  WorkersInv
<1>1. ListsOK(pending) /\ Listed(pending) = {}
  <2>1. <<>> \in Seq(Job) /\ ToSet(<<>>) = {} /\ IsInjective(<<>>)
    BY DEF ToSet, IsInjective
  <2> QED
    BY <2>1 DEF Init, ListsOK, Listed
<1>2. QueueOK
  BY <1>1 DEF Init, QueueOK, WorkersAssumption
<1>3. WorkersOK
  BY DEF Init, Idle, WorkersOK, WorkerRecord, WorkerPc, Busy
<1>4. ChildrenOK
  BY DEF Init, NoChild, ChildrenOK, ChildRecord
<1>5. RestOK
  <2>1. Resting \in CancellerRecord
    BY DEF Resting, CancellerRecord, CancelPc
  <2> QED
    BY <2>1 DEF Init, RestOK, CancellersOK, WorkersAssumption
<1>6. SiteAlone
  BY DEF Init, SiteAlone
<1> QED
  BY <1>2, <1>3, <1>4, <1>5, <1>6 DEF WorkersInv

LEMMA StepKeeps ==
  ASSUME WorkersAssumption, WorkersInv, Next
  PROVE  WorkersInv'
<1>1. ASSUME NEW j \in Job, Push(j) \/ ChildStep(j) \/ BackoffOver(j)
      PROVE  WorkersInv'
  BY <1>1, PushKeeps, AcquireKeeps, DropGuardKeeps, ExitKeeps, BackoffOverKeeps DEF ChildStep
<1>2. ASSUME NEW w \in Worker, Pop(w) \/ WorkerStep(w)
      PROVE  WorkersInv'
  BY <1>2, PopKeeps, SpawnKeeps, RegisterPidKeeps, WaitKeeps, UnregisterPidKeeps,
     CheckKeeps, SettleKeeps DEF WorkerStep
<1>3. ASSUME NEW c \in Canceller,
             QueueCancel(c) \/ ApiCancel(c) \/ \E j \in Job : CancelRunningTask(c, j)
      PROVE  WorkersInv'
  BY <1>3, AskedKeeps
<1>4. ASSUME NEW c \in Canceller, CancelStep(c)
      PROVE  WorkersInv'
  BY <1>4, TakePidsKeeps, CancelPendingInLaneKeeps, MarkKeeps, SignalKeeps, GoneKeeps,
     ReadNovelsKeeps, ReleaseLocksKeeps DEF CancelStep
<1>5. ASSUME NEW n \in Novel, LockAges(n)
      PROVE  WorkersInv'
  BY <1>5, LockAgesKeeps
<1> QED
  BY <1>1, <1>2, <1>3, <1>4, <1>5 DEF Next

LEMMA StutterKeeps ==
  ASSUME WorkersInv, UNCHANGED vars
  PROVE  WorkersInv'
<1>1. QueueOK' /\ WorkersOK' /\ ChildrenOK' /\ RestOK' /\ SiteAlone'
  BY QueueSame, WorkersSame, ChildrenSame, RestSame, SitesStay DEF vars, queueVars, WorkersInv
<1> QED
  BY <1>1 DEF WorkersInv

-----------------------------------------------------------------------------
(* In every reachable state the lists are disjoint, every busy worker has  *)
(* a running job of its own, every child a worker, and no two running jobs *)
(* a site (pop_next_job_excluding, src/web/worker.rs:282).                 *)
THEOREM WorkersInvariant == Spec => []WorkersInv
<1>1. Init => WorkersInv
  BY WorkersAssumption, InitHolds
<1>2. WorkersInv /\ [Next]_vars => WorkersInv'
  BY WorkersAssumption, StepKeeps, StutterKeeps
<1> QED
  BY <1>1, <1>2, PTL DEF Spec

(* Every variable of the workers keeps its type.                           *)
THEOREM TypeCorrect == Spec => []TypeOK
<1>1. WorkersInv => TypeOK
  BY WaitingListed DEF WorkersInv, QueueOK, ListsOK, WorkersOK, ChildrenOK, RestOK,
     CancellersOK, CancellerRecord, TypeOK
<1> QED
  BY <1>1, WorkersInvariant, PTL

(* Two workers never run jobs of one site, and a job of unknown site runs  *)
(* alone (site_family_conflicts, src/web/worker.rs:316).                   *)
THEOREM SitesExclude == Spec => []SiteAlone
<1>1. WorkersInv => SiteAlone
  BY DEF WorkersInv
<1> QED
  BY <1>1, WorkersInvariant, PTL

LEMMA HoldersRun ==
  ASSUME WorkersInv, NEW j \in Job, child[j].status # "none"
  PROVE  j \in running
BY DEF WorkersInv, ChildrenOK, ChildRecord, Attended, WorkersOK, WorkerRecord, Busy

(* A child locks a novel of its own target; jobs of different sites share  *)
(* no novel, and an auto update, whose site is unknown, runs alone.        *)
LEMMA GuardsFollowSites ==
  ASSUME WorkersAssumption, WorkersInv
  PROVE  GuardsApart
<1> SUFFICES ASSUME NEW a \in Job, NEW b \in Job, a # b, OneSite(a), OneSite(b),
                    child[a].status = "alive", child[b].status = "alive",
                    child[a].holds # NULL, child[a].holds = child[b].holds
             PROVE  FALSE
  BY DEF GuardsApart
<1> DEFINE n == child[a].holds
<1>1. a \in running /\ b \in running
  BY HoldersRun
<1>2. /\ Families(a) # Families(b)
      /\ UNKNOWN_SITE_FAMILY \notin Families(a) /\ UNKNOWN_SITE_FAMILY \notin Families(b)
  BY <1>1 DEF WorkersInv, SiteAlone
<1>3. n \in Works(a) /\ n \in Works(b)
  BY DEF WorkersInv, ChildrenOK, ChildRecord
<1>4. a \notin AutoUpdates /\ b \notin AutoUpdates
  <2>1. \A j \in AutoUpdates : Families(j) = {UNKNOWN_SITE_FAMILY}
    BY DEF WorkersAssumption, Families
  <2> QED
    BY <1>2, <2>1
<1>5. n \in TargetsOf(a) /\ n \in TargetsOf(b)
  BY <1>3, <1>4 DEF Works
<1>6. SiteOf(n) \in Families(a) /\ SiteOf(n) \in Families(b)
  BY <1>5 DEF WorkersAssumption, Families
<1>7. \A j \in Job : OneSite(j) => \E x : Families(j) = {x}
  BY WorkersAssumption, FamiliesFinite, FS_Singleton DEF OneSite
<1> QED
  BY <1>2, <1>6, <1>7

(* Two living children whose jobs are of one site each never hold the lock *)
(* of one novel (NovelLockGuard, src/compat.rs:450).  Of a job of several  *)
(* sites nothing is said: the choice of a worker does not keep it apart.   *)
THEOREM GuardsExclude == Spec => []GuardsApart
<1>1. WorkersInv => GuardsApart
  BY WorkersAssumption, GuardsFollowSites
<1> QED
  BY <1>1, WorkersInvariant, PTL

-----------------------------------------------------------------------------
(* Killed children.  A request marks a job before it signals the child of  *)
(* the job, and only a worker that notes the job's end as cancelled takes  *)
(* the mark away: a job once marked stays condemned.                       *)
Leaving == {worker[w].job : w \in {w \in Worker : Busy(w) /\ "cancelled" \in worker[w].ends}}
CancelledJobs == {j \in Job : outcome[j] = "cancelled"}
Condemned == cancelled \cup Leaving \cup CancelledJobs

CancelledLeave == CancelledJobs \cap (running \cup Listed(pending)) = {}

KillMarked ==
  \A j \in Job : Asks(j) /\ child[j].status = "killed" => j \in cancelled \cup Leaving

SignalMarked ==
  \A c \in Canceller : canceller[c].pc = "signal" => canceller[c].current.job \in Condemned

ReapMarked ==
  \A w \in Worker : worker[w].killed /\ Asks(worker[w].job) =>
     \/ worker[w].pc \in {"reaped", "check"} /\ worker[w].job \in cancelled
     \/ "cancelled" \in worker[w].ends

EndsDecide ==
  \A w \in Worker : worker[w].pc \in {"completed", "failed"} =>
     "cancelled" \notin worker[w].ends

MarkInv == CancelledLeave /\ KillMarked /\ SignalMarked /\ ReapMarked /\ EndsDecide

(* Steps by what they leave alone.                                         *)
ClearStep(c) == \/ QueueCancel(c) \/ CancelPendingInLane(c)
RunStep(w) == \/ Spawn(w) \/ RegisterPid(w) \/ Wait(w) \/ UnregisterPid(w)
CancelOnly(c) == \/ ApiCancel(c) \/ (\E j \in Job : CancelRunningTask(c, j))
                 \/ TakePids(c) \/ Mark(c) \/ Signal(c) \/ Gone(c) \/ ReadNovels(c)
                 \/ ReleaseLocks(c)
SideStep == \/ \E j \in Job : ChildStep(j) \/ BackoffOver(j)
            \/ \E n \in Novel : LockAges(n)
            \/ \E c \in Canceller : CancelOnly(c)

LEMMA StepSorts ==
  ASSUME Next
  PROVE  \/ \E j \in Job : Push(j)
         \/ \E w \in Worker : Pop(w)
         \/ \E w \in Worker : RunStep(w)
         \/ \E w \in Worker : Check(w)
         \/ \E w \in Worker : Settle(w)
         \/ \E c \in Canceller : ClearStep(c)
         \/ SideStep
BY Zenon DEF Next, WorkerStep, CancelStep, ClearStep, RunStep, CancelOnly, SideStep

LEMMA SideSteps ==
  ASSUME SideStep
  PROVE  UNCHANGED <<pending, running, outcome, worker>> /\ cancelled \subseteq cancelled'
<1>1. ASSUME NEW j \in Job, ChildStep(j) \/ BackoffOver(j)
      PROVE  UNCHANGED <<pending, running, outcome, worker>> /\ cancelled \subseteq cancelled'
  BY <1>1 DEF ChildStep, Acquire, DropGuard, Exit, BackoffOver, queueVars
<1>2. ASSUME NEW n \in Novel, LockAges(n)
      PROVE  UNCHANGED <<pending, running, outcome, worker>> /\ cancelled \subseteq cancelled'
  BY <1>2 DEF LockAges, queueVars
<1>3. ASSUME NEW c \in Canceller, CancelOnly(c)
      PROVE  UNCHANGED <<pending, running, outcome, worker>> /\ cancelled \subseteq cancelled'
  BY <1>3 DEF CancelOnly, ApiCancel, CancelRunningTask, Asked, TakePids, Mark, Signal, Gone,
     ReadNovels, ReleaseLocks, queueVars
<1> QED
  BY <1>1, <1>2, <1>3 DEF SideStep

LEMMA ClearSteps ==
  ASSUME WorkersInv, NEW c \in Canceller, ClearStep(c)
  PROVE  /\ Listed(pending') \subseteq Listed(pending)
         /\ \A j \in Job : outcome'[j] = outcome[j]
                             \/ (j \in Listed(pending) /\ outcome'[j] = "cleared")
         /\ UNCHANGED <<running, worker, child, cancelled>>
<1>1. PICK L \in SUBSET Lane : Clears(L)
  <2>1. CASE QueueCancel(c)
    BY <2>1 DEF QueueCancel
  <2>2. CASE CancelPendingInLane(c)
    <3>1. canceller[c] \in CancellerRecord
      BY CancellerKnown DEF WorkersInv
    <3>2. {canceller[c].lane} \in SUBSET Lane
      BY <2>2, <3>1 DEF CancelPendingInLane, CancellerRecord
    <3> QED
      BY <2>2, <3>2 DEF CancelPendingInLane
  <2> QED
    BY <2>1, <2>2 DEF ClearStep
<1>2. Listed(pending') = Listed(pending) \ Waiting(L)
  BY <1>1, ClearedLists DEF Clears, WorkersInv, QueueOK, Waiting
<1>3. Waiting(L) \subseteq Listed(pending)
  BY DEF Waiting, Listed
<1>4. \A j \in Job : outcome'[j] = IF j \in Waiting(L) THEN "cleared" ELSE outcome[j]
  BY <1>1 DEF Clears
<1> QED
  BY <1>2, <1>3, <1>4 DEF ClearStep, QueueCancel, CancelPendingInLane, Asked

LEMMA RunSteps ==
  ASSUME WorkersInv, NEW w \in Worker, RunStep(w)
  PROVE  /\ UNCHANGED <<pending, running, outcome, cancelled, canceller>>
         /\ worker[w].pc \in {"spawn", "register", "wait", "reaped"}
         /\ worker'[w].pc # "idle" /\ worker'[w].job = worker[w].job
         /\ worker[w].ends \subseteq worker'[w].ends
         /\ worker'[w].pc \in {"completed", "failed"} => "cancelled" \notin worker'[w].ends
         /\ \A v \in Worker : v # w => worker'[v] = worker[v]
<1>1. UNCHANGED <<pending, running, outcome, cancelled, canceller>>
  BY DEF RunStep, Spawn, RegisterPid, Wait, UnregisterPid, queueVars
<1>2. worker[w].pc \in {"spawn", "register", "wait", "reaped"}
  BY DEF RunStep, Spawn, RegisterPid, Wait, UnregisterPid
<1>3. CASE Wait(w)
  BY <1>1, <1>2, <1>3, WaitMoves
<1>4. CASE Ended(w, "failed")
  BY <1>1, <1>2, <1>4, EndedMoves
<1>5. ASSUME NEW pc \in {"register", "wait", "check"}, Goes(w, pc)
      PROVE  /\ worker'[w].pc # "idle" /\ worker'[w].job = worker[w].job
             /\ worker[w].ends \subseteq worker'[w].ends
             /\ worker'[w].pc \notin {"completed", "failed"}
             /\ \A v \in Worker : v # w => worker'[v] = worker[v]
  <2>1. pc \in WorkerPc
    BY DEF WorkerPc
  <2> QED
    BY <1>5, <2>1, GoesMoves
<1>6. Wait(w) \/ Ended(w, "failed") \/ \E pc \in {"register", "wait", "check"} : Goes(w, pc)
  BY DEF RunStep, Spawn, RegisterPid, UnregisterPid
<1> QED
  BY <1>1, <1>2, <1>3, <1>4, <1>5, <1>6

(* A job that ended cancelled neither waits nor runs again.                *)
LEMMA CancelledLeaves ==
  ASSUME WorkersAssumption, WorkersInv, CancelledLeave, Next
  PROVE  CancelledLeave'
<1>1. ASSUME NEW j \in Job, Push(j) PROVE CancelledLeave'
  <2>1. Listed(pending') = Listed(pending) \cup {j}
    BY <1>1, PushedLists DEF Push, WorkersInv, QueueOK
  <2>2. outcome' = [outcome EXCEPT ![j] = "none"] /\ DOMAIN outcome = Job
    BY <1>1 DEF Push, WorkersInv, QueueOK
  <2> QED
    BY <1>1, <2>1, <2>2 DEF Push, CancelledLeave, CancelledJobs
<1>2. ASSUME NEW w \in Worker, Pop(w) PROVE CancelledLeave'
  <2>1. PICK f \in Namings, i \in 1..Len(pending[LaneOf(w)]) :
          /\ pending' = [pending EXCEPT ![LaneOf(w)] = RemoveAt(@, i)]
          /\ running' = running \cup {pending[LaneOf(w)][i]}
    BY <1>2, PopTakes
  <2>2. LaneOf(w) \in Lane /\ ListsOK(pending)
    BY DEF WorkersAssumption, WorkersInv, QueueOK
  <2>3. /\ pending[LaneOf(w)][i] \in Listed(pending)
        /\ Listed(pending') = Listed(pending) \ {pending[LaneOf(w)][i]}
    BY <2>1, <2>2, PoppedLists
  <2>4. outcome' = outcome
    BY <1>2 DEF Pop
  <2> QED
    BY <2>1, <2>3, <2>4 DEF CancelledLeave, CancelledJobs
<1>3. ASSUME NEW w \in Worker, Settle(w) PROVE CancelledLeave'
  <2> DEFINE j == worker[w].job
  <2>1. j \in Job /\ j \in running /\ running' = running \ {j} /\ j \notin Listed(pending)
    BY <1>3 DEF Settle, Unregistered, WorkersInv, WorkersOK, WorkerRecord, QueueOK, Busy
  <2>2. DOMAIN outcome = Job
    BY DEF WorkersInv, QueueOK
  <2>3. CASE /\ pending' = [pending EXCEPT ![LaneOf(j)] = Append(@, j)]
             /\ UNCHANGED outcome
    <3> HIDE DEF j
    <3>1. Listed(pending') = Listed(pending) \cup {j}
      BY <2>1, <2>3, PushedLists DEF WorkersInv, QueueOK
    <3> QED
      BY <2>1, <2>3, <3>1 DEF CancelledLeave, CancelledJobs
  <2>4. CASE outcome' = [outcome EXCEPT ![j] = worker[w].pc] /\ UNCHANGED pending
    <3> HIDE DEF j
    <3> QED
      BY <2>1, <2>2, <2>4 DEF CancelledLeave, CancelledJobs
  <2> QED
    BY <1>3, <2>3, <2>4 DEF Settle
<1>4. ASSUME NEW c \in Canceller, ClearStep(c) PROVE CancelledLeave'
  BY <1>4, ClearSteps DEF CancelledLeave, CancelledJobs
<1>5. ASSUME UNCHANGED <<pending, running, outcome>> PROVE CancelledLeave'
  BY <1>5 DEF CancelledLeave, CancelledJobs
<1>6. ASSUME NEW w \in Worker, RunStep(w) \/ Check(w) PROVE CancelledLeave'
  BY <1>5, <1>6, RunSteps DEF Check, queueVars
<1>7. CASE SideStep
  BY <1>5, <1>7, SideSteps
<1> QED
  BY <1>1, <1>2, <1>3, <1>4, <1>6, <1>7, StepSorts

(* What the check does: the mark of the job is used up by its verdict.     *)
LEMMA CheckVerdict ==
  ASSUME WorkersInv, NEW w \in Worker, Check(w)
  PROVE  /\ UNCHANGED <<pending, running, outcome, child, canceller>>
         /\ \A j \in cancelled : j \in cancelled' \/ j = worker[w].job
         /\ worker[w].job \in cancelled =>
               worker[w].job \in cancelled' \/ "cancelled" \in worker'[w].ends
         /\ Asks(worker[w].job) /\ worker[w].job \in cancelled => "cancelled" \in worker'[w].ends
         /\ worker'[w].job = worker[w].job /\ worker'[w].killed = worker[w].killed
         /\ worker'[w].pc # "idle" /\ worker[w].ends \subseteq worker'[w].ends
         /\ worker'[w].pc \in {"completed", "failed"} => "cancelled" \notin worker'[w].ends
         /\ \A v \in Worker : v # w => worker'[v] = worker[v]
<1> DEFINE end == Verdict(w)
<1>1. /\ end \in {"completed", "cancelled", "failed"}
      /\ Asks(worker[w].job) /\ worker[w].job \in cancelled => end = "cancelled"
  BY VerdictOf
<1>2. Ended(w, end)
  BY DEF Check
<1> HIDE DEF end
<1>3. /\ worker'[w].job = worker[w].job /\ worker'[w].killed = worker[w].killed
      /\ worker'[w].ends = worker[w].ends \cup {end}
      /\ worker'[w].pc # "idle"
      /\ worker'[w].pc \in {"completed", "failed"} => "cancelled" \notin worker'[w].ends
      /\ \A v \in Worker : v # w => worker'[v] = worker[v]
  BY <1>1, <1>2, EndedMoves
<1>4. cancelled' = IF Asks(worker[w].job) THEN cancelled \ {worker[w].job} ELSE cancelled
  BY DEF Check
<1>5. UNCHANGED <<pending, running, outcome, child, canceller>>
  BY DEF Check, queueVars
<1> QED
  BY <1>1, <1>3, <1>4, <1>5

(* Once condemned, a job stays condemned.                                  *)
LEMMA LeavingStays ==
  ASSUME NEW w \in Worker,
         Busy(w) /\ "cancelled" \in worker[w].ends =>
            /\ worker'[w].pc # "idle" /\ worker'[w].job = worker[w].job
            /\ "cancelled" \in worker'[w].ends,
         \A v \in Worker : v # w => worker'[v] = worker[v]
  PROVE  Leaving \subseteq Leaving'
BY DEF Leaving, Busy

LEMMA CondemnedStays ==
  ASSUME WorkersAssumption, WorkersInv, CancelledLeave, EndsDecide, Next
  PROVE  Condemned \subseteq Condemned'
<1>1. ASSUME Leaving \subseteq Leaving', cancelled \subseteq cancelled',
             UNCHANGED outcome
      PROVE  Condemned \subseteq Condemned'
  BY <1>1 DEF Condemned, CancelledJobs
<1>2. ASSUME NEW j \in Job, Push(j) PROVE Condemned \subseteq Condemned'
  <2>1. UNCHANGED <<worker, cancelled>> /\ CancelledJobs \subseteq CancelledJobs'
    BY <1>2 DEF Push, CancelledJobs, WorkersInv, QueueOK
  <2> QED
    BY <2>1 DEF Condemned, Leaving, Busy
<1>3. ASSUME NEW w \in Worker, Pop(w) PROVE Condemned \subseteq Condemned'
  <2>1. /\ worker[w].pc = "idle" /\ UNCHANGED <<cancelled, outcome>>
        /\ \A v \in Worker : v # w => worker'[v] = worker[v]
    BY <1>3, PopTakes DEF Pop, WorkersInv, WorkersOK, WorkerRecord
  <2> QED
    BY <1>1, <2>1, LeavingStays DEF Busy
<1>4. ASSUME NEW w \in Worker, RunStep(w) PROVE Condemned \subseteq Condemned'
  BY <1>1, <1>4, RunSteps, LeavingStays
<1>5. ASSUME NEW w \in Worker, Check(w) PROVE Condemned \subseteq Condemned'
  <2>1. Leaving \subseteq Leaving' /\ UNCHANGED outcome
    BY <1>5, CheckVerdict, LeavingStays DEF Check
  <2>2. \A j \in cancelled : j \in cancelled' \/ j \in Leaving'
    BY <1>5, CheckVerdict DEF Leaving, Busy
  <2> QED
    BY <2>1, <2>2 DEF Condemned, CancelledJobs
<1>6. ASSUME NEW w \in Worker, Settle(w) PROVE Condemned \subseteq Condemned'
  <2> DEFINE j == worker[w].job
  <2>1. /\ j \in Job /\ j \in running /\ UNCHANGED cancelled
        /\ \A v \in Worker : v # w => worker'[v] = worker[v]
    BY <1>6 DEF Settle, WorkersInv, WorkersOK, WorkerRecord, QueueOK, Busy
  <2>2. j \notin CancelledJobs
    BY <2>1 DEF CancelledLeave
  <2>3. CancelledJobs \subseteq CancelledJobs'
    BY <1>6, <2>2 DEF Settle, CancelledJobs, WorkersInv, QueueOK
  <2>4. "cancelled" \in worker[w].ends => j \in CancelledJobs'
    <3>1. "cancelled" \in worker[w].ends => worker[w].pc = "cancelled"
      BY <1>6 DEF Settle, EndsDecide
    <3> QED
      BY <1>6, <2>1, <3>1 DEF Settle, CancelledJobs, WorkersInv, QueueOK
  <2>5. \A k \in Leaving : k \in Leaving' \/ (k = j /\ "cancelled" \in worker[w].ends)
    BY <2>1 DEF Leaving, Busy
  <2> QED
    BY <2>1, <2>3, <2>4, <2>5 DEF Condemned
<1>7. ASSUME NEW c \in Canceller, ClearStep(c) PROVE Condemned \subseteq Condemned'
  <2>1. UNCHANGED <<worker, cancelled>> /\ CancelledJobs \subseteq CancelledJobs'
    BY <1>7, ClearSteps DEF CancelledJobs, CancelledLeave
  <2> QED
    BY <2>1 DEF Condemned, Leaving, Busy
<1>8. CASE SideStep
  BY <1>1, <1>8, SideSteps DEF Leaving, Busy
<1> QED
  BY <1>2, <1>3, <1>4, <1>5, <1>6, <1>7, <1>8, StepSorts

(* Only a signal kills.                                                    *)
LEMMA KilledBySignal ==
  ASSUME WorkersInv, Next, NEW j \in Job, child'[j].status = "killed"
  PROVE  /\ child[j].status # "none"
         /\ \/ child[j].status = "killed"
            \/ \E c \in Canceller : canceller[c].pc = "signal" /\ canceller[c].current.job = j
<1> DEFINE Why == /\ child[j].status # "none"
                  /\ \/ child[j].status = "killed"
                     \/ \E c \in Canceller : canceller[c].pc = "signal" /\ canceller[c].current.job = j
<1>1. ASSUME UNCHANGED child PROVE Why
  BY <1>1
<1>2. ASSUME NEW k \in Job, Push(k) \/ BackoffOver(k) PROVE Why
  BY <1>1, <1>2 DEF Push, BackoffOver
<1>3. ASSUME NEW k \in Job, ChildStep(k) PROVE Why
  BY <1>3 DEF ChildStep, Acquire, DropGuard, Exit, WorkersInv, ChildrenOK, ChildRecord
<1>4. ASSUME NEW w \in Worker, Pop(w) \/ Settle(w) \/ RegisterPid(w) \/ UnregisterPid(w)
                                 \/ Check(w)
      PROVE  Why
  BY <1>1, <1>4 DEF Pop, Settle, RegisterPid, UnregisterPid, Check
<1>5. ASSUME NEW w \in Worker, Spawn(w) \/ Wait(w) PROVE Why
  BY <1>5 DEF Spawn, Wait, WorkersInv, ChildrenOK, ChildRecord, NoChild
<1>6. ASSUME NEW n \in Novel, LockAges(n) PROVE Why
  BY <1>1, <1>6 DEF LockAges
<1>7. ASSUME NEW c \in Canceller, Signal(c) PROVE Why
  BY <1>7 DEF Signal, Alive, WorkersInv, ChildrenOK, ChildRecord
<1>8. ASSUME NEW c \in Canceller,
             \/ QueueCancel(c) \/ ApiCancel(c) \/ (\E k \in Job : CancelRunningTask(c, k))
             \/ TakePids(c) \/ CancelPendingInLane(c) \/ Mark(c) \/ Gone(c) \/ ReadNovels(c)
             \/ ReleaseLocks(c)
      PROVE  Why
  BY <1>1, <1>8 DEF QueueCancel, ApiCancel, CancelRunningTask, Asked, TakePids,
     CancelPendingInLane, Mark, Gone, ReadNovels, ReleaseLocks
<1> HIDE DEF Why
<1>9. Why
  BY <1>2, <1>3, <1>4, <1>5, <1>6, <1>7, <1>8 DEF Next, WorkerStep, CancelStep
<1> QED
  BY <1>9 DEF Why

(* A signal kills the child of a condemned job; while the job has a child, *)
(* what condemns it is its mark, or an earlier child that was cancelled.   *)
LEMMA KillStaysMarked ==
  ASSUME WorkersAssumption, WorkersInv, CancelledLeave, EndsDecide, KillMarked, SignalMarked,
         Next
  PROVE  KillMarked'
<1> SUFFICES ASSUME NEW j \in Job, Asks(j), child'[j].status = "killed"
             PROVE  j \in cancelled' \cup Leaving'
  BY DEF KillMarked, Asks
<1>1. j \in Condemned
  BY KilledBySignal DEF KillMarked, SignalMarked, Condemned
<1>2. j \in Condemned'
  BY <1>1, CondemnedStays
<1>3. j \in running'
  <2>1. WorkersInv'
    BY StepKeeps
  <2> QED
    BY <2>1 DEF WorkersInv, ChildrenOK, Attended, WorkersOK, Busy
<1>4. j \notin CancelledJobs'
  BY <1>3, CancelledLeaves DEF CancelledLeave
<1> QED
  BY <1>2, <1>4 DEF Condemned

(* Only the mark makes a request signal.                                   *)
LEMMA SignalAfterMark ==
  ASSUME WorkersInv, Next, NEW c \in Canceller, canceller'[c].pc = "signal"
  PROVE  \/ canceller[c].pc = "signal" /\ canceller'[c].current = canceller[c].current
         \/ canceller'[c].current.job \in cancelled'
<1> DEFINE Why == \/ canceller[c].pc = "signal" /\ canceller'[c].current = canceller[c].current
                  \/ canceller'[c].current.job \in cancelled'
<1>0. canceller \in [Canceller -> CancellerRecord]
  BY DEF WorkersInv, RestOK, CancellersOK
<1>1. ASSUME UNCHANGED canceller PROVE Why
  BY <1>1
<1>2. ASSUME NEW j \in Job, Push(j) \/ BackoffOver(j) \/ ChildStep(j) PROVE Why
  BY <1>1, <1>2 DEF Push, BackoffOver, ChildStep, Acquire, DropGuard, Exit
<1>3. ASSUME NEW w \in Worker, Pop(w) \/ WorkerStep(w) PROVE Why
  BY <1>1, <1>3 DEF Pop, WorkerStep, Spawn, RegisterPid, Wait, UnregisterPid, Check, Settle
<1>4. ASSUME NEW n \in Novel, LockAges(n) PROVE Why
  BY <1>1, <1>4 DEF LockAges
<1>5. ASSUME NEW d \in Canceller, Mark(d) PROVE Why
  BY <1>0, <1>5 DEF Mark, CancellerRecord
<1>6. ASSUME NEW d \in Canceller,
             \/ QueueCancel(d) \/ ApiCancel(d) \/ (\E j \in Job : CancelRunningTask(d, j))
             \/ TakePids(d) \/ CancelPendingInLane(d) \/ Signal(d) \/ Gone(d) \/ ReadNovels(d)
             \/ ReleaseLocks(d)
      PROVE  Why
  <2>1. \A e \in Canceller : e # d => canceller'[e] = canceller[e]
    BY <1>0, <1>6 DEF QueueCancel, ApiCancel, CancelRunningTask, TakePids,
       CancelPendingInLane, Signal, Gone, ReadNovels, ReleaseLocks
  <2>2. canceller[d] \in CancellerRecord
    BY <1>0
  <2>3. CASE QueueCancel(d) \/ ApiCancel(d) \/ (\E j \in Job : CancelRunningTask(d, j))
    <3>1. canceller'[d].pc = "take"
      BY <1>0, <2>2, <2>3 DEF QueueCancel, ApiCancel, CancelRunningTask, CancellerRecord
    <3> QED
      BY <2>1, <3>1
  <2>4. CASE TakePids(d)
    <3>1. PICK T : canceller' = [canceller EXCEPT
                     ![d].pc = IF canceller[d].kind = "all" THEN "kill" ELSE "clear",
                     ![d].left = T, ![d].killed = T]
      BY <2>4 DEF TakePids
    <3>2. canceller'[d].pc \in {"kill", "clear"}
      BY <1>0, <2>2, <3>1 DEF CancellerRecord
    <3> QED
      BY <2>1, <3>2
  <2>5. CASE ReleaseLocks(d)
    <3>1. canceller'[d] = Resting
      BY <1>0, <2>5 DEF ReleaseLocks
    <3> QED
      BY <2>1, <3>1 DEF Resting
  <2>6. CASE CancelPendingInLane(d) \/ Signal(d) \/ Gone(d) \/ ReadNovels(d)
    <3>1. canceller'[d].pc \in {"kill", "gone", "release"}
      BY <1>0, <2>2, <2>6 DEF CancelPendingInLane, Signal, Gone, ReadNovels, CancellerRecord
    <3> QED
      BY <2>1, <3>1
  <2> QED
    BY <1>6, <2>3, <2>4, <2>5, <2>6
<1> HIDE DEF Why
<1>9. Why
  BY <1>2, <1>3, <1>4, <1>5, <1>6 DEF Next, CancelStep
<1> QED
  BY <1>9 DEF Why

LEMMA SignalStaysMarked ==
  ASSUME WorkersAssumption, WorkersInv, CancelledLeave, EndsDecide, SignalMarked, Next
  PROVE  SignalMarked'
<1>1. Condemned \subseteq Condemned' /\ cancelled' \subseteq Condemned'
  BY CondemnedStays DEF Condemned
<1>2. ASSUME NEW c \in Canceller, canceller'[c].pc = "signal"
      PROVE  canceller'[c].current.job \in Condemned'
  BY <1>1, <1>2, SignalAfterMark DEF SignalMarked
<1> QED
  BY <1>2 DEF SignalMarked

(* A worker that learns that its child was killed finds the mark.          *)
LEMMA ReapStaysMarked ==
  ASSUME WorkersAssumption, WorkersInv, KillMarked, ReapMarked, Next
  PROVE  ReapMarked'
<1> SUFFICES ASSUME NEW w \in Worker, worker'[w].killed, Asks(worker'[w].job)
             PROVE  \/ worker'[w].pc \in {"reaped", "check"} /\ worker'[w].job \in cancelled'
                    \/ "cancelled" \in worker'[w].ends
  BY DEF ReapMarked, Asks
<1> DEFINE Why == \/ worker'[w].pc \in {"reaped", "check"} /\ worker'[w].job \in cancelled'
                  \/ "cancelled" \in worker'[w].ends
<1>0. worker \in [Worker -> WorkerRecord]
  BY DEF WorkersInv, WorkersOK
<1>1. ASSUME worker'[w] = worker[w], cancelled \subseteq cancelled' PROVE Why
  BY <1>1 DEF ReapMarked
<1>2. ASSUME NEW j \in Job, Push(j) PROVE Why
  BY <1>1, <1>2 DEF Push
<1>3. ASSUME NEW v \in Worker, Pop(v) \/ Settle(v) PROVE Why
  <2>1. UNCHANGED cancelled /\ \A u \in Worker : u # v => worker'[u] = worker[u]
    BY <1>0, <1>3, PopTakes DEF Pop, Settle
  <2>2. worker'[v].killed = FALSE
    BY <1>0, <1>3, PopTakes DEF Settle, Idle, Taken
  <2> QED
    BY <1>1, <2>1, <2>2
<1>4. ASSUME NEW v \in Worker, RunStep(v) PROVE Why
  <2>1. CASE v # w
    BY <1>1, <1>4, <2>1, RunSteps
  <2>2. CASE v = w /\ "cancelled" \in worker[w].ends
    BY <1>4, <2>2, RunSteps
  <2>3. CASE v = w /\ "cancelled" \notin worker[w].ends /\ Wait(w)
    <3>1. /\ worker'[w].pc = "reaped" /\ worker'[w].job = worker[w].job
          /\ worker[w].killed \/ child[worker[w].job].status = "killed"
      BY <2>3, WaitMoves
    <3>2. ~worker[w].killed
      BY <2>3, <3>1 DEF ReapMarked, Wait
    <3>3. worker[w].job \in Job /\ Busy(w) /\ UNCHANGED cancelled
      BY <2>3 DEF Wait, WorkersInv, WorkersOK, QueueOK, Busy
    <3>4. worker[w].job \in cancelled \cup Leaving
      BY <3>1, <3>2, <3>3 DEF KillMarked
    <3>5. worker[w].job \notin Leaving
      BY <2>3, <3>3 DEF Leaving, WorkersInv, WorkersOK
    <3> QED
      BY <3>1, <3>3, <3>4, <3>5
  <2>4. CASE v = w /\ "cancelled" \notin worker[w].ends /\ ~Wait(w)
    <3>1. worker'[w].killed = worker[w].killed /\ worker'[w].job = worker[w].job
      <4>1. "register" \in WorkerPc /\ "wait" \in WorkerPc /\ "check" \in WorkerPc
        BY DEF WorkerPc
      <4>2. CASE Ended(w, "failed")
        BY <4>2, EndedMoves
      <4>3. CASE \E pc \in {"register", "wait", "check"} : Goes(w, pc)
        BY <4>1, <4>3, GoesMoves
      <4> QED
        BY <1>4, <2>4, <4>2, <4>3 DEF RunStep, Spawn, RegisterPid, UnregisterPid
    <3>2. worker[w].pc \in {"reaped", "check"} /\ worker[w].job \in cancelled
      BY <2>4, <3>1 DEF ReapMarked
    <3>3. UnregisterPid(w)
      BY <1>4, <2>4, <3>2 DEF RunStep, Spawn, RegisterPid
    <3>4. worker'[w].pc = "check" /\ UNCHANGED cancelled
      BY <3>3, GoesMoves DEF UnregisterPid, WorkerPc
    <3> QED
      BY <3>1, <3>2, <3>4
  <2> QED
    BY <1>4, <2>1, <2>2, <2>3, <2>4
<1>5. ASSUME NEW v \in Worker, Check(v) PROVE Why
  <2>1. CASE v = w
    BY <1>5, <2>1, CheckVerdict DEF ReapMarked, Check
  <2>2. CASE v # w
    <3>1. worker'[w] = worker[w]
      BY <1>5, <2>2, CheckVerdict
    <3>2. CASE "cancelled" \in worker[w].ends
      BY <3>1, <3>2
    <3>3. CASE worker[w].pc \in {"reaped", "check"} /\ worker[w].job \in cancelled
      <4>1. worker[v].job # worker[w].job
        BY <1>5, <2>2, <3>3 DEF WorkersInv, WorkersOK, Busy, Check
      <4>2. worker[w].job \in cancelled'
        BY <1>5, <3>3, <4>1, CheckVerdict
      <4> QED
        BY <3>1, <3>3, <4>2
    <3> QED
      BY <3>1, <3>2, <3>3 DEF ReapMarked
  <2> QED
    BY <2>1, <2>2
<1>6. ASSUME NEW c \in Canceller, ClearStep(c) PROVE Why
  BY <1>1, <1>6, ClearSteps
<1>7. CASE SideStep
  BY <1>1, <1>7, SideSteps
<1>8. CASE \E j \in Job : Push(j)
  BY <1>2, <1>8
<1>9. CASE \E v \in Worker : Pop(v) \/ Settle(v)
  BY <1>3, <1>9
<1>10. CASE \E v \in Worker : RunStep(v)
  BY <1>4, <1>10
<1>11. CASE \E v \in Worker : Check(v)
  BY <1>5, <1>11
<1>12. CASE \E c \in Canceller : ClearStep(c)
  BY <1>6, <1>12
<1> QED
  BY <1>7, <1>8, <1>9, <1>10, <1>11, <1>12, StepSorts

(* A job is settled by what its children ended with.                       *)
LEMMA EndsStayDecided ==
  ASSUME WorkersAssumption, WorkersInv, EndsDecide, Next
  PROVE  EndsDecide'
<1> DEFINE Decided(r) == r.pc \in {"completed", "failed"} => "cancelled" \notin r.ends
<1>0. \A w \in Worker : Decided(worker[w])
  BY DEF EndsDecide
<1> SUFFICES ASSUME NEW w \in Worker PROVE Decided(worker'[w])
  BY DEF EndsDecide
<1> DEFINE Why == Decided(worker'[w])
<1>1. ASSUME worker'[w] = worker[w] PROVE Why
  BY <1>0, <1>1
<1>2. ASSUME NEW v \in Worker, Pop(v) \/ Settle(v) PROVE Why
  <2>1. worker \in [Worker -> WorkerRecord]
    BY DEF WorkersInv, WorkersOK
  <2>2. \A u \in Worker : u # v => worker'[u] = worker[u]
    BY <1>2, <2>1, PopTakes DEF Settle
  <2>3. worker'[v].pc \in {"spawn", "idle"}
    BY <1>2, <2>1, PopTakes DEF Settle, Idle, Taken
  <2> QED
    BY <1>1, <2>2, <2>3
<1>3. ASSUME NEW v \in Worker, RunStep(v) PROVE Why
  BY <1>1, <1>3, RunSteps
<1>4. ASSUME NEW v \in Worker, Check(v) PROVE Why
  BY <1>1, <1>4, CheckVerdict
<1>5. ASSUME NEW j \in Job, Push(j) PROVE Why
  BY <1>1, <1>5 DEF Push
<1>6. ASSUME NEW c \in Canceller, ClearStep(c) PROVE Why
  BY <1>1, <1>6, ClearSteps
<1>7. CASE SideStep
  BY <1>1, <1>7, SideSteps
<1> HIDE DEF Decided
<1>8. CASE \E v \in Worker : Pop(v) \/ Settle(v)
  BY <1>2, <1>8
<1>9. CASE \E v \in Worker : RunStep(v)
  BY <1>3, <1>9
<1>10. CASE \E v \in Worker : Check(v)
  BY <1>4, <1>10
<1>11. CASE \E j \in Job : Push(j)
  BY <1>5, <1>11
<1>12. CASE \E c \in Canceller : ClearStep(c)
  BY <1>6, <1>12
<1>13. Why
  BY <1>7, <1>8, <1>9, <1>10, <1>11, <1>12, StepSorts
<1> QED
  BY <1>13 DEF Why

LEMMA MarkStart ==
  ASSUME Init
  PROVE  MarkInv
<1>1. CancelledLeave
  BY DEF Init, CancelledLeave, CancelledJobs
<1>2. KillMarked /\ ReapMarked /\ EndsDecide
  BY DEF Init, NoChild, Idle, KillMarked, ReapMarked, EndsDecide
<1>3. SignalMarked
  BY DEF Init, Resting, SignalMarked
<1> QED
  BY <1>1, <1>2, <1>3 DEF MarkInv

LEMMA MarkStep ==
  ASSUME WorkersAssumption, WorkersInv, MarkInv, [Next]_vars
  PROVE  MarkInv'
<1>1. CASE Next
  <2>1. CancelledLeave' /\ EndsDecide'
    BY <1>1, CancelledLeaves, EndsStayDecided DEF MarkInv
  <2>2. KillMarked'
    BY <1>1, KillStaysMarked DEF MarkInv
  <2>3. SignalMarked'
    BY <1>1, SignalStaysMarked DEF MarkInv
  <2>4. ReapMarked'
    BY <1>1, ReapStaysMarked DEF MarkInv
  <2> QED
    BY <2>1, <2>2, <2>3, <2>4 DEF MarkInv
<1>2. CASE UNCHANGED vars
  <2>1. CancelledLeave' /\ ReapMarked' /\ EndsDecide'
    BY <1>2 DEF vars, MarkInv, CancelledLeave, CancelledJobs, Listed, ReapMarked, EndsDecide
  <2>2. KillMarked' /\ SignalMarked'
    BY <1>2 DEF vars, MarkInv, KillMarked, SignalMarked, Condemned, Leaving, Busy, CancelledJobs
  <2> QED
    BY <2>1, <2>2 DEF MarkInv
<1> QED
  BY <1>1, <1>2

(* A job whose child a request killed ends cancelled, whatever the workers *)
(* and the other requests do between the mark, the signal and the check:   *)
(* it is not reported as failed and not queued again                       *)
(* (kill_running_child_for_job, src/web/jobs.rs:479).                      *)
THEOREM KilledEndsCancelled == Spec => KilledIsCancelled
<1>1. Init => WorkersInv /\ MarkInv
  BY WorkersAssumption, InitHolds, MarkStart
<1>2. WorkersInv /\ MarkInv /\ [Next]_vars => WorkersInv' /\ MarkInv'
  BY WorkersAssumption, StepKeeps, StutterKeeps, MarkStep
<1>3. WorkersInv /\ MarkInv /\ [Next]_vars =>
        [\A w \in Worker :
            worker[w].killed /\ worker[w].job \notin AutoUpdates /\ Settle(w)
              => outcome'[worker[w].job] = "cancelled"]_vars
  <2> SUFFICES ASSUME WorkersInv, MarkInv, NEW w \in Worker, worker[w].killed,
                      worker[w].job \notin AutoUpdates, Settle(w)
               PROVE  outcome'[worker[w].job] = "cancelled"
    OBVIOUS
  <2>1. worker[w].pc = "cancelled"
    BY DEF MarkInv, ReapMarked, EndsDecide, Asks, Settle
  <2>2. worker[w].job \in Job /\ DOMAIN outcome = Job
    BY <2>1 DEF WorkersInv, WorkersOK, WorkerRecord, QueueOK, Busy
  <2> QED
    BY <2>1, <2>2 DEF Settle
<1> QED
  BY <1>1, <1>2, <1>3, PTL DEF Spec, KilledIsCancelled

=============================================================================
