------------------------- MODULE UpdatePlannerProofs -------------------------
(***************************************************************************)
(* For any library, probes, page size, lease and number of faults: a        *)
(* scheduled time opens one generation at most, and a finished generation   *)
(* has sent an update for every novel that was eligible all along.          *)
(***************************************************************************)
EXTENDS UpdatePlanner, FiniteSetTheorems, SequenceTheorems, TLAPS

(* What every copy of the checkpoint satisfies: no more generations than   *)
(* scheduled times, and a finished one was finished after its time.        *)
Timely(c) ==
  /\ DOMAIN c = DOMAIN Fresh
  /\ c.generation \in Nat /\ c.lastRun \in Nat
  /\ c.generation <= slots /\ c.lastRun <= slots
  /\ c.state = "done" => c.generation <= c.lastRun

(* A probe that decided to open a generation has a time of its own for it. *)
Decided(r) ==
  /\ DOMAIN r = DOMAIN Idle
  /\ Timely(r.cp)
  /\ r.pc \in {"open", "claim"} => r.base \in Nat /\ r.base + 1 <= slots

SlotsInv ==
  /\ slots \in Nat
  /\ Timely(checkpoint)
  /\ DOMAIN probe = Probe
  /\ \A p \in Probe : Decided(probe[p])

-----------------------------------------------------------------------------
(* The transitions of a checkpoint.                                        *)
LEMMA Transitions ==
  ASSUME slots \in Nat, NEW c, Timely(c)
  PROVE  /\ \A p : Timely(Reclaimed(c, p))
         /\ \A key, cursor : Timely(Advanced(c, key, cursor))
         /\ Timely(Finished(c))
         /\ \A p : \A g \in Nat : g <= slots => Timely(NewGeneration(c, g, p))
<1>1. DOMAIN c = {"generation", "state", "cursor", "key", "lastRun", "token"}
  BY DEF Timely, Fresh
<1>2. \A p : Timely(Reclaimed(c, p))
  BY <1>1 DEF Timely, Reclaimed
<1>3. \A key, cursor : Timely(Advanced(c, key, cursor))
  BY <1>1 DEF Timely, Advanced
<1>4. Timely(Finished(c))
  BY <1>1 DEF Timely, Finished
<1>5. \A p : \A g \in Nat : g <= slots => Timely(NewGeneration(c, g, p))
  BY <1>1 DEF Timely, NewGeneration
<1> QED
  BY <1>2, <1>3, <1>4, <1>5

LEMMA IdleDecided ==
  ASSUME slots \in Nat
  PROVE  Timely(Fresh) /\ Decided(Idle)
BY DEF Timely, Fresh, Decided, Idle

LEMMA PlanningDecided ==
  ASSUME slots \in Nat, NEW c, Timely(c), NEW pc, pc \notin {"open", "claim"}
  PROVE  Decided(Planning(pc, c))
BY DEF Decided, Planning, Idle

-----------------------------------------------------------------------------
(* The steps of one probe.                                                 *)
LEMMA ProbeKeeps ==
  ASSUME SlotsInv, NEW p \in Probe, NEW r, Decided(r),
         probe' = [probe EXCEPT ![p] = r], UNCHANGED slots,
         NEW c, Timely(c), checkpoint' = c
  PROVE  SlotsInv'
<1>1. DOMAIN probe' = Probe /\ \A q \in Probe : probe'[q] \in {probe[q], r}
  BY DEF SlotsInv
<1> QED
  BY <1>1 DEF SlotsInv, Decided, Timely

LEMMA LeaveKeeps ==
  ASSUME SlotsInv, NEW p \in Probe, Leave(p), UNCHANGED slots,
         checkpoint' \in {checkpoint, probe[p].cp}
  PROVE  SlotsInv'
<1>1. Timely(checkpoint) /\ Timely(probe[p].cp)
  BY DEF SlotsInv, Decided
<1>2. Decided(Idle)
  BY IdleDecided DEF SlotsInv
<1> QED
  BY <1>1, <1>2, ProbeKeeps DEF Leave

LEMMA BeginKeeps ==
  ASSUME SlotsInv, NEW p \in Probe, Begin(p)
  PROVE  SlotsInv'
<1>1. UNCHANGED <<checkpoint, slots>> /\ slots \in Nat /\ Timely(checkpoint) /\ Decided(probe[p])
  BY DEF Begin, SlotsInv
<1>2. CASE probe' = [probe EXCEPT ![p].pc = "reclaim", ![p].base = checkpoint.generation,
                                  ![p].cp = Reclaimed(checkpoint, p)]
  <2> DEFINE r == [probe[p] EXCEPT !.pc = "reclaim", !.base = checkpoint.generation,
                                   !.cp = Reclaimed(checkpoint, p)]
  <2>1. Timely(Reclaimed(checkpoint, p))
    BY <1>1, Transitions
  <2>2. Decided(r)
    BY <1>1, <2>1 DEF Decided, Idle
  <2>3. probe' = [probe EXCEPT ![p] = r]
    BY <1>2 DEF SlotsInv
  <2> HIDE DEF r
  <2> QED
    BY <1>1, <2>2, <2>3, ProbeKeeps
<1>3. CASE /\ checkpoint.state = "done" /\ Due(checkpoint)
           /\ probe' = [probe EXCEPT ![p].pc = "open", ![p].base = checkpoint.generation]
  <2> DEFINE r == [probe[p] EXCEPT !.pc = "open", !.base = checkpoint.generation]
  <2>1. checkpoint.generation \in Nat /\ checkpoint.generation + 1 <= slots
    BY <1>1, <1>3 DEF Timely, Due
  <2>2. Decided(r)
    BY <1>1, <2>1 DEF Decided, Idle
  <2>3. probe' = [probe EXCEPT ![p] = r]
    BY <1>3 DEF SlotsInv
  <2> HIDE DEF r
  <2> QED
    BY <1>1, <2>2, <2>3, ProbeKeeps
<1> QED
  BY <1>2, <1>3 DEF Begin

LEMMA OpenRunKeeps ==
  ASSUME SlotsInv, NEW p \in Probe, OpenRun(p)
  PROVE  SlotsInv'
<1> DEFINE c == NewGeneration(checkpoint, probe[p].base + 1, p)
           r == [probe[p] EXCEPT !.pc = "claim", !.cp = c]
<1>1. UNCHANGED <<checkpoint, slots>> /\ slots \in Nat /\ Timely(checkpoint) /\ Decided(probe[p])
  BY DEF OpenRun, SlotsInv
<1>2. CASE Leave(p)
  BY <1>1, <1>2, LeaveKeeps
<1>3. CASE probe' = [probe EXCEPT ![p].pc = "claim", ![p].cp = c]
  <2>1. probe[p].base \in Nat /\ probe[p].base + 1 <= slots
    BY <1>1 DEF OpenRun, Decided
  <2>2. Timely(c)
    <3>1. probe[p].base + 1 \in Nat
      BY <2>1
    <3>2. \A q : \A g \in Nat : g <= slots => Timely(NewGeneration(checkpoint, g, q))
      BY <1>1, Transitions
    <3> QED
      BY <2>1, <3>1, <3>2
  <2> HIDE DEF c
  <2>3. Decided(r)
    BY <1>1, <2>1, <2>2 DEF Decided, Idle
  <2>4. probe' = [probe EXCEPT ![p] = r]
    BY <1>3 DEF SlotsInv
  <2> HIDE DEF r
  <2> QED
    BY <1>1, <2>3, <2>4, ProbeKeeps
<1> QED
  BY <1>2, <1>3 DEF OpenRun

LEMMA PersistKeeps ==
  ASSUME SlotsInv, NEW p \in Probe, PersistReclaim(p) \/ PersistClaim(p)
  PROVE  SlotsInv'
<1>1. UNCHANGED slots /\ slots \in Nat /\ Timely(probe[p].cp)
  BY DEF PersistReclaim, PersistClaim, SlotsInv, Decided
<1>2. CASE Leave(p) /\ UNCHANGED checkpoint
  BY <1>1, <1>2, LeaveKeeps
<1>3. CASE Take(p)
  <2>1. Decided(Planning("scan", probe[p].cp))
    BY <1>1, PlanningDecided
  <2> QED
    BY <1>1, <1>3, <2>1, ProbeKeeps DEF Take
<1> QED
  BY <1>2, <1>3 DEF PersistReclaim, PersistClaim

LEMMA ScanKeeps ==
  ASSUME SlotsInv, NEW p \in Probe, Scan(p)
  PROVE  SlotsInv'
<1>1. PICK key \in {sortBy, "id"} : probe' = [probe EXCEPT ![p] = Scanned(p, key)]
  BY DEF Scan
<1>2. UNCHANGED <<checkpoint, slots>> /\ Timely(checkpoint) /\ Decided(probe[p])
  BY DEF Scan, SlotsInv
<1>3. ASSUME NEW pc \in {"authors", "send"}, NEW plans, NEW n, NEW full
      PROVE  Decided([probe[p] EXCEPT !.pc = pc, !.key = key, !.plans = plans,
                                      !.next = n, !.full = full])
  BY <1>2 DEF Decided, Idle
<1>4. Decided(Scanned(p, key))
  BY <1>3 DEF Scanned
<1> QED
  BY <1>1, <1>2, <1>4, ProbeKeeps

LEMMA SendKeeps ==
  ASSUME SlotsInv, NEW p \in Probe, Send(p) \/ SendFails(p) \/ Authors(p)
  PROVE  SlotsInv'
<1>1. UNCHANGED <<checkpoint, slots>> /\ slots \in Nat /\ Timely(checkpoint) /\ Timely(probe[p].cp)
  BY DEF Send, SendFails, Authors, SlotsInv, Decided
<1>2. Decided(Dispatched(p))
  <2>1. Timely(Advanced(probe[p].cp, probe[p].key, probe[p].next))
    BY <1>1, Transitions
  <2> QED
    BY <1>1, <2>1, PlanningDecided DEF Dispatched
<1>3. Decided(Undispatched(p))
  BY <1>1, IdleDecided DEF Undispatched
<1>4. Decided(Planning("save", Finished(probe[p].cp)))
  BY <1>1, Transitions, PlanningDecided
<1>5. CASE Send(p)
  BY <1>1, <1>2, <1>5, ProbeKeeps DEF Send
<1>6. CASE SendFails(p)
  BY <1>1, <1>3, <1>6, ProbeKeeps DEF SendFails
<1>7. CASE Authors(p)
  BY <1>1, <1>4, <1>7, ProbeKeeps DEF Authors
<1> QED
  BY <1>5, <1>6, <1>7

LEMMA EndKeeps ==
  ASSUME SlotsInv, NEW p \in Probe, Save(p) \/ Crash(p)
  PROVE  SlotsInv'
BY LeaveKeeps DEF Save, Crash

-----------------------------------------------------------------------------
(* Time passes, and the library changes.                                   *)
LEMMA TickKeeps ==
  ASSUME SlotsInv, Tick
  PROVE  SlotsInv'
<1>1. /\ UNCHANGED <<checkpoint, slots>> /\ DOMAIN probe' = Probe
      /\ \A p \in Probe : probe'[p] \in {probe[p], [probe[p] EXCEPT !.age = @ + 1]}
  BY DEF Tick
<1>2. \A p \in Probe : /\ DOMAIN probe'[p] = DOMAIN Idle
                       /\ probe'[p].cp = probe[p].cp /\ probe'[p].pc = probe[p].pc
                       /\ probe'[p].base = probe[p].base
  BY <1>1 DEF SlotsInv, Decided, Idle
<1> QED
  BY <1>1, <1>2 DEF SlotsInv, Decided, Timely

LEMMA SlotPassesKeeps ==
  ASSUME SlotsInv, SlotPasses
  PROVE  SlotsInv'
BY DEF SlotPasses, SlotsInv, Decided, Timely

LEMMA SlotsStep == SlotsInv /\ [Next]_vars => SlotsInv'
<1> SUFFICES ASSUME SlotsInv, [Next]_vars PROVE SlotsInv'
  OBVIOUS
<1>1. ASSUME NEW p \in Probe, Step(p) \/ SendFails(p) \/ Crash(p) PROVE SlotsInv'
  BY <1>1, BeginKeeps, OpenRunKeeps, PersistKeeps, ScanKeeps, SendKeeps, EndKeeps DEF Step
<1>2. CASE Tick
  BY <1>2, TickKeeps
<1>3. CASE SlotPasses
  BY <1>3, SlotPassesKeeps
<1>4. CASE UNCHANGED <<checkpoint, probe, slots>>
  BY <1>4 DEF SlotsInv, Decided, Timely
<1> QED
  BY <1>1, <1>2, <1>3, <1>4 DEF Next, Edit, vars

(* Every probe that is about to open a generation decided on a scheduled   *)
(* time that none has been opened for.                                     *)
THEOREM SlotsInvariant == Spec => []SlotsInv
<1>1. Init => SlotsInv
  BY IdleDecided DEF Init, SlotsInv
<1> QED
  BY <1>1, SlotsStep, PTL DEF Spec

(* However many probes read one scheduled time, and whichever of them      *)
(* crash or come late, it opens one generation at most.                    *)
THEOREM OpenedOnce == Spec => []OncePerSlot
<1>1. SlotsInv => OncePerSlot
  BY DEF SlotsInv, Timely, OncePerSlot
<1> QED
  BY <1>1, SlotsInvariant, PTL
-----------------------------------------------------------------------------
(* Finite sets of ids.                                                     *)
LEMMA Extremes ==
  ASSUME NEW S, S \subseteq Nat, IsFiniteSet(S), S # {}
  PROVE  /\ \E n \in S : \A m \in S : n <= m
         /\ \E n \in S : \A m \in S : m <= n
<1> DEFINE Below == {{m \in S : m <= n} : n \in S}
           Above == {{m \in S : m >= n} : n \in S}
           R == StrictSubsetOrdering(S)
<1>1. IsWellFoundedOn(R, SUBSET S)
  <2>1. FiniteSubsetsOf(S) = SUBSET S
    BY FS_FiniteSubsetsOfFinite
  <2>2. IsWellFoundedOn(R, FiniteSubsetsOf(S))
    BY FS_StrictSubsetOrderingWellFounded
  <2> QED
    BY <2>1, <2>2, Zenon
<1>2. \A T, U \in SUBSET S : T # U /\ T \subseteq U => <<T, U>> \in R
  BY DEF StrictSubsetOrdering
<1>3. Below \subseteq SUBSET S /\ Below # {} /\ Above \subseteq SUBSET S /\ Above # {}
  OBVIOUS
<1> HIDE DEF R
<1>4. \A n, m \in S : n <= m \/ m < n
  OBVIOUS
<1>5. \E n \in S : \A m \in S : n <= m
  <2>1. PICK T \in Below : \A U \in Below : ~(<<U, T>> \in R)
    <3> HIDE DEF Below
    <3> QED
      BY <1>1, <1>3, WFMin, Zenon
  <2>2. PICK n \in S : T = {m \in S : m <= n}
    BY <2>1
  <2>3. ASSUME NEW m \in S, m < n
        PROVE  FALSE
    <3> DEFINE U == {k \in S : k <= m}
    <3>1. U \in Below
      OBVIOUS
    <3>2. U \subseteq T /\ n \in T /\ n \notin U
      <4>1. n \in Nat /\ m \in Nat /\ \A k \in S : k \in Nat
        OBVIOUS
      <4>2. \A k \in S : k \in U => k \in T
        BY <2>2, <2>3, <4>1
      <4>3. n \in T
        BY <2>2, <4>1
      <4>4. n \notin U
        BY <2>3, <4>1
      <4> QED
        BY <4>2, <4>3, <4>4
    <3> QED
      BY <1>2, <2>1, <2>2, <3>1, <3>2
  <2> QED
    BY <1>4, <2>2, <2>3
<1>6. \E n \in S : \A m \in S : m <= n
  <2>1. PICK T \in Above : \A U \in Above : ~(<<U, T>> \in R)
    <3> HIDE DEF Above
    <3> QED
      BY <1>1, <1>3, WFMin, Zenon
  <2>2. PICK n \in S : T = {m \in S : m >= n}
    BY <2>1
  <2>3. ASSUME NEW m \in S, n < m
        PROVE  FALSE
    <3> DEFINE U == {k \in S : k >= m}
    <3>1. U \in Above
      OBVIOUS
    <3>2. U \subseteq T /\ n \in T /\ n \notin U
      <4>1. n \in Nat /\ m \in Nat /\ \A k \in S : k \in Nat
        OBVIOUS
      <4>2. \A k \in S : k \in U => k \in T
        BY <2>2, <2>3, <4>1
      <4>3. n \in T
        BY <2>2, <4>1
      <4>4. n \notin U
        BY <2>3, <4>1
      <4> QED
        BY <4>2, <4>3, <4>4
    <3> QED
      BY <1>2, <2>1, <2>2, <3>1, <3>2
  <2> QED
    BY <1>4, <2>2, <2>3
<1> QED
  BY <1>5, <1>6

(* The first ids of a set: none left out before one taken, and a page that *)
(* is not full leaves out none.                                            *)
LEMMA FirstOnes ==
  ASSUME NEW S, S \subseteq Nat, IsFiniteSet(S)
  PROVE  /\ FirstIds(S) \subseteq S
         /\ \A n \in FirstIds(S), m \in S : m <= n => m \in FirstIds(S)
         /\ Cardinality(FirstIds(S)) # PageSize => FirstIds(S) = S
<1> DEFINE upto(n) == {m \in S : m <= n}
           page == FirstIds(S)
<1>1. page = {n \in S : Cardinality(upto(n)) <= PageSize} /\ page \subseteq S
  BY DEF FirstIds
<1>2. \A n \in S : IsFiniteSet(upto(n)) /\ Cardinality(upto(n)) \in Nat
  BY FS_Subset, FS_CardinalityType
<1>3. ASSUME NEW n \in S, NEW m \in S, m <= n
      PROVE  Cardinality(upto(m)) <= Cardinality(upto(n))
  <2>1. upto(m) \in SUBSET upto(n)
    <3>1. n \in Nat /\ m \in Nat /\ \A k \in S : k \in Nat
      OBVIOUS
    <3>2. \A k \in S : k <= m => k <= n
      BY <1>3, <3>1
    <3> QED
      BY <3>2
  <2> QED
    BY <1>2, <2>1, FS_Subset
<1> HIDE DEF upto, page
<1>4. ASSUME NEW n \in page, NEW m \in S, m <= n
      PROVE  m \in page
  BY <1>1, <1>2, <1>3, <1>4, PlannerAssumption
<1>5. ASSUME page # S
      PROVE  Cardinality(page) = PageSize
  <2>1. PICK x \in S \ page : \A y \in S \ page : x <= y
    <3>1. IsFiniteSet(S \ page) /\ S \ page # {} /\ S \ page \subseteq Nat
      BY <1>1, <1>5, FS_Difference
    <3> DEFINE rest == S \ page
    <3> HIDE DEF rest
    <3>2. rest # {} /\ rest \subseteq Nat /\ IsFiniteSet(rest)
      BY <3>1 DEF rest
    <3>3. \E x \in rest : \A y \in rest : x <= y
      BY <3>2, Extremes
    <3> QED
      BY <3>3 DEF rest
  <2>2. Cardinality(upto(x)) > PageSize
    BY <1>1, <1>2, <2>1, PlannerAssumption
  <2>3. upto(x) \ {x} = page
    <3>1. ASSUME NEW y \in S PROVE y <= x /\ y # x <=> y \in page
      BY <1>1, <1>4, <2>1, <3>1
    <3> QED
      BY <1>1, <2>1, <3>1 DEF upto
  <2>4. Cardinality(page) = Cardinality(upto(x)) - 1 /\ IsFiniteSet(page)
    BY <1>2, <2>1, <2>3, FS_RemoveElement DEF upto
  <2>5. Cardinality(page) <= PageSize
    <3>1. CASE page = {}
      BY <3>1, FS_EmptySet, PlannerAssumption
    <3>2. CASE page # {}
      <4>1. PICK n \in page : \A m \in page : m <= n
        BY <1>1, <2>4, <3>2, Extremes
      <4>2. page \in SUBSET upto(n)
        BY <1>1, <4>1 DEF upto
      <4>3. Cardinality(upto(n)) <= PageSize /\ Cardinality(page) <= Cardinality(upto(n))
        BY <1>1, <1>2, <4>1, <4>2, FS_Subset
      <4> QED
        BY <1>1, <1>2, <2>4, <4>1, <4>3, FS_CardinalityType, PlannerAssumption
    <3> QED
      BY <3>1, <3>2
  <2> QED
    BY <1>2, <2>1, <2>2, <2>4, <2>5, PlannerAssumption
<1> QED
  BY <1>1, <1>4, <1>5 DEF page

-----------------------------------------------------------------------------
(* The order of the library.                                               *)
Distinct(s) == \A i, j \in DOMAIN s : s[i] = s[j] => i = j

LEMMA Indexed ==
  ASSUME NEW s \in Seq(Novel)
  PROVE  /\ Len(s) \in Nat /\ DOMAIN s = 1..Len(s) /\ \A i \in 1..Len(s) : s[i] \in Novel /\ i \in Nat
         /\ ToSet(s) = {s[i] : i \in 1..Len(s)} /\ ToSet(s) \subseteq Novel
<1>1. Len(s) \in Nat /\ DOMAIN s = 1..Len(s) /\ s \in [1..Len(s) -> Novel]
  BY LenProperties
<1> QED
  BY <1>1 DEF ToSet

LEMMA Joined ==
  ASSUME NEW s \in Seq(Novel), NEW t \in Seq(Novel)
  PROVE  /\ s \o t \in Seq(Novel) /\ Len(s \o t) = Len(s) + Len(t)
         /\ \A i \in 1..Len(s) : (s \o t)[i] = s[i]
         /\ \A i \in 1..Len(t) : (s \o t)[Len(s) + i] = t[i]
<1>1. /\ s \o t \in Seq(Novel) /\ Len(s \o t) = Len(s) + Len(t)
      /\ \A i \in 1..Len(s) + Len(t) :
            (s \o t)[i] = IF i <= Len(s) THEN s[i] ELSE t[i - Len(s)]
  BY ConcatProperties
<1>2. Len(s) \in Nat /\ Len(t) \in Nat
  BY Indexed
<1> DEFINE st == s \o t
<1> HIDE DEF st
<1>3. \A i \in 1..Len(t) : st[Len(s) + i] = t[i]
  <2> TAKE i \in 1..Len(t)
  <2>1. Len(s) + i \in 1..Len(s) + Len(t) /\ ~(Len(s) + i <= Len(s)) /\ (Len(s) + i) - Len(s) = i
    BY <1>2
  <2> QED
    BY <1>1, <2>1 DEF st
<1>4. \A i \in 1..Len(s) : st[i] = s[i]
  BY <1>1, <1>2 DEF st
<1> QED
  BY <1>1, <1>3, <1>4 DEF st

(* Distinct sequences without an element in common make a distinct one.    *)
LEMMA JoinedDistinct ==
  ASSUME NEW s \in Seq(Novel), NEW t \in Seq(Novel), Distinct(s), Distinct(t),
         ToSet(s) \cap ToSet(t) = {}
  PROVE  Distinct(s \o t) /\ ToSet(s \o t) = ToSet(s) \cup ToSet(t)
<1> DEFINE st == s \o t
<1>1. /\ st \in Seq(Novel) /\ Len(st) = Len(s) + Len(t)
      /\ \A i \in 1..Len(s) : st[i] = s[i]
      /\ \A i \in 1..Len(t) : st[Len(s) + i] = t[i]
  BY Joined
<1> HIDE DEF st
<1>2. /\ Len(s) \in Nat /\ Len(t) \in Nat /\ DOMAIN s = 1..Len(s) /\ DOMAIN t = 1..Len(t)
      /\ DOMAIN st = 1..Len(s) + Len(t)
      /\ ToSet(s) = {s[i] : i \in 1..Len(s)} /\ ToSet(t) = {t[i] : i \in 1..Len(t)}
      /\ ToSet(st) = {st[i] : i \in 1..Len(s) + Len(t)}
  BY <1>1, Indexed
<1>3. \A i \in 1..Len(s) + Len(t) :
         \/ i \in 1..Len(s) /\ st[i] = s[i]
         \/ \E k \in 1..Len(t) : i = Len(s) + k /\ st[i] = t[k]
  <2> TAKE i \in 1..Len(s) + Len(t)
  <2>1. CASE i <= Len(s)
    BY <1>1, <1>2, <2>1
  <2>2. CASE ~(i <= Len(s))
    <3>1. i - Len(s) \in 1..Len(t) /\ i = Len(s) + (i - Len(s))
      BY <1>2, <2>2
    <3> QED
      BY <1>1, <3>1
  <2> QED
    BY <2>1, <2>2
<1>4. Distinct(st)
  <2>1. ASSUME NEW i \in DOMAIN st, NEW j \in DOMAIN st, st[i] = st[j]
        PROVE  i = j
    <3>1. CASE i \in 1..Len(s) /\ st[i] = s[i] /\ j \in 1..Len(s) /\ st[j] = s[j]
      BY <1>2, <2>1, <3>1 DEF Distinct
    <3>2. CASE /\ \E k \in 1..Len(t) : i = Len(s) + k /\ st[i] = t[k]
               /\ \E k \in 1..Len(t) : j = Len(s) + k /\ st[j] = t[k]
      BY <1>2, <2>1, <3>2 DEF Distinct
    <3>3. CASE /\ i \in 1..Len(s) /\ st[i] = s[i]
               /\ \E k \in 1..Len(t) : j = Len(s) + k /\ st[j] = t[k]
      BY <1>2, <2>1, <3>3
    <3>4. CASE /\ j \in 1..Len(s) /\ st[j] = s[j]
               /\ \E k \in 1..Len(t) : i = Len(s) + k /\ st[i] = t[k]
      BY <1>2, <2>1, <3>4
    <3> QED
      BY <1>2, <1>3, <3>1, <3>2, <3>3, <3>4
  <2> QED
    BY <2>1 DEF Distinct
<1>5. ToSet(st) = ToSet(s) \cup ToSet(t)
  <2>1. \A n : n \in ToSet(st) => n \in ToSet(s) \cup ToSet(t)
    BY <1>2, <1>3
  <2>2. \A n \in ToSet(s) : n \in ToSet(st)
    <3>1. \A i \in 1..Len(s) : i \in 1..Len(s) + Len(t)
      BY <1>2
    <3> QED
      BY <1>1, <1>2, <3>1
  <2>3. \A n \in ToSet(t) : n \in ToSet(st)
    <3>1. \A i \in 1..Len(t) : Len(s) + i \in 1..Len(s) + Len(t)
      BY <1>2
    <3> QED
      BY <1>1, <1>2, <3>1
  <2> QED
    BY <2>1, <2>2, <2>3
<1> QED
  BY <1>4, <1>5 DEF st

(* A part of a distinct sequence.                                          *)
LEMMA PartDistinct ==
  ASSUME NEW s \in Seq(Novel), Distinct(s), NEW a \in Nat \ {0}, NEW b \in 0..Len(s)
  PROVE  LET t == SubSeq(s, a, b)
         IN  t \in Seq(Novel) /\ Distinct(t) /\ ToSet(t) = {s[i] : i \in a..b}
<1> DEFINE t == SubSeq(s, a, b)
           k == IF a <= b THEN b - a + 1 ELSE 0
<1>1. Len(s) \in Nat /\ DOMAIN s = 1..Len(s) /\ \A i \in 1..Len(s) : s[i] \in Novel
  BY Indexed
<1>2. a \in Int /\ b \in Int /\ \A i \in a..b : s[i] \in Novel /\ i \in 1..Len(s)
  BY <1>1
<1>3. /\ t \in Seq(Novel) /\ Len(t) = k
      /\ \A i \in 1..b - a + 1 : t[i] = s[a + i - 1]
  BY <1>2, SubSeqProperties
<1>4. k \in Nat /\ \A i \in 1..k : i \in 1..b - a + 1 /\ a + i - 1 \in a..b
  BY <1>2
<1>5. \A i \in a..b : i - a + 1 \in 1..k /\ a + (i - a + 1) - 1 = i
  BY <1>2
<1> HIDE DEF t, k
<1>6. DOMAIN t = 1..k /\ ToSet(t) = {t[i] : i \in 1..k} /\ \A i \in 1..k : t[i] = s[a + i - 1]
  BY <1>3, <1>4, Indexed
<1>7. Distinct(t)
  BY <1>1, <1>2, <1>4, <1>6 DEF Distinct
<1>8. ToSet(t) = {s[i] : i \in a..b}
  <2>1. ASSUME NEW i \in 1..k PROVE t[i] \in {s[j] : j \in a..b}
    BY <1>4, <1>6
  <2>2. ASSUME NEW j \in a..b PROVE s[j] \in {t[i] : i \in 1..k}
    <3>1. j - a + 1 \in 1..k /\ t[j - a + 1] = s[a + (j - a + 1) - 1]
      BY <1>5, <1>6
    <3>2. t[j - a + 1] = s[j]
      BY <1>5, <3>1
    <3> QED
      BY <3>1, <3>2
  <2> QED
    BY <1>6, <2>1, <2>2
<1> QED
  BY <1>3, <1>7, <1>8 DEF t

-----------------------------------------------------------------------------
(* The edits of the shelf: a novel is taken out, put in, moved to the front. *)
LEMMA Removed ==
  ASSUME NEW s \in Seq(Novel), Distinct(s), NEW i \in DOMAIN s
  PROVE  /\ RemoveAt(s, i) \in Seq(Novel) /\ Distinct(RemoveAt(s, i))
         /\ ToSet(RemoveAt(s, i)) = ToSet(s) \ {s[i]}
<1> DEFINE front == SubSeq(s, 1, i - 1)
           back == SubSeq(s, i + 1, Len(s))
<1>1. /\ Len(s) \in Nat /\ DOMAIN s = 1..Len(s) /\ i \in Int /\ i \in 1..Len(s)
      /\ ToSet(s) = {s[j] : j \in 1..Len(s)}
  BY Indexed
<1>2. i - 1 \in 0..Len(s) /\ i + 1 \in Nat \ {0} /\ 1 \in Nat \ {0} /\ Len(s) \in 0..Len(s)
  BY <1>1
<1>3. front \in Seq(Novel) /\ Distinct(front) /\ ToSet(front) = {s[j] : j \in 1..i - 1}
  BY <1>2, PartDistinct
<1>4. back \in Seq(Novel) /\ Distinct(back) /\ ToSet(back) = {s[j] : j \in i + 1..Len(s)}
  BY <1>2, PartDistinct
<1>5. RemoveAt(s, i) = front \o back
  BY DEF RemoveAt
<1> HIDE DEF front, back
<1>6. \A j \in 1..Len(s) : j \in 1..i - 1 \/ j = i \/ j \in i + 1..Len(s)
  BY <1>1
<1>7. /\ \A j \in 1..i - 1 : j \in 1..Len(s) /\ j # i
      /\ \A j \in i + 1..Len(s) : j \in 1..Len(s) /\ j # i
      /\ \A j \in 1..i - 1, k \in i + 1..Len(s) : j # k
  BY <1>1
<1>8. ToSet(front) \cap ToSet(back) = {}
  BY <1>1, <1>3, <1>4, <1>7 DEF Distinct
<1>9. ToSet(front) \cup ToSet(back) = ToSet(s) \ {s[i]}
  <2>1. \A n \in ToSet(front) \cup ToSet(back) : n \in ToSet(s) \ {s[i]}
    BY <1>1, <1>3, <1>4, <1>7 DEF Distinct
  <2>2. \A n \in ToSet(s) \ {s[i]} : n \in ToSet(front) \cup ToSet(back)
    BY <1>1, <1>3, <1>4, <1>6
  <2> QED
    BY <2>1, <2>2
<1>10. Distinct(front \o back) /\ ToSet(front \o back) = ToSet(front) \cup ToSet(back)
  BY <1>3, <1>4, <1>8, JoinedDistinct
<1>11. front \o back \in Seq(Novel)
  BY <1>3, <1>4, Joined
<1> QED
  BY <1>5, <1>9, <1>10, <1>11

LEMMA Single ==
  ASSUME NEW n \in Novel
  PROVE  <<n>> \in Seq(Novel) /\ Distinct(<<n>>) /\ ToSet(<<n>>) = {n}
<1>1. <<n>> \in Seq(Novel) /\ Len(<<n>>) = 1 /\ <<n>>[1] = n
  OBVIOUS
<1>2. DOMAIN <<n>> = {1}
  OBVIOUS
<1> QED
  BY <1>1, <1>2 DEF Distinct, ToSet

LEMMA Fronted ==
  ASSUME NEW s \in Seq(Novel), Distinct(s), NEW n \in Novel, n \notin ToSet(s)
  PROVE  /\ <<n>> \o s \in Seq(Novel) /\ Distinct(<<n>> \o s)
         /\ ToSet(<<n>> \o s) = ToSet(s) \cup {n}
<1> DEFINE t == <<n>>
<1>1. t \in Seq(Novel) /\ Distinct(t) /\ ToSet(t) = {n}
  BY Single
<1> HIDE DEF t
<1>2. ToSet(t) \cap ToSet(s) = {}
  BY <1>1
<1>3. t \o s \in Seq(Novel)
  BY <1>1, Joined
<1>4. Distinct(t \o s) /\ ToSet(t \o s) = ToSet(t) \cup ToSet(s)
  BY <1>1, <1>2, JoinedDistinct
<1>5. ToSet(t \o s) = ToSet(s) \cup {n}
  BY <1>1, <1>4
<1> QED
  BY <1>3, <1>4, <1>5 DEF t

LEMMA Inserted ==
  ASSUME NEW s \in Seq(Novel), Distinct(s), NEW n \in Novel, n \notin ToSet(s),
         NEW i \in 1..Len(s) + 1
  PROVE  /\ InsertAt(s, i, n) \in Seq(Novel) /\ Distinct(InsertAt(s, i, n))
         /\ ToSet(InsertAt(s, i, n)) = ToSet(s) \cup {n}
<1> DEFINE front == SubSeq(s, 1, i - 1)
           back == SubSeq(s, i, Len(s))
           mid == <<n>>
<1>1. /\ Len(s) \in Nat /\ DOMAIN s = 1..Len(s) /\ i \in Int
      /\ ToSet(s) = {s[j] : j \in 1..Len(s)}
  BY Indexed
<1>2. i - 1 \in 0..Len(s) /\ i \in Nat \ {0} /\ 1 \in Nat \ {0} /\ Len(s) \in 0..Len(s)
  BY <1>1
<1>3. front \in Seq(Novel) /\ Distinct(front) /\ ToSet(front) = {s[j] : j \in 1..i - 1}
  BY <1>2, PartDistinct
<1>4. back \in Seq(Novel) /\ Distinct(back) /\ ToSet(back) = {s[j] : j \in i..Len(s)}
  BY <1>2, PartDistinct
<1>5. mid \in Seq(Novel) /\ Distinct(mid) /\ ToSet(mid) = {n}
  BY Single
<1>6. InsertAt(s, i, n) = (front \o mid) \o back
  BY DEF InsertAt
<1> HIDE DEF front, back, mid
<1>7. \A j \in 1..Len(s) : j \in 1..i - 1 \/ j \in i..Len(s)
  BY <1>1
<1>8. /\ \A j \in 1..i - 1 : j \in 1..Len(s)
      /\ \A j \in i..Len(s) : j \in 1..Len(s)
      /\ \A j \in 1..i - 1, k \in i..Len(s) : j # k
  BY <1>1
<1>9. /\ ToSet(front) \cap ToSet(back) = {} /\ n \notin ToSet(front) /\ n \notin ToSet(back)
  <2>1. ToSet(front) \cap ToSet(back) = {}
    BY <1>1, <1>3, <1>4, <1>8 DEF Distinct
  <2>2. n \notin ToSet(front)
    BY <1>1, <1>3, <1>8
  <2>3. n \notin ToSet(back)
    BY <1>1, <1>4, <1>8
  <2> QED
    BY <2>1, <2>2, <2>3
<1>10. ToSet(front) \cup ToSet(back) = ToSet(s)
  <2>1. \A m \in ToSet(front) \cup ToSet(back) : m \in ToSet(s)
    BY <1>1, <1>3, <1>4, <1>8
  <2>2. \A m \in ToSet(s) : m \in ToSet(front) \cup ToSet(back)
    BY <1>1, <1>3, <1>4, <1>7
  <2> QED
    BY <2>1, <2>2
<1> DEFINE first == front \o mid
<1>11. first \in Seq(Novel) /\ Distinct(first) /\ ToSet(first) = ToSet(front) \cup {n}
  <2>1. ToSet(front) \cap ToSet(mid) = {}
    BY <1>5, <1>9
  <2> QED
    BY <1>3, <1>5, <2>1, Joined, JoinedDistinct
<1> HIDE DEF first
<1>12. ToSet(first) \cap ToSet(back) = {}
  BY <1>9, <1>11
<1>13. first \o back \in Seq(Novel)
  BY <1>4, <1>11, Joined
<1>14. Distinct(first \o back) /\ ToSet(first \o back) = ToSet(first) \cup ToSet(back)
  BY <1>4, <1>11, <1>12, JoinedDistinct
<1>15. ToSet(first \o back) = ToSet(s) \cup {n}
  BY <1>10, <1>11, <1>14
<1> QED
  BY <1>6, <1>13, <1>14, <1>15 DEF first

(* Every novel has one place on the shelf.                                 *)
LEMMA Counted ==
  ASSUME NEW s \in Seq(Novel), Distinct(s)
  PROVE  IsFiniteSet(ToSet(s)) /\ Cardinality(ToSet(s)) = Len(s)
<1>1. /\ Len(s) \in Nat /\ s \in [1..Len(s) -> ToSet(s)] /\ DOMAIN s = 1..Len(s)
      /\ ToSet(s) = {s[j] : j \in 1..Len(s)}
  <2>1. Len(s) \in Nat /\ DOMAIN s = 1..Len(s) /\ ToSet(s) = {s[j] : j \in 1..Len(s)}
    BY Indexed
  <2>2. s \in [1..Len(s) -> Novel]
    BY <2>1, LenProperties
  <2> QED
    BY <2>1, <2>2
<1>2. s \in Bijection(1..Len(s), ToSet(s))
  BY <1>1 DEF Distinct, Bijection, Injection, Surjection, IsInjective
<1>3. IsFiniteSet(1..Len(s)) /\ Cardinality(1..Len(s)) = Len(s)
  <2>1. 1 \in Int /\ Len(s) \in Int
    BY <1>1
  <2>2. /\ IsFiniteSet(1..Len(s))
        /\ Cardinality(1..Len(s)) = IF 1 > Len(s) THEN 0 ELSE Len(s) - 1 + 1
    BY <2>1, FS_Interval
  <2> QED
    BY <1>1, <2>2
<1> QED
  BY <1>2, <1>3, FS_Bijection DEF ExistsBijection

-----------------------------------------------------------------------------
(* What a scan under a key has behind it at a cursor.                      *)
Behind(s, key, cursor) ==
  IF key = "id" THEN {n \in ToSet(s) : n <= cursor}
  ELSE {s[i] : i \in {j \in DOMAIN s : j <= cursor}}

LEMMA NothingBehind ==
  ASSUME NEW s \in Seq(Novel), NEW key \in Keys
  PROVE  Behind(s, key, 0) = {}
<1>1. DOMAIN s = 1..Len(s) /\ ToSet(s) \subseteq Novel /\ \A n \in Novel : n \in Nat /\ n # 0
  BY Indexed, PlannerAssumption
<1>2. \A n \in ToSet(s) : n \in Nat /\ ~(n <= 0)
  BY <1>1
<1>3. \A j \in DOMAIN s : ~(j <= 0)
  BY <1>1
<1> QED
  BY <1>2, <1>3 DEF Behind

(* A page lies past its cursor without a gap up to the next one, and one   *)
(* that is not full reaches the end.                                       *)
LEMMA IdPageCovers ==
  ASSUME shelf \in Seq(Novel), Distinct(shelf), NEW cursor \in Nat
  PROVE  LET page == ScanPage("id", cursor)
             next == NextCursor("id", cursor, page)
         IN  /\ page \subseteq Present /\ next \in Nat
             /\ Behind(shelf, "id", next) \subseteq Behind(shelf, "id", cursor) \cup page
             /\ Cardinality(page) # PageSize
                  => Present \subseteq Behind(shelf, "id", cursor) \cup page
<1> DEFINE S == {n \in Present : n > cursor}
           page == FirstIds(S)
           next == NextCursor("id", cursor, page)
<1>1. /\ Present \subseteq Novel /\ IsFiniteSet(Present) /\ \A n \in Present : n \in Nat
  BY Indexed, Counted, PlannerAssumption DEF Present
<1>2. S \subseteq Nat /\ IsFiniteSet(S) /\ S \subseteq Present
      /\ \A n \in Present : n <= cursor \/ n \in S
  <2>1. S \subseteq Present /\ \A n \in Present : n <= cursor \/ n \in S
    BY <1>1
  <2> QED
    BY <1>1, <2>1, FS_Subset
<1>3. ScanPage("id", cursor) = page
  BY DEF ScanPage, IdPage
<1> HIDE DEF S
<1>4. /\ page \subseteq S
      /\ \A n \in page, m \in S : m <= n => m \in page
      /\ Cardinality(page) # PageSize => page = S
  BY <1>2, FirstOnes
<1> HIDE DEF page
<1>5. page \subseteq Nat /\ IsFiniteSet(page)
  BY <1>2, <1>4, FS_Subset
<1>6. next \in Nat /\ (page = {} => next = cursor) /\ (page # {} => next \in page)
  <2>1. CASE page = {}
    BY <2>1 DEF NextCursor
  <2>2. CASE page # {}
    <3>1. \E n \in page : \A m \in page : m <= n
      BY <1>5, <2>2, Extremes
    <3>2. next = CHOOSE n \in page : \A m \in page : m <= n
      BY <2>2 DEF NextCursor
    <3>3. next \in page
      BY <3>1, <3>2
    <3> QED
      BY <1>5, <2>2, <3>3
  <2> QED
    BY <2>1, <2>2
<1> HIDE DEF next
<1>7. /\ \A c : Behind(shelf, "id", c) = {n \in Present : n <= c}
  BY DEF Behind, Present
<1>8. Behind(shelf, "id", next) \subseteq Behind(shelf, "id", cursor) \cup page
  <2> SUFFICES ASSUME NEW n \in Present, n <= next PROVE n <= cursor \/ n \in page
    BY <1>7
  <2> QED
    BY <1>2, <1>4, <1>6
<1>9. Cardinality(page) # PageSize => Present \subseteq Behind(shelf, "id", cursor) \cup page
  BY <1>2, <1>4, <1>7
<1> QED
  BY <1>2, <1>3, <1>4, <1>6, <1>8, <1>9 DEF next

LEMMA SortedPageCovers ==
  ASSUME shelf \in Seq(Novel), Distinct(shelf), NEW cursor \in Nat
  PROVE  LET page == ScanPage("sorted", cursor)
             next == NextCursor("sorted", cursor, page)
         IN  /\ page \subseteq Present /\ next \in Nat
             /\ Behind(shelf, "sorted", next) \subseteq Behind(shelf, "sorted", cursor) \cup page
             /\ Cardinality(page) # PageSize
                  => Present \subseteq Behind(shelf, "sorted", cursor) \cup page
<1> DEFINE len == Len(shelf)
           last == IF cursor + PageSize <= len THEN cursor + PageSize ELSE len
           J == {j \in DOMAIN shelf : j > cursor /\ j <= cursor + PageSize}
           page == ScanPage("sorted", cursor)
           next == NextCursor("sorted", cursor, page)
           part == SubSeq(shelf, cursor + 1, last)
           count == IF cursor + 1 <= last THEN last - cursor ELSE 0
<1>1. /\ len \in Nat /\ DOMAIN shelf = 1..len /\ Present = {shelf[i] : i \in 1..len}
      /\ PageSize \in Nat \ {0}
  BY Indexed, PlannerAssumption DEF Present
<1>2. last \in 0..len /\ cursor + 1 \in Nat \ {0} /\ cursor + 1 \in Int /\ last \in Int
  BY <1>1
<1>3. J = cursor + 1..last
  BY <1>1
<1>4. page = {shelf[i] : i \in J}
  BY DEF ScanPage, SortedPage
<1> HIDE DEF page, J
<1>5. part \in Seq(Novel) /\ Distinct(part) /\ ToSet(part) = {shelf[i] : i \in cursor + 1..last}
  BY <1>2, PartDistinct
<1>6. Len(part) = count
  <2>1. \A i \in cursor + 1..last : shelf[i] \in Novel
    BY <1>1, <1>2, Indexed
  <2>2. Len(part) = IF cursor + 1 <= last THEN last - (cursor + 1) + 1 ELSE 0
    BY <1>2, <2>1, SubSeqProperties
  <2> QED
    BY <1>2, <2>2
<1>7. Cardinality(page) = count
  <2>1. Cardinality(ToSet(part)) = Len(part)
    BY <1>5, Counted
  <2> QED
    BY <1>3, <1>4, <1>5, <1>6, <2>1
<1>8. next = cursor + count
  BY <1>7 DEF NextCursor
<1> HIDE DEF next, part
<1>9. \A c : Behind(shelf, "sorted", c) = {shelf[i] : i \in {j \in 1..len : j <= c}}
  BY <1>1 DEF Behind
<1>10. count \in Nat /\ \A i \in 1..len : i <= cursor + count => i <= cursor \/ i \in J
  BY <1>1, <1>2, <1>3
<1>11. count # PageSize => \A i \in 1..len : i <= cursor \/ i \in J
  <2> SUFFICES ASSUME NEW i \in 1..len, ~(i <= cursor), i \notin J
               PROVE  count = PageSize
    OBVIOUS
  <2>1. i > last /\ last < len
    BY <1>1, <1>2, <1>3
  <2>2. last = cursor + PageSize
    BY <2>1
  <2> HIDE DEF last
  <2>3. cursor + 1 <= last /\ last - cursor = PageSize
    BY <1>1, <2>2
  <2> QED
    BY <2>3
<1>12. J \subseteq 1..len
  BY <1>1 DEF J
<1> HIDE DEF count, last, len
<1>13. page \subseteq Present
  BY <1>1, <1>4, <1>12
<1>14. Behind(shelf, "sorted", next) \subseteq Behind(shelf, "sorted", cursor) \cup page
  <2> SUFFICES ASSUME NEW i \in 1..len, i <= next
               PROVE  shelf[i] \in Behind(shelf, "sorted", cursor) \cup page
    BY <1>9
  <2>1. i <= cursor \/ i \in J
    BY <1>8, <1>10
  <2> QED
    BY <1>4, <1>9, <2>1
<1>15. Cardinality(page) # PageSize
         => Present \subseteq Behind(shelf, "sorted", cursor) \cup page
  <2> SUFFICES ASSUME Cardinality(page) # PageSize, NEW i \in 1..len
               PROVE  shelf[i] \in Behind(shelf, "sorted", cursor) \cup page
    BY <1>1
  <2>1. i <= cursor \/ i \in J
    BY <1>7, <1>11
  <2> QED
    BY <1>4, <1>9, <2>1
<1>16. next \in Nat
  BY <1>8, <1>10
<1> QED
  BY <1>13, <1>14, <1>15, <1>16 DEF next, page

LEMMA PageCovers ==
  ASSUME shelf \in Seq(Novel), Distinct(shelf), NEW key \in Keys, NEW cursor \in Nat
  PROVE  LET page == ScanPage(key, cursor)
             next == NextCursor(key, cursor, page)
         IN  /\ page \subseteq Present /\ next \in Nat
             /\ Behind(shelf, key, next) \subseteq Behind(shelf, key, cursor) \cup page
             /\ Cardinality(page) # PageSize
                  => Present \subseteq Behind(shelf, key, cursor) \cup page
<1>1. CASE key = "id"
  BY <1>1, IdPageCovers
<1>2. CASE key = "sorted"
  BY <1>2, SortedPageCovers
<1> QED
  BY <1>1, <1>2 DEF Keys

-----------------------------------------------------------------------------
(* What has been sent of the novels E by a generation that sent Q, when the *)
(* order is s: all that a checkpoint's cursor left behind ...               *)
Passed(s, E, Q, c) ==
  (IF c.state = "done" THEN E ELSE E \cap Behind(s, c.key, c.cursor)) \subseteq Q

(* ... and, for a planner under way, all that its page adds to it.          *)
Planned(s, E, Q, r) ==
  /\ Passed(s, E, Q, r.cp)
  /\ r.pc = "send" =>
       (IF r.full THEN E \cap Behind(s, r.key, r.next) ELSE E) \subseteq Q \cup r.plans
  /\ r.pc = "authors" => E \subseteq Q

LEMMA MoreSent ==
  ASSUME NEW s, NEW E, NEW Q, NEW E2, NEW Q2, E2 \subseteq E, Q \subseteq Q2
  PROVE  /\ \A c : Passed(s, E, Q, c) => Passed(s, E2, Q2, c)
         /\ \A r : Planned(s, E, Q, r) => Planned(s, E2, Q2, r)
<1>1. \A c : Passed(s, E, Q, c) => Passed(s, E2, Q2, c)
  <2> TAKE c
  <2> DEFINE B == Behind(s, c.key, c.cursor)
  <2> HIDE DEF B
  <2>1. (IF c.state = "done" THEN E ELSE E \cap B) \subseteq Q
          => (IF c.state = "done" THEN E2 ELSE E2 \cap B) \subseteq Q2
    OBVIOUS
  <2> QED
    BY <2>1 DEF Passed, B
<1>2. \A r : Planned(s, E, Q, r) => Planned(s, E2, Q2, r)
  <2> TAKE r
  <2> DEFINE B == Behind(s, r.key, r.next)
  <2> HIDE DEF B
  <2>1. (IF r.full THEN E \cap B ELSE E) \subseteq Q \cup r.plans
          => (IF r.full THEN E2 \cap B ELSE E2) \subseteq Q2 \cup r.plans
    OBVIOUS
  <2> QED
    BY <1>1, <2>1 DEF Planned, B
<1> QED
  BY <1>1, <1>2

(* Ids stay where they are however the shelf is arranged.                  *)
LEMMA Reshelved ==
  ASSUME NEW s, NEW t, NEW E, NEW Q, E \subseteq ToSet(s), E \subseteq ToSet(t)
  PROVE  /\ \A c : c.key = "id" /\ Passed(s, E, Q, c) => Passed(t, E, Q, c)
         /\ \A r : /\ r.key = "id" /\ r.cp.key = "id" /\ Planned(s, E, Q, r)
                   => Planned(t, E, Q, r)
<1>1. \A x : E \cap Behind(s, "id", x) = E \cap Behind(t, "id", x)
  BY DEF Behind
<1>2. \A c : c.key = "id" => (Passed(s, E, Q, c) <=> Passed(t, E, Q, c))
  BY <1>1 DEF Passed
<1>3. \A r : r.key = "id" /\ r.cp.key = "id" /\ Planned(s, E, Q, r) => Planned(t, E, Q, r)
  <2> TAKE r
  <2> SUFFICES ASSUME r.key = "id", r.cp.key = "id", Planned(s, E, Q, r)
               PROVE  Planned(t, E, Q, r)
    OBVIOUS
  <2>1. Passed(t, E, Q, r.cp)
    BY <1>2 DEF Planned
  <2>2. E \cap Behind(s, r.key, r.next) = E \cap Behind(t, r.key, r.next)
    BY <1>1
  <2> QED
    BY <2>1, <2>2 DEF Planned
<1> QED
  BY <1>2, <1>3

-----------------------------------------------------------------------------
(* The types of a checkpoint and of a probe, without the bounds.            *)
Row ==
  [generation : Nat, state : {"running", "done"}, cursor : Nat, key : Keys,
   lastRun : Nat, token : Probe \cup {NoToken}]

ProbeRow ==
  [pc : {"idle", "open", "claim", "reclaim", "scan", "send", "authors", "save"},
   age : Nat, cp : Row, base : Nat, key : Keys, plans : SUBSET Novel,
   next : Nat, full : BOOLEAN]

(* A token names an owner exactly while a generation runs.                 *)
Tokened(c) == c.token = NoToken <=> c.state = "done"

Owner == {"reclaim", "scan", "send", "authors", "save"}

(* A probe that owns, or owned, the row knows a generation the row has     *)
(* reached; one that opens a generation is a step past what it read.       *)
Fit(p, r, generation, f) ==
  /\ r \in ProbeRow /\ Tokened(r.cp)
  /\ r.age <= f /\ r.base <= generation
  /\ r.pc \in {"reclaim", "claim", "scan", "send", "authors"} =>
       r.cp.state = "running" /\ r.cp.token = p
  /\ r.pc = "claim" =>
       r.cp.generation = r.base + 1 /\ r.cp.cursor = 0 /\ r.cp.key = "id"
  /\ r.pc = "reclaim" => r.cp.generation = r.base
  /\ r.pc \in Owner => r.cp.generation <= generation

Fits ==
  /\ probe \in [Probe -> ProbeRow]
  /\ \A p \in Probe : Fit(p, probe[p], checkpoint.generation, faults)

Shape ==
  /\ checkpoint \in Row /\ Tokened(checkpoint)
  /\ lease \in -MaxFaults..Lease
  /\ slots \in 0..MaxSlots /\ faults \in 0..MaxFaults
  /\ shelf \in Seq(Novel) /\ Distinct(shelf)
  /\ frozen \subseteq Novel /\ enqueued \subseteq Novel
  /\ sortBy \in Keys /\ drift \in BOOLEAN

(* Who is eligible is in the library, may be updated and is not frozen.    *)
Library == eligible \subseteq (Present \cap Allowed) \ frozen

(* The row and every planner of its generation have sent what they passed. *)
Progress ==
  checkpoint.generation > 0 /\ ~drift =>
    /\ Passed(shelf, eligible, enqueued, checkpoint)
    /\ \A p \in Probe :
         probe[p].pc \in Owner /\ probe[p].cp.generation = checkpoint.generation
           => Planned(shelf, eligible, enqueued, probe[p])

PlannerInv == Shape /\ Fits /\ Library /\ Progress /\ SlotsInv

LEMMA FreshRows ==
  /\ Fresh \in Row /\ Tokened(Fresh)
  /\ Idle \in ProbeRow
  /\ \A p : \A g, f \in Nat : Fit(p, Idle, g, f)
<1>1. Fresh \in Row /\ Tokened(Fresh)
  BY DEF Fresh, Row, Keys, Tokened
<1>2. Idle \in ProbeRow
  BY <1>1 DEF Idle, ProbeRow, Keys
<1>3. Idle.pc = "idle" /\ Idle.age = 0 /\ Idle.base = 0 /\ Idle.cp = Fresh
  BY DEF Idle
<1>4. \A p : \A g, f \in Nat : Fit(p, Idle, g, f)
  BY <1>1, <1>2, <1>3 DEF Fit, Owner
<1> QED
  BY <1>1, <1>2, <1>4

LEMMA Planned1 ==
  ASSUME NEW pc \in {"scan", "send", "authors", "save"}, NEW c \in Row
  PROVE  /\ Planning(pc, c) \in ProbeRow
         /\ Planning(pc, c).pc = pc /\ Planning(pc, c).cp = c
         /\ Planning(pc, c).age = 0 /\ Planning(pc, c).base = 0
BY DEF Planning, Idle, ProbeRow, Row, Keys

(* A row that moves on keeps what the probes know of it.                   *)
LEMMA FitLater ==
  ASSUME NEW p, NEW r, NEW g \in Nat, NEW h \in Nat, g <= h,
         NEW e \in Nat, NEW f \in Nat, e <= f, Fit(p, r, g, e)
  PROVE  Fit(p, r, h, f)
<1>1. r.base \in Nat /\ r.age \in Nat /\ r.cp.generation \in Nat
  BY DEF Fit, ProbeRow, Row
<1> QED
  BY <1>1 DEF Fit

LEMMA ProbeFits ==
  ASSUME Shape, Fits, NEW p \in Probe, NEW r, NEW c, NEW f,
         probe' = [probe EXCEPT ![p] = r], checkpoint' = c, faults' = f,
         c \in Row, checkpoint.generation <= c.generation,
         f \in Nat, faults <= f, Fit(p, r, c.generation, f)
  PROVE  Fits'
<1>1. r \in ProbeRow
  BY DEF Fit
<1>2. probe' \in [Probe -> ProbeRow]
  BY <1>1 DEF Fits
<1>3. /\ checkpoint.generation \in Nat /\ c.generation \in Nat /\ faults \in Nat
  BY PlannerAssumption DEF Shape, Row
<1>4. ASSUME NEW q \in Probe
      PROVE  Fit(q, probe'[q], c.generation, f)
  <2>1. CASE q = p
    <3>1. probe'[p] = r
      BY DEF Fits
    <3> QED
      BY <2>1, <3>1
  <2>2. CASE q # p
    <3>1. probe'[q] = probe[q]
      BY <2>2 DEF Fits
    <3>2. Fit(q, probe[q], checkpoint.generation, faults)
      BY DEF Fits
    <3> QED
      BY <1>3, <3>1, <3>2, FitLater
  <2> QED
    BY <2>1, <2>2
<1> QED
  BY <1>2, <1>4 DEF Fits

(* A step within a generation: the others keep their plans, the row and     *)
(* the probe that moved must have theirs.                                   *)
LEMMA SameGeneration ==
  ASSUME Fits, Progress, NEW p \in Probe, NEW r, NEW c, NEW Q,
         probe' = [probe EXCEPT ![p] = r], checkpoint' = c, enqueued' = Q,
         UNCHANGED <<shelf, eligible, drift>>,
         c.generation = checkpoint.generation, enqueued \subseteq Q,
         c.generation > 0 /\ ~drift
           => /\ Passed(shelf, eligible, Q, c)
              /\ r.pc \in Owner /\ r.cp.generation = c.generation
                   => Planned(shelf, eligible, Q, r)
  PROVE  Progress'
<1>1. SUFFICES ASSUME c.generation > 0, ~drift
               PROVE  /\ Passed(shelf, eligible, Q, c)
                      /\ \A q \in Probe :
                           probe'[q].pc \in Owner /\ probe'[q].cp.generation = c.generation
                             => Planned(shelf, eligible, Q, probe'[q])
  BY DEF Progress
<1>2. ASSUME NEW q \in Probe, probe'[q].pc \in Owner, probe'[q].cp.generation = c.generation
      PROVE  Planned(shelf, eligible, Q, probe'[q])
  <2>1. CASE q = p
    <3>1. probe'[p] = r
      BY DEF Fits
    <3> QED
      BY <1>1, <1>2, <2>1, <3>1
  <2>2. CASE q # p
    <3>1. probe'[q] = probe[q]
      BY <2>2 DEF Fits
    <3>2. Planned(shelf, eligible, enqueued, probe[q])
      BY <1>1, <1>2, <3>1 DEF Progress
    <3> QED
      BY <3>1, <3>2, MoreSent
  <2> QED
    BY <2>1, <2>2
<1> QED
  BY <1>1, <1>2

-----------------------------------------------------------------------------
(* The steps of one probe again.                                           *)
Core == Shape /\ Fits /\ Library /\ Progress

LEMMA Numbers ==
  ASSUME Shape
  PROVE  /\ faults \in Nat /\ MaxFaults \in Nat /\ faults <= MaxFaults
         /\ checkpoint.generation \in Nat /\ checkpoint \in Row /\ Tokened(checkpoint)
BY PlannerAssumption DEF Shape, Row

LEMMA ProbeKnown ==
  ASSUME Fits, NEW p \in Probe
  PROVE  /\ probe[p] \in ProbeRow /\ probe[p].cp \in Row /\ Tokened(probe[p].cp)
         /\ Fit(p, probe[p], checkpoint.generation, faults)
         /\ probe[p].age \in Nat /\ probe[p].base \in Nat /\ probe[p].cp.generation \in Nat
BY DEF Fits, Fit, ProbeRow, Row

LEMMA LeaveCore ==
  ASSUME Core, NEW p \in Probe, Leave(p), faults' \in Nat, faults <= faults', faults' <= MaxFaults,
         enqueued \subseteq enqueued', enqueued' \subseteq Novel,
         UNCHANGED <<checkpoint, lease, library, slots, eligible, drift>>
  PROVE  Core'
<1>1. Shape'
  <2>1. faults' \in 0..MaxFaults
    BY PlannerAssumption
  <2> QED
    BY <2>1 DEF Core, Shape, library
<1>2. Fits'
  <2>1. Fit(p, Idle, checkpoint.generation, faults')
    BY FreshRows, Numbers DEF Core
  <2>2. checkpoint.generation <= checkpoint.generation /\ checkpoint \in Row
    BY Numbers DEF Core
  <2> QED
    BY <2>1, <2>2, ProbeFits DEF Core, Leave
<1>3. Library'
  BY DEF Core, Library, library, Present
<1>4. Progress'
  <2>1. Idle.pc \notin Owner
    BY DEF Idle, Owner
  <2>2. checkpoint.generation > 0 /\ ~drift => Passed(shelf, eligible, enqueued', checkpoint)
    BY MoreSent DEF Core, Progress
  <2> QED
    BY <2>1, <2>2, SameGeneration DEF Core, Leave, library
<1> QED
  BY <1>1, <1>2, <1>3, <1>4 DEF Core

(* A probe that changes only what it knows.                                *)
LEMMA ThinkCore ==
  ASSUME Core, NEW p \in Probe, NEW r, probe' = [probe EXCEPT ![p] = r],
         faults' \in Nat, faults <= faults', faults' <= MaxFaults,
         enqueued \subseteq enqueued', enqueued' \subseteq Novel,
         UNCHANGED <<checkpoint, lease, library, slots, eligible, drift>>,
         Fit(p, r, checkpoint.generation, faults'),
         (checkpoint.generation > 0 /\ ~drift /\ r.pc \in Owner
            /\ r.cp.generation = checkpoint.generation)
           => Planned(shelf, eligible, enqueued', r)
  PROVE  Core'
<1>1. Shape'
  <2>1. faults' \in 0..MaxFaults
    BY PlannerAssumption
  <2> QED
    BY <2>1 DEF Core, Shape, library
<1>2. Fits'
  <2>1. checkpoint.generation <= checkpoint.generation /\ checkpoint \in Row
    BY Numbers DEF Core
  <2> QED
    BY <2>1, ProbeFits DEF Core
<1>3. Library'
  BY DEF Core, Library, library, Present
<1>4. Progress'
  <2>1. checkpoint.generation > 0 /\ ~drift => Passed(shelf, eligible, enqueued', checkpoint)
    BY MoreSent DEF Core, Progress
  <2> QED
    BY <2>1, SameGeneration DEF Core, library
<1> QED
  BY <1>1, <1>2, <1>3, <1>4 DEF Core

LEMMA BeginCore ==
  ASSUME Core, NEW p \in Probe, Begin(p)
  PROVE  Core'
<1>1. /\ UNCHANGED <<checkpoint, lease, library, slots, eligible, drift>>
      /\ faults' = faults /\ enqueued' = enqueued
      /\ checkpoint \in Row /\ Tokened(checkpoint) /\ checkpoint.generation \in Nat
      /\ probe[p] \in ProbeRow /\ Fit(p, probe[p], checkpoint.generation, faults)
      /\ faults' \in Nat /\ faults <= faults' /\ faults' <= MaxFaults
      /\ enqueued \subseteq enqueued' /\ enqueued' \subseteq Novel
  BY Numbers, ProbeKnown DEF Begin, Core, ghosts, Shape
<1>2. CASE /\ checkpoint.state = "running"
           /\ probe' = [probe EXCEPT ![p].pc = "reclaim", ![p].base = checkpoint.generation,
                                     ![p].cp = Reclaimed(checkpoint, p)]
  <2> DEFINE c == Reclaimed(checkpoint, p)
             r == [probe[p] EXCEPT !.pc = "reclaim", !.base = checkpoint.generation, !.cp = c]
  <2>1. /\ c \in Row /\ c.token = p /\ c.state = "running" /\ c.cursor = checkpoint.cursor
        /\ c.key = checkpoint.key /\ c.generation = checkpoint.generation
    BY <1>1, <1>2 DEF Reclaimed, Row
  <2>2. Tokened(c)
    BY <2>1, PlannerAssumption DEF Tokened
  <2>3. probe' = [probe EXCEPT ![p] = r]
    BY <1>2 DEF Core, Fits
  <2> HIDE DEF c
  <2>4. /\ r \in ProbeRow /\ r.pc = "reclaim" /\ r.base = checkpoint.generation /\ r.cp = c
        /\ r.age = probe[p].age
    BY <1>1, <2>1 DEF ProbeRow
  <2> HIDE DEF r
  <2>5. Fit(p, r, checkpoint.generation, faults')
    BY <1>1, <2>1, <2>2, <2>4 DEF Fit
  <2>6. Passed(shelf, eligible, enqueued, checkpoint) => Planned(shelf, eligible, enqueued, r)
    <3>1. Passed(shelf, eligible, enqueued, checkpoint) => Passed(shelf, eligible, enqueued, c)
      BY <1>2, <2>1 DEF Passed
    <3> QED
      BY <2>4, <3>1 DEF Planned
  <2>7. checkpoint.generation > 0 /\ ~drift => Planned(shelf, eligible, enqueued', r)
    BY <1>1, <2>6 DEF Core, Progress
  <2> QED
    BY <1>1, <2>3, <2>5, <2>7, ThinkCore
<1>3. CASE probe' = [probe EXCEPT ![p].pc = "open", ![p].base = checkpoint.generation]
  <2> DEFINE r == [probe[p] EXCEPT !.pc = "open", !.base = checkpoint.generation]
  <2>1. probe' = [probe EXCEPT ![p] = r]
    BY <1>3 DEF Core, Fits
  <2>2. /\ r \in ProbeRow /\ r.pc = "open" /\ r.base = checkpoint.generation
        /\ r.cp = probe[p].cp /\ r.age = probe[p].age
    BY <1>1 DEF ProbeRow
  <2> HIDE DEF r
  <2>3. Fit(p, r, checkpoint.generation, faults')
    BY <1>1, <2>2 DEF Fit, Owner
  <2>4. r.pc \notin Owner
    BY <2>2 DEF Owner
  <2> QED
    BY <1>1, <2>1, <2>3, <2>4, ThinkCore
<1> QED
  BY <1>2, <1>3 DEF Begin

LEMMA OpenRunCore ==
  ASSUME Core, NEW p \in Probe, OpenRun(p)
  PROVE  Core'
<1>1. /\ UNCHANGED <<checkpoint, lease, library, slots, eligible, drift>>
      /\ faults' = faults /\ enqueued' = enqueued
      /\ checkpoint \in Row /\ checkpoint.generation \in Nat
      /\ probe[p] \in ProbeRow /\ Fit(p, probe[p], checkpoint.generation, faults)
      /\ probe[p].base \in Nat
      /\ faults' \in Nat /\ faults <= faults' /\ faults' <= MaxFaults
      /\ enqueued \subseteq enqueued' /\ enqueued' \subseteq Novel
  BY Numbers, ProbeKnown DEF OpenRun, Core, ghosts, Shape
<1> DEFINE c == NewGeneration(checkpoint, probe[p].base + 1, p)
           r == [probe[p] EXCEPT !.pc = "claim", !.cp = c]
<1>2. CASE Leave(p)
  BY <1>1, <1>2, LeaveCore
<1>3. CASE /\ checkpoint.generation = probe[p].base
           /\ probe' = [probe EXCEPT ![p].pc = "claim", ![p].cp = c]
  <2>1. /\ c \in Row /\ c.token = p /\ c.state = "running" /\ c.cursor = 0
        /\ c.key = "id" /\ c.generation = probe[p].base + 1
    <3>1. \A g \in Nat : LET n == NewGeneration(checkpoint, g, p)
                         IN  /\ n \in Row /\ n.token = p /\ n.state = "running"
                             /\ n.cursor = 0 /\ n.key = "id" /\ n.generation = g
      BY <1>1 DEF NewGeneration, Row, Keys
    <3>2. probe[p].base + 1 \in Nat
      BY <1>1
    <3> QED
      BY <3>1, <3>2
  <2>2. Tokened(c)
    BY <2>1, PlannerAssumption DEF Tokened
  <2>3. probe' = [probe EXCEPT ![p] = r]
    BY <1>3 DEF Core, Fits
  <2> HIDE DEF c
  <2>4. /\ r \in ProbeRow /\ r.pc = "claim" /\ r.base = probe[p].base /\ r.cp = c
        /\ r.age = probe[p].age
    BY <1>1, <2>1 DEF ProbeRow
  <2> HIDE DEF r
  <2>5. Fit(p, r, checkpoint.generation, faults')
    BY <1>1, <1>3, <2>1, <2>2, <2>4 DEF Fit, Owner
  <2>6. r.pc \notin Owner
    BY <2>4 DEF Owner
  <2> QED
    BY <1>1, <2>3, <2>5, <2>6, ThinkCore
<1> QED
  BY <1>2, <1>3 DEF OpenRun

LEMMA TakeShape ==
  ASSUME Shape, Fits, NEW p \in Probe, Take(p), UNCHANGED <<library, slots, faults>>,
         enqueued' \subseteq Novel, drift' \in BOOLEAN,
         checkpoint.generation <= probe[p].cp.generation,
         probe[p].pc \in {"reclaim", "claim"}
  PROVE  Shape' /\ Fits'
<1>1. /\ probe[p].cp \in Row /\ Tokened(probe[p].cp)
      /\ Fit(p, probe[p], checkpoint.generation, faults)
      /\ probe[p].age \in Nat /\ probe[p].age <= faults /\ faults \in Nat
      /\ faults <= MaxFaults /\ MaxFaults \in Nat /\ Lease \in Nat
      /\ probe[p].cp.generation \in Nat
  BY ProbeKnown, Numbers, PlannerAssumption DEF Fit
<1>2. Lease - probe[p].age \in -MaxFaults..Lease
  BY <1>1
<1>3. Shape'
  BY <1>1, <1>2 DEF Shape, Take, library
<1> DEFINE c == probe[p].cp
           r == Planning("scan", c)
<1>4. r \in ProbeRow /\ r.pc = "scan" /\ r.cp = c /\ r.age = 0 /\ r.base = 0
  BY <1>1, Planned1
<1>5. Fit(p, r, c.generation, faults)
  <2>1. c.state = "running" /\ c.token = p
    BY <1>1 DEF Fit
  <2> HIDE DEF r, c
  <2>2. c.generation <= c.generation /\ Tokened(c) /\ 0 <= faults /\ 0 <= c.generation
    BY <1>1 DEF c
  <2> QED
    BY <1>4, <2>1, <2>2 DEF Fit
<1>6. probe' = [probe EXCEPT ![p] = r] /\ checkpoint' = c
  BY DEF Take
<1> HIDE DEF r
<1>7. Fits'
  <2>1. /\ faults' \in Nat /\ faults <= faults' /\ Fit(p, r, c.generation, faults')
        /\ c \in Row /\ checkpoint.generation <= c.generation
    BY <1>1, <1>5
  <2> HIDE DEF c
  <2> QED
    BY <1>6, <2>1, ProbeFits
<1> QED
  BY <1>3, <1>7

LEMMA PersistReclaimCore ==
  ASSUME Core, NEW p \in Probe, PersistReclaim(p)
  PROVE  Core'
<1>1. /\ UNCHANGED <<library, slots, faults, ghosts>> /\ probe[p].pc = "reclaim"
      /\ faults' \in Nat /\ faults <= faults' /\ faults' <= MaxFaults
      /\ enqueued \subseteq enqueued' /\ enqueued' \subseteq Novel /\ drift' \in BOOLEAN
  BY Numbers DEF PersistReclaim, Core, ghosts, Shape
<1>2. CASE Leave(p) /\ UNCHANGED <<checkpoint, lease>>
  <2>1. UNCHANGED <<checkpoint, lease, library, slots, eligible, drift>>
    BY <1>1, <1>2 DEF ghosts
  <2> QED
    BY <1>1, <1>2, <2>1, LeaveCore
<1>3. CASE ReclaimMatches(p) /\ Take(p)
  <2>1. checkpoint.generation \in Nat /\ Fit(p, probe[p], checkpoint.generation, faults)
    BY Numbers, ProbeKnown DEF Core
  <2>2. probe[p].cp.generation = checkpoint.generation
    BY <1>1, <1>3, <2>1 DEF Fit, ReclaimMatches
  <2>3. Shape' /\ Fits'
    BY <1>1, <1>3, <2>1, <2>2, TakeShape DEF Core
  <2>4. Library'
    BY <1>1 DEF Core, Library, library, ghosts, Present
  <2>5. Progress'
    <3> DEFINE c == probe[p].cp
               r == Planning("scan", c)
    <3>1. probe' = [probe EXCEPT ![p] = r] /\ checkpoint' = c
      BY <1>3 DEF Take
    <3>2. r.pc = "scan" /\ r.cp = c
      BY Planned1, ProbeKnown DEF Core
    <3> HIDE DEF r
    <3>3. c.generation > 0 /\ ~drift => Passed(shelf, eligible, enqueued, c)
      BY <1>1, <2>2 DEF Core, Progress, Owner, Planned
    <3>4. c.generation > 0 /\ ~drift => Planned(shelf, eligible, enqueued, r)
      BY <3>2, <3>3 DEF Planned
    <3>5. UNCHANGED <<shelf, eligible, drift>> /\ enqueued' = enqueued
      BY <1>1 DEF library, ghosts
    <3> HIDE DEF c
    <3> QED
      BY <2>2, <3>1, <3>3, <3>4, <3>5, SameGeneration DEF Core, c
  <2> QED
    BY <2>3, <2>4, <2>5 DEF Core
<1> QED
  BY <1>2, <1>3 DEF PersistReclaim

LEMMA PersistClaimCore ==
  ASSUME Core, NEW p \in Probe, PersistClaim(p)
  PROVE  Core'
<1>1. /\ UNCHANGED <<library, slots, faults>> /\ probe[p].pc = "claim"
      /\ faults' \in Nat /\ faults <= faults' /\ faults' <= MaxFaults
  BY Numbers DEF PersistClaim, Core
<1>2. CASE Leave(p) /\ UNCHANGED <<checkpoint, lease, ghosts>>
  <2>1. UNCHANGED <<checkpoint, lease, library, slots, eligible, drift>>
    BY <1>1, <1>2 DEF ghosts
  <2>2. enqueued \subseteq enqueued' /\ enqueued' \subseteq Novel
    BY <1>2 DEF ghosts, Core, Shape
  <2> QED
    BY <1>1, <1>2, <2>1, <2>2, LeaveCore
<1>3. CASE /\ ClaimMatches(p) /\ Take(p)
           /\ eligible' = (Present \cap Allowed) \ frozen
           /\ enqueued' = {} /\ drift' = FALSE
  <2>1. /\ checkpoint.generation \in Nat /\ Fit(p, probe[p], checkpoint.generation, faults)
        /\ probe[p].cp \in Row /\ probe[p].base \in Nat
    BY Numbers, ProbeKnown DEF Core
  <2>2. /\ probe[p].cp.generation = checkpoint.generation + 1
        /\ probe[p].cp.cursor = 0 /\ probe[p].cp.key = "id" /\ probe[p].cp.state = "running"
    BY <1>1, <1>3, <2>1 DEF Fit, ClaimMatches
  <2>3. Shape' /\ Fits'
    <3>1. checkpoint.generation <= probe[p].cp.generation
      BY <2>1, <2>2
    <3>2. enqueued' \subseteq Novel /\ drift' \in BOOLEAN
      BY <1>3
    <3> QED
      BY <1>1, <1>3, <3>1, <3>2, TakeShape DEF Core
  <2>4. Library'
    BY <1>1, <1>3 DEF Library, library, Present
  <2>5. Progress'
    <3> DEFINE c == probe[p].cp
               r == Planning("scan", c)
    <3>1. probe' = [probe EXCEPT ![p] = r] /\ checkpoint' = c
      BY <1>3 DEF Take
    <3>2. r.pc = "scan" /\ r.cp = c
      BY <2>1, Planned1
    <3>3. Passed(shelf', eligible', enqueued', c)
      <4>1. Behind(shelf, c.key, c.cursor) = {}
        BY <2>2, NothingBehind DEF Core, Shape, Keys
      <4>2. shelf' = shelf
        BY <1>1 DEF library
      <4> QED
        BY <2>2, <4>1, <4>2 DEF Passed
    <3> HIDE DEF r
    <3>4. Planned(shelf', eligible', enqueued', r)
      BY <3>2, <3>3 DEF Planned
    <3>5. ASSUME NEW q \in Probe, probe'[q].pc \in Owner, probe'[q].cp.generation = c.generation
          PROVE  q = p /\ probe'[q] = r
      <4>1. CASE q # p
        <5>1. probe'[q] = probe[q]
          BY <3>1, <4>1 DEF Core, Fits
        <5>2. /\ Fit(q, probe[q], checkpoint.generation, faults)
              /\ probe[q].cp.generation \in Nat
          BY ProbeKnown DEF Core
        <5>3. probe[q].cp.generation <= checkpoint.generation
          BY <3>5, <5>1, <5>2 DEF Fit
        <5> QED
          BY <2>1, <2>2, <3>5, <5>1, <5>2, <5>3
      <4>2. CASE q = p
        BY <3>1, <4>2 DEF Core, Fits
      <4> QED
        BY <4>1, <4>2
    <3> HIDE DEF c
    <3>6. \A q \in Probe : probe'[q].pc \in Owner /\ probe'[q].cp.generation = c.generation
                             => Planned(shelf', eligible', enqueued', probe'[q])
      BY <3>4, <3>5
    <3> QED
      BY <3>1, <3>3, <3>6 DEF Progress
  <2> QED
    BY <2>3, <2>4, <2>5 DEF Core
<1> QED
  BY <1>2, <1>3 DEF PersistClaim

(* A page is planned from what is behind the cursor it starts at.           *)
LEMMA ScanCore ==
  ASSUME Core, NEW p \in Probe, Scan(p)
  PROVE  Core'
<1>1. PICK key \in {sortBy, "id"} :
        /\ IF key = sortBy THEN UNCHANGED faults ELSE Fault
        /\ probe' = [probe EXCEPT ![p] = Scanned(p, key)]
  BY DEF Scan
<1> DEFINE cp == probe[p].cp
           cursor == ScanStart(cp, key)
           page == ScanPage(key, cursor)
           next == NextCursor(key, cursor, page)
           plans == (page \cap Allowed) \ frozen
           full == Cardinality(page) = PageSize
           pc == IF page = {} THEN "authors" ELSE "send"
           r == [probe[p] EXCEPT !.pc = pc, !.key = key, !.plans = plans,
                                 !.next = next, !.full = full]
<1>2. /\ UNCHANGED <<checkpoint, lease, library, slots, eligible, drift>>
      /\ enqueued' = enqueued /\ probe[p].pc = "scan"
      /\ faults' \in Nat /\ faults <= faults' /\ faults' <= MaxFaults
      /\ enqueued \subseteq enqueued' /\ enqueued' \subseteq Novel
  <2>1. faults \in Nat /\ MaxFaults \in Nat /\ faults <= MaxFaults
    BY Numbers DEF Core
  <2>2. faults' \in Nat /\ faults <= faults' /\ faults' <= MaxFaults
    BY <1>1, <2>1 DEF Fault
  <2> QED
    BY <2>2 DEF Scan, ghosts, Core, Shape
<1>3. /\ probe[p] \in ProbeRow /\ cp \in Row /\ cp.cursor \in Nat
      /\ Fit(p, probe[p], checkpoint.generation, faults)
      /\ faults \in Nat /\ checkpoint.generation \in Nat
  BY ProbeKnown, Numbers DEF Core, Row
<1>4. key \in Keys /\ cursor \in Nat
  BY <1>3 DEF Core, Shape, Keys, ScanStart
<1>5. shelf \in Seq(Novel) /\ Distinct(shelf) /\ Present = ToSet(shelf)
      /\ Present \subseteq Novel /\ eligible \subseteq (Present \cap Allowed) \ frozen
  BY Indexed DEF Core, Shape, Present, Library
<1> HIDE DEF cp, cursor
<1>6. /\ page \subseteq Present /\ next \in Nat
      /\ Behind(shelf, key, next) \subseteq Behind(shelf, key, cursor) \cup page
      /\ Cardinality(page) # PageSize => Present \subseteq Behind(shelf, key, cursor) \cup page
  BY <1>4, <1>5, PageCovers
<1>7. page = {} => Cardinality(page) # PageSize
  BY FS_EmptySet, PlannerAssumption
<1> HIDE DEF page, next
<1>8. /\ r \in ProbeRow /\ r.pc = pc /\ r.key = key /\ r.plans = plans /\ r.next = next
      /\ r.full = full /\ r.cp = cp /\ r.age = probe[p].age /\ r.base = probe[p].base
  <2>1. plans \in SUBSET Novel /\ full \in BOOLEAN /\ pc \in {"authors", "send"}
    BY <1>5, <1>6
  <2> HIDE DEF plans, full, pc
  <2> QED
    BY <1>3, <1>4, <1>6, <2>1 DEF ProbeRow, cp
<1>9. probe' = [probe EXCEPT ![p] = r]
  BY <1>1 DEF Scanned, cp, cursor, page, next
<1> HIDE DEF r
<1>10. Fit(p, r, checkpoint.generation, faults')
  <2>1. Fit(p, r, checkpoint.generation, faults)
    BY <1>2, <1>3, <1>8 DEF Fit, Owner, cp
  <2> QED
    BY <1>2, <1>3, <2>1, FitLater
<1>11. ASSUME checkpoint.generation > 0, ~drift, cp.generation = checkpoint.generation
       PROVE  Planned(shelf, eligible, enqueued, r)
  <2>1. Passed(shelf, eligible, enqueued, cp) /\ cp.state = "running"
    BY <1>2, <1>3, <1>11 DEF Core, Progress, Owner, Planned, Fit, cp
  <2>2. eligible \cap Behind(shelf, key, cursor) \subseteq enqueued
    <3>1. CASE cp.key = key
      BY <2>1, <3>1 DEF Passed, ScanStart, cursor
    <3>2. CASE cp.key # key
      BY <1>4, <1>5, <3>2, NothingBehind DEF ScanStart, cursor
    <3> QED
      BY <3>1, <3>2
  <2>3. eligible \cap page \subseteq plans
    BY <1>5
  <2>4. eligible \cap Behind(shelf, key, next) \subseteq enqueued \cup plans
    BY <1>6, <2>2, <2>3
  <2>5. ~full => eligible \subseteq enqueued \cup plans
    BY <1>5, <1>6, <2>2, <2>3
  <2>6. page = {} => eligible \subseteq enqueued
    BY <1>5, <1>6, <1>7, <2>2
  <2> HIDE DEF plans, full
  <2> QED
    BY <1>8, <2>1, <2>4, <2>5, <2>6 DEF Planned
<1> QED
  BY <1>2, <1>8, <1>9, <1>10, <1>11, ThinkCore

(* What was sent counts for the generation, and the cursor moves with it.  *)
LEMMA SendCore ==
  ASSUME Core, NEW p \in Probe, Send(p)
  PROVE  Core'
<1> DEFINE cp == probe[p].cp
           c == Advanced(cp, probe[p].key, probe[p].next)
           pc == IF probe[p].full THEN "save" ELSE "authors"
           r == Planning(pc, c)
<1>1. /\ probe[p] \in ProbeRow /\ cp \in Row /\ probe[p].pc = "send"
      /\ Fit(p, probe[p], checkpoint.generation, faults)
      /\ faults \in Nat /\ checkpoint.generation \in Nat /\ faults <= MaxFaults
  BY ProbeKnown, Numbers DEF Core, Send
<1>2. /\ UNCHANGED <<checkpoint, lease, library, slots, eligible, drift>>
      /\ faults' \in Nat /\ faults <= faults' /\ faults' <= MaxFaults
      /\ enqueued \subseteq enqueued' /\ enqueued' \subseteq Novel
  <2>1. probe[p].plans \subseteq Novel
    BY <1>1 DEF ProbeRow
  <2> QED
    BY <1>1, <2>1 DEF Send, Note, Core, Shape
<1>3. /\ c \in Row /\ c.token = cp.token /\ c.state = cp.state
      /\ c.generation = cp.generation /\ c.key = probe[p].key /\ c.cursor = probe[p].next
  BY <1>1 DEF Advanced, Row, ProbeRow
<1>4. probe' = [probe EXCEPT ![p] = r]
  BY DEF Send, Dispatched
<1> HIDE DEF c
<1>5. r \in ProbeRow /\ r.pc = pc /\ r.cp = c /\ r.age = 0 /\ r.base = 0
  <2>1. pc \in {"scan", "send", "authors", "save"}
    OBVIOUS
  <2> HIDE DEF pc
  <2> QED
    BY <1>3, <2>1, Planned1
<1> HIDE DEF r
<1>6. Fit(p, r, checkpoint.generation, faults')
  BY <1>1, <1>2, <1>3, <1>5 DEF Fit, Owner, Tokened
<1>7. ASSUME checkpoint.generation > 0, ~drift, r.cp.generation = checkpoint.generation
      PROVE  Planned(shelf, eligible, enqueued', r)
  <2>1. Planned(shelf, eligible, enqueued, probe[p])
    BY <1>1, <1>3, <1>5, <1>7 DEF Core, Progress, Owner
  <2>2. enqueued' = enqueued \cup probe[p].plans
    BY <1>3, <1>5, <1>7 DEF Send, Note
  <2>3. (IF probe[p].full THEN eligible \cap Behind(shelf, probe[p].key, probe[p].next)
         ELSE eligible) \subseteq enqueued'
    BY <1>1, <2>1, <2>2 DEF Planned
  <2>4. cp.state = "running"
    BY <1>1 DEF Fit
  <2> DEFINE B == Behind(shelf, probe[p].key, probe[p].next)
  <2> HIDE DEF B
  <2>5. /\ eligible \cap B \subseteq enqueued'
        /\ ~probe[p].full => eligible \subseteq enqueued'
    BY <2>3 DEF B
  <2>6. Passed(shelf, eligible, enqueued', c)
    BY <1>3, <2>4, <2>5 DEF Passed, B
  <2> QED
    BY <1>5, <2>5, <2>6 DEF Planned
<1> QED
  BY <1>2, <1>4, <1>6, <1>7, ThinkCore

LEMMA SendFailsCore ==
  ASSUME Core, NEW p \in Probe, SendFails(p)
  PROVE  Core'
<1>1. PICK sent \in SUBSET probe[p].plans : Note(p, sent)
  BY DEF SendFails
<1>2. /\ probe[p] \in ProbeRow /\ faults \in Nat /\ MaxFaults \in Nat
      /\ enqueued \subseteq Novel
  BY ProbeKnown, Numbers DEF Core, Shape
<1>3. /\ UNCHANGED <<checkpoint, lease, library, slots, eligible, drift>> /\ Leave(p)
      /\ faults' \in Nat /\ faults <= faults' /\ faults' <= MaxFaults
  BY <1>1, <1>2 DEF SendFails, Note, Undispatched, Leave, Fault
<1>4. enqueued \subseteq enqueued' /\ enqueued' \subseteq Novel
  <2>1. sent \subseteq Novel
    BY <1>2 DEF ProbeRow
  <2> QED
    BY <1>1, <1>2, <2>1 DEF Note
<1> QED
  BY <1>3, <1>4, LeaveCore

LEMMA CrashCore ==
  ASSUME Core, NEW p \in Probe, Crash(p)
  PROVE  Core'
<1>1. faults \in Nat /\ MaxFaults \in Nat /\ enqueued \subseteq Novel
  BY Numbers DEF Core, Shape
<1>2. /\ UNCHANGED <<checkpoint, lease, library, slots, eligible, drift>> /\ Leave(p)
      /\ faults' \in Nat /\ faults <= faults' /\ faults' <= MaxFaults
      /\ enqueued \subseteq enqueued' /\ enqueued' \subseteq Novel
  BY <1>1 DEF Crash, Fault, ghosts
<1> QED
  BY <1>2, LeaveCore

LEMMA AuthorsCore ==
  ASSUME Core, NEW p \in Probe, Authors(p)
  PROVE  Core'
<1> DEFINE c == Finished(probe[p].cp)
           r == Planning("save", c)
<1>1. /\ probe[p].cp \in Row /\ probe[p].pc = "authors"
      /\ Fit(p, probe[p], checkpoint.generation, faults)
      /\ faults \in Nat /\ checkpoint.generation \in Nat /\ faults <= MaxFaults
  BY ProbeKnown, Numbers DEF Core, Authors
<1>2. /\ UNCHANGED <<checkpoint, lease, library, slots, eligible, drift>>
      /\ faults' \in Nat /\ faults <= faults' /\ faults' <= MaxFaults
      /\ enqueued' = enqueued /\ enqueued \subseteq enqueued' /\ enqueued' \subseteq Novel
  BY <1>1 DEF Authors, ghosts, Core, Shape
<1>3. /\ c \in Row /\ c.token = NoToken /\ c.state = "done"
      /\ c.generation = probe[p].cp.generation
  <2>1. slots \in Nat
    BY PlannerAssumption DEF Core, Shape
  <2> QED
    BY <1>1, <2>1 DEF Finished, Row, Keys
<1>4. probe' = [probe EXCEPT ![p] = r]
  BY DEF Authors, Core, Fits
<1> HIDE DEF c
<1>5. r \in ProbeRow /\ r.pc = "save" /\ r.cp = c /\ r.age = 0 /\ r.base = 0
  BY <1>3, Planned1
<1> HIDE DEF r
<1>6. Fit(p, r, checkpoint.generation, faults')
  BY <1>1, <1>2, <1>3, <1>5 DEF Fit, Owner, Tokened
<1>7. ASSUME checkpoint.generation > 0, ~drift, r.cp.generation = checkpoint.generation
      PROVE  Planned(shelf, eligible, enqueued', r)
  <2>1. eligible \subseteq enqueued
    BY <1>1, <1>3, <1>5, <1>7 DEF Core, Progress, Owner, Planned
  <2> QED
    BY <1>2, <1>3, <1>5, <2>1 DEF Planned, Passed
<1> QED
  BY <1>2, <1>4, <1>6, <1>7, ThinkCore

LEMMA SaveCore ==
  ASSUME Core, NEW p \in Probe, Save(p)
  PROVE  Core'
<1>1. /\ UNCHANGED <<lease, library, slots, faults, eligible, enqueued, drift>> /\ Leave(p)
      /\ probe[p].pc = "save"
      /\ faults' \in Nat /\ faults <= faults' /\ faults' <= MaxFaults
      /\ enqueued \subseteq enqueued' /\ enqueued' \subseteq Novel
  BY Numbers DEF Save, ghosts, Core, Shape
<1>2. CASE UNCHANGED checkpoint
  <2>1. UNCHANGED <<checkpoint, lease, library, slots, eligible, drift>>
    BY <1>1, <1>2
  <2> QED
    BY <1>1, <2>1, LeaveCore
<1>3. CASE Owned(p) /\ checkpoint' = probe[p].cp
  <2> DEFINE c == probe[p].cp
  <2>1. /\ c \in Row /\ Tokened(c) /\ c.generation = checkpoint.generation
        /\ checkpoint.generation \in Nat
    BY <1>3, ProbeKnown, Numbers DEF Core, Owned
  <2>2. Shape'
    BY <1>1, <1>3, <2>1 DEF Core, Shape, library
  <2>3. probe' = [probe EXCEPT ![p] = Idle] /\ checkpoint' = c
    BY <1>1, <1>3 DEF Leave
  <2>4. c.generation > 0 /\ ~drift => Passed(shelf, eligible, enqueued, c)
    BY <1>1, <2>1 DEF Core, Progress, Owner, Planned
  <2> HIDE DEF c
  <2>5. Fits'
    <3>1. Fit(p, Idle, c.generation, faults')
      BY <1>1, <2>1, FreshRows
    <3>2. checkpoint.generation <= c.generation
      BY <2>1
    <3> QED
      BY <1>1, <2>1, <2>3, <3>1, <3>2, ProbeFits DEF Core
  <2>6. Library'
    BY <1>1 DEF Core, Library, library, Present
  <2>7. Progress'
    <3>1. Idle.pc \notin Owner
      BY DEF Idle, Owner
    <3>2. UNCHANGED <<shelf, eligible, drift>> /\ enqueued' = enqueued
      BY <1>1 DEF library
    <3> QED
      BY <2>1, <2>3, <2>4, <3>1, <3>2, SameGeneration DEF Core
  <2> QED
    BY <2>2, <2>5, <2>6, <2>7 DEF Core
<1> QED
  BY <1>2, <1>3 DEF Save

-----------------------------------------------------------------------------
(* Time and the library once more.                                         *)
LEMMA TickCore ==
  ASSUME Core, Tick
  PROVE  Core'
<1>1. /\ UNCHANGED <<checkpoint, library, slots, ghosts>>
      /\ faults \in Nat /\ faults' \in Nat /\ faults <= faults' /\ faults' <= MaxFaults
      /\ MaxFaults \in Nat
  BY Numbers DEF Tick, Fault, Core
<1>2. lease' \in -MaxFaults..Lease
  BY <1>1, PlannerAssumption DEF Tick, Core, Shape
<1>3. Shape'
  BY <1>1, <1>2 DEF Core, Shape, library, ghosts
<1>4. ASSUME NEW p \in Probe
      PROVE  /\ probe'[p] \in ProbeRow
             /\ Fit(p, probe'[p], checkpoint.generation, faults')
             /\ probe'[p].pc = probe[p].pc /\ probe'[p].cp = probe[p].cp
             /\ probe'[p].plans = probe[p].plans /\ probe'[p].key = probe[p].key
             /\ probe'[p].next = probe[p].next /\ probe'[p].full = probe[p].full
  <2>1. /\ probe[p] \in ProbeRow /\ Fit(p, probe[p], checkpoint.generation, faults)
        /\ probe[p].age \in Nat /\ checkpoint.generation \in Nat
    BY ProbeKnown, Numbers DEF Core
  <2>2. CASE Claiming(p)
    <3> DEFINE r == [probe[p] EXCEPT !.age = @ + 1]
    <3>1. probe'[p] = r
      BY <2>2 DEF Tick
    <3>2. /\ r \in ProbeRow /\ r.age = probe[p].age + 1
          /\ r.pc = probe[p].pc /\ r.cp = probe[p].cp /\ r.base = probe[p].base
          /\ r.plans = probe[p].plans /\ r.key = probe[p].key
          /\ r.next = probe[p].next /\ r.full = probe[p].full
      BY <2>1 DEF ProbeRow
    <3> HIDE DEF r
    <3>3. faults' = faults + 1
      BY <2>2 DEF Tick, Claiming, Fault
    <3>4. r.age <= faults'
      BY <1>1, <2>1, <3>2, <3>3 DEF Fit
    <3>5. Fit(p, r, checkpoint.generation, faults')
      BY <2>1, <3>2, <3>4 DEF Fit
    <3> QED
      BY <3>1, <3>2, <3>5
  <2>3. CASE ~Claiming(p)
    <3>1. probe'[p] = probe[p]
      BY <2>3 DEF Tick
    <3> QED
      BY <1>1, <2>1, <3>1, FitLater
  <2> QED
    BY <2>2, <2>3
<1>5. Fits'
  <2>1. probe' = [p \in Probe |-> probe'[p]]
    BY DEF Tick
  <2> HIDE DEF Tick
  <2>2. checkpoint'.generation = checkpoint.generation
    BY <1>1
  <2> QED
    BY <1>4, <2>1, <2>2 DEF Fits
<1>6. Library'
  BY <1>1 DEF Core, Library, library, ghosts, Present
<1>7. Progress'
  <2>1. UNCHANGED <<checkpoint, shelf, eligible, enqueued, drift>>
    BY <1>1 DEF library, ghosts
  <2> QED
    BY <1>4, <2>1 DEF Core, Progress, Planned
<1> QED
  BY <1>3, <1>5, <1>6, <1>7 DEF Core

LEMMA SlotPassesCore ==
  ASSUME Core, SlotPasses
  PROVE  Core'
<1>1. UNCHANGED <<checkpoint, lease, probe, library, faults, ghosts>>
  BY DEF SlotPasses
<1>2. slots' \in 0..MaxSlots
  BY PlannerAssumption DEF SlotPasses, Core, Shape
<1> QED
  BY <1>1, <1>2 DEF Core, Shape, Fits, Library, Progress, library, ghosts, Present

(* An edit either leaves the order alone or, when it moves it under an      *)
(* offset, is noted; ids are not moved by it.                              *)
LEMMA EditedCore ==
  ASSUME Core, UNCHANGED <<checkpoint, lease, probe, slots, faults, enqueued>>,
         shelf' \in Seq(Novel), Distinct(shelf'), frozen' \subseteq Novel, sortBy' \in Keys,
         eligible' \subseteq eligible,
         eligible' \subseteq (ToSet(shelf') \cap Allowed) \ frozen',
         \/ shelf' = shelf /\ drift' = drift
         \/ drift' = (drift \/ Offsets)
  PROVE  Core'
<1>1. drift \in BOOLEAN /\ drift' \in BOOLEAN
  BY DEF Core, Shape, Offsets
<1>2. Shape'
  BY <1>1 DEF Core, Shape
<1>3. Fits'
  BY DEF Core, Fits
<1>4. Library'
  BY DEF Library, Present
<1>5. Progress'
  <2>1. SUFFICES ASSUME checkpoint.generation > 0, ~drift'
        PROVE  /\ Passed(shelf', eligible', enqueued, checkpoint)
               /\ \A p \in Probe :
                    probe[p].pc \in Owner /\ probe[p].cp.generation = checkpoint.generation
                      => Planned(shelf', eligible', enqueued, probe[p])
    BY DEF Progress
  <2>2. ~drift
    BY <1>1, <2>1
  <2>3. /\ Passed(shelf, eligible', enqueued, checkpoint)
        /\ \A p \in Probe :
             probe[p].pc \in Owner /\ probe[p].cp.generation = checkpoint.generation
               => Planned(shelf, eligible', enqueued, probe[p])
    BY <2>1, <2>2, MoreSent DEF Core, Progress
  <2>4. CASE shelf' = shelf
    BY <2>3, <2>4
  <2>5. CASE drift' = (drift \/ Offsets)
    <3>1. ~Offsets
      BY <2>1, <2>5
    <3>2. checkpoint.key = "id"
      BY <3>1 DEF Offsets, Core, Shape, Row, Keys
    <3>3. \A p \in Probe : probe[p].key = "id" /\ probe[p].cp.key = "id"
      BY <3>1 DEF Offsets, Core, Fits, ProbeRow, Row, Keys
    <3>4. eligible' \subseteq ToSet(shelf) /\ eligible' \subseteq ToSet(shelf')
      BY DEF Core, Library, Present
    <3> DEFINE E == eligible'
               t == shelf'
    <3> HIDE DEF E, t
    <3>5. Passed(shelf, E, enqueued, checkpoint) => Passed(t, E, enqueued, checkpoint)
      BY <3>2, <3>4, Reshelved DEF E, t
    <3>6. \A p \in Probe : Planned(shelf, E, enqueued, probe[p]) => Planned(t, E, enqueued, probe[p])
      BY <3>3, <3>4, Reshelved DEF E, t
    <3> QED
      BY <2>3, <3>5, <3>6 DEF E, t
  <2> QED
    BY <2>4, <2>5
<1> QED
  BY <1>2, <1>3, <1>4, <1>5 DEF Core

LEMMA EditCore ==
  ASSUME Core, Edit
  PROVE  Core'
<1>1. /\ UNCHANGED <<checkpoint, lease, probe, slots, faults, enqueued>>
      /\ shelf \in Seq(Novel) /\ Distinct(shelf) /\ Present = ToSet(shelf)
      /\ frozen \subseteq Novel /\ sortBy \in Keys
      /\ eligible \subseteq (Present \cap Allowed) \ frozen
  BY DEF Edit, Core, Shape, Library, Present
<1>2. ASSUME NEW n \in Novel, AddNovel(n)
      PROVE  Core'
  <2>1. PICK i \in 1..Len(shelf) + 1 : Reordered(InsertAt(shelf, i, n))
    BY <1>2 DEF AddNovel
  <2>2. n \notin ToSet(shelf)
    BY <1>1, <1>2 DEF AddNovel
  <2>3. /\ shelf' \in Seq(Novel) /\ Distinct(shelf') /\ ToSet(shelf') = Present \cup {n}
    BY <1>1, <2>1, <2>2, Inserted DEF Reordered
  <2>4. UNCHANGED <<frozen, sortBy, eligible>> /\ drift' = (drift \/ Offsets)
    BY <1>2, <2>1 DEF AddNovel, Reordered
  <2>5. eligible' \subseteq eligible /\ eligible' \subseteq (ToSet(shelf') \cap Allowed) \ frozen'
    BY <1>1, <2>3, <2>4
  <2>6. frozen' \subseteq Novel /\ sortBy' \in Keys
    BY <1>1, <2>4
  <2> QED
    BY <1>1, <2>3, <2>4, <2>5, <2>6, EditedCore
<1>3. ASSUME NEW n \in Novel, RemoveNovel(n)
      PROVE  Core'
  <2>1. PICK i \in DOMAIN shelf : shelf[i] = n /\ Reordered(RemoveAt(shelf, i))
    BY <1>3 DEF RemoveNovel
  <2>2. /\ shelf' \in Seq(Novel) /\ Distinct(shelf') /\ ToSet(shelf') = Present \ {n}
    BY <1>1, <2>1, Removed DEF Reordered
  <2>3. /\ UNCHANGED <<frozen, sortBy>> /\ drift' = (drift \/ Offsets)
        /\ eligible' = eligible \ {n}
    BY <1>3, <2>1 DEF RemoveNovel, Reordered
  <2>4. eligible' \subseteq eligible /\ eligible' \subseteq (ToSet(shelf') \cap Allowed) \ frozen'
    BY <1>1, <2>2, <2>3
  <2>5. frozen' \subseteq Novel /\ sortBy' \in Keys
    BY <1>1, <2>3
  <2> QED
    BY <1>1, <2>2, <2>3, <2>4, <2>5, EditedCore
<1>4. ASSUME NEW n \in Novel, Updated(n)
      PROVE  Core'
  <2>1. PICK i \in DOMAIN shelf : shelf[i] = n /\ Reordered(<<n>> \o RemoveAt(shelf, i))
    BY <1>4 DEF Updated
  <2> DEFINE rest == RemoveAt(shelf, i)
  <2>2. rest \in Seq(Novel) /\ Distinct(rest) /\ ToSet(rest) = Present \ {n}
    BY <1>1, <2>1, Removed
  <2>3. n \in Present
    BY <1>1, <2>1, Indexed DEF ToSet
  <2> HIDE DEF rest
  <2>4. /\ <<n>> \o rest \in Seq(Novel) /\ Distinct(<<n>> \o rest)
        /\ ToSet(<<n>> \o rest) = ToSet(rest) \cup {n}
    BY <2>2, Fronted
  <2>5. shelf' = <<n>> \o rest
    BY <2>1 DEF Reordered, rest
  <2>6. /\ shelf' \in Seq(Novel) /\ Distinct(shelf') /\ ToSet(shelf') = Present
    BY <2>2, <2>3, <2>4, <2>5
  <2>7. UNCHANGED <<frozen, sortBy, eligible>> /\ drift' = (drift \/ Offsets)
    BY <1>4, <2>1 DEF Updated, Reordered
  <2>8. eligible' \subseteq eligible /\ eligible' \subseteq (ToSet(shelf') \cap Allowed) \ frozen'
    BY <1>1, <2>6, <2>7
  <2>9. frozen' \subseteq Novel /\ sortBy' \in Keys
    BY <1>1, <2>7
  <2> QED
    BY <1>1, <2>6, <2>7, <2>8, <2>9, EditedCore
<1>5. ASSUME NEW n \in Novel, Freeze(n)
      PROVE  Core'
  <2>1. UNCHANGED <<shelf, sortBy, drift>> /\ frozen' \subseteq frozen \cup {n}
        /\ eligible' = eligible \ {n}
    BY <1>5 DEF Freeze
  <2>2. eligible' \subseteq eligible /\ eligible' \subseteq (ToSet(shelf') \cap Allowed) \ frozen'
    BY <1>1, <2>1
  <2>3. frozen' \subseteq Novel /\ sortBy' \in Keys /\ shelf' \in Seq(Novel) /\ Distinct(shelf')
    BY <1>1, <2>1
  <2> QED
    BY <1>1, <2>1, <2>2, <2>3, EditedCore
<1>6. CASE ChooseSort
  <2>1. UNCHANGED <<shelf, frozen, eligible, drift>> /\ sortBy' \in Keys
    BY <1>6 DEF ChooseSort
  <2>2. eligible' \subseteq eligible /\ eligible' \subseteq (ToSet(shelf') \cap Allowed) \ frozen'
    BY <1>1, <2>1
  <2>3. frozen' \subseteq Novel /\ shelf' \in Seq(Novel) /\ Distinct(shelf')
    BY <1>1, <2>1
  <2> QED
    BY <1>1, <2>1, <2>2, <2>3, EditedCore
<1> QED
  BY <1>2, <1>3, <1>4, <1>5, <1>6 DEF Edit

-----------------------------------------------------------------------------
LEMMA FirstShelf ==
  ASSUME NEW s \in SetToAllKPermutations(Novel)
  PROVE  s \in Seq(Novel) /\ Distinct(s)
<1>1. PICK S \in SUBSET Novel : s \in SetToSeqs(S)
  BY DEF SetToAllKPermutations
<1>2. IsFiniteSet(S) /\ Cardinality(S) \in Nat
  BY <1>1, FS_Subset, FS_CardinalityType, PlannerAssumption
<1>3. /\ s \in [1..Cardinality(S) -> S]
      /\ \A i, j \in 1..Cardinality(S) : i # j => s[i] # s[j]
  BY <1>1 DEF SetToSeqs, IsInjective
<1>4. s \in Seq(Novel)
  <2>1. s \in [1..Cardinality(S) -> Novel]
    BY <1>3
  <2> QED
    BY <1>2, <2>1, SeqDef
<1>5. DOMAIN s = 1..Cardinality(S)
  BY <1>3
<1> QED
  BY <1>3, <1>4, <1>5 DEF Distinct

LEMMA InitCore == Init => Core
<1> SUFFICES ASSUME Init PROVE Core
  OBVIOUS
<1>1. Shape
  <2>1. shelf \in Seq(Novel) /\ Distinct(shelf)
    BY FirstShelf DEF Init
  <2>2. 0 \in -MaxFaults..Lease /\ 0 \in 0..MaxSlots /\ 0 \in 0..MaxFaults
    BY PlannerAssumption
  <2> QED
    BY <2>1, <2>2, FreshRows DEF Init, Shape
<1>2. Fits
  <2>1. probe \in [Probe -> ProbeRow] /\ \A p \in Probe : probe[p] = Idle
    BY FreshRows DEF Init
  <2>2. 0 \in Nat /\ faults = 0 /\ checkpoint.generation = 0
    BY DEF Init, Fresh
  <2> QED
    BY <2>1, <2>2, FreshRows DEF Fits
<1>3. Library
  BY DEF Init, Library
<1>4. Progress
  BY DEF Init, Progress, Fresh
<1> QED
  BY <1>1, <1>2, <1>3, <1>4 DEF Core

LEMMA CoreStep == Core /\ [Next]_vars => Core'
<1> SUFFICES ASSUME Core, [Next]_vars PROVE Core'
  OBVIOUS
<1>1. ASSUME NEW p \in Probe, Step(p) \/ SendFails(p) \/ Crash(p) PROVE Core'
  BY <1>1, BeginCore, OpenRunCore, PersistReclaimCore, PersistClaimCore, ScanCore,
     SendCore, SendFailsCore, AuthorsCore, SaveCore, CrashCore DEF Step
<1>2. CASE Tick
  BY <1>2, TickCore
<1>3. CASE SlotPasses
  BY <1>3, SlotPassesCore
<1>4. CASE Edit
  BY <1>4, EditCore
<1>5. CASE UNCHANGED vars
  BY <1>5 DEF vars, Core, Shape, Fits, Library, Progress, Present
<1> QED
  BY <1>1, <1>2, <1>3, <1>4, <1>5 DEF Next

(* Whatever crashes, fails, comes late or changes: the row and every        *)
(* planner of its generation have sent all they passed, no planner knows a  *)
(* generation the row has not reached, and a novel is on the shelf once.    *)
THEOREM PlannerInvariant == Spec => []PlannerInv
<1>1. Spec => []Core
  BY InitCore, CoreStep, PTL DEF Spec
<1>2. Core /\ SlotsInv => PlannerInv
  BY DEF Core, PlannerInv
<1> QED
  BY <1>1, <1>2, SlotsInvariant, PTL

(* The planner's state keeps its types and bounds, and the row names an     *)
(* owner exactly while a generation runs.                                  *)
THEOREM TypeCorrect == Spec => []TypeOK
<1>1. PlannerInv => TypeOK
  <2> SUFFICES ASSUME PlannerInv PROVE TypeOK
    OBVIOUS
  <2>1. slots \in 0..MaxSlots /\ MaxSlots \in Nat /\ faults \in 0..MaxFaults /\ MaxFaults \in Nat
    BY PlannerAssumption DEF PlannerInv, Shape
  <2>2. ASSUME NEW c \in Row, Timely(c)
        PROVE  c \in Checkpoint
    <3>1. c.generation \in 0..MaxSlots /\ c.lastRun \in 0..MaxSlots
      BY <2>1, <2>2 DEF Timely, Row
    <3> QED
      BY <2>2, <3>1 DEF Row, Checkpoint
  <2>3. checkpoint \in Checkpoint /\ (checkpoint.token = NoToken <=> checkpoint.state = "done")
    BY <2>2 DEF PlannerInv, Shape, SlotsInv, Tokened
  <2>4. ASSUME NEW p \in Probe
        PROVE  /\ probe[p].cp \in Checkpoint
               /\ probe[p].age \in 0..MaxFaults /\ probe[p].base \in 0..MaxSlots
               /\ probe[p].plans \subseteq Novel
               /\ probe[p].key \in Keys /\ probe[p].full \in BOOLEAN
               /\ probe[p].next \in Nat
    <3>1. /\ probe[p] \in ProbeRow /\ Fit(p, probe[p], checkpoint.generation, faults)
          /\ Decided(probe[p])
      BY DEF PlannerInv, Fits, SlotsInv
    <3>2. probe[p].cp \in Checkpoint
      BY <2>2, <3>1 DEF ProbeRow, Decided
    <3>3. probe[p].age \in 0..MaxFaults
      BY <2>1, <3>1 DEF ProbeRow, Fit
    <3>4. probe[p].base \in 0..MaxSlots
      <4>1. checkpoint.generation \in 0..MaxSlots /\ probe[p].base \in Nat
        BY <2>3, <3>1 DEF ProbeRow, Checkpoint
      <4>2. probe[p].base <= checkpoint.generation
        BY <3>1 DEF Fit
      <4> QED
        BY <2>1, <4>1, <4>2
    <3> QED
      BY <3>1, <3>2, <3>3, <3>4 DEF ProbeRow
  <2>5. Present \subseteq Novel /\ Len(shelf) = Cardinality(Present)
    BY Counted, Indexed DEF PlannerInv, Shape, Present
  <2>6. eligible \subseteq Novel
    BY <2>5 DEF PlannerInv, Library
  <2> QED
    BY <2>3, <2>4, <2>5, <2>6 DEF PlannerInv, Shape, TypeOK
<1> QED
  BY <1>1, PlannerInvariant, PTL

(* A finished generation has sent an update for every novel that was there  *)
(* and not frozen from its opening on, unless the order moved under an      *)
(* offset.                                                                 *)
THEOREM NoneLeftOut == Spec => []Covered
<1>1. PlannerInv => Covered
  BY DEF PlannerInv, Progress, Passed, Covered
<1> QED
  BY <1>1, PlannerInvariant, PTL

=============================================================================
