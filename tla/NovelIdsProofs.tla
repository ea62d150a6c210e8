--------------------------- MODULE NovelIdsProofs ---------------------------
(***************************************************************************)
(* An id never names two works (in a YAML library: while its record stands *)
(* and until its process ends) and is never held twice, for any works, any *)
(* bound on ids and faults, and either pool.                               *)
(***************************************************************************)
EXTENDS NovelIds, FiniteSetTheorems, WellFoundedInduction, TLAPS

Reserving(w) == holder[w].pc = "reserved"

(* The pool: what it reserves and what is published lies below the mark,   *)
(* and an id is in one of the two at most.                                 *)
PoolOK ==
  /\ store \in {"sql", "memory"}
  /\ next \in 0..MaxId + 1 /\ generation \in Nat
  /\ rows \in [DOMAIN rows -> Row] /\ DOMAIN rows \subseteq 0..next - 1
  /\ novels \in [DOMAIN novels -> Work] /\ DOMAIN novels \subseteq 0..next - 1
  /\ DOMAIN rows \cap DOMAIN novels = {}
  /\ store = "memory" => \A id \in DOMAIN rows : rows[id].generation <= generation

HoldersOK ==
  holder \in [Work -> [pc : {"idle", "reserved", "failed", "published"},
                       id : Ids, generation : Int]]

(* A download that holds an id has its row, and has it alone.              *)
Held(w) ==
  /\ holder[w].id \in DOMAIN rows
  /\ rows[holder[w].id].generation = holder[w].generation
  /\ ~rows[holder[w].id].available

HeldAlone ==
  /\ \A w \in Work : Reserving(w) => Held(w)
  /\ \A v, w \in Work : Reserving(v) /\ Reserving(w) /\ holder[v].id = holder[w].id
                          => v = w

(* A reservation that is over: its row may have gone, or been reserved     *)
(* anew under a later generation, but nobody holds it any more.            *)
Over(id, g) ==
  /\ id < next
  /\ id \in DOMAIN rows => g <= rows[id].generation
  /\ \A w \in Work : Reserving(w) /\ holder[w].id = id => g < holder[w].generation

ReleasesOver ==
  /\ releases \subseteq [id : Ids, generation : Int]
  /\ \A m \in releases : Over(m.id, m.generation)
  /\ \A w \in Work : holder[w].pc = "failed" => Over(holder[w].id, holder[w].generation)

(* An id that named a work is behind the mark and out of the pool.         *)
KeepersOK ==
  /\ keepers \in [Ids -> SUBSET Work]
  /\ \A id \in Ids : \/ keepers[id] = {}
                     \/ /\ \E w \in Work : keepers[id] = {w}
                        /\ id < next /\ id \notin DOMAIN rows
  /\ \A id \in DOMAIN novels : keepers[id] = {novels[id]}
  /\ update # NoUpdate => /\ update \in [id : Ids, work : Work]
                          /\ keepers[update.id] = {update.work}

IdsInv == /\ PoolOK /\ HoldersOK /\ HeldAlone /\ ReleasesOver /\ KeepersOK
          /\ faults \in 0..MaxFaults

-----------------------------------------------------------------------------
(* Numbers: a nonempty set of them has a least, a finite one a greatest.   *)
LEMMA HasLeast ==
  ASSUME NEW S \in SUBSET Nat, S # {}
  PROVE  \E x \in S : \A y \in S : x <= y
<1>1. \E x \in S : \A y \in S : <<y, x>> \notin OpToRel(<, Nat)
  BY WFMin, NatLessThanWellFounded
<1>2. PICK x \in S : \A y \in S : <<y, x>> \notin OpToRel(<, Nat)
  BY <1>1
<1>3. \A y \in S : ~(y < x)
  BY <1>2 DEF OpToRel
<1> QED
  BY <1>3

LEMMA FiniteHasTop ==
  ASSUME NEW S, IsFiniteSet(S), S \subseteq Int, S # {}
  PROVE  \E x \in S : \A y \in S : y <= x
<1> DEFINE HasTop(X) == \E x \in X : \A y \in X : y <= x
           T == {X \in SUBSET S : X # {} /\ ~HasTop(X)}
<1>1. SUFFICES ASSUME T # {} PROVE FALSE
  OBVIOUS
<1>2. T \subseteq FiniteSubsetsOf(S)
  BY FS_Subset DEF FiniteSubsetsOf
<1>3. PICK X \in T : \A Y \in T : <<Y, X>> \notin StrictSubsetOrdering(S)
  BY <1>1, <1>2, WFMin, FS_StrictSubsetOrderingWellFounded
<1>4. PICK x \in X : TRUE
  BY <1>3
<1>5. X \ {x} \notin T
  BY <1>3, <1>4 DEF StrictSubsetOrdering
<1>6. CASE X = {x}
  BY <1>3, <1>6
<1>7. CASE X # {x}
  <2>1. PICK z \in X \ {x} : \A y \in X \ {x} : y <= z
    BY <1>3, <1>4, <1>5, <1>7
  <2>2. x \in Int /\ z \in Int /\ X \subseteq Int
    BY <1>3, <1>4, <2>1
  <2>3. CASE x <= z
    BY <1>3, <2>1, <2>2, <2>3
  <2>4. CASE z <= x
    BY <1>3, <1>4, <2>1, <2>2, <2>4
  <2> QED
    BY <2>2, <2>3, <2>4
<1> QED
  BY <1>6, <1>7

LEMMA TopBounds ==
  ASSUME NEW S \in SUBSET Int, IsFiniteSet(S), NEW least \in Int
  PROVE  /\ Top(S, least) \in S \cup {least}
         /\ \A y \in S \cup {least} : y <= Top(S, least)
<1>1. IsFiniteSet(S \cup {least})
  BY FS_AddElement
<1>2. \E x \in S \cup {least} : \A y \in S \cup {least} : y <= x
  BY <1>1, FiniteHasTop
<1> QED
  BY <1>2 DEF Top

-----------------------------------------------------------------------------
(* What is allocated: an id given back or the mark, under a generation      *)
(* above every other.                                                       *)
LEMMA DomainsFinite ==
  ASSUME PoolOK
  PROVE  IsFiniteSet(DOMAIN rows) /\ IsFiniteSet(DOMAIN novels)
<1>1. 0 \in Int /\ next - 1 \in Int
  BY NovelIdsAssumption DEF PoolOK
<1>2. IsFiniteSet(0..next - 1)
  BY <1>1, FS_Interval
<1> QED
  BY <1>2, FS_Subset DEF PoolOK

(* The mark a new process sets lies behind the records, and not above the  *)
(* one before.                                                             *)
LEMMA BehindIs ==
  ASSUME PoolOK
  PROVE  /\ BehindRecords \in 0..next
         /\ \A id \in DOMAIN novels : id < BehindRecords
<1>1. IsFiniteSet(DOMAIN novels)
  BY DomainsFinite
<1>2. DOMAIN novels \in SUBSET Int /\ next \in Nat /\ -1 \in Int
  BY NovelIdsAssumption DEF PoolOK
<1> DEFINE n == Top(DOMAIN novels, -1)
<1>3. n \in DOMAIN novels \cup {-1} /\ \A y \in DOMAIN novels \cup {-1} : y <= n
  BY <1>1, <1>2, TopBounds
<1>4. n \in Int /\ -1 <= n /\ n < next /\ \A y \in DOMAIN novels : y <= n
  BY <1>2, <1>3 DEF PoolOK
<1>5. BehindRecords = n + 1
  BY DEF BehindRecords
<1> HIDE DEF n
<1> QED
  BY <1>2, <1>4, <1>5

LEMMA FreshIsNext ==
  ASSUME PoolOK
  PROVE  FreshId = next
<1>1. CASE store = "memory"
  BY <1>1 DEF FreshId
<1>2. CASE store = "sql"
  <2>1. IsFiniteSet(DOMAIN rows) /\ IsFiniteSet(DOMAIN novels)
    BY DomainsFinite
  <2>2. DOMAIN rows \subseteq Int /\ DOMAIN novels \subseteq Int /\ next \in Nat
    BY NovelIdsAssumption DEF PoolOK
  <2> DEFINE r == Top(DOMAIN rows, -1)
             n == BehindRecords
  <2>3. r \in Int /\ r < next /\ n \in Nat /\ n <= next
    BY <2>1, <2>2, TopBounds, BehindIs DEF PoolOK
  <2> HIDE DEF r, n
  <2>4. IsFiniteSet({next, n}) /\ {next, n} \in SUBSET Int
    <3>1. {next, n} = {next} \cup {n}
      OBVIOUS
    <3>2. IsFiniteSet({next})
      BY FS_Singleton
    <3>3. IsFiniteSet({next} \cup {n})
      BY <3>2, FS_AddElement
    <3> QED
      BY <2>2, <2>3, <3>1, <3>3
  <2>5. Top({next, n}, r + 1) = next
    BY <2>2, <2>3, <2>4, TopBounds
  <2> QED
    BY <1>2, <2>5 DEF FreshId, r, n
<1> QED
  BY <1>1, <1>2 DEF PoolOK

LEMMA AllocatedIs ==
  ASSUME PoolOK
  PROVE  AllocatedId \in Released \cup {next}
<1>1. CASE Released = {}
  BY <1>1, FreshIsNext DEF AllocatedId
<1>2. CASE Released # {}
  <2>1. Released \in SUBSET Nat
    BY NovelIdsAssumption DEF Released, PoolOK
  <2>2. \E id \in Released : \A other \in Released : id <= other
    BY <1>2, <2>1, HasLeast
  <2> QED
    BY <1>2, <2>2 DEF AllocatedId
<1> QED
  BY <1>1, <1>2

LEMMA GenerationAbove ==
  ASSUME PoolOK
  PROVE  /\ NextGeneration \in Int
         /\ \A id \in DOMAIN rows : rows[id].generation < NextGeneration
<1>1. CASE store = "memory"
  BY <1>1 DEF NextGeneration, PoolOK, Row
<1>2. CASE store = "sql"
  <2> DEFINE G == {rows[id].generation : id \in DOMAIN rows}
             f == [id \in DOMAIN rows |-> rows[id].generation]
  <2>1. IsFiniteSet(DOMAIN rows)
    BY DomainsFinite
  <2>2. f \in Surjection(DOMAIN rows, G)
    BY DEF Surjection
  <2>3. IsFiniteSet(G)
    BY <2>1, <2>2, FS_Surjection
  <2>4. G \in SUBSET Int
    BY DEF PoolOK, Row
  <2>5. NextGeneration = Top(G, -1) + 1
    BY <1>2 DEF NextGeneration
  <2>6. \A id \in DOMAIN rows : rows[id].generation \in G
    OBVIOUS
  <2>7. -1 \in Int
    OBVIOUS
  <2> HIDE DEF f, G
  <2>8. Top(G, -1) \in G \cup {-1} /\ \A y \in G \cup {-1} : y <= Top(G, -1)
    BY <2>3, <2>4, <2>7, TopBounds
  <2>9. Top(G, -1) \in Int
    BY <2>4, <2>7, <2>8
  <2>10. \A id \in DOMAIN rows : rows[id].generation \in Int
                               /\ rows[id].generation <= Top(G, -1)
    BY <2>4, <2>6, <2>8
  <2> QED
    BY <2>5, <2>9, <2>10
<1> QED
  BY <1>1, <1>2 DEF PoolOK

-----------------------------------------------------------------------------
(* The steps.                                                              *)
LEMMA AllocatePool ==
  ASSUME IdsInv, NEW w \in Work, Allocate(w)
  PROVE  \E id \in Ids, g \in Int :
           /\ PoolOK'
           /\ rows' = Reserve(id, g)
           /\ id \in Released \cup {next} /\ id \notin DOMAIN novels
           /\ id < next' /\ next <= next'
           /\ \A i \in DOMAIN rows : rows[i].generation < g
           /\ holder' \in {holder, [holder EXCEPT ![w] =
                             [pc |-> "reserved", id |-> id, generation |-> g]]}
<1> DEFINE id == AllocatedId
           g == NextGeneration
<1>1. id \in Released \cup {next}
  BY AllocatedIs DEF IdsInv
<1>2. g \in Int /\ \A i \in DOMAIN rows : rows[i].generation < g
  BY GenerationAbove DEF IdsInv
<1>3. store = "memory" => g = generation + 1
  BY DEF NextGeneration
<1>4. /\ id <= MaxId /\ rows' = Reserve(id, g) /\ next' = Bumped(id)
      /\ generation' = (IF store = "memory" THEN g ELSE generation)
      /\ holder' \in {holder, [holder EXCEPT ![w] =
                        [pc |-> "reserved", id |-> id, generation |-> g]]}
      /\ UNCHANGED <<store, novels>>
  BY DEF Allocate
<1> HIDE DEF id, g
<1>5. id \in Ids /\ id \notin DOMAIN novels
  BY <1>1, <1>4, NovelIdsAssumption DEF IdsInv, PoolOK, Released, Ids
<1>6. next' \in 0..MaxId + 1 /\ id < next' /\ next <= next'
  BY <1>1, <1>4, <1>5, NovelIdsAssumption DEF IdsInv, PoolOK, Released, Ids, Bumped
<1>7. rows' \in [DOMAIN rows \cup {id} -> Row]
  BY <1>2, <1>4 DEF IdsInv, PoolOK, Reserve, Row
<1>8. DOMAIN rows' = DOMAIN rows \cup {id}
  BY <1>4 DEF Reserve
<1>9. DOMAIN rows' \subseteq 0..next' - 1 /\ DOMAIN novels \subseteq 0..next' - 1
  BY <1>5, <1>6, <1>8, NovelIdsAssumption DEF IdsInv, PoolOK, Ids
<1>10. generation' \in Nat /\ (store = "memory" => \A i \in DOMAIN rows' :
                                  rows'[i].generation <= generation')
  BY <1>2, <1>3, <1>4, <1>8 DEF IdsInv, PoolOK, Reserve, Row
<1>11. PoolOK'
  BY <1>4, <1>5, <1>6, <1>7, <1>8, <1>9, <1>10 DEF IdsInv, PoolOK
<1> QED
  BY <1>1, <1>2, <1>4, <1>5, <1>6, <1>11

LEMMA AllocateKeeps ==
  ASSUME IdsInv, NEW w \in Work, Allocate(w)
  PROVE  IdsInv'
<1>1. PICK id \in Ids, g \in Int :
        /\ PoolOK'
        /\ rows' = Reserve(id, g)
        /\ id \in Released \cup {next} /\ id \notin DOMAIN novels
        /\ id < next' /\ next <= next'
        /\ \A i \in DOMAIN rows : rows[i].generation < g
        /\ holder' \in {holder, [holder EXCEPT ![w] =
                          [pc |-> "reserved", id |-> id, generation |-> g]]}
  BY AllocatePool
<1>2. /\ DOMAIN rows' = DOMAIN rows \cup {id}
      /\ \A i \in DOMAIN rows : i # id => rows'[i] = rows[i]
      /\ rows'[id] = [generation |-> g, available |-> FALSE]
  BY <1>1 DEF Reserve
<1>3. holder[w].pc = "idle" /\ UNCHANGED <<novels, releases, update, keepers>>
  BY DEF Allocate
<1>4. \A v \in Work : Reserving(v) => holder[v].id # id
  BY <1>1, NovelIdsAssumption DEF IdsInv, HeldAlone, Held, Released, PoolOK
<1>5. HoldersOK'
  BY <1>1 DEF IdsInv, HoldersOK
<1>6. \A v \in Work : \/ v # w /\ holder'[v] = holder[v]
                      \/ v = w /\ holder'[v] = holder[v]
                      \/ v = w /\ holder'[v] = [pc |-> "reserved", id |-> id, generation |-> g]
  BY <1>1 DEF IdsInv, HoldersOK
<1>7. HeldAlone'
  BY <1>2, <1>3, <1>4, <1>6 DEF IdsInv, HeldAlone, Held, Reserving
<1>8. ASSUME NEW i \in Ids, NEW h \in Int, Over(i, h) PROVE Over(i, h)'
  <2>1. i < next'
    BY <1>1, <1>8, NovelIdsAssumption DEF Over, IdsInv, PoolOK, Ids
  <2>2. i = id => i \in DOMAIN rows /\ h < g
    BY <1>1, <1>8, NovelIdsAssumption DEF Over, IdsInv, PoolOK, Ids, Released, Row
  <2>3. i \in DOMAIN rows' => h <= rows'[i].generation
    BY <1>2, <1>8, <2>2 DEF Over
  <2>4. \A v \in Work : Reserving(v)' /\ holder'[v].id = i => h < holder'[v].generation
    BY <1>6, <1>8, <1>3, <2>2 DEF Over, Reserving
  <2> QED
    BY <2>1, <2>3, <2>4 DEF Over
<1>9. ReleasesOver'
  <2>1. \A m \in releases : m.id \in Ids /\ m.generation \in Int
    BY DEF IdsInv, ReleasesOver
  <2>2. \A v \in Work : holder'[v].pc = "failed" =>
           /\ holder[v].pc = "failed" /\ holder'[v] = holder[v]
           /\ holder[v].id \in Ids /\ holder[v].generation \in Int
    BY <1>6 DEF IdsInv, HoldersOK
  <2> QED
    BY <1>3, <1>8, <2>1, <2>2 DEF IdsInv, ReleasesOver
<1>10. KeepersOK'
  <2>1. \A i \in Ids : keepers[i] # {} => i # id /\ i < next'
    BY <1>1, NovelIdsAssumption DEF IdsInv, KeepersOK, Released, PoolOK, Ids
  <2> QED
    BY <1>2, <1>3, <2>1 DEF IdsInv, KeepersOK
<1>11. faults' \in 0..MaxFaults
  BY NovelIdsAssumption DEF Allocate, Fault, IdsInv
<1> QED
  BY <1>1, <1>5, <1>7, <1>9, <1>10, <1>11 DEF IdsInv

(* A record written under an id that named nothing but its work: whoever   *)
(* held the id may not go on holding it.                                   *)
LEMMA PublishedKeeps ==
  ASSUME IdsInv, NEW id \in Ids, NEW w \in Work, Published(id, w),
         UNCHANGED <<store, generation, releases>>,
         id < next, keepers[id] \subseteq {w}, faults' \in 0..MaxFaults,
         HoldersOK',
         \A v \in Work : \/ holder'[v] = holder[v] /\ ~(Reserving(v) /\ holder[v].id = id)
                         \/ /\ holder'[v].pc \in {"published", "failed"}
                            /\ holder'[v].id = holder[v].id
                            /\ holder'[v].generation = holder[v].generation
                            /\ Reserving(v) /\ holder[v].id = id,
         update' = update \/ update' = NoUpdate
  PROVE  IdsInv'
<1>1. /\ novels' = [i \in DOMAIN novels \cup {id} |-> IF i = id THEN w ELSE novels[i]]
      /\ rows' = [i \in DOMAIN rows \ {id} |-> rows[i]]
      /\ keepers' = [keepers EXCEPT ![id] = {w}]
      /\ next' = next
  BY NovelIdsAssumption DEF Published, WithoutRow, Restrict, Bumped, IdsInv, KeepersOK,
     PoolOK, Ids
<1>2. PoolOK'
  <2>1. DOMAIN rows' = DOMAIN rows \ {id} /\ DOMAIN novels' = DOMAIN novels \cup {id}
    BY <1>1
  <2>2. rows' \in [DOMAIN rows' -> Row] /\ novels' \in [DOMAIN novels' -> Work]
    BY <1>1, <2>1 DEF IdsInv, PoolOK
  <2>3. \A i \in DOMAIN rows' : rows'[i] = rows[i]
    BY <1>1
  <2> QED
    BY <1>1, <2>1, <2>2, <2>3, NovelIdsAssumption DEF IdsInv, PoolOK, Ids
<1>3. \A v \in Work : Reserving(v)' => holder'[v] = holder[v] /\ Reserving(v) /\ holder[v].id # id
  BY DEF Reserving
<1>4. HeldAlone'
  BY <1>1, <1>3 DEF IdsInv, HeldAlone, Held
<1>5. \A i \in Ids, h \in Int : Over(i, h) => Over(i, h)'
  BY <1>1, <1>3 DEF Over
<1>6. ASSUME NEW v \in Work, holder'[v].pc = "failed"
      PROVE  Over(holder[v].id, holder[v].generation)'
  <2>1. CASE holder'[v] = holder[v]
    BY <1>5, <1>6, <2>1 DEF IdsInv, ReleasesOver, HoldersOK
  <2>2. CASE holder'[v].id = id
    BY <1>1, <1>3, <1>6, <2>2 DEF Over
  <2> QED
    BY <2>1, <2>2
<1>7. ReleasesOver'
  BY <1>5, <1>6 DEF IdsInv, ReleasesOver
<1>8. KeepersOK'
  <2>1. \A i \in DOMAIN novels : i \in Ids
    BY NovelIdsAssumption DEF IdsInv, PoolOK, Ids
  <2> QED
    BY <1>1, <2>1 DEF IdsInv, KeepersOK, NoUpdate
<1> QED
  BY <1>2, <1>4, <1>7, <1>8 DEF IdsInv

LEMMA PublishKeeps ==
  ASSUME IdsInv, NEW w \in Work, Publish(w)
  PROVE  IdsInv'
<1> DEFINE id == holder[w].id
<1>1. /\ Published(id, w) /\ Reserving(w)
      /\ UNCHANGED <<store, generation, releases, update>>
      /\ holder' \in {[holder EXCEPT ![w].pc = "published"], [holder EXCEPT ![w].pc = "failed"]}
  BY DEF Publish, Become, Reserving
<1>2. id \in Ids /\ id < next /\ keepers[id] \subseteq {w}
  BY <1>1, NovelIdsAssumption DEF IdsInv, HoldersOK, HeldAlone, Held, PoolOK, KeepersOK, Ids
<1>3. faults' \in 0..MaxFaults
  BY NovelIdsAssumption DEF Publish, Fault, IdsInv
<1>4. HoldersOK'
  BY <1>1 DEF IdsInv, HoldersOK
<1>5. \A v \in Work : v # w => holder'[v] = holder[v] /\ ~(Reserving(v) /\ holder[v].id = id)
  BY <1>1 DEF IdsInv, HoldersOK, HeldAlone
<1>6. /\ holder'[w].pc \in {"published", "failed"} /\ holder'[w].id = holder[w].id
      /\ holder'[w].generation = holder[w].generation
  BY <1>1 DEF IdsInv, HoldersOK
<1> HIDE DEF id
<1>7. \A v \in Work : \/ holder'[v] = holder[v] /\ ~(Reserving(v) /\ holder[v].id = id)
                      \/ /\ holder'[v].pc \in {"published", "failed"}
                         /\ holder'[v].id = holder[v].id
                         /\ holder'[v].generation = holder[v].generation
                         /\ Reserving(v) /\ holder[v].id = id
  BY <1>1, <1>5, <1>6 DEF id
<1> QED
  BY <1>1, <1>2, <1>3, <1>4, <1>7, PublishedKeeps

LEMMA WriteRecordKeeps ==
  ASSUME IdsInv, WriteRecord
  PROVE  IdsInv'
<1>1. /\ update \in [id : Ids, work : Work] /\ keepers[update.id] = {update.work}
      /\ Published(update.id, update.work) /\ update' = NoUpdate
      /\ UNCHANGED <<store, generation, holder, releases, faults>>
  BY DEF WriteRecord, IdsInv, KeepersOK
<1>2. update.id \in Ids /\ update.id < next /\ update.id \notin DOMAIN rows
  BY <1>1 DEF IdsInv, KeepersOK
<1>3. \A v \in Work : holder'[v] = holder[v] /\ ~(Reserving(v) /\ holder[v].id = update.id)
  BY <1>1, <1>2 DEF IdsInv, HeldAlone, Held
<1>4. HoldersOK' /\ faults' \in 0..MaxFaults
  BY <1>1 DEF IdsInv, HoldersOK
<1> QED
  BY <1>1, <1>2, <1>3, <1>4, PublishedKeeps

(* Steps of the downloads that leave pool and records alone.               *)
LEMMA HolderKeeps ==
  ASSUME IdsInv, HoldersOK', ReleasesOver', faults' \in 0..MaxFaults,
         UNCHANGED <<store, next, generation, rows, novels, update, keepers>>,
         \A v \in Work : Reserving(v)' => holder'[v] = holder[v]
  PROVE  IdsInv'
<1>1. PoolOK' /\ KeepersOK'
  BY DEF IdsInv, PoolOK, KeepersOK
<1>2. HeldAlone'
  BY DEF IdsInv, HeldAlone, Held, Reserving
<1> QED
  BY <1>1, <1>2 DEF IdsInv

LEMMA FailKeeps ==
  ASSUME IdsInv, NEW w \in Work, Fail(w)
  PROVE  IdsInv'
<1>1. /\ Reserving(w) /\ UNCHANGED <<store, next, generation, rows, novels, releases,
                                      update, keepers>>
      /\ holder' \in {[holder EXCEPT ![w].pc = "failed"], [holder EXCEPT ![w] = Idle]}
      /\ faults' \in 0..MaxFaults
  BY NovelIdsAssumption DEF Fail, Become, Reserving, Fault, IdsInv
<1>2. HoldersOK'
  BY <1>1, NovelIdsAssumption DEF IdsInv, HoldersOK, Idle, Ids
<1>3. \A v \in Work : Reserving(v)' => v # w /\ holder'[v] = holder[v]
  BY <1>1 DEF IdsInv, HoldersOK, Reserving, Idle
<1>4. \A i \in Ids, h \in Int : Over(i, h) => Over(i, h)'
  BY <1>1, <1>3 DEF Over, Reserving
<1>5. \A i \in Ids, h \in Int :
        i = holder[w].id /\ h = holder[w].generation => Over(i, h)'
  BY <1>1, <1>3, NovelIdsAssumption DEF Over, IdsInv, HeldAlone, Held, PoolOK, Row, HoldersOK,
     Reserving
<1>6. \A v \in Work : holder'[v].pc = "failed" =>
        \/ v # w /\ holder'[v] = holder[v]
        \/ v = w /\ holder'[v].id = holder[v].id /\ holder'[v].generation = holder[v].generation
  BY <1>1 DEF IdsInv, HoldersOK, Idle
<1>7. ReleasesOver'
  BY <1>1, <1>4, <1>5, <1>6 DEF IdsInv, ReleasesOver, HoldersOK
<1> QED
  BY <1>1, <1>2, <1>3, <1>7, HolderKeeps

LEMMA AskReleaseKeeps ==
  ASSUME IdsInv, NEW w \in Work, AskRelease(w)
  PROVE  IdsInv'
<1> DEFINE m == [id |-> holder[w].id, generation |-> holder[w].generation]
<1>1. /\ holder[w].pc = "failed" /\ releases' = releases \cup {m}
      /\ UNCHANGED <<store, next, generation, rows, novels, update, faults, keepers>>
      /\ holder' \in {[holder EXCEPT ![w] = [Idle EXCEPT !.pc = "published"]],
                      [holder EXCEPT ![w] = Idle]}
  BY DEF AskRelease, Unbegun
<1>2. HoldersOK'
  BY <1>1, NovelIdsAssumption DEF IdsInv, HoldersOK, Idle, Ids
<1>3. \A v \in Work : holder'[v].pc \in {"reserved", "failed"} => v # w /\ holder'[v] = holder[v]
  BY <1>1 DEF IdsInv, HoldersOK, Idle
<1>4. \A i \in Ids, h \in Int : Over(i, h) => Over(i, h)'
  BY <1>1, <1>3 DEF Over, Reserving
<1>5. m \in [id : Ids, generation : Int] /\ Over(m.id, m.generation)
  BY <1>1 DEF IdsInv, HoldersOK, ReleasesOver
<1> HIDE DEF m
<1>6. ReleasesOver'
  BY <1>1, <1>3, <1>4, <1>5 DEF IdsInv, ReleasesOver, HoldersOK
<1> QED
  BY <1>1, <1>2, <1>3, <1>6, HolderKeeps DEF Reserving, IdsInv

LEMMA AgainKeeps ==
  ASSUME IdsInv, NEW w \in Work, Again(w)
  PROVE  IdsInv'
<1>1. /\ UNCHANGED <<store, next, generation, rows, novels, releases, update, faults, keepers>>
      /\ holder' = [holder EXCEPT ![w] = Idle]
  BY DEF Again
<1>2. HoldersOK'
  BY <1>1, NovelIdsAssumption DEF IdsInv, HoldersOK, Idle, Ids
<1>3. \A v \in Work : holder'[v].pc \in {"reserved", "failed"} => holder'[v] = holder[v]
  BY <1>1 DEF IdsInv, HoldersOK, Idle
<1>4. ReleasesOver'
  BY <1>1, <1>3 DEF IdsInv, ReleasesOver, Over, Reserving, HoldersOK
<1> QED
  BY <1>1, <1>2, <1>3, <1>4, HolderKeeps DEF Reserving, IdsInv

(* A release changes the row of an id nobody holds, or nothing.            *)
LEMMA ReleaseKeeps ==
  ASSUME IdsInv, NEW m \in releases, Release(m)
  PROVE  IdsInv'
<1>1. /\ rows' = GivenBack(m) /\ releases' \subseteq releases
      /\ UNCHANGED <<store, next, generation, novels, holder, update, keepers>>
  BY DEF Release
<1>2. faults' \in 0..MaxFaults
  BY NovelIdsAssumption DEF Release, Fault, IdsInv
<1>3. m.id \in Ids /\ m.generation \in Int /\ Over(m.id, m.generation)
  BY DEF IdsInv, ReleasesOver
<1>4. CASE rows' = rows
  <2>1. PoolOK' /\ KeepersOK' /\ HoldersOK' /\ HeldAlone'
    BY <1>1, <1>4 DEF IdsInv, PoolOK, KeepersOK, HoldersOK, HeldAlone, Held, Reserving
  <2>2. ReleasesOver'
    BY <1>1, <1>4 DEF IdsInv, ReleasesOver, Over, Reserving
  <2> QED
    BY <1>2, <2>1, <2>2 DEF IdsInv
<1>5. CASE Matches(m) /\ m.id \notin DOMAIN novels /\ rows' = [rows EXCEPT ![m.id].available = TRUE]
  <2>1. /\ m.id \in DOMAIN rows /\ rows[m.id].generation = m.generation
        /\ \A w \in Work : Reserving(w) => holder[w].id # m.id
    BY <1>3, <1>5 DEF Matches, Over, IdsInv, HeldAlone, Held, HoldersOK
  <2>2. /\ DOMAIN rows' = DOMAIN rows /\ rows' \in [DOMAIN rows -> Row]
        /\ \A i \in DOMAIN rows : rows'[i].generation = rows[i].generation
        /\ \A i \in DOMAIN rows : i # m.id => rows'[i] = rows[i]
    BY <1>5 DEF IdsInv, PoolOK, Row
  <2>3. PoolOK' /\ KeepersOK' /\ HoldersOK'
    BY <1>1, <2>2 DEF IdsInv, PoolOK, KeepersOK, HoldersOK
  <2>4. HeldAlone'
    BY <1>1, <2>1, <2>2 DEF IdsInv, HeldAlone, Held, Reserving
  <2>5. ReleasesOver'
    BY <1>1, <2>2 DEF IdsInv, ReleasesOver, Over, Reserving
  <2> QED
    BY <1>2, <2>3, <2>4, <2>5 DEF IdsInv
<1>6. Matches(m) => m.id \notin DOMAIN novels
  BY DEF Matches, IdsInv, PoolOK
<1> QED
  BY <1>1, <1>4, <1>5, <1>6 DEF GivenBack

LEMMA RecordKeeps ==
  ASSUME IdsInv,
         \/ \E m \in releases : LoseRelease(m)
         \/ \E id \in DOMAIN novels : Remove(id) \/ ReadRecord(id)
  PROVE  IdsInv'
<1>1. /\ UNCHANGED <<store, next, generation, rows, holder, keepers>>
      /\ releases' \subseteq releases /\ faults' \in 0..MaxFaults
  <2>1. ASSUME NEW m \in releases, LoseRelease(m)
        PROVE  releases' \subseteq releases /\ faults' \in 0..MaxFaults
    BY <2>1, NovelIdsAssumption DEF LoseRelease, Fault, IdsInv
  <2>2. ASSUME NEW id \in DOMAIN novels, Remove(id) \/ ReadRecord(id)
        PROVE  UNCHANGED <<releases, faults>>
    BY <2>2 DEF Remove, ReadRecord
  <2>3. UNCHANGED <<store, next, generation, rows, holder, keepers>>
    BY DEF LoseRelease, Remove, ReadRecord
  <2> QED
    BY <2>1, <2>2, <2>3 DEF IdsInv
<1>2. \/ novels' = novels
      \/ \E id \in DOMAIN novels : novels' = [i \in DOMAIN novels \ {id} |-> novels[i]]
  BY DEF LoseRelease, Remove, ReadRecord, Restrict
<1>3. \/ update' = update
      \/ \E id \in DOMAIN novels : update' = [id |-> id, work |-> novels[id]]
  BY DEF LoseRelease, Remove, ReadRecord
<1>4. /\ DOMAIN novels' \subseteq DOMAIN novels /\ novels' \in [DOMAIN novels' -> Work]
      /\ \A i \in DOMAIN novels' : novels'[i] = novels[i]
  BY <1>2 DEF IdsInv, PoolOK
<1>5. PoolOK'
  BY <1>1, <1>4 DEF IdsInv, PoolOK
<1>6. DOMAIN novels \subseteq Ids
  BY NovelIdsAssumption DEF IdsInv, PoolOK, Ids
<1>7. update' # NoUpdate => /\ update' \in [id : Ids, work : Work]
                            /\ keepers[update'.id] = {update'.work}
  BY <1>3, <1>6 DEF IdsInv, KeepersOK, PoolOK
<1>8. KeepersOK'
  BY <1>1, <1>4, <1>7 DEF IdsInv, KeepersOK
<1>9. HoldersOK' /\ HeldAlone' /\ ReleasesOver'
  BY <1>1 DEF IdsInv, HoldersOK, HeldAlone, Held, ReleasesOver, Over, Reserving
<1> QED
  BY <1>1, <1>5, <1>8, <1>9 DEF IdsInv

(* A new process holds nothing and knows the works that stand.             *)
LEMMA RestartKeeps ==
  ASSUME IdsInv, Restart
  PROVE  IdsInv'
<1>1. /\ next' = BehindRecords /\ generation' = 0 /\ rows' = << >>
      /\ holder' = [w \in Work |-> Unbegun(w)]
      /\ releases' = {} /\ update' = NoUpdate /\ UNCHANGED <<store, novels>>
      /\ keepers' = [id \in Ids |-> {novels[i] : i \in {id} \cap DOMAIN novels}]
      /\ faults' \in 0..MaxFaults
  BY NovelIdsAssumption DEF Restart, Fault, IdsInv
<1>2. /\ next' \in 0..MaxId + 1 /\ DOMAIN novels \subseteq 0..next' - 1
      /\ DOMAIN novels \subseteq Ids
  BY <1>1, BehindIs, NovelIdsAssumption DEF IdsInv, PoolOK, Ids
<1>3. DOMAIN rows' = {} /\ rows' \in [DOMAIN rows' -> Row]
  BY <1>1
<1>4. PoolOK'
  BY <1>1, <1>2, <1>3 DEF IdsInv, PoolOK
<1>5. \A w \in Work : Unbegun(w) \in [pc : {"idle", "published"}, id : Ids, generation : Int]
  BY NovelIdsAssumption DEF Unbegun, Idle, Ids
<1>6. HoldersOK' /\ \A w \in Work : holder'[w].pc \in {"idle", "published"}
  BY <1>1, <1>5 DEF HoldersOK
<1>7. HeldAlone' /\ ReleasesOver'
  BY <1>1, <1>6 DEF HeldAlone, ReleasesOver, Reserving
<1>8. \A id \in Ids : keepers'[id] = IF id \in DOMAIN novels THEN {novels[id]} ELSE {}
  BY <1>1
<1>9. \A id \in DOMAIN novels : novels[id] \in Work
  BY DEF IdsInv, PoolOK
<1>10. keepers' \in [Ids -> SUBSET Work]
  BY <1>1, <1>9
<1>11. \A id \in DOMAIN novels : id < next'
  BY <1>1, BehindIs DEF IdsInv
<1>12. KeepersOK'
  BY <1>1, <1>2, <1>3, <1>8, <1>9, <1>10, <1>11 DEF KeepersOK
<1> QED
  BY <1>1, <1>4, <1>6, <1>7, <1>12 DEF IdsInv

-----------------------------------------------------------------------------
LEMMA InitIds == Init => IdsInv
<1> SUFFICES ASSUME Init PROVE IdsInv
  OBVIOUS
<1>1. DOMAIN rows = {} /\ DOMAIN novels = {} /\ next = 0
  BY DEF Init
<1>2. PoolOK
  BY <1>1, NovelIdsAssumption DEF Init, PoolOK
<1>3. HoldersOK /\ HeldAlone /\ ReleasesOver
  BY NovelIdsAssumption DEF Init, HoldersOK, HeldAlone, ReleasesOver, Reserving, Idle, Ids
<1>4. KeepersOK
  BY <1>1 DEF Init, KeepersOK
<1> QED
  BY <1>2, <1>3, <1>4, NovelIdsAssumption DEF Init, IdsInv

LEMMA IdsStep == IdsInv /\ [Next]_vars => IdsInv'
<1> SUFFICES ASSUME IdsInv, [Next]_vars PROVE IdsInv'
  OBVIOUS
<1>1. ASSUME NEW w \in Work,
             Allocate(w) \/ Publish(w) \/ Fail(w) \/ AskRelease(w) \/ Again(w)
      PROVE  IdsInv'
  BY <1>1, AllocateKeeps, PublishKeeps, FailKeeps, AskReleaseKeeps, AgainKeeps
<1>2. ASSUME NEW m \in releases, Release(m) PROVE IdsInv'
  BY <1>2, ReleaseKeeps
<1>3. CASE \/ \E m \in releases : LoseRelease(m)
           \/ \E id \in DOMAIN novels : Remove(id) \/ ReadRecord(id)
  BY <1>3, RecordKeeps
<1>4. CASE WriteRecord
  BY <1>4, WriteRecordKeeps
<1>5. CASE Restart
  BY <1>5, RestartKeeps
<1>6. CASE UNCHANGED vars
  BY <1>6 DEF vars, IdsInv, PoolOK, HoldersOK, HeldAlone, Held, ReleasesOver, Over,
     KeepersOK, Reserving
<1> QED
  BY <1>1, <1>2, <1>3, <1>4, <1>5, <1>6 DEF Next

(* The inductive invariant: a pool below its mark, holders with rows of    *)
(* their own, releases that are over, and ids out of the pool once used.   *)
THEOREM IdsInvariant == Spec => []IdsInv
<1> QED
  BY InitIds, IdsStep, PTL DEF Spec

(* Every variable keeps its type.                                          *)
THEOREM TypeCorrect == Spec => []TypeOK
<1>1. IdsInv => TypeOK
  <2> SUFFICES ASSUME IdsInv PROVE TypeOK
    OBVIOUS
  <2>1. update \in [id : Ids, work : Work \cup {NoWork}]
    BY NovelIdsAssumption DEF IdsInv, KeepersOK, NoUpdate, Ids
  <2> QED
    BY <2>1 DEF IdsInv, PoolOK, HoldersOK, ReleasesOver, KeepersOK, TypeOK, Reservation
<1> QED
  BY <1>1, IdsInvariant, PTL

(* No two downloads ever hold one id, however late or often releases come. *)
THEOREM HeldOnce == Spec => []OneHolder
<1>1. IdsInv => OneHolder
  BY DEF IdsInv, HeldAlone, Reserving, OneHolder
<1> QED
  BY <1>1, IdsInvariant, PTL

(* An id is never published for two works, whatever fails, is removed or   *)
(* written back; in a YAML library, within one process and the records it  *)
(* began with.                                                             *)
THEOREM NamesOneWork == Spec => []OneWorkPerId
<1>1. IdsInv => OneWorkPerId
  <2> SUFFICES ASSUME IdsInv, NEW id \in Ids PROVE Cardinality(keepers[id]) <= 1
    BY DEF OneWorkPerId
  <2>1. CASE keepers[id] = {}
    BY <2>1, FS_EmptySet
  <2>2. ASSUME NEW w \in Work, keepers[id] = {w} PROVE Cardinality(keepers[id]) <= 1
    BY <2>2, FS_Singleton
  <2> QED
    BY <2>1, <2>2 DEF IdsInv, KeepersOK
<1> QED
  BY <1>1, IdsInvariant, PTL

=============================================================================
