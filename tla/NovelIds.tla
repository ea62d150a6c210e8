------------------------------ MODULE NovelIds ------------------------------
(***************************************************************************)
(* Ids of novels.  A download of a new work reserves an id, publishes its   *)
(* record under it, or gives the reservation back (downloader/mod.rs).  The *)
(* pool is a table of the SQL store, in SQLite and in D1 alike              *)
(* (src/db/novel_query.rs), or the allocator inside the one process that    *)
(* owns a YAML library (src/platform/id_allocator.rs), which the next       *)
(* process builds anew from the records (src/db/database.rs).               *)
(*                                                                          *)
(* Each statement batch or transaction is a step.  A release is a request   *)
(* that may arrive late, twice or never, and a publication may fail after   *)
(* it was committed.  Two processes on one YAML library are left out.       *)
(*                                                                         *)
(* A definition marked MUTANT is a plausible mistake in the one that       *)
(* follows it; the specification does not use it.                          *)
(***************************************************************************)
EXTENDS Integers, FiniteSets, Functions

CONSTANTS
  Work,        \* works that are not in the library yet
  NoWork,
  MaxId,       \* bound: ids handed out
  MaxFaults    \* bound: lost answers, failed writes, repeated releases, restarts

ASSUME NovelIdsAssumption ==
  NoWork \notin Work /\ MaxId \in Nat /\ MaxFaults \in Nat

VARIABLES
  store,       \* which of the two pools this library has
  next,        \* high-water mark
  generation,  \* the allocator's last generation (YAML only)
  rows,        \* reservations: id -> [generation, available]
  novels,      \* published records: id -> work
  holder,      \* the download of each work
  releases,    \* release requests on their way
  update,      \* a record an update read and will write back
  faults,
  keepers      \* works whose record was published under an id; the owner of a
               \* YAML library counts from the records standing at its start

vars == <<store, next, generation, rows, novels, holder, releases, update,
          faults, keepers>>

Ids == 0..MaxId
Row == [generation : Int, available : BOOLEAN]
Idle == [pc |-> "idle", id |-> 0, generation |-> 0]
NoUpdate == [id |-> 0, work |-> NoWork]

Fault == faults < MaxFaults /\ faults' = faults + 1

-----------------------------------------------------------------------------
(* The pool.                                                                *)

Top(S, least) ==
  CHOOSE x \in S \cup {least} : \A y \in S \cup {least} : y <= x

(* ids that were given back and may be handed out again                     *)
Released ==
  {id \in DOMAIN rows : rows[id].available /\ id \notin DOMAIN novels}

BehindRecords == Top(DOMAIN novels, -1) + 1

FreshId ==
  IF store = "sql"
  THEN Top({next, BehindRecords}, Top(DOMAIN rows, -1) + 1)
  ELSE next

AllocatedId ==
  IF Released = {} THEN FreshId
  ELSE CHOOSE id \in Released : \A other \in Released : id <= other

NextGeneration ==
  IF store = "sql"
  THEN Top({rows[id].generation : id \in DOMAIN rows}, -1) + 1
  ELSE generation + 1

Reserve(id, g) ==
  [i \in DOMAIN rows \cup {id} |->
     IF i = id THEN [generation |-> g, available |-> FALSE] ELSE rows[i]]

(* MUTANT: the mark is set behind the id even if it was higher.          *)
SetBehind(id) == id + 1

(* The statement that extends the sequence behind an upsert.                *)
Bumped(id) == IF id < next THEN next ELSE id + 1

(* MUTANT: publication leaves the reservation.                           *)
RowKept(id) == rows

WithoutRow(id) == Restrict(rows, DOMAIN rows \ {id})

(* MUTANT: the generation of a release is not compared.                  *)
MatchesAnyGeneration(m) == m.id \in DOMAIN rows /\ ~rows[m.id].available

Matches(m) ==
  /\ m.id \in DOMAIN rows
  /\ rows[m.id].generation = m.generation /\ ~rows[m.id].available

GivenBack(m) ==
  IF ~Matches(m) THEN rows
  ELSE IF m.id \notin DOMAIN novels THEN [rows EXCEPT ![m.id].available = TRUE]
  ELSE IF store = "sql" THEN rows ELSE WithoutRow(m.id)

-----------------------------------------------------------------------------
Init ==
  /\ store \in {"sql", "memory"}
  /\ next = 0 /\ generation = 0
  /\ rows = << >> /\ novels = << >>
  /\ holder = [w \in Work |-> Idle]
  /\ releases = {} /\ update = NoUpdate
  /\ faults = 0
  /\ keepers = [id \in Ids |-> {}]

Become(w, pc) == holder' = [holder EXCEPT ![w].pc = pc]

(* allocate_id: one transaction; its answer may be lost, which leaves the   *)
(* row reserved for nobody.                                                 *)
Allocate(w) ==
  LET id == AllocatedId
      g == NextGeneration
  IN  /\ holder[w].pc = "idle" /\ id <= MaxId
      /\ rows' = Reserve(id, g)
      /\ next' = Bumped(id)
      /\ generation' = IF store = "memory" THEN g ELSE generation
      /\ \/ /\ holder' = [holder EXCEPT ![w] =
                            [pc |-> "reserved", id |-> id, generation |-> g]]
            /\ UNCHANGED faults
         \/ Fault /\ UNCHANGED holder
      /\ UNCHANGED <<store, novels, releases, update, keepers>>

(* The record and the end of its reservation are one transaction.           *)
Published(id, w) ==
  /\ novels' = [i \in DOMAIN novels \cup {id} |->
                  IF i = id THEN w ELSE novels[i]]
  /\ rows' = WithoutRow(id)
  /\ next' = Bumped(id)
  /\ keepers' = [keepers EXCEPT ![id] = @ \cup {w}]

Publish(w) ==
  /\ holder[w].pc = "reserved"
  /\ Published(holder[w].id, w)
  /\ \/ Become(w, "published") /\ UNCHANGED faults
     \/ Become(w, "failed") /\ Fault
  /\ UNCHANGED <<store, generation, releases, update>>

(* The download fails, finds nothing to do, or its write is refused; or its *)
(* process ends and leaves its row in the table reserved.                   *)
Fail(w) ==
  /\ holder[w].pc = "reserved" /\ Fault
  /\ \/ Become(w, "failed")
     \/ store = "sql" /\ holder' = [holder EXCEPT ![w] = Idle]
  /\ UNCHANGED <<store, next, generation, rows, novels, releases, update, keepers>>

Unbegun(w) ==
  IF \E id \in DOMAIN novels : novels[id] = w THEN [Idle EXCEPT !.pc = "published"] ELSE Idle

(* release_id is asked for once, by a download that did not succeed.        *)
AskRelease(w) ==
  /\ holder[w].pc = "failed"
  /\ releases' = releases \cup
       {[id |-> holder[w].id, generation |-> holder[w].generation]}
  /\ holder' = [holder EXCEPT ![w] = Unbegun(w)]
  /\ UNCHANGED <<store, next, generation, rows, novels, update, faults, keepers>>

Release(m) ==
  /\ m \in releases
  /\ rows' = GivenBack(m)
  /\ \/ releases' = releases \ {m} /\ UNCHANGED faults
     \/ Fault /\ UNCHANGED releases
  /\ UNCHANGED <<store, next, generation, novels, holder, update, keepers>>

LoseRelease(m) ==
  /\ m \in releases /\ Fault
  /\ releases' = releases \ {m}
  /\ UNCHANGED <<store, next, generation, rows, novels, holder, update, keepers>>

(* The user removes a novel; an update that read its record before writes   *)
(* it all the same.                                                         *)
Remove(id) ==
  /\ id \in DOMAIN novels
  /\ novels' = Restrict(novels, DOMAIN novels \ {id})
  /\ UNCHANGED <<store, next, generation, rows, holder, releases, update,
                 faults, keepers>>

ReadRecord(id) ==
  /\ id \in DOMAIN novels /\ update = NoUpdate
  /\ update' = [id |-> id, work |-> novels[id]]
  /\ UNCHANGED <<store, next, generation, rows, novels, holder, releases,
                 faults, keepers>>

WriteRecord ==
  /\ update # NoUpdate
  /\ Published(update.id, update.work)
  /\ update' = NoUpdate
  /\ UNCHANGED <<store, generation, holder, releases, faults>>

(* A work that was removed may be downloaded anew.                          *)
Again(w) ==
  /\ holder[w].pc = "published"
  /\ ~ \E id \in DOMAIN novels : novels[id] = w
  /\ holder' = [holder EXCEPT ![w] = Idle]
  /\ UNCHANGED <<store, next, generation, rows, novels, releases, update,
                 faults, keepers>>

(* The process that owns a YAML library ends and another begins: allocator, *)
(* downloads and requests are gone, IdAllocator::default is reconciled with *)
(* the records.                                                             *)
Restart ==
  /\ store = "memory" /\ Fault
  /\ next' = BehindRecords /\ generation' = 0 /\ rows' = << >>
  /\ holder' = [w \in Work |-> Unbegun(w)]
  /\ releases' = {} /\ update' = NoUpdate
  /\ keepers' = [id \in Ids |-> {novels[i] : i \in {id} \cap DOMAIN novels}]
  /\ UNCHANGED <<store, novels>>

Next ==
  \/ \E w \in Work : Allocate(w) \/ Publish(w) \/ Fail(w) \/ AskRelease(w) \/ Again(w)
  \/ \E m \in releases : Release(m) \/ LoseRelease(m)
  \/ \E id \in DOMAIN novels : Remove(id) \/ ReadRecord(id)
  \/ WriteRecord \/ Restart

Spec == Init /\ [][Next]_vars

-----------------------------------------------------------------------------
Reservation == [id : Ids, generation : Int]

(* Type invariant; every id in use lies below the high-water mark.          *)
TypeOK ==
  /\ store \in {"sql", "memory"}
  /\ next \in 0..MaxId + 1 /\ generation \in Nat /\ faults \in 0..MaxFaults
  /\ DOMAIN rows \subseteq 0..next - 1 /\ DOMAIN novels \subseteq 0..next - 1
  /\ rows \in [DOMAIN rows -> Row] /\ novels \in [DOMAIN novels -> Work]
  /\ holder \in [Work -> [pc : {"idle", "reserved", "failed", "published"},
                          id : Ids, generation : Int]]
  /\ releases \subseteq Reservation
  /\ update \in [id : Ids, work : Work \cup {NoWork}]
  /\ keepers \in [Ids -> SUBSET Work]

(* Two downloads never hold one id, although releases arrive late or twice  *)
(* and ids are handed out again (the generation in RELEASE_ID_SQL and in    *)
(* IdAllocator::release).                                                   *)
OneHolder ==
  \A v, w \in Work :
    holder[v].pc = "reserved" /\ holder[w].pc = "reserved"
      /\ holder[v].id = holder[w].id => v = w

(* In an SQL library an id names one work for ever; in a YAML library for    *)
(* as long as the record stands, and otherwise until its process ends (the  *)
(* next one hands out the ids above the last record again).  So neither a   *)
(* removal, nor an update that writes back a removed record, nor a failure  *)
(* that was seen after the commit gives the id to another work (the         *)
(* high-water mark and COMMIT_ID_RESERVATION_SQL), and a new process leaves *)
(* every record its id.                                                     *)
OneWorkPerId == \A id \in Ids : Cardinality(keepers[id]) <= 1
=============================================================================
