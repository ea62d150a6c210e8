------------------------- MODULE RequestPacingProofs -------------------------
(***************************************************************************)
(* Proofs about RequestPacing, for every set of clients, every settings    *)
(* and floors and any number of requests, changes and faults: permits are  *)
(* spaced, a denied request reserves nothing, and a change of the settings *)
(* reaches every waiting client.                                           *)
(***************************************************************************)
EXTENDS RequestPacing, TLAPS

-----------------------------------------------------------------------------
(* Types.                                                                  *)

FetchState == [client : Client \union {NONE}, complete : BOOLEAN,
               pc : {"none", "read", "decide"}, age : Nat, heard : BOOLEAN]

ClientState == [pc : {"idle", "ask", "waiting", "posted", "granted", "finish"},
                wait : Nat, left : Int, values : Settings \union {NONE}]

GrantState == [age : 0..Cap, schedule : Schedule \union {NONE}, run : Nat]

TypeInv ==
    /\ runtime \in {"native", "worker"} /\ settings \in Settings
    /\ stored \in PermitState /\ memory \in PermitState \union {NONE}
    /\ snapshot \in [values : Settings \union {NONE}, age : Nat]
    /\ fetch \in FetchState
    /\ fetch.pc # "none" => fetch.client \in Client
    /\ fetch.pc = "decide" => snapshot.values \in Settings
    /\ client \in [Client -> ClientState]
    /\ grant \in GrantState
    /\ quiet \in 0..Cap /\ sinceChange \in Nat
    /\ runtime = "native" => /\ memory # NONE
                             /\ fetch.pc = "none"
                             /\ \A c \in Client : client[c].values \in Settings

-----------------------------------------------------------------------------
(* What the limiter's state says of the permits that were given.           *)

\* A schedule some client may ask with.
Asked == {ForSite(values, c) : values \in Settings, c \in Client}

\* The place of a permit in its group of `steps'.
Place(counter, steps) == IF counter % steps = 0 THEN steps ELSE counter % steps

\* The next permit follows from the last one; the first waits for an imported
\* reservation at most.
Derived(s) ==
    /\ s.last # NONE =>
          /\ s.schedule \in Asked /\ s.last <= Cap
          /\ s.next = Monus(DelayAfterGrant(s.counter, s.schedule), s.last)
    /\ s.last = NONE /\ s.schedule # NONE => s.next <= LEGACY_LIFETIME

\* No permit and no completion is younger than the state knows, and the counter
\* is as far in its group as the run of permits.
Knows(s, g, q) ==
    /\ s.last = NONE => g.age = Cap /\ q = Cap
    /\ s.last # NONE => s.last <= g.age /\ s.last <= q
    /\ g.run > 0 /\ g.schedule.steps > 0 => g.run <= Place(s.counter, g.schedule.steps)

\* The states a decision may start from.
Live == IF runtime = "native" THEN {memory} ELSE {memory, stored} \ {NONE}

LimiterInv ==
    /\ \A s \in Live : Derived(s) /\ Knows(s, grant, quiet)
    /\ memory # NONE /\ memory.last = NONE => memory.next <= LEGACY_LIFETIME
    /\ runtime = "native" =>
          /\ stored.last = NONE
          /\ \A c \in Client : client[c].pc \in {"granted", "finish"} => memory.last # NONE
    /\ runtime = "worker" /\ memory # NONE /\ memory.last # NONE =>
          stored.last # NONE /\ stored.last <= memory.last
    /\ grant.run > 0 => grant.schedule \in Asked

-----------------------------------------------------------------------------
(* What a snapshot and a waiting client know of the settings.              *)
SnapshotInv ==
    /\ fetch.age <= FetchTime
    /\ snapshot.values \notin {NONE, settings} => sinceChange <= snapshot.age
    /\ fetch.pc = "decide" => snapshot.age < TTL + fetch.age
    /\ fetch.pc = "read" => snapshot.values = NONE
    /\ runtime = "worker" =>
          \A c \in Client :
             client[c].pc = "waiting" =>
                /\ client[c].wait <= TTL
                /\ client[c].values # settings => sinceChange + client[c].wait <= TTL + FetchTime

PacingInv == TypeInv /\ LimiterInv /\ SnapshotInv
-----------------------------------------------------------------------------
(* Numbers.                                                                *)

LEMMA MaxIs ==
    ASSUME NEW S \in SUBSET Nat, NEW m \in S, \A y \in S : m >= y
    PROVE  Max(S) = m
<1>1. Max(S) \in S /\ \A y \in S : Max(S) >= y
  BY DEF Max
<1>2. Max(S) \in Nat /\ m \in Nat /\ Max(S) >= m /\ m >= Max(S)
  BY <1>1
<1> QED
  BY <1>2

LEMMA MinIs ==
    ASSUME NEW S \in SUBSET Nat, NEW m \in S, \A y \in S : m <= y
    PROVE  Min(S) = m
<1>1. Min(S) \in S /\ \A y \in S : Min(S) <= y
  BY DEF Min
<1>2. Min(S) \in Nat /\ m \in Nat /\ Min(S) <= m /\ m <= Min(S)
  BY <1>1
<1> QED
  BY <1>2

LEMMA MaxPair ==
    ASSUME NEW a \in Nat, NEW b \in Nat
    PROVE  Max({a, b}) = IF a >= b THEN a ELSE b
<1>1. CASE a >= b
  <2>1. \A y \in {a, b} : a >= y
    BY <1>1
  <2> QED
    BY <1>1, <2>1, MaxIs
<1>2. CASE ~(a >= b)
  <2>1. \A y \in {a, b} : b >= y
    BY <1>2
  <2> QED
    BY <1>2, <2>1, MaxIs
<1> QED
  BY <1>1, <1>2

LEMMA MinPair ==
    ASSUME NEW a \in Nat, NEW b \in Nat
    PROVE  Min({a, b}) = IF a <= b THEN a ELSE b
<1>1. CASE a <= b
  <2>1. \A y \in {a, b} : a <= y
    BY <1>1
  <2> QED
    BY <1>1, <2>1, MinIs
<1>2. CASE ~(a <= b)
  <2>1. \A y \in {a, b} : b <= y
    BY <1>2
  <2> QED
    BY <1>2, <2>1, MinIs
<1> QED
  BY <1>1, <1>2

\* The bounds of the pauses: of three numbers the greatest is one of them.
LEMMA MaxTriple ==
    ASSUME NEW a \in Nat, NEW b \in Nat, NEW c \in Nat
    PROVE  /\ Max({a, b, c}) \in {a, b, c}
           /\ Max({a, b, c}) >= a /\ Max({a, b, c}) >= b /\ Max({a, b, c}) >= c
<1>1. PICK m \in {a, b, c} : m >= a /\ m >= b /\ m >= c
  BY SMT
<1>2. Max({a, b, c}) = m
  <2>1. {a, b, c} \in SUBSET Nat /\ \A y \in {a, b, c} : m >= y
    BY <1>1
  <2> QED
    BY <2>1, MaxIs
<1> QED
  BY <1>1, <1>2

LEMMA MonusIs ==
    ASSUME NEW a \in Nat, NEW b \in Nat
    PROVE  /\ Monus(a, b) \in Nat /\ Monus(a, b) <= a
           /\ Monus(a, b) = 0 <=> b >= a
           /\ b <= a => Monus(a, b) = a - b
BY DEF Monus

\* The remainder is the only number below the divisor that a multiple is away.
LEMMA Remainder ==
    ASSUME NEW n \in Nat, NEW b \in Nat \ {0}, NEW q \in Int, NEW r \in 0..b - 1,
           n = b * q + r
    PROVE  n % b = r
BY SMTT(30)

\* The last permit of a group is the only one after which a new group begins.
LEMMA NextPlace ==
    ASSUME NEW steps \in Nat \ {0}, NEW n \in Nat
    PROVE  /\ Place(n, steps) \in 1..steps
           /\ n % steps # 0 => Place(n + 1, steps) = Place(n, steps) + 1
<1>1. n % steps \in 0..steps - 1
  OBVIOUS
<1>2. \E q \in Int : n % steps = n - steps * q
  <2>1. n % steps = n - steps * (n \div steps) /\ n \div steps \in Int
    OBVIOUS
  <2> QED
    BY <2>1
<1>3. PICK q \in Int : n % steps = n - steps * q
  BY <1>2
<1> DEFINE r == n % steps
<1>4. r \in 0..steps - 1 /\ r = n - steps * q
  BY <1>1, <1>3
<1>5. (n + 1) % steps = IF r = steps - 1 THEN 0 ELSE r + 1
  <2> HIDE DEF r
  <2>1. CASE r = steps - 1
    <3>1. /\ n + 1 = steps * (q + 1) + 0
          /\ n + 1 \in Nat /\ q + 1 \in Int /\ 0 \in 0..steps - 1
      BY <1>4, <2>1
    <3>2. (n + 1) % steps = 0
      BY <3>1, Remainder, Zenon
    <3> QED
      BY <2>1, <3>2, Zenon
  <2>2. CASE r # steps - 1
    <3>1. /\ n + 1 = steps * q + (r + 1)
          /\ n + 1 \in Nat /\ r + 1 \in 0..steps - 1
      BY <1>4, <2>2
    <3>2. (n + 1) % steps = r + 1
      BY <3>1, Remainder, Zenon
    <3> QED
      BY <2>2, <3>2, Zenon
  <2> QED
    BY <2>1, <2>2
<1> QED
  BY <1>4, <1>5 DEF Place

-----------------------------------------------------------------------------
(* Schedules.                                                              *)

LEMMA NoneApart ==
    /\ \A n \in Nat : n # NONE
    /\ \A s \in Schedule : s # NONE
    /\ \A s \in PermitState : s # NONE
    /\ \A s \in Settings : s # NONE
    /\ \A c \in Client : c # NONE
BY NoneAssumption

LEMMA AskedFacts ==
    ASSUME NEW sch \in Asked
    PROVE  /\ sch \in Schedule /\ sch # NONE
           /\ sch.interval <= sch.pause /\ sch.pause < Cap
           /\ \A l \in Nat : l > sch.reset /\ l >= sch.interval => l >= sch.pause
<1>1. PICK values \in Settings, c \in Client : sch = ForSite(values, c)
  BY DEF Asked
<1> DEFINE i == values.interval
           f == Floor[c]
<1>2. i \in Nat /\ f \in Nat /\ STEPS_WAIT_TIME \in Nat /\ values.steps \in Nat
  BY PacingAssumption
<1>3. NormalizeWaitSteps(values.steps, Narou[c]) \in Nat
  BY <1>2, PacingAssumption DEF NormalizeWaitSteps
<1>4. /\ sch.interval = Max({i, f}) /\ sch.pause = Max({STEPS_WAIT_TIME, i, f})
      /\ sch.reset = Max({STEPS_WAIT_TIME, i})
      /\ sch = [interval |-> Max({i, f}), steps |-> NormalizeWaitSteps(values.steps, Narou[c]),
                pause |-> Max({STEPS_WAIT_TIME, i, f}), reset |-> Max({STEPS_WAIT_TIME, i})]
  BY <1>1 DEF ForSite
<1> HIDE DEF i, f
<1>5. Max({i, f}) = IF i >= f THEN i ELSE f
  BY <1>2, MaxPair
<1>6. Max({STEPS_WAIT_TIME, i}) = IF STEPS_WAIT_TIME >= i THEN STEPS_WAIT_TIME ELSE i
  BY <1>2, MaxPair
<1>7. /\ Max({STEPS_WAIT_TIME, i, f}) \in {STEPS_WAIT_TIME, i, f}
      /\ Max({STEPS_WAIT_TIME, i, f}) >= i /\ Max({STEPS_WAIT_TIME, i, f}) >= f
  BY <1>2, MaxTriple
<1>8. sch \in Schedule
  BY <1>2, <1>3, <1>4, <1>5, <1>6, <1>7 DEF Schedule
<1>9. sch.pause < Cap
  BY <1>1, CapAssumption
<1>10. sch.interval <= sch.pause
  BY <1>2, <1>4, <1>5, <1>7
<1>11. ASSUME NEW l \in Nat, l > sch.reset, l >= sch.interval PROVE l >= sch.pause
  BY <1>2, <1>4, <1>5, <1>6, <1>7, <1>11
<1> QED
  BY <1>8, <1>9, <1>10, <1>11, NoneApart

LEMMA DelayFacts ==
    ASSUME NEW sch \in Asked, NEW n \in Nat
    PROVE  /\ DelayAfterGrant(n, sch) \in Nat
           /\ sch.interval <= DelayAfterGrant(n, sch) /\ DelayAfterGrant(n, sch) < Cap
           /\ sch.steps > 0 /\ n % sch.steps = 0 => DelayAfterGrant(n, sch) = sch.pause
<1>1. /\ sch.interval \in Nat /\ sch.pause \in Nat /\ sch.steps \in Nat
      /\ sch.interval <= sch.pause /\ sch.pause < Cap
  BY AskedFacts DEF Schedule
<1>2. Max({sch.pause, sch.interval}) = sch.pause
  BY <1>1, MaxPair
<1>3. DelayAfterGrant(n, sch) \in {sch.pause, sch.interval}
  BY <1>2 DEF DelayAfterGrant
<1>4. sch.steps > 0 /\ n % sch.steps = 0 => DelayAfterGrant(n, sch) = sch.pause
  BY <1>2 DEF DelayAfterGrant
<1>5. Cap \in Nat
  BY PacingAssumption
<1> QED
  BY <1>1, <1>3, <1>4, <1>5

-----------------------------------------------------------------------------
(* What a decision makes of the state it starts from.                      *)

\* A denial changes the schedule and what follows from it, nothing else.
Denied(s, sch, after) ==
    /\ after.last = s.last /\ after.counter = s.counter
    /\ s.last = NONE => after.next = s.next
    /\ s.last # NONE => after.next = Monus(DelayAfterGrant(s.counter, sch), s.last)

\* A permit comes when the delay of the asker's schedule is over.
Permitted(s, sch, after) ==
    /\ after.last = 0 /\ after.next = DelayAfterGrant(after.counter, sch)
    /\ s.last # NONE => s.last >= DelayAfterGrant(s.counter, sch)
    /\ \/ after.counter = s.counter + 1
       \/ s.last # NONE /\ s.last > sch.reset /\ after.counter = 1

\* The state after a permit.
After(t, n, d) == [t EXCEPT !.counter = n, !.last = 0, !.next = d]

LEMMA Restarted ==
    ASSUME NEW t \in PermitState, NEW n \in Nat, NEW d \in Nat
    PROVE  /\ After(t, n, d) \in PermitState /\ After(t, n, d).counter = n
           /\ After(t, n, d).last = 0 /\ After(t, n, d).next = d
           /\ After(t, n, d).schedule = t.schedule
BY DEF PermitState, After

LEMMA Fields ==
    ASSUME NEW s \in PermitState
    PROVE  /\ s = [counter |-> s.counter, last |-> s.last, next |-> s.next, schedule |-> s.schedule]
           /\ s.counter \in Nat /\ s.last \in Nat \union {NONE} /\ s.next \in Nat
           /\ s.schedule \in Schedule \union {NONE}
BY DEF PermitState

LEMMA Acquire ==
    ASSUME NEW s \in PermitState, Derived(s), NEW sch \in Asked
    PROVE  /\ TryAcquire(s, sch) \in PermitState /\ TryAcquire(s, sch).schedule = sch
           /\ Grants(s, sch) => Permitted(s, sch, TryAcquire(s, sch))
           /\ ~Grants(s, sch) => Denied(s, sch, TryAcquire(s, sch))
<1> DEFINE r == RebaseOnScheduleChange(s, sch)
           now == Considered(s, sch)
           after == TryAcquire(s, sch)
<1>1. /\ s = [counter |-> s.counter, last |-> s.last, next |-> s.next, schedule |-> s.schedule]
      /\ s.counter \in Nat /\ s.last \in Nat \union {NONE} /\ s.next \in Nat
      /\ sch \in Schedule /\ sch.reset \in Nat
  BY AskedFacts DEF PermitState, Schedule
<1>2. DelayAfterGrant(s.counter, sch) \in Nat
  BY <1>1, DelayFacts
<1>3. /\ r \in PermitState /\ r.schedule = sch /\ r.counter = s.counter /\ r.last = s.last
      /\ s.last = NONE => r.next = s.next
      /\ s.last # NONE => r.next = Monus(DelayAfterGrant(s.counter, sch), s.last)
  <2>1. s.last # NONE => s.schedule # NONE /\ s.next = Monus(DelayAfterGrant(s.counter, s.schedule), s.last)
    BY AskedFacts DEF Derived
  <2>2. s.last # NONE => Monus(DelayAfterGrant(s.counter, sch), s.last) \in Nat
    BY <1>1, <1>2, MonusIs
  <2> QED
    BY <1>1, <2>1, <2>2 DEF RebaseOnScheduleChange, PermitState
<1> HIDE DEF r
<1>4. now = IF r.last # NONE /\ r.last > sch.reset /\ r.next = 0
            THEN [r EXCEPT !.counter = 0, !.last = NONE] ELSE r
  BY DEF Considered, ResetIdleCounter, r
<1>5. CASE r.last # NONE /\ r.last > sch.reset /\ r.next = 0
  <2>1. /\ now \in PermitState /\ now.counter = 0 /\ now.next = 0 /\ now.schedule = sch
    BY <1>3, <1>4, <1>5 DEF PermitState
  <2> HIDE DEF now
  <2>2. after = After(now, now.counter + 1, DelayAfterGrant(now.counter + 1, sch))
    BY <2>1 DEF TryAcquire, now, After
  <2>3. now.counter + 1 = 1 /\ DelayAfterGrant(1, sch) \in Nat
    BY <2>1, DelayFacts
  <2>4. /\ after \in PermitState /\ after.schedule = sch /\ after.counter = 1 /\ after.last = 0
        /\ after.next = DelayAfterGrant(1, sch)
    <3>0. now \in PermitState
      BY <2>1, Zenon
    <3>1. \A n, d \in Nat : /\ After(now, n, d) \in PermitState /\ After(now, n, d).counter = n
                           /\ After(now, n, d).last = 0 /\ After(now, n, d).next = d
                           /\ After(now, n, d).schedule = now.schedule
      BY <3>0, Restarted
    <3>2. PICK n \in Nat, d \in Nat : n = 1 /\ d = DelayAfterGrant(1, sch)
      BY <2>3
    <3>3. after = After(now, n, d) /\ now.schedule = sch
      BY <2>1, <2>2, <2>3, <3>2, Zenon
    <3> HIDE DEF after
    <3> QED
      BY <3>1, <3>2, <3>3
  <2>5. s.last >= DelayAfterGrant(s.counter, sch)
    BY <1>1, <1>2, <1>3, <1>5, MonusIs
  <2>6. Grants(s, sch)
    BY <2>1 DEF Grants, now
  <2> QED
    BY <1>3, <1>5, <2>4, <2>5, <2>6 DEF Permitted
<1>6. CASE ~(r.last # NONE /\ r.last > sch.reset /\ r.next = 0)
  <2>1. now = r
    BY <1>4, <1>6
  <2>2. CASE r.next > 0
    <3>1. after = r /\ ~Grants(s, sch)
      BY <2>1, <2>2 DEF TryAcquire, Grants
    <3> QED
      BY <1>3, <3>1 DEF Denied
  <2>3. CASE ~(r.next > 0)
    <3>1. r.next = 0 /\ Grants(s, sch)
      BY <1>3, <2>1, <2>3 DEF PermitState, Grants
    <3>2. after = After(r, s.counter + 1, DelayAfterGrant(s.counter + 1, sch))
      BY <1>3, <2>1, <2>3 DEF TryAcquire, After
    <3>3. DelayAfterGrant(s.counter + 1, sch) \in Nat /\ s.counter + 1 \in Nat
      BY <1>1, DelayFacts
    <3>4. /\ after \in PermitState /\ after.schedule = sch /\ after.counter = s.counter + 1
          /\ after.last = 0 /\ after.next = DelayAfterGrant(s.counter + 1, sch)
      <4>1. \A n, d \in Nat : /\ After(r, n, d) \in PermitState /\ After(r, n, d).counter = n
                             /\ After(r, n, d).last = 0 /\ After(r, n, d).next = d
                             /\ After(r, n, d).schedule = r.schedule
        BY <1>3, Restarted
      <4>2. PICK n \in Nat, d \in Nat : n = s.counter + 1 /\ d = DelayAfterGrant(s.counter + 1, sch)
        BY <3>3
      <4>3. after = After(r, n, d) /\ r.schedule = sch
        BY <1>3, <3>2, <4>2, Zenon
      <4> HIDE DEF after
      <4> QED
        BY <4>1, <4>2, <4>3
    <3>5. s.last # NONE => s.last >= DelayAfterGrant(s.counter, sch)
      BY <1>1, <1>2, <1>3, <3>1, MonusIs
    <3> QED
      BY <3>1, <3>4, <3>5 DEF Permitted
  <2> QED
    BY <2>2, <2>3
<1> QED
  BY <1>5, <1>6

Later(t, l, n) == [t EXCEPT !.last = l, !.next = n]

LEMMA LaterIs ==
    ASSUME NEW t \in PermitState, NEW l \in Nat \union {NONE}, NEW n \in Nat
    PROVE  /\ Later(t, l, n) \in PermitState /\ Later(t, l, n).counter = t.counter
           /\ Later(t, l, n).last = l /\ Later(t, l, n).next = n
           /\ Later(t, l, n).schedule = t.schedule
BY DEF PermitState, Later

\* A completion keeps the place in the group and waits for it anew.
Completed(s, sch, after) ==
    /\ after \in PermitState /\ after.schedule = sch /\ after.counter = s.counter
    /\ after.last = 0 /\ after.next = DelayAfterGrant(s.counter, sch)

LEMMA NativeCompletion ==
    ASSUME NEW s \in PermitState, s.schedule \in Asked
    PROVE  Completed(s, s.schedule, CompleteRequest(s))
<1> DEFINE d == DelayAfterGrant(s.counter, s.schedule)
<1>1. d \in Nat /\ 0 \in Nat \union {NONE}
  BY DelayFacts DEF PermitState
<1>2. CompleteRequest(s) = Later(s, 0, d)
  BY DEF CompleteRequest, Later
<1> HIDE DEF d
<1>3. /\ Later(s, 0, d) \in PermitState /\ Later(s, 0, d).counter = s.counter
      /\ Later(s, 0, d).last = 0 /\ Later(s, 0, d).next = d
      /\ Later(s, 0, d).schedule = s.schedule
  BY <1>1, LaterIs
<1> QED
  BY <1>2, <1>3 DEF Completed, d

LEMMA Complete ==
    ASSUME NEW s \in PermitState, NEW sch \in Asked
    PROVE  Completed(s, sch, CompleteRequest([s EXCEPT !.schedule = sch]))
<1> DEFINE t == [s EXCEPT !.schedule = sch]
<1>1. t \in PermitState /\ t.schedule = sch /\ t.counter = s.counter
  BY AskedFacts DEF PermitState
<1> HIDE DEF t
<1>2. Completed(t, t.schedule, CompleteRequest(t))
  BY <1>1, NativeCompletion
<1> QED
  BY <1>1, <1>2 DEF Completed, t

-----------------------------------------------------------------------------
(* What the steps of the limiter make of Derived and Knows.                *)

\* The history after a permit under sch.
Follows(g, sch) ==
    g.schedule # NONE /\ g.schedule.steps = sch.steps /\ g.age < sch.pause
GrantedTo(g, sch) ==
    [age |-> 0, schedule |-> sch, run |-> IF Follows(g, sch) THEN g.run + 1 ELSE 1]

\* The heart of the argument: a permit continues a run only inside its group.
LEMMA PermitRun ==
    ASSUME NEW s \in PermitState, NEW sch \in Asked, NEW after \in PermitState,
           NEW g \in GrantState, NEW q \in 0..Cap,
           Knows(s, g, q), Permitted(s, sch, after)
    PROVE  /\ g.age >= sch.interval /\ q >= sch.interval
           /\ Follows(g, sch) /\ sch.steps > 0
                 => g.run + 1 <= Place(after.counter, sch.steps)
<1>1. /\ s.counter \in Nat /\ s.last \in Nat \union {NONE} /\ after.counter \in Nat
      /\ g.age \in Nat /\ g.age <= Cap /\ g.run \in Nat /\ Cap \in Nat /\ q \in Nat
  BY PacingAssumption DEF PermitState, GrantState
<1>2. /\ sch.interval \in Nat /\ sch.pause \in Nat /\ sch.steps \in Nat
      /\ sch.interval <= sch.pause /\ sch.pause < Cap
  BY AskedFacts DEF Schedule
<1> DEFINE d == DelayAfterGrant(s.counter, sch)
<1>3. /\ d \in Nat /\ sch.interval <= d
      /\ sch.steps > 0 /\ s.counter % sch.steps = 0 => d = sch.pause
  BY <1>1, DelayFacts
<1> HIDE DEF d
<1>4. CASE s.last = NONE
  <2>1. g.age = Cap /\ q = Cap
    BY <1>4 DEF Knows
  <2> QED
    BY <1>1, <1>2, <2>1 DEF Follows
<1>5. CASE s.last # NONE
  <2>1. s.last \in Nat /\ s.last <= g.age /\ s.last <= q /\ s.last >= d
    BY <1>1, <1>5 DEF Knows, Permitted, d
  <2>2. ASSUME g.schedule.steps = sch.steps, g.age < sch.pause, sch.steps > 0
        PROVE  g.run + 1 <= Place(after.counter, sch.steps)
    <3>1. s.counter % sch.steps # 0
      BY <1>1, <1>2, <1>3, <2>1, <2>2
    <3>2. after.counter = s.counter + 1
      <4>1. ~(s.last > sch.reset)
        BY <1>1, <1>2, <1>3, <2>1, <2>2, AskedFacts
      <4> QED
        BY <1>5, <4>1 DEF Permitted
    <3>3. /\ Place(s.counter, sch.steps) \in 1..sch.steps
          /\ Place(s.counter + 1, sch.steps) = Place(s.counter, sch.steps) + 1
      <4>1. sch.steps \in Nat \ {0}
        BY <1>2, <2>2
      <4> QED
        BY <1>1, <3>1, <4>1, NextPlace, Zenon
    <3>4. g.run > 0 => g.run <= Place(s.counter, sch.steps)
      BY <2>2 DEF Knows
    <3> HIDE DEF Place
    <3> QED
      BY <1>1, <1>2, <3>2, <3>3, <3>4
  <2> QED
    BY <1>1, <1>2, <1>3, <2>1, <2>2 DEF Follows
<1> QED
  BY <1>4, <1>5

LEMMA PermitKnown ==
    ASSUME NEW s \in PermitState, NEW sch \in Asked, NEW after \in PermitState,
           NEW g \in GrantState, NEW q \in 0..Cap,
           Knows(s, g, q), Permitted(s, sch, after), after.schedule = sch
    PROVE  /\ Derived(after) /\ Knows(after, GrantedTo(g, sch), q)
           /\ GrantedTo(g, sch) \in GrantState
           /\ sch.steps > 0 => GrantedTo(g, sch).run <= sch.steps
<1>1. /\ after.counter \in Nat /\ g.run \in Nat /\ Cap \in Nat /\ q \in Nat /\ after.last = 0
      /\ after.next = DelayAfterGrant(after.counter, sch)
  BY PacingAssumption DEF PermitState, GrantState, Permitted
<1>2. sch \in Schedule /\ sch.steps \in Nat
  BY AskedFacts DEF Schedule
<1>3. DelayAfterGrant(after.counter, sch) \in Nat
  BY <1>1, DelayFacts
<1>4. Derived(after)
  BY <1>1, <1>3, NoneApart DEF Derived, Monus
<1>5. sch.steps > 0 => Place(after.counter, sch.steps) \in 1..sch.steps
  <2>1. sch.steps > 0 => sch.steps \in Nat \ {0}
    BY <1>2
  <2> QED
    BY <1>1, <2>1, NextPlace, Zenon
<1> DEFINE h == GrantedTo(g, sch)
<1>6. h.age = 0 /\ h.schedule = sch /\ h.run \in Nat /\ h \in GrantState
  BY <1>1, <1>2 DEF GrantedTo, GrantState
<1>7. sch.steps > 0 => h.run <= Place(after.counter, sch.steps)
  <2>1. CASE Follows(g, sch)
    <3>1. h.run = g.run + 1
      BY <2>1 DEF GrantedTo
    <3> QED
      BY <2>1, <3>1, PermitRun
  <2>2. CASE ~Follows(g, sch)
    <3>1. h.run = 1
      BY <2>2 DEF GrantedTo
    <3> QED
      BY <1>2, <1>5, <3>1
  <2> QED
    BY <2>1, <2>2
<1> HIDE DEF h
<1>8. Knows(after, h, q)
  BY <1>1, <1>6, <1>7, NoneApart DEF Knows
<1>9. sch.steps > 0 => h.run <= sch.steps
  BY <1>2, <1>5, <1>6, <1>7
<1> QED
  BY <1>4, <1>6, <1>8, <1>9 DEF h

LEMMA DenialKnown ==
    ASSUME NEW s \in PermitState, NEW sch \in Asked, NEW after \in PermitState,
           NEW g, NEW q, Derived(s), s.last = NONE => s.next <= LEGACY_LIFETIME,
           Knows(s, g, q), Denied(s, sch, after), after.schedule = sch
    PROVE  Derived(after) /\ Knows(after, g, q)
BY DEF Derived, Knows, Denied

LEMMA CompletionKnown ==
    ASSUME NEW s \in PermitState, NEW sch \in Asked, NEW after \in PermitState,
           NEW g \in GrantState, NEW q \in 0..Cap, NEW p, Knows(s, g, p),
           Completed(s, sch, after)
    PROVE  Derived(after) /\ Knows(after, g, q)
<1> USE DEF Completed
<1>1. DelayAfterGrant(s.counter, sch) \in Nat /\ Cap \in Nat
  BY DelayFacts, PacingAssumption DEF PermitState
<1>2. Derived(after)
  BY <1>1, NoneApart DEF Derived, Monus
<1>3. Knows(after, g, q)
  BY NoneApart DEF Knows, GrantState
<1> QED
  BY <1>2, <1>3

LEMMA AgedIs ==
    ASSUME NEW s \in PermitState
    PROVE  LET l == IF s.last = NONE THEN NONE ELSE Older(s.last, Cap)
               n == Monus(s.next, 1)
           IN  /\ l \in Nat \union {NONE} /\ (l = NONE <=> s.last = NONE)
               /\ n \in Nat /\ n <= s.next
               /\ Aged(s) \in PermitState /\ Aged(s).schedule = s.schedule
               /\ Aged(s).counter = s.counter /\ Aged(s).last = l /\ Aged(s).next = n
<1>1. s.last \in Nat \union {NONE} /\ s.next \in Nat /\ Cap \in Nat
  BY PacingAssumption DEF PermitState
<1> DEFINE l == IF s.last = NONE THEN NONE ELSE Older(s.last, Cap)
           n == Monus(s.next, 1)
<1>2. /\ l \in Nat \union {NONE} /\ (l = NONE <=> s.last = NONE)
      /\ n \in Nat /\ n <= s.next
  <2>1. s.last # NONE => Older(s.last, Cap) \in Nat
    BY <1>1 DEF Older
  <2> QED
    BY <1>1, <2>1, MonusIs, NoneApart
<1>3. /\ Aged(s) \in PermitState /\ Aged(s).schedule = s.schedule /\ Aged(s).counter = s.counter
      /\ Aged(s).last = l /\ Aged(s).next = n
  <2>1. Aged(s) = Later(s, l, n)
    BY NoneApart, Zenon DEF Aged, Later
  <2> HIDE DEF l, n
  <2>2. \A x \in Nat \union {NONE}, y \in Nat :
           /\ Later(s, x, y) \in PermitState /\ Later(s, x, y).counter = s.counter
           /\ Later(s, x, y).last = x /\ Later(s, x, y).next = y
           /\ Later(s, x, y).schedule = s.schedule
    BY LaterIs
  <2>3. l \in Nat \union {NONE} /\ n \in Nat
    BY <1>2
  <2> DEFINE u == Later(s, l, n)
  <2>4. /\ u \in PermitState /\ u.counter = s.counter
        /\ u.last = l /\ u.next = n /\ u.schedule = s.schedule
    BY <2>2, <2>3
  <2>5. Aged(s) = u
    BY <2>1
  <2> HIDE DEF u
  <2> QED
    BY <2>4, <2>5
<1> QED
  BY <1>2, <1>3 DEF l, n

\* Time makes nothing due that was not, and forgets nothing.
LEMMA AgedKnown ==
    ASSUME NEW s \in PermitState, NEW g \in GrantState, NEW q \in 0..Cap,
           NEW h \in GrantState, h.age = Older(g.age, Cap), h.schedule = g.schedule, h.run = g.run,
           Derived(s), Knows(s, g, q), g.run > 0 => g.schedule \in Asked
    PROVE  /\ Aged(s) \in PermitState /\ Aged(s).schedule = s.schedule
           /\ Aged(s).last = (IF s.last = NONE THEN NONE ELSE Older(s.last, Cap))
           /\ Aged(s).next = Monus(s.next, 1)
           /\ Derived(Aged(s)) /\ Knows(Aged(s), h, Older(q, Cap))
<1>1. /\ s.counter \in Nat /\ s.last \in Nat \union {NONE} /\ s.next \in Nat
      /\ g.age \in Nat /\ g.age <= Cap /\ Cap \in Nat /\ q \in Nat /\ q <= Cap
      /\ LEGACY_LIFETIME \in Nat
  BY PacingAssumption DEF PermitState, GrantState
<1> DEFINE l == IF s.last = NONE THEN NONE ELSE Older(s.last, Cap)
           n == Monus(s.next, 1)
<1>2. /\ l \in Nat \union {NONE} /\ (l = NONE <=> s.last = NONE)
      /\ n \in Nat /\ n <= s.next
  BY <1>1, AgedIs
<1>3. /\ Aged(s) \in PermitState /\ Aged(s).schedule = s.schedule /\ Aged(s).counter = s.counter
      /\ Aged(s).last = l /\ Aged(s).next = n
  BY AgedIs
<1>4. Derived(Aged(s))
  <2>1. CASE s.last = NONE
    BY <1>1, <1>2, <1>3, <2>1 DEF Derived
  <2>2. CASE s.last # NONE
    <3> DEFINE d == DelayAfterGrant(s.counter, s.schedule)
    <3>1. s.schedule \in Asked /\ s.last \in Nat /\ s.last <= Cap /\ s.next = Monus(d, s.last)
      BY <1>1, <2>2 DEF Derived
    <3>2. d \in Nat /\ d < Cap
      BY <1>1, <3>1, DelayFacts
    <3> HIDE DEF d
    <3>3. Older(s.last, Cap) \in Nat /\ Older(s.last, Cap) <= Cap
      BY <1>1, <3>1 DEF Older
    <3>4. Monus(Monus(d, s.last), 1) = Monus(d, Older(s.last, Cap))
      BY <1>1, <3>1, <3>2 DEF Monus, Older
    <3> QED
      BY <1>2, <1>3, <2>2, <3>1, <3>3, <3>4 DEF Derived, d
  <2> QED
    BY <2>1, <2>2
<1>5. Knows(Aged(s), h, Older(q, Cap))
  <2>1. /\ h.age \in Nat /\ h.age >= g.age /\ Older(q, Cap) \in Nat
        /\ g.age = Cap => h.age = Cap
        /\ q = Cap => Older(q, Cap) = Cap
    BY <1>1 DEF Older
  <2>2. s.last # NONE => Older(s.last, Cap) <= h.age /\ Older(s.last, Cap) <= Older(q, Cap)
    BY <1>1 DEF Older, Knows
  <2> QED
    BY <1>2, <1>3, <2>1, <2>2 DEF Knows
<1> QED
  BY <1>3, <1>4, <1>5

-----------------------------------------------------------------------------
(* The decision of the Durable Object.                                     *)

Asking == ForSite(snapshot.values, fetch.client)

Decision == IF fetch.complete THEN CompleteRequest([Loaded EXCEPT !.schedule = Asking])
            ELSE TryAcquire(Loaded, Asking)

LEMMA LoadedFacts ==
    ASSUME TypeInv, LimiterInv, runtime = "worker"
    PROVE  /\ Loaded \in PermitState /\ Derived(Loaded) /\ Knows(Loaded, grant, quiet)
           /\ Loaded.last = NONE => Loaded.next <= LEGACY_LIFETIME
           /\ memory # NONE => Loaded = memory
<1>1. /\ stored \in PermitState /\ memory \in PermitState \union {NONE}
      /\ Derived(stored) /\ Knows(stored, grant, quiet)
      /\ memory # NONE => /\ Derived(memory) /\ Knows(memory, grant, quiet)
                          /\ memory.last = NONE => memory.next <= LEGACY_LIFETIME
  BY NoneApart DEF TypeInv, LimiterInv, Live
<1>2. CASE memory # NONE
  BY <1>1, <1>2 DEF Loaded
<1>3. CASE memory = NONE /\ stored.schedule # NONE
  BY <1>1, <1>3 DEF Loaded, Derived
<1>4. CASE memory = NONE /\ stored.schedule = NONE
  <2> DEFINE n == Min({stored.next, LEGACY_LIFETIME})
  <2>1. stored.next \in Nat /\ LEGACY_LIFETIME \in Nat
    BY <1>1, PacingAssumption DEF PermitState
  <2>2. n \in Nat /\ n <= LEGACY_LIFETIME
    BY <2>1, MinPair
  <2>3. stored.last = NONE
    BY <1>1, <1>4, AskedFacts DEF Derived
  <2>4. Loaded = [stored EXCEPT !.next = n]
    BY <1>4 DEF Loaded
  <2> HIDE DEF n
  <2>5. /\ Loaded \in PermitState /\ Loaded.next = n /\ Loaded.counter = stored.counter
        /\ Loaded.last = stored.last /\ Loaded.schedule = stored.schedule
    BY <1>1, <2>2, <2>4 DEF PermitState
  <2> QED
    BY <1>1, <1>4, <2>2, <2>3, <2>5 DEF Derived, Knows
<1> QED
  BY <1>2, <1>3, <1>4

LEMMA DecisionFacts ==
    ASSUME TypeInv, LimiterInv, fetch.pc = "decide"
    PROVE  /\ runtime = "worker" /\ fetch.client \in Client /\ Asking \in Asked
           /\ Decision \in PermitState /\ Decision.schedule = Asking /\ Derived(Decision)
           /\ Decision.last = NONE => Decision.next <= LEGACY_LIFETIME
           /\ memory # NONE /\ memory.last # NONE =>
                 Decision.last # NONE /\ Decision.last <= memory.last
           /\ fetch.complete => Decision.last = 0 /\ \A q \in 0..Cap : Knows(Decision, grant, q)
           /\ ~fetch.complete /\ Grants(Loaded, Asking) => Permitted(Loaded, Asking, Decision)
           /\ ~fetch.complete /\ ~Grants(Loaded, Asking) => Knows(Decision, grant, quiet)
<1>1. /\ runtime = "worker" /\ fetch.client \in Client /\ snapshot.values \in Settings
      /\ grant \in GrantState /\ quiet \in 0..Cap /\ memory \in PermitState \union {NONE}
  BY DEF TypeInv, GrantState
<1>2. Asking \in Asked
  BY <1>1 DEF Asking, Asked
<1>3. /\ Loaded \in PermitState /\ Derived(Loaded) /\ Knows(Loaded, grant, quiet)
      /\ Loaded.last = NONE => Loaded.next <= LEGACY_LIFETIME
      /\ memory # NONE => Loaded = memory
  BY <1>1, LoadedFacts
<1>4. 0 # NONE /\ \A n \in Nat : 0 <= n /\ n <= n
  BY NoneApart
<1>5. memory # NONE /\ memory.last # NONE => memory.last \in Nat
  BY <1>1 DEF PermitState
<1>6. CASE fetch.complete
  <2> DEFINE after == CompleteRequest([Loaded EXCEPT !.schedule = Asking])
  <2>1. /\ Completed(Loaded, Asking, after)
        /\ after \in PermitState /\ after.schedule = Asking /\ after.last = 0
    BY <1>2, <1>3, Complete DEF Completed
  <2>2. Decision = after
    BY <1>6 DEF Decision
  <2> HIDE DEF after
  <2>3. Derived(after) /\ \A q \in 0..Cap : Knows(after, grant, q)
    BY <1>1, <1>2, <1>3, <2>1, CompletionKnown
  <2> QED
    BY <1>1, <1>2, <1>4, <1>5, <1>6, <2>1, <2>2, <2>3
<1>7. CASE ~fetch.complete
  <2>1. Decision = TryAcquire(Loaded, Asking)
    BY <1>7 DEF Decision
  <2>2. /\ Decision \in PermitState /\ Decision.schedule = Asking
        /\ Grants(Loaded, Asking) => Permitted(Loaded, Asking, Decision)
        /\ ~Grants(Loaded, Asking) => Denied(Loaded, Asking, Decision)
    BY <1>2, <1>3, <2>1, Acquire
  <2>3. CASE Grants(Loaded, Asking)
    <3>1. Derived(Decision) /\ Decision.last = 0
      BY <1>1, <1>2, <1>3, <2>2, <2>3, PermitKnown DEF Permitted
    <3> QED
      BY <1>1, <1>2, <1>4, <1>5, <1>7, <2>2, <2>3, <3>1
  <2>4. CASE ~Grants(Loaded, Asking)
    <3>1. Denied(Loaded, Asking, Decision)
      BY <2>2, <2>4
    <3>2. Derived(Decision) /\ Knows(Decision, grant, quiet)
      BY <1>2, <1>3, <2>2, <3>1, DenialKnown
    <3>3. /\ Decision.last = Loaded.last
          /\ Decision.last = NONE => Decision.next = Loaded.next
      BY <3>1 DEF Denied
    <3> QED
      BY <1>1, <1>2, <1>3, <1>4, <1>5, <1>7, <2>2, <2>4, <3>2, <3>3
  <2> QED
    BY <2>3, <2>4
<1> QED
  BY <1>6, <1>7

-----------------------------------------------------------------------------
(* Initially.                                                              *)

LEMMA PacingInit == Init => PacingInv
<1> SUFFICES ASSUME Init PROVE PacingInv
  OBVIOUS
<1> USE NoneApart
<1>0. /\ Cap \in Nat /\ FetchTime \in Nat /\ LEGACY_LIFETIME \in Nat /\ Runtime \subseteq {"native", "worker"}
      /\ Fences \subseteq Nat /\ Requests \in [Client -> Nat]
  BY PacingAssumption
<1>1. PICK fence \in Nat, counter \in Nat :
         /\ stored = [Unused EXCEPT !.next = fence, !.counter = counter]
         /\ runtime = "worker" \/ fence = 0
  <2>1. PICK fence \in IF runtime = "worker" THEN Fences ELSE {0} :
           \E counter \in IF fence = 0 THEN {0} ELSE {0, 1} :
              stored = [Unused EXCEPT !.next = fence, !.counter = counter]
    BY DEF Init
  <2>2. PICK counter \in IF fence = 0 THEN {0} ELSE {0, 1} :
           stored = [Unused EXCEPT !.next = fence, !.counter = counter]
    BY <2>1
  <2>3. fence \in Nat /\ counter \in Nat /\ (runtime = "worker" \/ fence = 0)
    BY <1>0
  <2> QED
    BY <2>2, <2>3
<1>2. stored = [counter |-> counter, last |-> NONE, next |-> fence, schedule |-> NONE]
  BY <1>1 DEF Unused
<1>3. /\ memory = IF runtime = "worker" THEN NONE ELSE Unused
      /\ runtime \in Runtime /\ settings \in Settings
      /\ snapshot = [values |-> NONE, age |-> 0]
      /\ fetch = [client |-> NONE, complete |-> FALSE, pc |-> "none", age |-> 0, heard |-> FALSE]
      /\ grant = [age |-> Cap, schedule |-> NONE, run |-> 0] /\ quiet = Cap /\ sinceChange = 0
  BY DEF Init, NoSnapshot, NoFetch
<1>4. Unused = [counter |-> 0, last |-> NONE, next |-> 0, schedule |-> NONE]
  BY DEF Unused
<1>5. PICK used \in [Client -> IF runtime = "native" THEN Settings ELSE {NONE}] :
         client = [c \in Client |->
            [pc |-> "idle", wait |-> 0, left |-> Requests[c], values |-> used[c]]]
  BY DEF Init
<1>6. /\ client \in [Client -> ClientState]
      /\ \A c \in Client : client[c].pc = "idle"
      /\ runtime = "native" => \A c \in Client : client[c].values \in Settings
  BY <1>0, <1>5 DEF ClientState
<1>7. stored \in PermitState /\ memory \in PermitState \union {NONE} /\ Unused \in PermitState
  BY <1>1, <1>2, <1>3, <1>4 DEF PermitState
<1>8. TypeInv
  <2>1. snapshot \in [values : Settings \union {NONE}, age : Nat]
    BY <1>3
  <2>2. fetch \in FetchState /\ fetch.pc = "none"
    BY <1>3 DEF FetchState
  <2>3. grant \in GrantState /\ quiet \in 0..Cap /\ sinceChange \in Nat
    BY <1>0, <1>3 DEF GrantState
  <2> QED
    BY <1>0, <1>3, <1>4, <1>6, <1>7, <2>1, <2>2, <2>3 DEF TypeInv
<1>9. LimiterInv
  <2>1. Derived(stored) /\ Knows(stored, grant, quiet) /\ stored.last = NONE
    BY <1>2, <1>3 DEF Derived, Knows
  <2>2. memory # NONE => /\ Derived(memory) /\ Knows(memory, grant, quiet)
                        /\ memory.last = NONE /\ memory.next = 0
    BY <1>3, <1>4 DEF Derived, Knows
  <2> QED
    BY <1>0, <1>3, <1>6, <1>7, <2>1, <2>2 DEF LimiterInv, Live
<1>10. SnapshotInv
  BY <1>0, <1>3, <1>6 DEF SnapshotInv
<1> QED
  BY <1>8, <1>9, <1>10 DEF PacingInv

-----------------------------------------------------------------------------
(* Types are kept.                                                         *)

LEMMA TypeClientStep ==
    ASSUME TypeInv, LimiterInv, NEW c \in Client,
           Ask(c) \/ ClientStep(c) \/ Enter(c) \/ Die(c)
    PROVE  TypeInv'
<1> USE NoneApart
<1> USE DEF ClientState
<1>1. CASE Ask(c) \/ Wake(c) \/ Respond(c)
  BY <1>1 DEF TypeInv, Ask, Wake, Respond, Goes, limiter, history, bounded
<1>2. CASE NativeAcquire(c)
  <2> DEFINE sch == ForSite(client[c].values, c)
  <2>1. /\ sch \in Asked /\ memory \in PermitState /\ Derived(memory)
        /\ client[c].values \in Settings /\ runtime = "native"
    BY <1>2 DEF TypeInv, LimiterInv, Live, NativeAcquire, Asked
  <2> HIDE DEF sch
  <2>2. memory' \in PermitState /\ memory'.next \in Nat
    BY <1>2, <2>1, Acquire, Fields DEF NativeAcquire, sch
  <2>3. grant' \in GrantState
    <3>1. sch \in Schedule
      BY <2>1, AskedFacts
    <3>2. CASE Granted(sch)
      BY <3>1, <3>2, PacingAssumption DEF Granted, GrantState, TypeInv
    <3>3. CASE UNCHANGED grant
      BY <3>3 DEF TypeInv, GrantState
    <3> QED
      BY <1>2, <3>2, <3>3 DEF NativeAcquire, sch
  <2>4. client' \in [Client -> ClientState] /\ \A d \in Client : client'[d].values = client[d].values
    <3>1. client \in [Client -> ClientState]
      BY DEF TypeInv
    <3>2. CASE client' = [client EXCEPT ![c].pc = "granted"]
      BY <3>1, <3>2
    <3>3. CASE client' = [client EXCEPT ![c].pc = "waiting", ![c].wait = memory'.next]
      BY <2>2, <3>1, <3>3
    <3> QED
      BY <1>2, <3>2, <3>3 DEF NativeAcquire, Goes
  <2> QED
    BY <1>2, <2>1, <2>2, <2>3, <2>4 DEF TypeInv, NativeAcquire, bounded
<1>3. CASE NativeComplete(c)
  <2>1. /\ runtime = "native" /\ memory \in PermitState
        /\ client[c].pc = "finish" /\ client[c].values \in Settings
    BY <1>3 DEF TypeInv, NativeComplete
  <2>2. memory.last # NONE /\ memory.schedule \in Asked
    BY <1>3, <2>1 DEF LimiterInv, Live, Derived
  <2>3. memory' \in PermitState
    BY <1>3, <2>1, <2>2, NativeCompletion DEF NativeComplete, Completed
  <2>4. client' \in [Client -> ClientState] /\ \A d \in Client : client'[d].values = client[d].values
    BY <1>3, <2>1 DEF TypeInv, NativeComplete, Ends
  <2>5. quiet' \in 0..Cap
    BY <1>3, PacingAssumption DEF NativeComplete
  <2> QED
    BY <1>3, <2>1, <2>3, <2>4, <2>5 DEF TypeInv, NativeComplete, bounded
<1>4. CASE Enter(c)
  <2>1. /\ runtime = "worker" /\ snapshot' \in [values : Settings \union {NONE}, age : Nat]
        /\ fetch' \in FetchState /\ fetch'.client = c
        /\ fetch'.pc = "decide" => snapshot'.values \in Settings
    BY <1>4 DEF TypeInv, Enter, Stale, NoSnapshot, FetchState
  <2>2. client' \in [Client -> ClientState]
    BY <1>4 DEF TypeInv, Enter, Goes
  <2> QED
    BY <1>4, <2>1, <2>2 DEF TypeInv, Enter, history, bounded
<1>5. CASE Die(c)
  <2>1. client' \in [Client -> ClientState] /\ runtime = "worker"
    BY <1>5 DEF TypeInv, Die, Ends
  <2>2. fetch' \in FetchState /\ fetch'.client = fetch.client /\ fetch'.pc = fetch.pc
    BY <1>5 DEF TypeInv, Die, FetchState
  <2> QED
    BY <1>5, <2>1, <2>2 DEF TypeInv, Die, Fault, history
<1> QED
  BY <1>1, <1>2, <1>3, <1>4, <1>5 DEF ClientStep

\* What a permit writes into the history.
LEMMA GrantedIs ==
    ASSUME NEW sch, Granted(sch)
    PROVE  grant' = GrantedTo(grant, sch)
BY DEF Granted, GrantedTo, Continues, Follows

\* The decision, in one place for the proofs about the steps that take it.
LEMMA DecideIs ==
    ASSUME TypeInv, LimiterInv, Decide
    PROVE  /\ fetch.pc = "decide" /\ fetch.client \in Client
           /\ stored' = (IF memory = Decision THEN stored ELSE Decision) /\ memory' = Decision
           /\ fetch' = NoFetch
           /\ \/ /\ fetch.complete /\ quiet' = 0 /\ UNCHANGED grant
                 /\ client' = Heard(fetch.client, [client[fetch.client] EXCEPT !.pc = "idle", !.left = @ - 1])
              \/ /\ ~fetch.complete /\ Grants(Loaded, Asking) /\ UNCHANGED quiet
                 /\ grant' = GrantedTo(grant, Asking)
                 /\ client' = Heard(fetch.client, [client[fetch.client] EXCEPT !.pc = "granted"])
              \/ /\ ~fetch.complete /\ ~Grants(Loaded, Asking) /\ UNCHANGED <<grant, quiet>>
                 /\ client' = Heard(fetch.client,
                       [client[fetch.client] EXCEPT !.pc = "waiting", !.wait = WaitReply(Decision.next),
                                                    !.values = snapshot.values])
           /\ UNCHANGED <<runtime, settings, snapshot, sinceChange>>
<1>1. fetch.pc = "decide" /\ fetch.client \in Client
  BY DEF Decide, TypeInv
<1> QED
  BY <1>1, GrantedIs DEF Decide, Decision, Asking

LEMMA PutFailsIs ==
    ASSUME PutFails
    PROVE  /\ fetch.pc = "decide" /\ memory # Decision
           /\ \/ UNCHANGED <<stored, grant>>
              \/ /\ stored' = Decision
                 /\ grant' = IF \/ fetch.complete \/ Follows(grant, Asking) \/ ~Grants(Loaded, Asking)
                             THEN grant ELSE [grant EXCEPT !.run = 0]
           /\ fetch' = NoFetch /\ client' = Refused
           /\ UNCHANGED <<runtime, settings, memory, snapshot, quiet, sinceChange>>
BY DEF PutFails, Decision, Asking, Unanswered, Continues, Follows, Fault

LEMMA RefusedType ==
    ASSUME TypeInv
    PROVE  /\ Refused \in [Client -> ClientState]
           /\ \A c \in Client : /\ Refused[c].values = client[c].values
                                /\ Refused[c].wait = client[c].wait
                                /\ Refused[c].pc \in {client[c].pc, "idle"}
<1>1. client \in [Client -> ClientState]
  BY DEF TypeInv
<1>2. CASE Refused = client
  BY <1>1, <1>2
<1>3. CASE Refused = [client EXCEPT ![fetch.client].pc = "idle", ![fetch.client].left = @ - 1]
  <2>1. CASE fetch.client \in Client
    BY <1>1, <1>3, <2>1 DEF ClientState
  <2>2. CASE fetch.client \notin Client
    <3>1. Refused = client
      BY <1>1, <1>3, <2>2
    <3> QED
      BY <1>1, <3>1
  <2> QED
    BY <2>1, <2>2
<1> QED
  BY <1>2, <1>3 DEF Refused

LEMMA WaitIs ==
    ASSUME TypeInv, NEW n \in Nat
    PROVE  /\ WaitReply(n) \in Nat /\ WaitReply(n) <= TTL
           /\ snapshot.age < TTL => WaitReply(n) <= TTL - snapshot.age
           /\ snapshot.age >= TTL => WaitReply(n) = 1
<1>1. TTL \in Nat \ {0} /\ snapshot.age \in Nat
  BY PacingAssumption DEF TypeInv
<1> DEFINE left == Monus(TTL, snapshot.age)
           m == Min({n, left, TTL})
<1>2. /\ left \in Nat /\ left <= TTL
      /\ (snapshot.age < TTL => left = TTL - snapshot.age /\ left > 0)
      /\ (snapshot.age >= TTL => left = 0)
  BY <1>1 DEF Monus
<1> HIDE DEF left
<1>3. m \in Nat /\ m <= left /\ m <= TTL
  <2>1. PICK k \in {n, left, TTL} : k <= n /\ k <= left /\ k <= TTL
    BY <1>1, <1>2
  <2>2. {n, left, TTL} \in SUBSET Nat /\ \A y \in {n, left, TTL} : k <= y
    BY <1>1, <1>2, <2>1
  <2>3. m = k
    BY <2>2, MinIs
  <2> QED
    BY <1>1, <1>2, <2>1, <2>3
<1>4. Max({1, m}) = IF 1 >= m THEN 1 ELSE m
  BY <1>3, MaxPair
<1>5. WaitReply(n) = Max({1, m})
  BY DEF WaitReply, left
<1> HIDE DEF m
<1> QED
  BY <1>1, <1>2, <1>3, <1>4, <1>5

LEMMA TypeWorkerStep ==
    ASSUME TypeInv, LimiterInv,
           ReadSettings \/ Decide \/ Evict \/ ReadFails \/ PutFails \/ ChangeSettings \/ Tick
    PROVE  TypeInv'
<1> USE NoneApart
<1>0. /\ NoFetch \in FetchState /\ NoFetch.pc = "none"
      /\ NoSnapshot \in [values : Settings \union {NONE}, age : Nat]
  BY DEF NoFetch, NoSnapshot, FetchState
<1>1. CASE ReadSettings
  <2>1. /\ fetch \in FetchState /\ fetch.client \in Client /\ settings \in Settings
        /\ runtime = "worker"
    BY <1>1 DEF TypeInv, ReadSettings
  <2>2. /\ fetch' \in FetchState /\ fetch'.client \in Client
        /\ snapshot' \in [values : Settings \union {NONE}, age : Nat] /\ snapshot'.values \in Settings
    BY <1>1, <2>1 DEF ReadSettings, FetchState
  <2> QED
    BY <1>1, <2>1, <2>2 DEF TypeInv, ReadSettings, history, bounded
<1>2. CASE Decide
  <2>1. /\ runtime = "worker" /\ Decision \in PermitState /\ Decision.next \in Nat
        /\ Asking \in Asked
        /\ fetch.client \in Client /\ snapshot.values \in Settings
    BY <1>2, DecisionFacts, DecideIs, Fields DEF TypeInv
  <2>2. stored' \in PermitState /\ memory' \in PermitState
    BY <1>2, <2>1, DecideIs DEF TypeInv
  <2>3. grant' \in GrantState /\ quiet' \in 0..Cap
    <3>1. GrantedTo(grant, Asking) \in GrantState
      BY <2>1, AskedFacts, PacingAssumption DEF GrantedTo, GrantState, TypeInv
    <3> QED
      BY <1>2, <3>1, DecideIs, PacingAssumption DEF TypeInv
  <2>4. client' \in [Client -> ClientState]
    <3>1. client \in [Client -> ClientState] /\ WaitReply(Decision.next) \in Nat
      BY <2>1, WaitIs DEF TypeInv
    <3>2. PICK record \in ClientState : client' = Heard(fetch.client, record)
      <4> DEFINE was == client[fetch.client]
      <4>1. was \in ClientState
        BY <2>1, <3>1
      <4> HIDE DEF was
      <4>2. /\ [was EXCEPT !.pc = "idle", !.left = was.left - 1] \in ClientState
            /\ [was EXCEPT !.pc = "granted"] \in ClientState
        <5>1. was.left - 1 \in Int
          BY <4>1 DEF ClientState
        <5>2. \A n \in Int : [was EXCEPT !.pc = "idle", !.left = n] \in ClientState
          BY <4>1 DEF ClientState
        <5>3. [was EXCEPT !.pc = "granted"] \in ClientState
          BY <4>1 DEF ClientState
        <5> QED
          BY <5>1, <5>2, <5>3
      <4>3. \A n \in Nat, values \in Settings :
               [was EXCEPT !.pc = "waiting", !.wait = n, !.values = values] \in ClientState
        BY <4>1 DEF ClientState
      <4>4. \/ client' = Heard(fetch.client, [was EXCEPT !.pc = "idle", !.left = was.left - 1])
            \/ client' = Heard(fetch.client, [was EXCEPT !.pc = "granted"])
            \/ client' = Heard(fetch.client, [was EXCEPT !.pc = "waiting",
                             !.wait = WaitReply(Decision.next), !.values = snapshot.values])
        BY <1>2, DecideIs DEF was
      <4> QED
        BY <2>1, <3>1, <4>2, <4>3, <4>4, Zenon
    <3> QED
      BY <2>1, <3>1, <3>2 DEF Heard
  <2> QED
    BY <1>0, <1>2, <2>1, <2>2, <2>3, <2>4, DecideIs DEF TypeInv
<1>3. CASE Evict
  BY <1>0, <1>3, RefusedType DEF TypeInv, Evict, Fault, history
<1>4. CASE ReadFails
  BY <1>0, <1>4, RefusedType DEF TypeInv, ReadFails, Fault, history
<1>5. CASE PutFails
  <2>1. Decision \in PermitState /\ runtime = "worker"
    BY <1>5, PutFailsIs, DecisionFacts
  <2>2. grant' \in GrantState
    BY <1>5, PutFailsIs DEF TypeInv, GrantState
  <2> QED
    BY <1>0, <1>5, <2>1, <2>2, PutFailsIs, RefusedType DEF TypeInv
<1>6. CASE ChangeSettings
  BY <1>6 DEF TypeInv, ChangeSettings, limiter
<1>7. CASE Tick
  <2>1. /\ Cap \in Nat /\ TTL \in Nat /\ FetchTime \in Nat
    BY PacingAssumption
  <2>2. stored' \in PermitState /\ memory' \in PermitState \union {NONE} /\ (memory # NONE => memory' # NONE)
    <3>1. \A s \in PermitState : Aged(s) \in PermitState
      BY AgedIs
    <3> QED
      BY <1>7, <3>1 DEF Tick, TypeInv, Aged
  <2>3. /\ snapshot' \in [values : Settings \union {NONE}, age : Nat]
        /\ fetch.pc # "none" => snapshot'.values = snapshot.values
    BY <1>0, <1>7 DEF Tick, TypeInv
  <2>4. fetch' \in FetchState /\ fetch'.pc = fetch.pc /\ fetch'.client = fetch.client
    BY <1>7 DEF Tick, TypeInv, FetchState
  <2>5. client' \in [Client -> ClientState] /\ \A c \in Client : client'[c].values = client[c].values
    BY <1>7 DEF Tick, TypeInv, ClientState, Monus
  <2>6. grant' \in GrantState /\ quiet' \in 0..Cap /\ sinceChange' \in Nat
    BY <1>7, <2>1 DEF Tick, TypeInv, GrantState, Older
  <2> QED
    BY <1>7, <2>2, <2>3, <2>4, <2>5, <2>6 DEF Tick, TypeInv, bounded
<1> QED
  BY <1>1, <1>2, <1>3, <1>4, <1>5, <1>6, <1>7

-----------------------------------------------------------------------------
(* What the limiter knows is kept.                                         *)

LEMMA LimiterKept ==
    ASSUME TypeInv, LimiterInv, UNCHANGED <<runtime, stored, memory, grant, quiet>>,
           runtime = "native" => \A c \in Client : client'[c].pc \in {"granted", "finish"}
                                                     => client[c].pc \in {"granted", "finish"}
    PROVE  LimiterInv'
BY DEF LimiterInv, Live, Knows, Derived

LEMMA LimiterClientStep ==
    ASSUME TypeInv, LimiterInv, NEW c \in Client,
           Ask(c) \/ ClientStep(c) \/ Enter(c) \/ Die(c)
    PROVE  LimiterInv'
<1> USE NoneApart
<1>0. client \in [Client -> ClientState]
  BY DEF TypeInv
<1>1. CASE Ask(c) \/ Wake(c) \/ Respond(c)
  <2>1. /\ UNCHANGED <<runtime, stored, memory, grant, quiet>>
        /\ \A d \in Client : client'[d].pc \in {"granted", "finish"}
                               => client[d].pc \in {"granted", "finish"}
    BY <1>0, <1>1 DEF Ask, Wake, Respond, Goes, limiter, history, bounded, ClientState
  <2> QED
    BY <2>1, LimiterKept
<1>2. CASE Enter(c) \/ Die(c)
  <2>1. UNCHANGED <<runtime, stored, memory, grant, quiet>> /\ runtime = "worker"
    BY <1>2 DEF Enter, Die, Fault, history, bounded
  <2> QED
    BY <2>1, LimiterKept
<1>3. CASE NativeAcquire(c)
  <2> DEFINE sch == ForSite(client[c].values, c)
  <2>1. /\ sch \in Asked /\ memory \in PermitState /\ Derived(memory) /\ Knows(memory, grant, quiet)
        /\ memory.last = NONE => memory.next <= LEGACY_LIFETIME
        /\ grant \in GrantState /\ quiet \in 0..Cap /\ stored.last = NONE
        /\ client[c].values \in Settings /\ runtime = "native" /\ runtime' = "native"
        /\ UNCHANGED <<stored, quiet>>
    BY <1>3 DEF TypeInv, LimiterInv, Live, NativeAcquire, Asked
  <2>2. /\ memory' \in PermitState /\ memory'.schedule = sch
        /\ Grants(memory, sch) => Permitted(memory, sch, memory')
        /\ ~Grants(memory, sch) => Denied(memory, sch, memory')
    BY <1>3, <2>1, Acquire DEF NativeAcquire
  <2>3. CASE Grants(memory, sch)
    <3>1. grant' = GrantedTo(grant, sch) /\ client' = [client EXCEPT ![c].pc = "granted"]
      BY <1>3, <2>3, GrantedIs DEF NativeAcquire, Goes
    <3> HIDE DEF sch
    <3>2. Derived(memory') /\ Knows(memory', grant', quiet') /\ memory'.last # NONE
      BY <2>1, <2>2, <2>3, <3>1, PermitKnown DEF Permitted
    <3>3. GrantedTo(grant, sch).schedule = sch
      BY DEF GrantedTo
    <3> QED
      BY <2>1, <2>2, <3>1, <3>2, <3>3 DEF LimiterInv, Live
  <2>4. CASE ~Grants(memory, sch)
    <3>1. UNCHANGED grant /\ client' = [client EXCEPT ![c].pc = "waiting", ![c].wait = memory'.next]
      BY <1>3, <2>4 DEF NativeAcquire
    <3> HIDE DEF sch
    <3>2. Derived(memory') /\ Knows(memory', grant, quiet)
      BY <2>1, <2>2, <2>4, DenialKnown
    <3>3. memory'.last = memory.last /\ (memory'.last = NONE => memory'.next = memory.next)
      BY <2>2, <2>4 DEF Denied
    <3>4. \A d \in Client : client'[d].pc \in {"granted", "finish"}
                              => client[d].pc \in {"granted", "finish"}
      BY <1>0, <3>1 DEF ClientState
    <3> QED
      BY <2>1, <2>2, <3>1, <3>2, <3>3, <3>4 DEF LimiterInv, Live
  <2> QED
    BY <2>3, <2>4
<1>4. CASE NativeComplete(c)
  <2>1. /\ memory \in PermitState /\ Derived(memory) /\ Knows(memory, grant, quiet)
        /\ memory.last # NONE /\ memory.schedule \in Asked
        /\ grant \in GrantState /\ stored.last = NONE /\ quiet' = 0 /\ 0 \in 0..Cap
        /\ runtime = "native" /\ runtime' = "native" /\ UNCHANGED <<stored, grant>>
    BY <1>4, PacingAssumption DEF TypeInv, LimiterInv, Live, Derived, NativeComplete
  <2>2. Completed(memory, memory.schedule, memory')
    BY <1>4, <2>1, NativeCompletion DEF NativeComplete
  <2>3. /\ memory' \in PermitState /\ memory'.last = 0
        /\ Derived(memory') /\ Knows(memory', grant, quiet')
    BY <2>1, <2>2, CompletionKnown DEF Completed
  <2> QED
    BY <2>1, <2>3 DEF LimiterInv, Live
<1> QED
  BY <1>1, <1>2, <1>3, <1>4 DEF ClientStep

LEMMA LimiterWorkerStep ==
    ASSUME TypeInv, LimiterInv,
           ReadSettings \/ Decide \/ Evict \/ ReadFails \/ PutFails \/ ChangeSettings \/ Tick
    PROVE  LimiterInv'
<1> USE NoneApart
<1>0. /\ stored \in PermitState /\ memory \in PermitState \union {NONE}
      /\ grant \in GrantState /\ quiet \in 0..Cap
  BY DEF TypeInv
<1>1. CASE ReadSettings \/ ReadFails \/ ChangeSettings
  <2>1. UNCHANGED <<runtime, stored, memory, grant, quiet>> /\ runtime = "worker"
    BY <1>1 DEF TypeInv, ReadSettings, ReadFails, ChangeSettings, Fault, history, bounded, limiter
  <2> QED
    BY <2>1, LimiterKept
<1>2. CASE Evict
  <2>1. runtime = "worker" /\ memory' = NONE /\ UNCHANGED <<runtime, stored, grant, quiet>>
    BY <1>2 DEF Evict, Fault, history
  <2> QED
    BY <1>0, <2>1 DEF LimiterInv, Live
<1>3. ASSUME fetch.pc = "decide"
      PROVE  /\ runtime = "worker" /\ Decision \in PermitState /\ Derived(Decision)
             /\ Derived(stored) /\ Knows(stored, grant, quiet)
             /\ memory # NONE => Derived(memory) /\ Knows(memory, grant, quiet)
             /\ Decision.last \in Nat \union {NONE} /\ stored.last \in Nat \union {NONE}
             /\ 0 \in 0..Cap
  BY <1>0, <1>3, DecisionFacts, PacingAssumption DEF LimiterInv, Live, PermitState
<1>4. CASE Decide
  <2>1. fetch.pc = "decide" /\ memory' = Decision /\ UNCHANGED runtime
    BY <1>4, DecideIs
  <2>2. /\ Knows(Decision, grant', quiet') /\ (grant'.run > 0 => grant'.schedule \in Asked)
        /\ memory = Decision => Knows(stored, grant', quiet')
    <3>1. CASE fetch.complete
      <4>1. UNCHANGED grant /\ quiet' = 0 /\ Decision.last = 0 /\ Knows(Decision, grant, 0)
        BY <1>3, <1>4, <2>1, <3>1, DecideIs, DecisionFacts
      <4>2. grant.age \in Nat /\ Cap \in Nat /\ Knows(stored, grant, quiet)
        BY <1>0, <1>3, <2>1, PacingAssumption DEF GrantState
      <4>3. memory = Decision => stored.last # NONE /\ stored.last <= 0
        BY <1>3, <2>1, <4>1 DEF LimiterInv
      <4> QED
        BY <4>1, <4>2, <4>3 DEF Knows, LimiterInv
    <3>2. CASE ~fetch.complete /\ Grants(Loaded, Asking)
      <4>1. grant' = GrantedTo(grant, Asking) /\ UNCHANGED quiet
        BY <1>4, <3>2, DecideIs
      <4>2. Permitted(Loaded, Asking, Decision) /\ Asking \in Asked /\ Decision.schedule = Asking
        BY <2>1, <3>2, DecisionFacts
      <4>3. Loaded \in PermitState /\ Knows(Loaded, grant, quiet) /\ (memory # NONE => Loaded = memory)
        BY <1>3, <2>1, LoadedFacts
      <4>4. Knows(Decision, GrantedTo(grant, Asking), quiet)
        BY <1>0, <1>3, <2>1, <4>2, <4>3, PermitKnown
      <4>5. memory # Decision
        <5>1. SUFFICES ASSUME memory = Decision PROVE FALSE
          OBVIOUS
        <5>2. Permitted(memory, Asking, memory) /\ memory \in PermitState
          BY <1>3, <2>1, <4>2, <4>3, <5>1
        <5>3. /\ memory.counter \in Nat /\ memory.last = 0 /\ Asking.reset \in Nat
          BY <4>2, <5>2, AskedFacts, Fields DEF Permitted, Schedule
        <5> QED
          BY <5>2, <5>3 DEF Permitted
      <4>6. GrantedTo(grant, Asking).schedule = Asking
        BY DEF GrantedTo
      <4> QED
        BY <4>1, <4>2, <4>4, <4>5, <4>6
    <3>3. CASE ~fetch.complete /\ ~Grants(Loaded, Asking)
      <4>1. UNCHANGED <<grant, quiet>> /\ Knows(Decision, grant, quiet)
        BY <1>4, <2>1, <3>3, DecideIs, DecisionFacts
      <4> QED
        BY <1>3, <2>1, <4>1 DEF LimiterInv, Knows
    <3> QED
      BY <3>1, <3>2, <3>3
  <2>3. /\ Derived(stored') /\ Knows(stored', grant', quiet')
        /\ Decision.last # NONE => stored'.last # NONE /\ stored'.last <= Decision.last
    <3>1. CASE memory = Decision
      <4>1. stored' = stored
        BY <1>4, <3>1, DecideIs
      <4> QED
        BY <1>3, <2>1, <2>2, <3>1, <4>1 DEF LimiterInv
    <3>2. CASE memory # Decision
      <4>1. stored' = Decision
        BY <1>4, <3>2, DecideIs
      <4> QED
        BY <1>3, <2>1, <2>2, <4>1
    <3> QED
      BY <3>1, <3>2
  <2>4. Decision.last = NONE => Decision.next <= LEGACY_LIFETIME
    BY <2>1, DecisionFacts
  <2> QED
    BY <1>3, <2>1, <2>2, <2>3, <2>4 DEF LimiterInv, Live
<1>5. CASE PutFails
  <2>1. /\ fetch.pc = "decide" /\ UNCHANGED <<runtime, memory, quiet>>
        /\ \/ UNCHANGED <<stored, grant>>
           \/ /\ stored' = Decision
              /\ grant' = IF \/ fetch.complete \/ Follows(grant, Asking) \/ ~Grants(Loaded, Asking)
                          THEN grant ELSE [grant EXCEPT !.run = 0]
    BY <1>5, PutFailsIs
  <2>2. CASE UNCHANGED <<stored, grant>>
    <3>1. runtime = "worker"
      BY <1>3, <2>1
    <3> QED
      BY <2>1, <2>2, <3>1, LimiterKept
  <2>3. CASE /\ stored' = Decision
             /\ grant' = IF \/ fetch.complete \/ Follows(grant, Asking) \/ ~Grants(Loaded, Asking)
                         THEN grant ELSE [grant EXCEPT !.run = 0]
    <3>1. grant'.age = grant.age /\ grant'.schedule = grant.schedule /\ grant'.run \in {grant.run, 0}
      BY <1>0, <2>3 DEF GrantState
    <3>2. Knows(Decision, grant', quiet)
      <4>1. CASE fetch.complete \/ ~Grants(Loaded, Asking)
        BY <1>0, <2>1, <2>3, <4>1, DecisionFacts
      <4>2. CASE ~fetch.complete /\ Grants(Loaded, Asking)
        <5>1. Permitted(Loaded, Asking, Decision) /\ Asking \in Asked /\ Decision.schedule = Asking
          BY <2>1, <4>2, DecisionFacts
        <5>2. Loaded \in PermitState /\ Knows(Loaded, grant, quiet)
          BY <1>3, <2>1, LoadedFacts
        <5>3. /\ Follows(grant, Asking) /\ Asking.steps > 0
                   => grant.run + 1 <= Place(Decision.counter, Asking.steps)
          BY <1>0, <1>3, <2>1, <5>1, <5>2, PermitRun
        <5>4. Decision.last = 0 /\ grant.age \in Nat /\ quiet \in Nat /\ grant.run \in Nat
          BY <1>0, <5>1, PacingAssumption DEF Permitted, GrantState
        <5>5. Asking.steps > 0 => Place(Decision.counter, Asking.steps) \in 1..Asking.steps
          BY <1>3, <2>1, <5>1, AskedFacts, NextPlace, Fields DEF Schedule
        <5>6. ~Follows(grant, Asking) => grant'.run = 0
          BY <1>0, <2>3, <4>2 DEF GrantState
        <5> HIDE DEF Place
        <5>7. Asking.steps > 0 => Place(Decision.counter, Asking.steps) \in Nat /\ Asking.steps \in Nat
          BY <5>1, <5>5, AskedFacts DEF Schedule
        <5>8. grant'.run > 0 /\ grant'.schedule.steps > 0
                 => grant'.run <= Place(Decision.counter, grant'.schedule.steps)
          BY <3>1, <5>3, <5>4, <5>6, <5>7 DEF Follows
        <5> QED
          BY <3>1, <5>4, <5>8 DEF Knows
      <4> QED
        BY <4>1, <4>2
    <3>3. memory # NONE => Knows(memory, grant', quiet)
      BY <1>3, <2>1, <3>1 DEF Knows
    <3>4. memory # NONE /\ memory.last # NONE => Decision.last # NONE /\ Decision.last <= memory.last
      BY <2>1, DecisionFacts
    <3> QED
      BY <1>3, <2>1, <2>3, <3>1, <3>2, <3>3, <3>4 DEF LimiterInv, Live
  <2> QED
    BY <2>1, <2>2, <2>3
<1>6. CASE Tick
  <2> DEFINE h == [grant EXCEPT !.age = Older(@, Cap)]
  <2>1. /\ stored' = Aged(stored) /\ memory' = Aged(memory) /\ grant' = h /\ quiet' = Older(quiet, Cap)
        /\ UNCHANGED runtime
        /\ client' = [c \in Client |-> [client[c] EXCEPT !.wait = Monus(@, 1)]]
    BY <1>6 DEF Tick
  <2>2. /\ h \in GrantState /\ h.age = Older(grant.age, Cap)
        /\ h.schedule = grant.schedule /\ h.run = grant.run
    BY <1>0, PacingAssumption DEF GrantState, Older
  <2> HIDE DEF h
  <2>3. ASSUME NEW s \in PermitState, Derived(s), Knows(s, grant, quiet)
        PROVE  /\ Aged(s) \in PermitState /\ Derived(Aged(s)) /\ Knows(Aged(s), h, Older(quiet, Cap))
               /\ Aged(s).last = (IF s.last = NONE THEN NONE ELSE Older(s.last, Cap))
               /\ Aged(s).next = Monus(s.next, 1)
    BY <1>0, <2>2, <2>3, AgedKnown DEF LimiterInv
  <2>4. Aged(NONE) = NONE
    BY DEF Aged
  <2>5. \A c \in Client : client'[c].pc = client[c].pc
    BY <2>1 DEF TypeInv, ClientState
  <2>6. ASSUME NEW s \in PermitState
        PROVE  /\ s.next \in Nat /\ Monus(s.next, 1) \in Nat /\ Monus(s.next, 1) <= s.next
               /\ s.last # NONE => Older(s.last, Cap) \in Nat /\ s.last \in Nat
    BY PacingAssumption, Fields DEF Monus, Older
  <2>7. \A m, n \in Nat : m <= n /\ n <= Cap => Older(m, Cap) <= Older(n, Cap)
    BY PacingAssumption DEF Older
  <2>8. memory' # NONE /\ memory'.last = NONE => memory'.next <= LEGACY_LIFETIME
    <3>1. SUFFICES ASSUME memory' # NONE, memory'.last = NONE PROVE memory'.next <= LEGACY_LIFETIME
      OBVIOUS
    <3>2. memory \in PermitState /\ Derived(memory) /\ Knows(memory, grant, quiet)
      BY <1>0, <2>1, <2>4, <3>1 DEF LimiterInv, Live
    <3>3. memory.last = NONE /\ memory'.next = Monus(memory.next, 1)
      BY <2>1, <2>3, <2>6, <3>1, <3>2
    <3> QED
      BY <2>6, <3>2, <3>3, PacingAssumption DEF LimiterInv
  <2>9. \A s \in Live' : Derived(s) /\ Knows(s, grant', quiet')
    <3>1. SUFFICES ASSUME NEW s \in Live' PROVE Derived(s) /\ Knows(s, grant', quiet')
      OBVIOUS
    <3>2. runtime = "native" => memory # NONE
      BY DEF TypeInv
    <3>3. PICK t \in Live : t \in PermitState /\ s = Aged(t)
      BY <1>0, <2>1, <2>4, <3>1, <3>2 DEF Live
    <3> QED
      BY <2>1, <2>3, <3>3 DEF LimiterInv
  <2>10. ASSUME runtime = "native"
         PROVE  /\ stored'.last = NONE
                /\ \A c \in Client : client'[c].pc \in {"granted", "finish"} => memory'.last # NONE
    <3>1. stored'.last = NONE
      <4>1. stored.last = NONE
        BY <2>10 DEF LimiterInv
      <4>2. Aged(stored).last = NONE
        BY <1>0, <4>1, AgedIs
      <4> QED
        BY <2>1, <4>2
    <3>2. memory \in PermitState /\ Derived(memory) /\ Knows(memory, grant, quiet)
      BY <1>0, <2>10 DEF LimiterInv, Live, TypeInv
    <3>3. memory.last # NONE => memory'.last # NONE
      BY <2>1, <2>3, <2>6, <3>2
    <3> QED
      BY <2>5, <2>10, <3>1, <3>3 DEF LimiterInv
  <2>11. ASSUME runtime = "worker", memory' # NONE, memory'.last # NONE
         PROVE  stored'.last # NONE /\ stored'.last <= memory'.last
    <3>1. /\ memory \in PermitState /\ Derived(memory) /\ Knows(memory, grant, quiet)
          /\ Derived(stored) /\ Knows(stored, grant, quiet)
      BY <1>0, <2>1, <2>4, <2>11 DEF LimiterInv, Live
    <3>2. memory.last # NONE /\ memory'.last = Older(memory.last, Cap)
      BY <2>1, <2>3, <2>11, <3>1
    <3>3. stored.last # NONE /\ stored.last <= memory.last /\ memory.last <= Cap
      BY <1>0, <2>11, <3>1, <3>2 DEF LimiterInv, Derived
    <3>4. stored'.last = Older(stored.last, Cap)
      BY <1>0, <2>1, <2>3, <3>1, <3>3
    <3> QED
      BY <1>0, <2>6, <2>7, <3>1, <3>2, <3>3, <3>4
  <2>12. grant'.run > 0 => grant'.schedule \in Asked
    BY <2>1, <2>2 DEF LimiterInv
  <2> QED
    BY <2>1, <2>8, <2>9, <2>10, <2>11, <2>12 DEF LimiterInv
<1> QED
  BY <1>1, <1>2, <1>4, <1>5, <1>6

-----------------------------------------------------------------------------
(* The settings a snapshot and a sleeper hold.                             *)

\* A step that puts nobody to sleep and leaves the settings alone.
LEMMA SleepersKept ==
    ASSUME TypeInv, SnapshotInv, UNCHANGED <<runtime, settings, sinceChange>>,
           \A c \in Client : client'[c].pc = "waiting" =>
               client[c].pc = "waiting" /\ client'[c].wait = client[c].wait
                  /\ client'[c].values = client[c].values,
           fetch' = NoFetch \/ (fetch'.pc = fetch.pc /\ fetch'.age = fetch.age),
           UNCHANGED snapshot
    PROVE  SnapshotInv'
<1>1. FetchTime \in Nat
  BY PacingAssumption
<1> QED
  BY <1>1 DEF SnapshotInv, NoFetch

LEMMA SnapshotClientStep ==
    ASSUME TypeInv, SnapshotInv, NEW c \in Client,
           Ask(c) \/ ClientStep(c) \/ Enter(c) \/ Die(c)
    PROVE  SnapshotInv'
<1>0. client \in [Client -> ClientState] /\ fetch \in FetchState
      /\ FetchTime \in Nat /\ TTL \in Nat \ {0}
  BY PacingAssumption DEF TypeInv
<1>1. CASE Ask(c) \/ Wake(c) \/ Respond(c)
  BY <1>0, <1>1, SleepersKept
     DEF Ask, Wake, Respond, Goes, limiter, history, bounded, ClientState
<1>2. CASE NativeAcquire(c) \/ NativeComplete(c)
  BY <1>2 DEF SnapshotInv, NativeAcquire, NativeComplete, bounded
<1>3. CASE Die(c)
  BY <1>0, <1>3, SleepersKept DEF Die, Ends, Fault, history, ClientState, FetchState
<1>4. CASE Enter(c)
  <2>1. /\ \A d \in Client : client'[d].pc = "waiting" => client[d] = client'[d]
        /\ UNCHANGED <<runtime, settings, sinceChange>>
    BY <1>0, <1>4 DEF Enter, Goes, history, ClientState
  <2>2. /\ fetch'.age = 0
        /\ \/ fetch'.pc = "read" /\ snapshot' = NoSnapshot
           \/ fetch'.pc = "decide" /\ snapshot' = snapshot /\ snapshot.age < TTL
    BY <1>0, <1>4 DEF Enter, Stale, TypeInv
  <2> QED
    BY <1>0, <2>1, <2>2 DEF SnapshotInv, NoSnapshot
<1> QED
  BY <1>1, <1>2, <1>3, <1>4 DEF ClientStep

LEMMA SnapshotWorkerStep ==
    ASSUME TypeInv, LimiterInv, SnapshotInv,
           ReadSettings \/ Decide \/ Evict \/ ReadFails \/ PutFails \/ ChangeSettings \/ Tick
    PROVE  SnapshotInv'
<1> USE NoneApart
<1>0. /\ client \in [Client -> ClientState] /\ fetch \in FetchState
      /\ FetchTime \in Nat /\ TTL \in Nat \ {0} /\ sinceChange \in Nat /\ snapshot.age \in Nat
      /\ settings \in Settings
  BY PacingAssumption DEF TypeInv
<1>1. CASE ReadSettings
  <2>1. /\ snapshot'.values = settings /\ snapshot'.age = fetch.age
        /\ fetch'.pc = "decide" /\ fetch'.age = fetch.age /\ fetch.age \in Nat
        /\ UNCHANGED <<runtime, settings, client, sinceChange>>
    BY <1>0, <1>1 DEF ReadSettings, FetchState, history
  <2> QED
    BY <1>0, <2>1 DEF SnapshotInv
<1>2. CASE Decide
  <2>1. /\ fetch.pc = "decide" /\ fetch.client \in Client /\ fetch' = NoFetch
        /\ UNCHANGED <<runtime, settings, snapshot, sinceChange>>
    BY <1>2, DecideIs
  <2>2. /\ snapshot.values \in Settings /\ snapshot.age < TTL + fetch.age
        /\ fetch.age <= FetchTime /\ fetch.age \in Nat /\ runtime = "worker"
    BY <1>0, <2>1 DEF TypeInv, SnapshotInv, FetchState
  <2>3. Decision.next \in Nat
    BY <2>1, DecisionFacts, Fields
  <2> DEFINE w == WaitReply(Decision.next)
  <2>4. /\ w \in Nat /\ w <= TTL
        /\ snapshot.age < TTL => w <= TTL - snapshot.age
        /\ snapshot.age >= TTL => w = 1
    BY <2>3, WaitIs
  <2>5. ASSUME NEW c \in Client, client'[c].pc = "waiting"
        PROVE  \/ client'[c] = client[c]
               \/ client'[c].wait = w /\ client'[c].values = snapshot.values
    <3> DEFINE was == client[fetch.client]
    <3>1. was \in ClientState /\ client[c] \in ClientState
      BY <1>0, <2>1
    <3> HIDE DEF was
    <3>2. /\ [was EXCEPT !.pc = "idle", !.left = was.left - 1].pc = "idle"
          /\ [was EXCEPT !.pc = "granted"].pc = "granted"
      BY <3>1 DEF ClientState
    <3>3. \A n, v : /\ [was EXCEPT !.pc = "waiting", !.wait = n, !.values = v].wait = n
                   /\ [was EXCEPT !.pc = "waiting", !.wait = n, !.values = v].values = v
      BY <3>1 DEF ClientState
    <3>4. PICK record : /\ client' = Heard(fetch.client, record)
                        /\ \/ record.pc \in {"idle", "granted"}
                           \/ record.wait = w /\ record.values = snapshot.values
      <4>1. \/ client' = Heard(fetch.client, [was EXCEPT !.pc = "idle", !.left = was.left - 1])
            \/ client' = Heard(fetch.client, [was EXCEPT !.pc = "granted"])
            \/ client' = Heard(fetch.client, [was EXCEPT !.pc = "waiting", !.wait = w,
                                                         !.values = snapshot.values])
        BY <1>2, DecideIs DEF was, w
      <4>2. CASE client' = Heard(fetch.client, [was EXCEPT !.pc = "idle", !.left = was.left - 1])
        <5> WITNESS [was EXCEPT !.pc = "idle", !.left = was.left - 1]
        <5> QED
          BY <3>2, <4>2, Zenon
      <4>3. CASE client' = Heard(fetch.client, [was EXCEPT !.pc = "granted"])
        <5> WITNESS [was EXCEPT !.pc = "granted"]
        <5> QED
          BY <3>2, <4>3, Zenon
      <4>4. CASE client' = Heard(fetch.client, [was EXCEPT !.pc = "waiting", !.wait = w,
                                                        !.values = snapshot.values])
        <5> DEFINE asleep == [was EXCEPT !.pc = "waiting", !.wait = w, !.values = snapshot.values]
        <5>1. asleep.wait = w /\ asleep.values = snapshot.values
          BY <3>3
        <5>2. client' = Heard(fetch.client, asleep)
          BY <4>4
        <5> HIDE DEF asleep
        <5> QED
          BY <5>1, <5>2
      <4> QED
        BY <4>1, <4>2, <4>3, <4>4
    <3> QED
      BY <1>0, <2>1, <2>5, <3>4 DEF Heard
  <2> HIDE DEF w
  <2>6. snapshot.values # settings => sinceChange + w <= TTL + FetchTime
    BY <1>0, <2>2, <2>4 DEF SnapshotInv
  <2>7. fetch'.pc = "none" /\ fetch'.age = 0
    BY <2>1 DEF NoFetch
  <2>8. ASSUME NEW c \in Client, client'[c].pc = "waiting"
        PROVE  /\ client'[c].wait <= TTL
               /\ client'[c].values # settings => sinceChange + client'[c].wait <= TTL + FetchTime
    BY <2>2, <2>4, <2>5, <2>6, <2>8 DEF SnapshotInv
  <2> QED
    BY <1>0, <2>1, <2>7, <2>8 DEF SnapshotInv
<1>3. CASE Evict
  BY <1>0, <1>3, RefusedType DEF SnapshotInv, Evict, Fault, NoFetch, NoSnapshot, history
<1>4. CASE ReadFails
  BY <1>0, <1>4, RefusedType DEF SnapshotInv, ReadFails, Fault, NoFetch, history
<1>5. CASE PutFails
  BY <1>0, <1>5, RefusedType, PutFailsIs DEF SnapshotInv, NoFetch
<1>6. CASE ChangeSettings
  <2>1. /\ sinceChange' = 0 /\ settings' \in Settings
        /\ UNCHANGED <<runtime, snapshot, fetch, client>>
    BY <1>6 DEF ChangeSettings, limiter
  <2>2. \A c \in Client : client[c].wait \in Nat
    BY <1>0 DEF ClientState
  <2> QED
    BY <1>0, <2>1, <2>2 DEF SnapshotInv
<1>7. CASE Tick
  <2>1. /\ UNCHANGED <<runtime, settings>>
        /\ sinceChange' \in Nat /\ sinceChange' <= sinceChange + 1
    BY <1>0, <1>7 DEF Tick, Older
  <2>2. /\ fetch'.pc = fetch.pc /\ fetch.age \in Nat
        /\ fetch'.age = IF fetch.pc = "none" THEN 0 ELSE fetch.age + 1
        /\ fetch.pc = "none" \/ fetch.age < FetchTime
    BY <1>0, <1>7 DEF Tick, FetchState
  <2>3. /\ snapshot'.values # NONE => snapshot'.values = snapshot.values /\ snapshot'.age = snapshot.age + 1
        /\ fetch.pc # "none" => snapshot'.values = snapshot.values
    BY <1>0, <1>7 DEF Tick, NoSnapshot, TypeInv
  <2>4. ASSUME NEW c \in Client
        PROVE  /\ client'[c].pc = client[c].pc /\ client'[c].values = client[c].values
               /\ client[c].wait \in Nat
               /\ client[c].pc = "waiting" => client'[c].wait = client[c].wait - 1
    BY <1>0, <1>7 DEF Tick, ClientState, Monus
  <2>5. fetch.pc = "decide" => snapshot.values # NONE
    BY DEF TypeInv
  <2>6. fetch'.age <= FetchTime
    BY <1>0, <2>2
  <2>7. snapshot'.values \notin {NONE, settings} => sinceChange' <= snapshot'.age
    BY <1>0, <2>1, <2>3 DEF SnapshotInv
  <2>8. fetch'.pc = "decide" => snapshot'.age < TTL + fetch'.age
    BY <1>0, <2>2, <2>3, <2>5 DEF SnapshotInv
  <2>9. fetch'.pc = "read" => snapshot'.values = NONE
    BY <2>2, <2>3 DEF SnapshotInv
  <2>10. ASSUME runtime = "worker", NEW c \in Client, client'[c].pc = "waiting"
         PROVE  /\ client'[c].wait <= TTL
                /\ client'[c].values # settings => sinceChange' + client'[c].wait <= TTL + FetchTime
    BY <1>0, <2>1, <2>4, <2>10 DEF SnapshotInv
  <2> QED
    BY <2>1, <2>6, <2>7, <2>8, <2>9, <2>10 DEF SnapshotInv
<1> QED
  BY <1>1, <1>2, <1>3, <1>4, <1>5, <1>6, <1>7

-----------------------------------------------------------------------------
(* The theorems.                                                           *)

LEMMA PacingStep == PacingInv /\ [Next]_vars => PacingInv'
<1> SUFFICES ASSUME PacingInv, [Next]_vars PROVE PacingInv'
  OBVIOUS
<1>0. TypeInv /\ LimiterInv /\ SnapshotInv
  BY DEF PacingInv
<1>1. ASSUME NEW c \in Client, Ask(c) \/ ClientStep(c) \/ Enter(c) \/ Die(c) PROVE PacingInv'
  BY <1>0, <1>1, TypeClientStep, LimiterClientStep, SnapshotClientStep DEF PacingInv
<1>2. CASE ReadSettings \/ Decide \/ Evict \/ ReadFails \/ PutFails \/ ChangeSettings \/ Tick
  BY <1>0, <1>2, TypeWorkerStep, LimiterWorkerStep, SnapshotWorkerStep DEF PacingInv
<1>3. CASE UNCHANGED vars
  BY <1>0, <1>3 DEF PacingInv, TypeInv, LimiterInv, SnapshotInv, Live, Derived, Knows, vars
<1> QED
  BY <1>1, <1>2, <1>3 DEF Next

(* In every run of the specification the limiter's state says of the last  *)
(* permit and the last completion what the history says (try_acquire,      *)
(* complete_request, the loading and saving of the Durable Object).        *)
THEOREM PacingInvariant == Spec => []PacingInv
BY PacingInit, PacingStep, PTL DEF Spec

(* A denied request reserves nothing: the next permit follows from the     *)
(* last one and the schedule that is asked with (rebase_on_schedule_change,*)
(* LEGACY_QUEUE_LIFETIME_MS).                                              *)
THEOREM DenialHarmless == Spec => []DenialReservesNothing
<1>1. PacingInv => DenialReservesNothing
  <2> SUFFICES ASSUME PacingInv PROVE DenialReservesNothing
    OBVIOUS
  <2>1. memory # NONE /\ memory.last = NONE => memory.next <= LEGACY_LIFETIME
    BY DEF PacingInv, LimiterInv
  <2>2. \A s \in Live : Derived(s)
    BY DEF PacingInv, LimiterInv
  <2>3. runtime = "native" => stored.last = NONE
    BY DEF PacingInv, LimiterInv
  <2> QED
    BY <2>1, <2>2, <2>3 DEF DenialReservesNothing, Live, Derived
<1> QED
  BY <1>1, PacingInvariant, PTL

(* No client sleeps on under old settings for longer than a snapshot lives *)
(* (the reply of SiteRateLimiter::fetch).                                  *)
THEOREM SettingsArrive == Spec => []SettingsReach
<1>1. PacingInv => SettingsReach
  <2> SUFFICES ASSUME PacingInv, NEW c \in Client, runtime = "worker",
                      client[c].pc = "waiting", client[c].values # settings
               PROVE  sinceChange <= TTL + FetchTime
    BY DEF SettingsReach
  <2>1. /\ sinceChange + client[c].wait <= TTL + FetchTime
        /\ client[c].wait \in Nat /\ sinceChange \in Nat /\ TTL \in Nat /\ FetchTime \in Nat
    BY PacingAssumption DEF PacingInv, SnapshotInv, TypeInv, ClientState
  <2> QED
    BY <2>1
<1> QED
  BY <1>1, PacingInvariant, PTL

(* Permits are spaced: each comes an interval after the last permit and    *)
(* the last completion, and of those that follow one another with the same *)
(* wait-steps no more than that many come without a pause, whoever asks,   *)
(* whatever was evicted, failed or was imported (try_acquire,              *)
(* complete_request, the order of put and reply in fetch).                 *)
THEOREM PermitsSpaced == Spec => Spaced
<1> DEFINE Told == \A c \in Client :
         client[c].pc # "granted" /\ client'[c].pc = "granted" =>
            LET schedule == grant'.schedule
            IN  /\ grant.age >= schedule.interval
                /\ quiet >= schedule.interval
                /\ schedule.steps > 0 => grant'.run <= schedule.steps
<1>1. PacingInv /\ [Next]_vars => [Told]_vars
  <2> SUFFICES ASSUME PacingInv, Next, NEW c \in Client,
                      client[c].pc # "granted", client'[c].pc = "granted"
               PROVE  /\ grant.age >= grant'.schedule.interval
                      /\ quiet >= grant'.schedule.interval
                      /\ grant'.schedule.steps > 0 => grant'.run <= grant'.schedule.steps
    BY DEF vars
  <2>0. /\ TypeInv /\ LimiterInv /\ client \in [Client -> ClientState]
        /\ grant \in GrantState /\ quiet \in 0..Cap
    BY DEF PacingInv, TypeInv
  <2> USE DEF ClientState
  <2>1. ASSUME NEW s \in PermitState, NEW sch \in Asked, NEW after \in PermitState,
               Knows(s, grant, quiet), Permitted(s, sch, after), after.schedule = sch,
               grant' = GrantedTo(grant, sch)
        PROVE  /\ grant.age >= grant'.schedule.interval
               /\ quiet >= grant'.schedule.interval
               /\ grant'.schedule.steps > 0 => grant'.run <= grant'.schedule.steps
    <3>1. GrantedTo(grant, sch).schedule = sch
      BY DEF GrantedTo
    <3> QED
      BY <2>0, <2>1, <3>1, PermitRun, PermitKnown
  <2>2. ASSUME NEW d \in Client, Ask(d) \/ Wake(d) \/ Respond(d) \/ NativeComplete(d) \/ Enter(d) \/ Die(d)
        PROVE  FALSE
    BY <2>0, <2>2 DEF Ask, Wake, Respond, NativeComplete, Enter, Die, Goes, Ends
  <2>3. ASSUME NEW d \in Client, NativeAcquire(d)
        PROVE  /\ grant.age >= grant'.schedule.interval
               /\ quiet >= grant'.schedule.interval
               /\ grant'.schedule.steps > 0 => grant'.run <= grant'.schedule.steps
    <3> DEFINE sch == ForSite(client[d].values, d)
    <3>1. /\ sch \in Asked /\ memory \in PermitState /\ Derived(memory) /\ Knows(memory, grant, quiet)
      BY <2>0, <2>3 DEF TypeInv, LimiterInv, Live, NativeAcquire, Asked
    <3>2. Grants(memory, sch) /\ grant' = GrantedTo(grant, sch)
      BY <2>0, <2>3, GrantedIs DEF NativeAcquire
    <3>3. /\ memory' \in PermitState /\ memory'.schedule = sch /\ Permitted(memory, sch, memory')
      BY <2>3, <3>1, <3>2, Acquire DEF NativeAcquire
    <3> HIDE DEF sch
    <3> QED
      BY <2>1, <3>1, <3>2, <3>3
  <2>4. CASE Decide
    <3>1. fetch.pc = "decide" /\ fetch.client \in Client
      BY <2>0, <2>4, DecideIs
    <3>2. ~fetch.complete /\ Grants(Loaded, Asking) /\ grant' = GrantedTo(grant, Asking)
      BY <2>0, <2>4, <3>1, DecideIs DEF Heard
    <3>3. /\ runtime = "worker" /\ Asking \in Asked /\ Decision \in PermitState
          /\ Decision.schedule = Asking /\ Permitted(Loaded, Asking, Decision)
      BY <2>0, <3>1, <3>2, DecisionFacts
    <3>4. Loaded \in PermitState /\ Knows(Loaded, grant, quiet)
      BY <2>0, <3>3, LoadedFacts
    <3> QED
      BY <2>1, <3>2, <3>3, <3>4
  <2>5. CASE ReadSettings \/ Evict \/ ReadFails \/ PutFails \/ ChangeSettings \/ Tick
    <3>1. Refused[c].pc # "granted"
      BY <2>0, RefusedType
    <3>2. client'[c].pc \in {client[c].pc, Refused[c].pc}
      BY <2>0, <2>5, PutFailsIs DEF ReadSettings, Evict, ReadFails, ChangeSettings, Tick, Fault
    <3> QED
      BY <3>1, <3>2
  <2> QED
    BY <2>2, <2>3, <2>4, <2>5 DEF Next, ClientStep
<1>2. Spec => [][Told]_vars
  BY <1>1, PacingInvariant, PTL DEF Spec
<1> QED
  BY <1>2 DEF Spaced

=============================================================================
