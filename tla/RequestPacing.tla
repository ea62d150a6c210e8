---------------------------- MODULE RequestPacing ----------------------------
(***************************************************************************)
(* The pacing of requests to one site: the permit engine of                *)
(* src/platform/rate_limiter.rs under its two hosts.  On the native side   *)
(* it is a table in memory behind a mutex (src/downloader/rate_limit.rs);  *)
(* on the Worker it is a Durable Object that keeps its state in memory and *)
(* in storage, reads the settings anew when its copy is old, and is asked  *)
(* by invocations over fetch (worker_entry/src/site_rate_limiter.rs,       *)
(* worker_entry/src/rate_limiter.rs).                                      *)
(*                                                                         *)
(* Instants are kept as distances from now: `next` is the time until the   *)
(* next permit may be given (zero: none is pending), `last` the time since *)
(* the last permit or completion, cut at Cap, beyond which it no longer    *)
(* matters.  Tick moves all of them.                                       *)
(*                                                                         *)
(* A definition marked MUTANT is a plausible mistake in the one that       *)
(* follows it; the specification does not use it.                          *)
(***************************************************************************)
EXTENDS Naturals, FiniteSetsExt

CONSTANTS
    Client,             \* downloads that send requests to the site
    Floor,              \* min_interval of the site definition a client uses
    Narou,              \* whether a client's scope is narou
    Settings,           \* values of download.interval and download.wait-steps
    Runtime,            \* subset of {"native", "worker"}
    NONE,
    NAROU_STEPS,        \* the default and largest wait-steps of narou
    STEPS_WAIT_TIME,    \* the pause after wait-steps requests
    TTL,                \* PACING_REFRESH_TTL_MS
    LEGACY_LIFETIME,    \* LEGACY_QUEUE_LIFETIME_MS
    Fences,             \* imported reservations a Durable Object may start from
    Cap,                \* bound: ages beyond it are alike
    FetchTime,          \* bound: how long the Durable Object works on one call
    Requests,           \* bound: requests of a client
    MaxChanges,         \* bound: changes of the settings
    MaxFaults           \* bound: evictions, failed writes and dead invocations

ASSUME PacingAssumption ==
    /\ Settings \subseteq [interval : Nat, steps : Nat] /\ Settings # {}
    /\ Floor \in [Client -> Nat] /\ Narou \in [Client -> BOOLEAN]
    /\ Runtime \subseteq {"native", "worker"}
    /\ NAROU_STEPS \in Nat \ {0} /\ STEPS_WAIT_TIME \in Nat /\ TTL \in Nat \ {0}
    /\ LEGACY_LIFETIME \in 0..Cap /\ Cap \in Nat /\ Fences \subseteq Nat /\ FetchTime \in Nat
    /\ Requests \in [Client -> Nat]
    /\ MaxChanges \in Nat /\ MaxFaults \in Nat

(* The schedules of a scope, and the state of its limiter.                *)
Schedule == [interval : Nat, steps : Nat, pause : Nat, reset : Nat]
PermitState == [counter : Nat, last : Nat \union {NONE}, next : Nat,
                schedule : Schedule \union {NONE}]

ASSUME NoneAssumption ==
    NONE \notin Nat /\ NONE \notin Settings /\ NONE \notin Client
    /\ NONE \notin Schedule /\ NONE \notin PermitState

VARIABLES
    runtime,
    settings,   \* the saved settings
    stored,     \* the state in the storage of the Durable Object
    memory,     \* the state in memory, or NONE
    snapshot,   \* the Durable Object's copy of the settings, and its age
    fetch,      \* the call that holds the mutex of the Durable Object
    client,     \* what each client is doing
    grant,      \* history: time since the last permit, its schedule, and the row
                \* it ends: permits one after the other with the same wait-steps
                \* and no pause between them
    quiet,      \* history: time since the last completion the limiter recorded
    sinceChange,\* history: time since the settings changed
    changes, faults

vars == <<runtime, settings, stored, memory, snapshot, fetch, client, grant,
          quiet, sinceChange, changes, faults>>
limiter == <<stored, memory, snapshot, fetch>>
history == <<grant, quiet, sinceChange>>
bounded == <<changes, faults>>

-----------------------------------------------------------------------------
(* The engine.                                                             *)

NormalizeWaitSteps(raw, narou) ==
    IF narou /\ (raw = 0 \/ raw > NAROU_STEPS) THEN NAROU_STEPS ELSE raw

(* The settings applied to a client's scope.                               *)
ForSite(values, c) ==
    [interval |-> Max({values.interval, Floor[c]}),
     steps    |-> NormalizeWaitSteps(values.steps, Narou[c]),
     pause    |-> Max({STEPS_WAIT_TIME, values.interval, Floor[c]}),
     reset    |-> Max({STEPS_WAIT_TIME, values.interval})]

ASSUME CapAssumption ==
    \A values \in Settings, c \in Client :
        ForSite(values, c).pause < Cap /\ ForSite(values, c).reset < Cap

Unused == [counter |-> 0, last |-> NONE, next |-> 0, schedule |-> NONE]

Monus(a, b) == IF a > b THEN a - b ELSE 0

DelayAfterGrant(counter, schedule) ==
    IF schedule.steps > 0 /\ counter % schedule.steps = 0
    THEN Max({schedule.pause, schedule.interval}) ELSE schedule.interval

\* MUTANT: the wait starts anew when the schedule changes.
RebaseFromNow(state, schedule) ==
    [state EXCEPT !.schedule = schedule,
                  !.next = IF state.schedule \notin {NONE, schedule} /\ state.last # NONE
                           THEN DelayAfterGrant(state.counter, schedule) ELSE @]

RebaseOnScheduleChange(state, schedule) ==
    [state EXCEPT !.schedule = schedule,
                  !.next = IF state.schedule \notin {NONE, schedule} /\ state.last # NONE
                           THEN Monus(DelayAfterGrant(state.counter, schedule), state.last)
                           ELSE @]

ResetIdleCounter(state, window) ==
    IF state.last # NONE /\ state.last > window /\ state.next = 0
    THEN [state EXCEPT !.counter = 0, !.last = NONE]
    ELSE state

(* What try_acquire looks at before it decides.                            *)
Considered(state, schedule) ==
    ResetIdleCounter(RebaseOnScheduleChange(state, schedule), schedule.reset)

TryAcquire(state, schedule) ==
    LET now == Considered(state, schedule)
    IN  IF now.next > 0 THEN now
        ELSE [now EXCEPT !.counter = @ + 1, !.last = 0,
                         !.next = DelayAfterGrant(now.counter + 1, schedule)]

Grants(state, schedule) == Considered(state, schedule).next = 0

\* MUTANT: the next interval starts at the permit, not at the completion.
CompleteUnpaced(state) == [state EXCEPT !.last = 0]

CompleteRequest(state) ==
    [state EXCEPT !.last = 0, !.next = DelayAfterGrant(state.counter, state.schedule)]

-----------------------------------------------------------------------------
NoFetch == [client |-> NONE, complete |-> FALSE, pc |-> "none", age |-> 0, heard |-> FALSE]
NoSnapshot == [values |-> NONE, age |-> 0]

Init ==
    /\ runtime \in Runtime
    /\ settings \in Settings
    /\ \E fence \in IF runtime = "worker" THEN Fences ELSE {0} :
         \E counter \in IF fence = 0 THEN {0} ELSE {0, 1} :
            stored = [Unused EXCEPT !.next = fence, !.counter = counter]
    /\ memory = IF runtime = "worker" THEN NONE ELSE Unused
    /\ snapshot = NoSnapshot
    /\ fetch = NoFetch
    /\ \E used \in [Client -> IF runtime = "native" THEN Settings ELSE {NONE}] :
         client = [c \in Client |->
            [pc |-> "idle", wait |-> 0, left |-> Requests[c], values |-> used[c]]]
    /\ grant = [age |-> Cap, schedule |-> NONE, run |-> 0]
    /\ quiet = Cap
    /\ sinceChange = 0
    /\ changes = 0 /\ faults = 0

Goes(c, pc) == client' = [client EXCEPT ![c].pc = pc]
Ends(c) == client' = [client EXCEPT ![c].pc = "idle", ![c].wait = 0, ![c].left = @ - 1,
                                 ![c].values = IF runtime = "native" THEN @ ELSE NONE]

(* The history of a permit.  One with other wait-steps begins a new row,   *)
(* although the counter of the engine goes on.                             *)
Continues(schedule) ==
    /\ grant.schedule # NONE /\ grant.schedule.steps = schedule.steps
    /\ grant.age < schedule.pause

Granted(schedule) ==
    grant' = [age |-> 0, schedule |-> schedule,
              run |-> IF Continues(schedule) THEN grant.run + 1 ELSE 1]

(* A client asks before each physical attempt, and reports its end.        *)
Ask(c) ==
    /\ client[c].pc = "idle" /\ client[c].left > 0
    /\ Goes(c, "ask")
    /\ UNCHANGED <<runtime, settings, limiter, history, bounded>>

Wake(c) ==
    /\ client[c].pc = "waiting" /\ client[c].wait = 0
    /\ client' = [client EXCEPT ![c].pc = "ask",
                    ![c].values = IF runtime = "native" THEN @ ELSE NONE]
    /\ UNCHANGED <<runtime, settings, limiter, history, bounded>>

(* The body is read, or the attempt failed: either way the end is reported. *)
Respond(c) ==
    /\ client[c].pc = "granted"
    /\ Goes(c, "finish")
    /\ UNCHANGED <<runtime, settings, limiter, history, bounded>>

-----------------------------------------------------------------------------
(* Native: one locked step; a limiter keeps the settings it was made with. *)

NativeAcquire(c) ==
    LET schedule == ForSite(client[c].values, c)
    IN  /\ runtime = "native" /\ client[c].pc = "ask"
        /\ memory' = TryAcquire(memory, schedule)
        /\ IF Grants(memory, schedule)
           THEN Goes(c, "granted") /\ Granted(schedule)
           ELSE /\ client' = [client EXCEPT ![c].pc = "waiting", ![c].wait = memory'.next]
                /\ UNCHANGED grant
        /\ UNCHANGED <<runtime, settings, stored, snapshot, fetch, quiet,
                       sinceChange, bounded>>

NativeComplete(c) ==
    /\ runtime = "native" /\ client[c].pc = "finish"
    /\ memory' = CompleteRequest(memory)
    /\ Ends(c)
    /\ quiet' = 0
    /\ UNCHANGED <<runtime, settings, stored, snapshot, fetch, grant,
                   sinceChange, bounded>>

-----------------------------------------------------------------------------
(* The Durable Object: a call holds the mutex over all its awaits.         *)

Stale == snapshot.values = NONE \/ snapshot.age >= TTL

Enter(c) ==
    /\ runtime = "worker" /\ client[c].pc \in {"ask", "finish"}
    /\ fetch.pc = "none"
    /\ fetch' = [client |-> c, complete |-> client[c].pc = "finish",
                 pc |-> IF Stale THEN "read" ELSE "decide", age |-> 0, heard |-> TRUE]
    /\ snapshot' = IF Stale THEN NoSnapshot ELSE snapshot
    /\ Goes(c, "posted")
    /\ UNCHANGED <<runtime, settings, stored, memory, history, bounded>>

(* read_at_ms is the time the call took the mutex.                         *)
ReadSettings ==
    /\ fetch.pc = "read"
    /\ snapshot' = [values |-> settings, age |-> fetch.age]
    /\ fetch' = [fetch EXCEPT !.pc = "decide"]
    /\ UNCHANGED <<runtime, settings, stored, memory, client, history, bounded>>

(* The state in memory, or that in storage; keys of an older version hold  *)
(* no schedule, and a reservation that is cut to the life of an invocation. *)
Loaded ==
    IF memory # NONE THEN memory
    ELSE IF stored.schedule # NONE THEN stored
    ELSE [stored EXCEPT !.next = Min({@, LEGACY_LIFETIME})]

\* MUTANT: a denied caller waits a full lifetime of the snapshot.
WaitTtl(next) == Max({1, Min({next, TTL})})

(* A denied caller wakes when the permit is due or the snapshot expires.   *)
WaitReply(next) == Max({1, Min({next, Monus(TTL, snapshot.age), TTL})})

Heard(c, record) == IF fetch.heard THEN [client EXCEPT ![c] = record] ELSE client

(* The decision, its write to storage, and the answer.                     *)
Decide ==
    LET c == fetch.client
        schedule == ForSite(snapshot.values, c)
        after == IF fetch.complete
                 THEN CompleteRequest([Loaded EXCEPT !.schedule = schedule])
                 ELSE TryAcquire(Loaded, schedule)
    IN  /\ fetch.pc = "decide"
        /\ stored' = IF memory = after THEN stored ELSE after
        /\ memory' = after
        /\ fetch' = NoFetch
        /\ \/ /\ fetch.complete
              /\ client' = Heard(c, [client[c] EXCEPT !.pc = "idle", !.left = @ - 1])
              /\ quiet' = 0
              /\ UNCHANGED grant
           \/ /\ ~fetch.complete /\ Grants(Loaded, schedule)
              /\ client' = Heard(c, [client[c] EXCEPT !.pc = "granted"])
              /\ Granted(schedule)
              /\ UNCHANGED quiet
           \/ /\ ~fetch.complete /\ ~Grants(Loaded, schedule)
              /\ client' = Heard(c, [client[c] EXCEPT !.pc = "waiting",
                                        !.wait = WaitReply(after.next),
                                        !.values = snapshot.values])
              /\ UNCHANGED <<grant, quiet>>
        /\ UNCHANGED <<runtime, settings, snapshot, sinceChange, bounded>>

(* Faults: the Durable Object is evicted, a read or a write fails (and may *)
(* have been stored), an invocation dies.                                  *)
Fault ==
    /\ faults < MaxFaults
    /\ faults' = faults + 1
    /\ UNCHANGED <<runtime, settings, changes>>

Refused == IF fetch.heard
           THEN [client EXCEPT ![fetch.client].pc = "idle", ![fetch.client].left = @ - 1]
           ELSE client

Evict ==
    /\ Fault /\ runtime = "worker"
    /\ memory' = NONE /\ snapshot' = NoSnapshot /\ fetch' = NoFetch
    /\ client' = Refused
    /\ UNCHANGED <<stored, history>>

ReadFails ==
    /\ Fault /\ fetch.pc = "read"
    /\ fetch' = NoFetch
    /\ client' = Refused
    /\ UNCHANGED <<stored, memory, snapshot, history>>

(* A permit that was stored and cannot continue the row ends it although   *)
(* nobody was told of it: the object has counted it.                       *)
Unanswered(schedule) ==
    grant' = IF fetch.complete \/ Continues(schedule) \/ ~Grants(Loaded, schedule)
             THEN grant ELSE [grant EXCEPT !.run = 0]

PutFails ==
    LET schedule == ForSite(snapshot.values, fetch.client)
        after == IF fetch.complete
                 THEN CompleteRequest([Loaded EXCEPT !.schedule = schedule])
                 ELSE TryAcquire(Loaded, schedule)
    IN  /\ Fault /\ fetch.pc = "decide" /\ memory # after
        /\ \/ UNCHANGED <<stored, grant>>
           \/ stored' = after /\ Unanswered(schedule)
        /\ fetch' = NoFetch
        /\ client' = Refused
        /\ UNCHANGED <<memory, snapshot, quiet, sinceChange>>

Die(c) ==
    /\ Fault /\ runtime = "worker" /\ client[c].pc # "idle"
    /\ Ends(c)
    /\ fetch' = IF fetch.client = c THEN [fetch EXCEPT !.heard = FALSE] ELSE fetch
    /\ UNCHANGED <<stored, memory, snapshot, history>>

ChangeSettings ==
    /\ runtime = "worker" /\ changes < MaxChanges
    /\ changes' = changes + 1
    /\ settings' \in Settings \ {settings}
    /\ sinceChange' = 0
    /\ UNCHANGED <<runtime, limiter, client, grant, quiet, faults>>

-----------------------------------------------------------------------------
Older(age, cap) == IF age < cap THEN age + 1 ELSE cap
Aged(state) ==
    IF state = NONE THEN NONE
    ELSE [state EXCEPT !.last = IF @ = NONE THEN NONE ELSE Older(@, Cap),
                       !.next = Monus(@, 1)]

(* Time passes: not over a timer that has rung, and not beyond FetchTime    *)
(* over a call of the Durable Object.                                      *)
Tick ==
    /\ \A c \in Client : client[c].pc = "waiting" => client[c].wait > 0
    /\ fetch.pc = "none" \/ fetch.age < FetchTime
    /\ stored' = Aged(stored) /\ memory' = Aged(memory)
    /\ snapshot' = IF fetch.pc = "none" /\ snapshot.age + 1 >= TTL THEN NoSnapshot
                   ELSE [snapshot EXCEPT !.age = IF snapshot.values = NONE THEN 0 ELSE @ + 1]
    /\ fetch' = [fetch EXCEPT !.age = IF fetch.pc = "none" THEN 0 ELSE @ + 1]
    /\ client' = [c \in Client |-> [client[c] EXCEPT !.wait = Monus(@, 1)]]
    /\ grant' = [grant EXCEPT !.age = Older(@, Cap)]
    /\ quiet' = Older(quiet, Cap)
    /\ sinceChange' = IF changes = 0 THEN 0 ELSE Older(sinceChange, TTL + FetchTime + 1)
    /\ UNCHANGED <<runtime, settings, bounded>>

ClientStep(c) ==
    Wake(c) \/ Respond(c) \/ NativeAcquire(c) \/ NativeComplete(c)
Next ==
    \/ \E c \in Client : Ask(c) \/ ClientStep(c) \/ Enter(c) \/ Die(c)
    \/ ReadSettings \/ Decide \/ Evict \/ ReadFails \/ PutFails
    \/ ChangeSettings \/ Tick

Spec == Init /\ [][Next]_vars

-----------------------------------------------------------------------------
(* A permit comes no sooner than its interval after the last permit and    *)
(* the last recorded completion, of whatever schedule those were; and of   *)
(* permits that follow one another with the same wait-steps at most that   *)
(* many come without a pause, whoever asked, whatever their intervals and  *)
(* floors, and whether or not the object was restarted between             *)
(* (try_acquire, complete_request and the order of put and reply in        *)
(* fetch).  Of a row that mixes wait-steps only the first half is said:    *)
(* its permits share one counter, which may be a multiple of wait-steps at *)
(* the permits of the others alone, and then the pause never comes.        *)
Spaced ==
    [][\A c \in Client :
         client[c].pc # "granted" /\ client'[c].pc = "granted" =>
            LET schedule == grant'.schedule
            IN  /\ grant.age >= schedule.interval
                /\ quiet >= schedule.interval
                /\ schedule.steps > 0 => grant'.run <= schedule.steps]_vars

(* A change of the settings reaches a waiting client within the lifetime   *)
(* of a snapshot: it does not sleep on under the old ones (the reply of     *)
(* SiteRateLimiter::fetch).                                                *)
SettingsReach ==
    \A c \in Client :
        runtime = "worker" /\ client[c].pc = "waiting" /\ client[c].values # settings
            => sinceChange <= TTL + FetchTime

(* A denied request reserves nothing: whoever asks meanwhile and under     *)
(* whatever schedule, the next permit stays as far from the last permit or *)
(* completion as the schedule says, so askers with different schedules do  *)
(* not push each other back for ever.  Before the first permit only an     *)
(* imported reservation is waited for, and no longer than its cut          *)
(* (rebase_on_schedule_change and LEGACY_QUEUE_LIFETIME_MS).               *)
DenialReservesNothing ==
    /\ \A state \in {memory, stored} \ {NONE} :
         state.last # NONE =>
            state.next = Monus(DelayAfterGrant(state.counter, state.schedule), state.last)
    /\ memory # NONE /\ memory.last = NONE => memory.next <= LEGACY_LIFETIME
=============================================================================
