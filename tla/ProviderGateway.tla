-------------------------- MODULE ProviderGateway --------------------------
(***************************************************************************)
(* The provider gateway: concurrent lookups through idempotency locks, a    *)
(* shared cache, a rate window, a circuit breaker with a half-open probe    *)
(* and a bulkhead, with retries, deadlines and cancellation.                *)
(*                                                                          *)
(* Everything done under _state_lock contains no await, so each such block  *)
(* is one step; a call can be suspended where it waits for its idempotency  *)
(* lock, for a permit, for the provider and for the backoff delay.  A lock  *)
(* or permit is acquired by a child task, after which the call is resumed   *)
(* in a step of its own: what interrupts it in between loses the lock.  The *)
(* gateway has one provider, as build_default_provider_gateway makes it.    *)
(*                                                                          *)
(* Time is abstracted: the circuit cools down, observations lose their      *)
(* validity and deadlines pass in steps of their own, and whether the rate  *)
(* window is full is a choice.  A copy of an observation carries its own    *)
(* validity.                                                                *)
(***************************************************************************)
EXTENDS Integers, FiniteSets

CONSTANTS
    Callers,        \* coroutines that use the gateway
    Lookups,        \* [tenant, key, request, scope, event]; key may be None, event says
                    \* whether the context has a cancellation_event
    None,           \* no key, no entry, no lock, no call
    Threshold,      \* circuit_failure_threshold
    Permits,        \* max_concurrency_per_provider
    MaxRetries, MaxCache,
    MaxCalls,       \* bound on the calls made
    MaxFaults       \* bound on outages, cancellations and tasks killed

VARIABLES
    circuit,              \* _Circuit: failures, cool ("closed", "open", "ready"), half
    cache, idempotency,   \* shared entries
    locks,                \* _idempotency_locks: the lock object of each key
    held,                 \* the lock objects that are locked
    calls,                \* the call of each caller: at, lookup, lock, tries, late, cancelled
    adrift,               \* child tasks nobody awaits any more: the locks and the number of
                          \* permits they wait for
    stray,                \* the locks and the number of permits that nobody will release
    answered,             \* the result the last step returned, and its lookup
    made, up, faults      \* the calls so far, the provider, the faults so far

vars == <<circuit, cache, idempotency, locks, held, calls, adrift, stray, answered, made, up,
          faults>>

KeyOf(k) == <<k.tenant, k.key>>
Keys     == {KeyOf(k) : k \in {x \in Lookups : x.key # None}}

\* Errors: which are retried, and which count toward the circuit.
Retryable == {"unavailable", "timeout", "rate_limited", "circuit_open"}
Counted   == {"unavailable", "timeout", "authentication"}

\* Who may see what a lookup found.
Scope(k) == IF k.scope = "public" THEN "public" ELSE k.tenant
\* Mutant: private lookups share one scope.
CacheKeyShared(k) == <<"private", k.request>>
CacheKey(k) == <<Scope(k), k.request>>
CacheKeys == {CacheKey(k) : k \in {x \in Lookups : x.scope # "disabled"}}

Observation(k) == [scope |-> Scope(k), label |-> "fresh", valid |-> TRUE]

Init ==
    /\ circuit = [failures |-> 0, cool |-> "closed", half |-> FALSE]
    /\ cache = [k \in CacheKeys |-> None] /\ idempotency = [k \in Keys |-> None]
    /\ locks = [k \in Keys |-> None] /\ held = {}
    /\ calls = [c \in Callers |-> None] /\ answered = None
    /\ adrift = [locks |-> {}, permits |-> 0] /\ stray = [locks |-> {}, permits |-> 0]
    /\ made = 0 /\ up = TRUE /\ faults = 0

At(c, where) == calls[c] # None /\ calls[c].at \in where
Interrupted(c) == calls[c].late \/ calls[c].cancelled
Goto(c, where) == calls' = [calls EXCEPT ![c].at = where] /\ answered' = None

\* _execute, up to the idempotency lock: an existing lock object is reused, a new one is
\* named after the call that makes it.
Execute(c) ==
    /\ calls[c] = None /\ made < MaxCalls
    /\ \E k \in Lookups :
        LET l == CASE k.key = None -> None
                   [] k.key # None /\ locks[KeyOf(k)] # None -> locks[KeyOf(k)]
                   [] OTHER -> made + 1
        IN /\ locks' = IF k.key = None THEN locks ELSE [locks EXCEPT ![KeyOf(k)] = l]
           /\ calls' = [calls EXCEPT ![c] =
                [at |-> IF l = None THEN "enter" ELSE "lock", lookup |-> k, lock |-> l,
                 tries |-> 0, late |-> FALSE, cancelled |-> FALSE]]
    /\ answered' = None /\ made' = made + 1
    /\ UNCHANGED <<circuit, cache, idempotency, held, adrift, stray, up, faults>>

\* _acquire: the child task takes the lock ...
AcquireLock(c) ==
    /\ At(c, {"lock"}) /\ calls[c].lock \notin held
    /\ held' = held \cup {calls[c].lock}
    /\ Goto(c, "locked")
    /\ UNCHANGED <<circuit, cache, idempotency, locks, adrift, stray, made, up, faults>>

\* ... and the call goes on, also when its event was set meanwhile.
ResumeLocked(c) ==
    /\ At(c, {"locked"}) /\ Goto(c, "enter")
    /\ UNCHANGED <<circuit, cache, idempotency, locks, held, adrift, stray, made, up, faults>>

\* What nobody will release: _acquire is left by an exception before the try is entered.
StrayLock(c) == stray' = [stray EXCEPT !.locks = @ \cup {calls[c].lock}]
StrayPermit  == stray' = [stray EXCEPT !.permits = @ + 1]
Leaves(c)    == calls' = [calls EXCEPT ![c] = None] /\ answered' = None

\* The wait ends: the child task is cancelled and has taken nothing; or it has, and wait_for
\* lets the timeout win over the result.  asyncio.wait, used with an event, does not.
LockExpires(c) ==
    /\ \/ At(c, {"lock"}) /\ Interrupted(c) /\ UNCHANGED stray
       \/ At(c, {"locked"}) /\ calls[c].late /\ ~calls[c].lookup.event /\ StrayLock(c)
    /\ Leaves(c)
    /\ UNCHANGED <<circuit, cache, idempotency, locks, held, adrift, made, up, faults>>

\* The end of a call; the finally clause of _execute releases its lock.
Leave(c) == calls' = [calls EXCEPT ![c] = None] /\ held' = held \ {calls[c].lock}
Return(c, result) == Leave(c) /\ answered' = [lookup |-> calls[c].lookup, result |-> result]
\* Mutant: only a call that returns releases its lock.
RaiseHolding(c) == calls' = [calls EXCEPT ![c] = None] /\ answered' = None /\ UNCHANGED held
Raise(c) == Leave(c) /\ answered' = None

\* _store_idempotency_locked
Store(k, result) ==
    idempotency' = IF k.key = None THEN idempotency
                   ELSE [idempotency EXCEPT ![KeyOf(k)] = [request |-> k.request, result |-> result]]

\* Mutant: the stored result is replayed with the label it was stored with.
CurrentAsStored(result) == result
\* _with_current_freshness
Current(result) == IF result.valid THEN result ELSE [result EXCEPT !.label = "stale"]

Cached(k) == IF k.scope = "disabled" THEN None ELSE cache[CacheKey(k)]
IsFresh(entry) == entry # None /\ entry.label = "fresh"

\* _execute_locked, up to the attempts; _prune_state drops idle locks without a result.
Enter(c) ==
    LET k     == calls[c].lookup
        prior == IF k.key = None THEN None ELSE idempotency[KeyOf(k)]
        hit   == Cached(k)
    IN
    /\ At(c, {"enter"})
    /\ locks' = IF calls[c].cancelled THEN locks
                ELSE [x \in Keys |-> IF idempotency[x] # None \/ locks[x] \in held
                                       THEN locks[x] ELSE None]
    /\ \/ calls[c].cancelled /\ Raise(c) /\ UNCHANGED idempotency
       \/ /\ ~calls[c].cancelled /\ prior # None
          /\ \/ prior.request # k.request /\ Raise(c)
             \/ prior.request = k.request /\ Return(c, Current(prior.result))
          /\ UNCHANGED idempotency
       \/ ~calls[c].cancelled /\ prior = None /\ IsFresh(hit) /\ Return(c, hit) /\ Store(k, hit)
       \/ /\ ~calls[c].cancelled /\ prior = None /\ ~IsFresh(hit)
          /\ Goto(c, "attempt") /\ UNCHANGED <<held, idempotency>>
    /\ UNCHANGED <<circuit, cache, adrift, stray, made, up, faults>>

-----------------------------------------------------------------------------
(* An attempt *)

\* _record_failure; any failing call gives the probe back, its own or another's.
RecordFailure(e) ==
    LET n == IF circuit.failures < Threshold THEN circuit.failures + 1 ELSE Threshold
        probing == circuit.half /\ circuit.cool = "closed"
    IN circuit' = CASE e \notin Counted -> [circuit EXCEPT !.half = probing]
                    [] e \in Counted /\ n < Threshold ->
                         [circuit EXCEPT !.failures = n, !.half = probing]
                    [] OTHER -> [failures |-> n, cool |-> "open", half |-> FALSE]

\* After an error: another attempt, the fallback, or the error itself.
Fail(c, e) ==
    /\ RecordFailure(e)
    /\ \/ e \in Retryable /\ calls[c].tries < MaxRetries /\ UNCHANGED held /\ answered' = None
          /\ calls' = [calls EXCEPT ![c].at = "delay", ![c].tries = @ + 1]
       \/ e \in Retryable /\ calls[c].tries = MaxRetries /\ UNCHANGED held /\ Goto(c, "fallback")
       \/ e \notin Retryable /\ Raise(c)

\* _before_call and the checks before it.
Attempt(c) ==
    LET open == circuit.cool = "open" \/ (circuit.cool = "ready" /\ circuit.half) IN
    /\ At(c, {"attempt"})
    /\ \/ Interrupted(c) /\ Raise(c) /\ UNCHANGED circuit
       \/ ~Interrupted(c) /\ open /\ Fail(c, "circuit_open")
       \/ ~Interrupted(c) /\ ~open /\ Fail(c, "rate_limited")
       \/ /\ ~Interrupted(c) /\ ~open
          /\ circuit' = [circuit EXCEPT !.half = @ \/ circuit.cool = "ready"]
          /\ Goto(c, "permit") /\ UNCHANGED held
    /\ UNCHANGED <<cache, idempotency, locks, adrift, stray, made, up, faults>>

\* _invoke: the bulkhead.  Its permit is given back by the finally around the provider.
InUse == Cardinality({d \in Callers : At(d, {"granted", "call"})}) + stray.permits
AcquirePermit(c) ==
    /\ At(c, {"permit"}) /\ InUse < Permits
    /\ Goto(c, "granted")
    /\ UNCHANGED <<circuit, cache, idempotency, locks, held, adrift, stray, made, up, faults>>
ResumePermitted(c) ==
    /\ At(c, {"granted"}) /\ Goto(c, "call")
    /\ UNCHANGED <<circuit, cache, idempotency, locks, held, adrift, stray, made, up, faults>>

\* _remember_success: a full cache first drops an entry, the oldest in the code.
Remember(k, result) ==
    LET filled == {x \in CacheKeys : cache[x] # None} IN
    /\ Store(k, result)
    /\ \/ k.scope = "disabled" /\ UNCHANGED cache
       \/ /\ k.scope # "disabled" /\ Cardinality(filled) < MaxCache
          /\ cache' = [cache EXCEPT ![CacheKey(k)] = result]
       \/ /\ k.scope # "disabled" /\ Cardinality(filled) >= MaxCache
          /\ \E old \in filled :
                cache' = [cache EXCEPT ![old] = None, ![CacheKey(k)] = result]

\* The provider answers: _record_success and _remember_success.
Succeed(c) ==
    LET k == calls[c].lookup IN
    /\ At(c, {"call"}) /\ up
    /\ circuit' = [failures |-> 0, cool |-> "closed", half |-> FALSE]
    /\ Remember(k, Observation(k))
    /\ Return(c, Observation(k))
    /\ UNCHANGED <<locks, adrift, stray, made, up, faults>>

\* Mutant: the provider is awaited without the call's deadline.
CallFailsUntimed(c) ==
    /\ At(c, {"call"}) /\ ~up /\ Fail(c, "unavailable")
    /\ UNCHANGED <<cache, idempotency, locks, adrift, stray, made, up, faults>>
\* The provider is down, refuses the key, or the deadline passes while waiting; wait_for may
\* lose a permit like a lock.
CallFails(c) ==
    /\ \/ /\ At(c, {"call"}) /\ ~up /\ UNCHANGED stray
          /\ \E e \in {"unavailable", "authentication"} : Fail(c, e)
       \/ At(c, {"permit", "call"}) /\ calls[c].late /\ Fail(c, "timeout") /\ UNCHANGED stray
       \/ /\ At(c, {"granted"}) /\ calls[c].late /\ ~calls[c].lookup.event
          /\ Fail(c, "timeout") /\ StrayPermit
    /\ UNCHANGED <<cache, idempotency, locks, adrift, made, up, faults>>

\* Mutant: the probe is not given back when the call ends neutrally.
ReleaseNothing == UNCHANGED circuit
\* _release_half_open, whoever's probe it was.
ReleaseHalfOpen == circuit' = [circuit EXCEPT !.half = FALSE]

\* The provider refuses the input, or the event is set.
EndNeutrally(c) ==
    /\ At(c, {"call"}) \/ (At(c, {"permit", "call"}) /\ calls[c].cancelled)
    /\ ReleaseHalfOpen /\ Raise(c)
    /\ UNCHANGED <<cache, idempotency, locks, adrift, stray, made, up, faults>>

\* _delay raises when the deadline passes or the caller cancels; no fallback then.
Delay(c) ==
    /\ At(c, {"delay"})
    /\ \/ Interrupted(c) /\ Raise(c)
       \/ ~Interrupted(c) /\ Goto(c, "attempt") /\ UNCHANGED held
    /\ UNCHANGED <<circuit, cache, idempotency, locks, adrift, stray, made, up, faults>>

\* The end of the loop: _get_stale_fallback, or the last error.
GiveUp(c) ==
    LET k == calls[c].lookup
        old == Cached(k)
        usable == old # None /\ old.label = "stale"
    IN
    /\ At(c, {"fallback"})
    /\ \/ usable /\ Return(c, old) /\ Store(k, old)
       \/ ~usable /\ Raise(c) /\ UNCHANGED idempotency
    /\ UNCHANGED <<circuit, cache, locks, adrift, stray, made, up, faults>>

-----------------------------------------------------------------------------
(* Time and the environment *)

\* circuit_open_seconds pass.
CoolDown ==
    /\ circuit.cool = "open" /\ circuit' = [circuit EXCEPT !.cool = "ready"]
    /\ answered' = None
    /\ UNCHANGED <<cache, idempotency, locks, held, calls, adrift, stray, made, up, faults>>

\* A cache entry outlives its freshness, and is handed out as stale from then on; then it
\* outlives its stale-if-error window.
CacheAges(x) ==
    /\ cache[x] # None
    /\ cache' = [cache EXCEPT ![x] = IF @.valid THEN [@ EXCEPT !.valid = FALSE, !.label = "stale"]
                                     ELSE None]
    /\ answered' = None
    /\ UNCHANGED <<circuit, idempotency, locks, held, calls, adrift, stray, made, up, faults>>

\* A stored result outlives its validity, then idempotency_ttl_seconds.
ResultAges(x) ==
    /\ idempotency[x] # None
    /\ idempotency' = [idempotency EXCEPT ![x] =
            IF @.result.valid THEN [@ EXCEPT !.result.valid = FALSE] ELSE None]
    /\ answered' = None
    /\ UNCHANGED <<circuit, cache, locks, held, calls, adrift, stray, made, up, faults>>

DeadlinePasses(c) ==
    /\ calls[c] # None /\ ~calls[c].late
    /\ calls' = [calls EXCEPT ![c].late = TRUE] /\ answered' = None
    /\ UNCHANGED <<circuit, cache, idempotency, locks, held, adrift, stray, made, up, faults>>

\* The context's cancellation_event is set.
Cancel(c) ==
    /\ calls[c] # None /\ calls[c].lookup.event /\ ~calls[c].cancelled /\ faults < MaxFaults
    /\ calls' = [calls EXCEPT ![c].cancelled = TRUE] /\ answered' = None /\ faults' = faults + 1
    /\ UNCHANGED <<circuit, cache, idempotency, locks, held, adrift, stray, made, up>>

\* The caller's own task is cancelled where it is suspended: CancelledError.  A child task
\* that asyncio.wait was waiting for is not cancelled with it.
Kill(c) ==
    /\ faults < MaxFaults /\ faults' = faults + 1
    /\ \/ /\ At(c, {"lock"}) /\ Leaves(c) /\ UNCHANGED <<held, circuit, stray>>
          /\ adrift' = IF calls[c].lookup.event
                         THEN [adrift EXCEPT !.locks = @ \cup {calls[c].lock}] ELSE adrift
       \/ At(c, {"locked"}) /\ Leaves(c) /\ StrayLock(c) /\ UNCHANGED <<held, circuit, adrift>>
       \/ /\ At(c, {"permit"}) /\ ReleaseHalfOpen /\ Raise(c) /\ UNCHANGED stray
          /\ adrift' = IF calls[c].lookup.event
                         THEN [adrift EXCEPT !.permits = @ + 1] ELSE adrift
       \/ At(c, {"granted"}) /\ ReleaseHalfOpen /\ Raise(c) /\ StrayPermit /\ UNCHANGED adrift
       \/ At(c, {"call"}) /\ ReleaseHalfOpen /\ Raise(c) /\ UNCHANGED <<adrift, stray>>
       \/ At(c, {"delay"}) /\ Raise(c) /\ UNCHANGED <<circuit, adrift, stray>>
    /\ UNCHANGED <<cache, idempotency, locks, made, up>>

\* A child task that nobody awaits gets what it waited for.
AdriftAcquires ==
    /\ \/ \E l \in adrift.locks \ held :
            /\ held' = held \cup {l} /\ adrift' = [adrift EXCEPT !.locks = @ \ {l}]
            /\ stray' = [stray EXCEPT !.locks = @ \cup {l}]
       \/ /\ adrift.permits > 0 /\ InUse < Permits /\ StrayPermit
          /\ adrift' = [adrift EXCEPT !.permits = @ - 1] /\ UNCHANGED held
    /\ answered' = None
    /\ UNCHANGED <<circuit, cache, idempotency, locks, calls, made, up, faults>>

Outage ==
    /\ up /\ faults < MaxFaults /\ up' = FALSE /\ faults' = faults + 1 /\ answered' = None
    /\ UNCHANGED <<circuit, cache, idempotency, locks, held, calls, adrift, stray, made>>

Recover ==
    /\ ~up /\ up' = TRUE /\ answered' = None
    /\ UNCHANGED <<circuit, cache, idempotency, locks, held, calls, adrift, stray, made, faults>>

Step(c) == \/ AcquireLock(c) \/ ResumeLocked(c) \/ LockExpires(c) \/ Enter(c) \/ Attempt(c)
           \/ AcquirePermit(c) \/ ResumePermitted(c) \/ CallFails(c) \/ Delay(c) \/ GiveUp(c)

Next ==
    \/ \E c \in Callers : \/ Execute(c) \/ Step(c) \/ Succeed(c) \/ EndNeutrally(c)
                          \/ DeadlinePasses(c) \/ Cancel(c) \/ Kill(c)
    \/ \E x \in CacheKeys : CacheAges(x)
    \/ \E x \in Keys : ResultAges(x)
    \/ AdriftAcquires \/ CoolDown \/ Outage \/ Recover

Spec == Init /\ [][Next]_vars

\* The event loop runs what is ready and timers fire; the provider may never answer.
Fairness == \A c \in Callers : WF_vars(Step(c) \/ DeadlinePasses(c))

-----------------------------------------------------------------------------
(* Properties *)

\* What a call returns as fresh is still valid when it returns it: neither a replay nor the
\* stale-if-error fallback (_with_current_freshness, _get_stale_fallback) passes an expired
\* observation off as fresh, whatever expired between the fetch, the store and the replay.
FreshIsValid == answered # None /\ answered.result.label = "fresh" => answered.result.valid

\* A lookup made for one tenant is never shown to another: cache, fallback and replay keys
\* all carry the tenant (_cache_key, operation_key).
PrivateStaysPrivate ==
    answered # None => answered.result.scope \in {"public", answered.lookup.tenant}

\* The half-open probe flag is up only while some admitted call is on its way, so it is given
\* back on every path: success, failure, refusal, timeout and cancellation.  A flag left
\* behind would reject the next call although nobody probes.
ProbeIsGivenBack == circuit.half => \E c \in Callers : At(c, {"permit", "granted", "call"})

\* The calls that have their lock.
Holds(c) == calls[c] # None /\ calls[c].at # "lock" /\ calls[c].lock # None

\* A locked idempotency lock belongs to a call that is being executed: no answer and no error
\* of the lookup itself leaves it locked, which would make every later call with that key time
\* out, since _prune_state keeps a locked lock for ever.  What remains are the strays, locks
\* whose acquisition was interrupted between the child task and its caller, or abandoned.
LocksAreReleased ==
    \A l \in held : l \in stray.locks \/ \E c \in Callers : Holds(c) /\ calls[c].lock = l

\* Every call returns or raises, even when the provider never answers and the lock or the
\* bulkhead is always taken: each wait is bounded by the call's deadline.
CallsEnd == \A c \in Callers : []<>(calls[c] = None)

\* The gateway's promises together: an answer is what it is said to be and for whom it is
\* meant, no path keeps the probe, and only an interrupted acquisition keeps a lock.
GatewayIsSafe == FreshIsValid /\ PrivateStaysPrivate /\ ProbeIsGivenBack /\ LocksAreReleased

-----------------------------------------------------------------------------
(* The inductive invariant: what the safety properties rest on. *)

Places       == {"lock", "locked", "enter", "attempt", "permit", "granted", "call", "delay",
                 "fallback"}
Observations == [scope : {Scope(k) : k \in Lookups}, label : {"fresh", "stale"}, valid : BOOLEAN]
Stored       == [request : {k.request : k \in Lookups}, result : Observations]
Calls        == [at : Places, lookup : Lookups, lock : Nat \cup {None}, tries : 0 .. MaxRetries,
                 late : BOOLEAN, cancelled : BOOLEAN]
Answers      == [lookup : Lookups, result : Observations]

\* None is none of the values it stands in for.
GatewayAssumption ==
    /\ Threshold \in Nat /\ MaxRetries \in Nat
    /\ None \notin Nat \cup Observations \cup Stored \cup Calls \cup Answers

TypeOK ==
    /\ circuit \in [failures : Nat, cool : {"closed", "open", "ready"}, half : BOOLEAN]
    /\ cache \in [CacheKeys -> Observations \cup {None}]
    /\ idempotency \in [Keys -> Stored \cup {None}]
    /\ locks \in [Keys -> Nat \cup {None}] /\ held \subseteq Nat
    /\ adrift \in [locks : SUBSET Nat, permits : Nat]
    /\ stray \in [locks : SUBSET Nat, permits : Nat]
    /\ calls \in [Callers -> Calls \cup {None}] /\ answered \in Answers \cup {None}
    /\ made \in Nat /\ up \in BOOLEAN /\ faults \in Nat

\* A call past its wait has its lock, and nobody else does, not even a task that nobody awaits.
LockInv ==
    /\ \A c \in Callers : At(c, {"lock", "locked"}) => calls[c].lock # None
    /\ \A c \in Callers : Holds(c) => calls[c].lock \in held
    /\ \A c, d \in Callers : Holds(c) /\ Holds(d) /\ calls[c].lock = calls[d].lock => c = d
    /\ stray.locks \subseteq held /\ \A c \in Callers : Holds(c) => calls[c].lock \notin stray.locks

\* A probe is let through only by a circuit that has cooled down, and every change of the
\* circuit's phase takes the flag back, so every failure finds a flag it may clear.
ProbeInv == circuit.half => circuit.cool = "ready"

\* An entry was made for those who find it, and is labelled fresh only while it is valid.
EntryInv ==
    /\ \A x \in CacheKeys : cache[x] # None =>
        cache[x].scope = x[1] /\ (cache[x].label = "fresh" => cache[x].valid)
    /\ \A x \in Keys : idempotency[x] # None =>
        idempotency[x].result.scope \in {"public", x[1]}

IndInv == TypeOK /\ LockInv /\ ProbeInv /\ EntryInv /\ GatewayIsSafe
=============================================================================
