----------------------- MODULE ProviderGatewayProofs ------------------------
(****************************************************************************)
(* Proofs about the provider gateway (ProviderGateway), for any callers and  *)
(* lookups, any threshold, bulkhead, cache size and number of calls, retries *)
(* and faults.                                                               *)
(****************************************************************************)
EXTENDS Progress, TLAPS

-----------------------------------------------------------------------------
(* Lemmas *)

\* Keys and scopes of a lookup are among the keys and scopes there are.
LEMMA EntryTypes ==
    ASSUME NEW k \in Lookups
    PROVE  /\ k.key # None => Gateway!KeyOf(k) \in Gateway!Keys
           /\ k.scope # "disabled" => Gateway!CacheKey(k) \in Gateway!CacheKeys
           /\ Gateway!Observation(k) \in Gateway!Observations
           /\ k.request \in {x.request : x \in Lookups}
BY DEF Gateway!Keys, Gateway!CacheKeys, Gateway!Observation, Gateway!Observations

\* What a step may do to a call that is past Execute: it moves on with its lock, waiting for
\* it or past that wait as before.
Moves(c) ==
    /\ calls[c] # None /\ held' = held /\ stray'.locks = stray.locks
    /\ \E m \in Gateway!Calls : /\ m.lock = calls[c].lock /\ (m.at = "lock" <=> calls[c].at = "lock")
                                /\ m.at = "locked" => calls[c].at = "locked"
                                /\ calls' = [calls EXCEPT ![c] = m]

\* The call ends, from a place where it holds what it locked.
Ends(c) == /\ calls[c] # None /\ calls[c].at # "lock" /\ Gateway!Leave(c)
           /\ stray'.locks = stray.locks

\* It ends while it waits for its lock, or leaves it behind.
Drops(c) == /\ calls[c] # None /\ calls[c].at = "lock" /\ calls' = [calls EXCEPT ![c] = None]
            /\ held' = held /\ stray'.locks = stray.locks
Strays(c) == /\ calls[c] # None /\ calls[c].at = "locked" /\ calls' = [calls EXCEPT ![c] = None]
             /\ held' = held /\ stray'.locks = stray.locks \cup {calls[c].lock}
\* A task that nobody awaits takes a lock.
Takes(l) == /\ l \notin held /\ held' = held \cup {l} /\ stray'.locks = stray.locks \cup {l}
            /\ calls' = calls

\* A failed attempt: the circuit ends without a probe, and the call ends or moves to where
\* no permit is held.
LEMMA Failing ==
    ASSUME Gateway!GatewayAssumption, Gateway!IndInv, NEW c \in Callers, NEW e,
           Gateway!At(c, {"attempt", "permit", "granted", "call"}), Gateway!Fail(c, e),
           stray'.locks = stray.locks
    PROVE  /\ circuit' \in [failures : Nat, cool : {"closed", "open", "ready"}, half : BOOLEAN]
           /\ ~circuit'.half /\ answered' = None
           /\ Ends(c) \/ Moves(c)
<1>1. /\ circuit \in [failures : Nat, cool : {"closed", "open", "ready"}, half : BOOLEAN]
      /\ Threshold \in Nat /\ (circuit.half => circuit.cool = "ready")
  BY DEF Gateway!IndInv, Gateway!TypeOK, Gateway!ProbeInv, Gateway!GatewayAssumption
<1>2. /\ circuit' \in [failures : Nat, cool : {"closed", "open", "ready"}, half : BOOLEAN]
      /\ ~circuit'.half
  <2> DEFINE n == IF circuit.failures < Threshold THEN circuit.failures + 1 ELSE Threshold
             probing == circuit.half /\ circuit.cool = "closed"
  <2>1. n \in Nat BY <1>1
  <2>2. probing = FALSE BY <1>1
  <2> HIDE DEF n, probing
  <2>3. \/ circuit' = [circuit EXCEPT !.half = probing]
        \/ circuit' = [circuit EXCEPT !.failures = n, !.half = probing]
        \/ circuit' = [failures |-> n, cool |-> "open", half |-> FALSE]
    BY DEF Gateway!Fail, Gateway!RecordFailure, n, probing
  <2>4. CASE circuit' = [circuit EXCEPT !.half = FALSE] BY <1>1, <2>4
  <2>5. CASE circuit' = [circuit EXCEPT !.failures = n, !.half = FALSE] BY <1>1, <2>1, <2>5
  <2>6. CASE circuit' = [failures |-> n, cool |-> "open", half |-> FALSE] BY <2>1, <2>6
  <2> QED BY <2>2, <2>3, <2>4, <2>5, <2>6
<1>3. calls[c] # None /\ calls[c] \in Gateway!Calls /\ calls[c].at # "lock"
  BY DEF Gateway!At, Gateway!IndInv, Gateway!TypeOK
<1>4. CASE Gateway!Raise(c) BY <1>2, <1>3, <1>4 DEF Gateway!Raise, Ends
<1>5. CASE /\ calls[c].tries < MaxRetries /\ UNCHANGED held /\ answered' = None
           /\ calls' = [calls EXCEPT ![c].at = "delay", ![c].tries = @ + 1]
  <2> DEFINE m == [calls[c] EXCEPT !.at = "delay", !.tries = @ + 1]
  <2>1. calls[c].tries + 1 \in 0 .. MaxRetries
    BY <1>3, <1>5 DEF Gateway!Calls, Gateway!GatewayAssumption
  <2>2. m \in Gateway!Calls /\ m.lock = calls[c].lock /\ m.at \notin {"lock", "locked"}
    BY <1>3, <2>1 DEF Gateway!Calls, Gateway!Places
  <2>3. calls' = [calls EXCEPT ![c] = m] BY <1>5
  <2> QED BY <1>2, <1>3, <1>5, <2>2, <2>3 DEF Moves
<1>6. CASE UNCHANGED held /\ Gateway!Goto(c, "fallback")
  <2> DEFINE m == [calls[c] EXCEPT !.at = "fallback"]
  <2>1. m \in Gateway!Calls /\ m.lock = calls[c].lock /\ m.at \notin {"lock", "locked"}
    BY <1>3 DEF Gateway!Calls, Gateway!Places
  <2>2. calls' = [calls EXCEPT ![c] = m] BY <1>6 DEF Gateway!Goto
  <2> QED BY <1>2, <1>3, <1>6, <2>1, <2>2 DEF Moves, Gateway!Goto
<1> QED BY <1>4, <1>5, <1>6 DEF Gateway!Fail

\* A call that goes elsewhere is still a call.
LEMMA Elsewhere ==
    ASSUME NEW call \in Gateway!Calls, NEW where \in Gateway!Places
    PROVE  [call EXCEPT !.at = where] \in Gateway!Calls /\ [call EXCEPT !.at = where].at = where
BY DEF Gateway!Calls

\* Going elsewhere is a move.
LEMMA Going ==
    ASSUME Gateway!TypeOK, NEW c \in Callers, NEW where \in Gateway!Places \ {"lock", "locked"},
           calls[c] # None, calls[c].at # "lock", Gateway!Goto(c, where), held' = held,
           stray'.locks = stray.locks
    PROVE  Moves(c)
<1> DEFINE m == [calls[c] EXCEPT !.at = where]
<1>1. m \in Gateway!Calls /\ m.lock = calls[c].lock /\ m.at \notin {"lock", "locked"}
  BY DEF Gateway!TypeOK, Gateway!Calls
<1>2. calls' = [calls EXCEPT ![c] = m] BY DEF Gateway!Goto
<1> QED BY <1>1, <1>2 DEF Moves

-----------------------------------------------------------------------------
(* What a step does to the calls and their locks *)

\* Every step of a call is its start, the end of its wait for the lock, a move or its end; a
\* step of nobody's may take a lock.
LEMMA CallSteps ==
    ASSUME Gateway!GatewayAssumption, Gateway!IndInv, [Gateway!Next]_(Gateway!vars)
    PROVE  \/ \E c \in Callers : \/ Gateway!Execute(c) \/ Gateway!AcquireLock(c) \/ Drops(c) \/ Strays(c)
                                 \/ Ends(c) \/ Moves(c)
           \/ \E l \in Nat : Takes(l)
           \/ UNCHANGED <<calls, held>> /\ stray'.locks = stray.locks
<1> DEFINE Goal ==
           \/ \E c \in Callers : \/ Gateway!Execute(c) \/ Gateway!AcquireLock(c) \/ Drops(c) \/ Strays(c)
                                 \/ Ends(c) \/ Moves(c)
           \/ \E l \in Nat : Takes(l)
           \/ UNCHANGED <<calls, held>> /\ stray'.locks = stray.locks
<1>0. Gateway!TypeOK BY DEF Gateway!IndInv
<1>s. ASSUME stray' = stray PROVE stray'.locks = stray.locks BY <1>s
<1>p. ASSUME Gateway!StrayPermit PROVE stray'.locks = stray.locks
  BY <1>0, <1>p DEF Gateway!StrayPermit, Gateway!TypeOK
<1>1. ASSUME NEW c \in Callers, Gateway!Enter(c) PROVE Goal
  <2>1. calls[c] # None /\ calls[c].at = "enter" /\ stray'.locks = stray.locks
    BY <1>1 DEF Gateway!Enter, Gateway!At
  <2>2. CASE Gateway!Leave(c) BY <2>1, <2>2 DEF Ends
  <2>3. CASE Gateway!Goto(c, "attempt") /\ UNCHANGED held
    BY <1>0, <2>1, <2>3, Going DEF Gateway!Places
  <2> QED BY <1>1, <2>2, <2>3 DEF Gateway!Enter, Gateway!Raise, Gateway!Return
<1>2. ASSUME NEW c \in Callers, Gateway!Attempt(c) PROVE Goal
  <2>1. calls[c] # None /\ calls[c].at = "attempt" /\ stray'.locks = stray.locks
    BY <1>2 DEF Gateway!Attempt, Gateway!At
  <2>2. CASE Gateway!Raise(c) BY <2>1, <2>2 DEF Ends, Gateway!Raise
  <2>3. ASSUME NEW e, Gateway!Fail(c, e) PROVE Goal
    BY <1>2, <2>1, <2>3, Failing DEF Gateway!At, Gateway!Attempt
  <2>4. CASE Gateway!Goto(c, "permit") /\ UNCHANGED held
    BY <1>0, <2>1, <2>4, Going DEF Gateway!Places
  <2> QED BY <1>2, <2>2, <2>3, <2>4 DEF Gateway!Attempt
<1>3. ASSUME NEW c \in Callers, Gateway!AcquirePermit(c) \/ Gateway!ResumePermitted(c) \/ Gateway!ResumeLocked(c) PROVE Goal
  BY <1>0, <1>3, Going DEF Gateway!AcquirePermit, Gateway!ResumePermitted, Gateway!ResumeLocked, Gateway!At, Gateway!Places
<1>4. ASSUME NEW c \in Callers, Gateway!CallFails(c) PROVE Goal
  <2>1. PICK e : Gateway!Fail(c, e) BY <1>4 DEF Gateway!CallFails
  <2>2. Gateway!At(c, {"attempt", "permit", "granted", "call"})
    BY <1>4 DEF Gateway!CallFails, Gateway!At
  <2>3. stray'.locks = stray.locks BY <1>4, <1>p DEF Gateway!CallFails
  <2> QED BY <2>1, <2>2, <2>3, Failing
<1>4a. ASSUME NEW c \in Callers, Gateway!LockExpires(c) PROVE Goal
  <2>1. held' = held /\ calls' = [calls EXCEPT ![c] = None]
    BY <1>4a DEF Gateway!LockExpires, Gateway!Leaves
  <2>2. CASE Gateway!At(c, {"lock"}) /\ UNCHANGED stray BY <2>1, <2>2 DEF Drops, Gateway!At
  <2>3. CASE Gateway!At(c, {"locked"}) /\ Gateway!StrayLock(c)
    BY <1>0, <2>1, <2>3 DEF Strays, Gateway!At, Gateway!StrayLock, Gateway!TypeOK
  <2> QED BY <1>4a, <2>2, <2>3 DEF Gateway!LockExpires
<1>4b. ASSUME NEW c \in Callers, Gateway!Kill(c) PROVE Goal
  <2>1. CASE Gateway!At(c, {"lock"}) /\ Gateway!Leaves(c) /\ UNCHANGED <<held, stray>>
    BY <2>1 DEF Drops, Gateway!At, Gateway!Leaves
  <2>2. CASE Gateway!At(c, {"locked"}) /\ Gateway!Leaves(c) /\ Gateway!StrayLock(c) /\ UNCHANGED held
    BY <1>0, <2>2 DEF Strays, Gateway!At, Gateway!Leaves, Gateway!StrayLock, Gateway!TypeOK
  <2>3. CASE /\ Gateway!At(c, {"permit", "granted", "call", "delay"}) /\ Gateway!Raise(c)
             /\ UNCHANGED stray \/ Gateway!StrayPermit
    <3>1. stray'.locks = stray.locks BY <2>3, <1>p
    <3> QED BY <2>3, <3>1 DEF Ends, Gateway!At, Gateway!Raise
  <2> QED BY <1>4b, <2>1, <2>2, <2>3 DEF Gateway!Kill, Gateway!At
<1>4c. ASSUME Gateway!AdriftAcquires PROVE Goal
  <2>1. ASSUME NEW l \in adrift.locks \ held, held' = held \cup {l}, calls' = calls,
               stray' = [stray EXCEPT !.locks = @ \cup {l}]
        PROVE  Goal
    <3>1. l \in Nat /\ stray'.locks = stray.locks \cup {l} BY <1>0, <2>1 DEF Gateway!TypeOK
    <3>2. Takes(l) BY <2>1, <3>1 DEF Takes
    <3> QED BY <3>1, <3>2
  <2>2. CASE Gateway!StrayPermit /\ UNCHANGED <<calls, held>> BY <1>p, <2>2
  <2> QED BY <1>4c, <2>1, <2>2 DEF Gateway!AdriftAcquires
<1>5. ASSUME NEW c \in Callers, Gateway!Delay(c) PROVE Goal
  <2>1. calls[c] # None /\ calls[c].at = "delay" /\ stray'.locks = stray.locks
    BY <1>5 DEF Gateway!Delay, Gateway!At
  <2>2. CASE Gateway!Raise(c) BY <2>1, <2>2 DEF Ends, Gateway!Raise
  <2>3. CASE Gateway!Goto(c, "attempt") /\ UNCHANGED held
    BY <1>0, <2>1, <2>3, Going DEF Gateway!Places
  <2> QED BY <1>5, <2>2, <2>3 DEF Gateway!Delay
<1>6. ASSUME NEW c \in Callers, Gateway!GiveUp(c) PROVE Goal
  BY <1>6 DEF Gateway!GiveUp, Gateway!At, Gateway!Return, Gateway!Raise, Ends
<1>7. ASSUME NEW c \in Callers, Gateway!Succeed(c) PROVE Goal
  BY <1>7 DEF Gateway!Succeed, Gateway!At, Gateway!Return, Ends
<1>8. ASSUME NEW c \in Callers, Gateway!EndNeutrally(c) PROVE Goal
  BY <1>8 DEF Gateway!EndNeutrally, Gateway!At, Gateway!Raise, Ends
<1>9. ASSUME NEW c \in Callers, Gateway!DeadlinePasses(c) PROVE Goal
  <2> DEFINE m == [calls[c] EXCEPT !.late = TRUE]
  <2>1. calls[c] \in Gateway!Calls BY <1>0, <1>9 DEF Gateway!DeadlinePasses, Gateway!TypeOK
  <2>2. m \in Gateway!Calls /\ m.lock = calls[c].lock /\ m.at = calls[c].at
    BY <2>1 DEF Gateway!Calls
  <2>3. calls' = [calls EXCEPT ![c] = m] BY <1>9 DEF Gateway!DeadlinePasses
  <2> QED BY <1>9, <2>2, <2>3 DEF Moves, Gateway!DeadlinePasses
<1>10. ASSUME NEW c \in Callers, Gateway!Cancel(c) PROVE Goal
  <2> DEFINE m == [calls[c] EXCEPT !.cancelled = TRUE]
  <2>1. calls[c] \in Gateway!Calls BY <1>0, <1>10 DEF Gateway!Cancel, Gateway!TypeOK
  <2>2. m \in Gateway!Calls /\ m.lock = calls[c].lock /\ m.at = calls[c].at
    BY <2>1 DEF Gateway!Calls
  <2>3. calls' = [calls EXCEPT ![c] = m] BY <1>10 DEF Gateway!Cancel
  <2> QED BY <1>10, <2>2, <2>3 DEF Moves, Gateway!Cancel
<1>11. CASE \/ \E x \in Gateway!CacheKeys : Gateway!CacheAges(x)
            \/ \E x \in Gateway!Keys : Gateway!ResultAges(x)
            \/ Gateway!CoolDown \/ Gateway!Outage \/ Gateway!Recover \/ UNCHANGED Gateway!vars
  BY <1>11 DEF Gateway!CacheAges, Gateway!ResultAges, Gateway!CoolDown, Gateway!Outage, Gateway!Recover, Gateway!vars
<1> QED
  BY <1>1, <1>2, <1>3, <1>4, <1>4a, <1>4b, <1>4c, <1>5, <1>6, <1>7, <1>8, <1>9, <1>10, <1>11 DEF Gateway!Next, Gateway!Step

\* A new call waits for the lock object of its key, or for none; it never takes an object
\* another key refers to.
LEMMA Starting ==
    ASSUME Gateway!GatewayAssumption, Gateway!IndInv, NEW c \in Callers, Gateway!Execute(c)
    PROVE  /\ calls[c] = None /\ held' = held /\ stray' = stray
           /\ locks' \in [Gateway!Keys -> Nat \cup {None}]
           /\ \E m \in Gateway!Calls : /\ calls' = [calls EXCEPT ![c] = m]
                                       /\ m.at = "lock" => m.lock # None
                                       /\ m.at # "lock" => m.at # "locked" /\ m.lock = None
<1> DEFINE fresh == made + 1
           l(k) == CASE k.key = None -> None
                     [] k.key # None /\ locks[Gateway!KeyOf(k)] # None -> locks[Gateway!KeyOf(k)]
                     [] OTHER -> fresh
           m(k) == [at |-> IF l(k) = None THEN "enter" ELSE "lock", lookup |-> k, lock |-> l(k),
                    tries |-> 0, late |-> FALSE, cancelled |-> FALSE]
<1>1. PICK k \in Lookups :
        /\ locks' = IF k.key = None THEN locks ELSE [locks EXCEPT ![Gateway!KeyOf(k)] = l(k)]
        /\ calls' = [calls EXCEPT ![c] = m(k)]
  BY DEF Gateway!Execute
<1>2. fresh \in Nat BY DEF Gateway!IndInv, Gateway!TypeOK
<1>3. locks \in [Gateway!Keys -> Nat \cup {None}] BY DEF Gateway!IndInv, Gateway!TypeOK
<1> HIDE DEF fresh
<1>4. l(k) \in Nat \cup {None} BY <1>1, <1>2, <1>3, EntryTypes
<1>5. locks' \in [Gateway!Keys -> Nat \cup {None}] BY <1>1, <1>3, <1>4, EntryTypes
<1> HIDE DEF l
<1>6. m(k) \in Gateway!Calls BY <1>4 DEF Gateway!Calls, Gateway!Places, Gateway!GatewayAssumption
<1>7. calls[c] = None /\ held' = held /\ stray' = stray BY DEF Gateway!Execute
<1> QED BY <1>1, <1>5, <1>6, <1>7

\* Calls and locks keep their types.
LEMMA CallTypes ==
    ASSUME Gateway!GatewayAssumption, Gateway!IndInv, [Gateway!Next]_(Gateway!vars)
    PROVE  held' \subseteq Nat /\ calls' \in [Callers -> Gateway!Calls \cup {None}]
<1> DEFINE Goal == held' \subseteq Nat /\ calls' \in [Callers -> Gateway!Calls \cup {None}]
<1>1. /\ calls \in [Callers -> Gateway!Calls \cup {None}] /\ held \subseteq Nat
      /\ \A c \in Callers : calls[c] # None /\ calls[c].at = "lock" => calls[c].lock # None
  BY DEF Gateway!IndInv, Gateway!TypeOK, Gateway!LockInv, Gateway!At
<1>2. ASSUME NEW c \in Callers, Gateway!Execute(c) PROVE Goal
  BY <1>1, <1>2, Starting
<1>3. ASSUME NEW c \in Callers, Gateway!AcquireLock(c) PROVE Goal
  <2> DEFINE m == [calls[c] EXCEPT !.at = "locked"]
  <2>1. calls[c] \in Gateway!Calls /\ calls[c].lock # None
    BY <1>1, <1>3 DEF Gateway!AcquireLock, Gateway!At
  <2>2. m \in Gateway!Calls /\ calls[c].lock \in Nat BY <2>1 DEF Gateway!Calls, Gateway!Places
  <2>3. calls' = [calls EXCEPT ![c] = m] BY <1>3 DEF Gateway!AcquireLock, Gateway!Goto
  <2> QED BY <1>1, <1>3, <2>2, <2>3 DEF Gateway!AcquireLock
<1>4. ASSUME NEW c \in Callers, Drops(c) \/ Strays(c) PROVE Goal
  BY <1>1, <1>4 DEF Drops, Strays
<1>5. ASSUME NEW c \in Callers, Ends(c) PROVE Goal
  BY <1>1, <1>5 DEF Ends, Gateway!Leave
<1>6. ASSUME NEW c \in Callers, Moves(c) PROVE Goal
  BY <1>1, <1>6 DEF Moves
<1>7. ASSUME NEW l \in Nat, Takes(l) PROVE Goal
  BY <1>1, <1>7 DEF Takes
<1> QED BY <1>1, <1>2, <1>3, <1>4, <1>5, <1>6, <1>7, CallSteps

\* A lock is held by one call, which releases it when it ends, or left behind for good.
LEMMA LocksKept ==
    ASSUME Gateway!GatewayAssumption, Gateway!IndInv, [Gateway!Next]_(Gateway!vars)
    PROVE  Gateway!LockInv' /\ Gateway!LocksAreReleased'
<1> USE DEF Gateway!LockInv, Gateway!LocksAreReleased, Gateway!Holds, Gateway!At
<1>1. /\ calls \in [Callers -> Gateway!Calls \cup {None}] /\ Gateway!LockInv /\ Gateway!LocksAreReleased
      /\ None \notin Gateway!Calls
  BY DEF Gateway!IndInv, Gateway!TypeOK, Gateway!GatewayIsSafe, Gateway!GatewayAssumption
<1>2. ASSUME NEW c \in Callers, Gateway!Execute(c) PROVE Gateway!LockInv' /\ Gateway!LocksAreReleased'
  <2>1. PICK m \in Gateway!Calls : /\ calls' = [calls EXCEPT ![c] = m]
                                   /\ m.at = "lock" => m.lock # None
                                   /\ m.at # "lock" => m.at # "locked" /\ m.lock = None
    BY <1>2, Starting
  <2>2. calls[c] = None /\ held' = held /\ stray' = stray BY <1>2, Starting
  <2> QED BY <1>1, <2>1, <2>2
<1>3. ASSUME NEW c \in Callers, Gateway!AcquireLock(c) PROVE Gateway!LockInv' /\ Gateway!LocksAreReleased'
  <2> DEFINE m == [calls[c] EXCEPT !.at = "locked"]
  <2>1. calls[c] \in Gateway!Calls /\ calls[c] # None /\ calls[c].at = "lock"
    BY <1>1, <1>3 DEF Gateway!AcquireLock
  <2>2. m.lock = calls[c].lock /\ m.at = "locked" /\ m \in Gateway!Calls
    BY <2>1 DEF Gateway!Calls, Gateway!Places
  <2>3. calls' = [calls EXCEPT ![c] = m] BY <1>3 DEF Gateway!AcquireLock, Gateway!Goto
  <2>4. held' = held \cup {calls[c].lock} /\ calls[c].lock \notin held /\ stray' = stray
    BY <1>3 DEF Gateway!AcquireLock
  <2> HIDE DEF m
  <2> QED BY <1>1, <2>1, <2>2, <2>3, <2>4
<1>4. ASSUME NEW c \in Callers, Drops(c) PROVE Gateway!LockInv' /\ Gateway!LocksAreReleased'
  BY <1>1, <1>4 DEF Drops
<1>5. ASSUME NEW c \in Callers, Strays(c) PROVE Gateway!LockInv' /\ Gateway!LocksAreReleased'
  <2>1. calls[c].lock \in held \/ calls[c].lock = None BY <1>1, <1>5 DEF Strays
  <2>2. calls[c].lock # None BY <1>1, <1>5 DEF Strays, Gateway!IndInv
  <2> QED BY <1>1, <1>5, <2>1, <2>2 DEF Strays
<1>6. ASSUME NEW c \in Callers, Ends(c) PROVE Gateway!LockInv' /\ Gateway!LocksAreReleased'
  <2>1. calls[c].lock \in stray.locks => calls[c].lock = None BY <1>1, <1>6 DEF Ends
  <2>2. None \notin stray.locks BY DEF Gateway!IndInv, Gateway!TypeOK, Gateway!GatewayAssumption
  <2> QED BY <1>1, <1>6, <2>1, <2>2 DEF Ends, Gateway!Leave
<1>7. ASSUME NEW c \in Callers, Moves(c) PROVE Gateway!LockInv' /\ Gateway!LocksAreReleased'
  BY <1>1, <1>7 DEF Moves
<1>8. ASSUME NEW l \in Nat, Takes(l) PROVE Gateway!LockInv' /\ Gateway!LocksAreReleased'
  BY <1>1, <1>8 DEF Takes
<1>9. CASE UNCHANGED <<calls, held>> /\ stray'.locks = stray.locks BY <1>1, <1>9
<1> QED BY <1>2, <1>3, <1>4, <1>5, <1>6, <1>7, <1>8, <1>9, CallSteps

-----------------------------------------------------------------------------
(* What a step does to the circuit *)

\* The circuit keeps its type, its phase decides about its probe, and the flag goes down with
\* every call that leaves the bulkhead.
LEMMA CircuitKept ==
    ASSUME Gateway!GatewayAssumption, Gateway!IndInv, [Gateway!Next]_(Gateway!vars)
    PROVE  /\ circuit' \in [failures : Nat, cool : {"closed", "open", "ready"}, half : BOOLEAN]
           /\ Gateway!ProbeInv' /\ Gateway!ProbeIsGivenBack'
<1> DEFINE Type == circuit' \in [failures : Nat, cool : {"closed", "open", "ready"}, half : BOOLEAN]
           Goal == Type /\ Gateway!ProbeInv' /\ Gateway!ProbeIsGivenBack'
           Admitted(c) == calls[c] # None /\ calls[c].at \in {"permit", "granted", "call"}
<1>1. /\ circuit \in [failures : Nat, cool : {"closed", "open", "ready"}, half : BOOLEAN]
      /\ circuit.half => circuit.cool = "ready" /\ \E d \in Callers : Admitted(d)
  BY DEF Gateway!IndInv, Gateway!TypeOK, Gateway!ProbeInv, Gateway!GatewayIsSafe, Gateway!ProbeIsGivenBack, Gateway!At
<1>2. calls \in [Callers -> Gateway!Calls \cup {None}] /\ None \notin Gateway!Calls
  BY DEF Gateway!IndInv, Gateway!TypeOK, Gateway!GatewayAssumption
<1>3. ASSUME Type, ~circuit'.half PROVE Goal
  BY <1>3 DEF Gateway!ProbeInv, Gateway!ProbeIsGivenBack
<1>4. ASSUME circuit' = circuit, \A d \in Callers : Admitted(d) => Admitted(d)' PROVE Goal
  BY <1>1, <1>4 DEF Gateway!ProbeInv, Gateway!ProbeIsGivenBack, Gateway!At
<1>5. ASSUME circuit' = circuit, NEW c \in Callers, ~Admitted(c),
             \A d \in Callers \ {c} : calls'[d] = calls[d]
      PROVE  Goal
  BY <1>1, <1>5 DEF Gateway!ProbeInv, Gateway!ProbeIsGivenBack, Gateway!At
<1>6. ASSUME NEW c \in Callers, Gateway!Execute(c) PROVE Goal
  BY <1>2, <1>5, <1>6 DEF Gateway!Execute
<1>7. ASSUME NEW c \in Callers, Gateway!AcquireLock(c) \/ Gateway!ResumeLocked(c) \/ Gateway!LockExpires(c) PROVE Goal
  BY <1>2, <1>5, <1>7 DEF Gateway!AcquireLock, Gateway!ResumeLocked, Gateway!LockExpires, Gateway!Leaves, Gateway!At, Gateway!Goto
<1>8. ASSUME NEW c \in Callers, Gateway!Enter(c) \/ Gateway!Delay(c) \/ Gateway!GiveUp(c) PROVE Goal
  BY <1>2, <1>5, <1>8 DEF Gateway!Enter, Gateway!Delay, Gateway!GiveUp, Gateway!At, Gateway!Return, Gateway!Raise, Gateway!Leave, Gateway!Goto
<1>9. ASSUME NEW c \in Callers, Gateway!Attempt(c) PROVE Goal
  <2>1. /\ ~Admitted(c) /\ Gateway!At(c, {"attempt", "permit", "granted", "call"})
        /\ stray'.locks = stray.locks
    BY <1>9 DEF Gateway!Attempt, Gateway!At
  <2>2. ASSUME NEW e, Gateway!Fail(c, e) PROVE Goal BY <1>3, <2>1, <2>2, Failing
  <2>3. CASE Gateway!Raise(c) /\ UNCHANGED circuit
    BY <1>2, <1>5, <2>1, <2>3 DEF Gateway!Raise, Gateway!Leave
  <2>4. CASE /\ ~(circuit.cool = "open" \/ (circuit.cool = "ready" /\ circuit.half))
             /\ circuit' = [circuit EXCEPT !.half = @ \/ circuit.cool = "ready"]
             /\ Gateway!Goto(c, "permit")
    <3>0. calls[c] \in Gateway!Calls BY <1>2, <2>1 DEF Gateway!At
    <3>1. Admitted(c)' BY <1>2, <2>4, <3>0, Elsewhere DEF Gateway!Goto, Gateway!Places
    <3>2. CASE circuit.cool = "ready"
      <4>1. circuit' = [circuit EXCEPT !.half = TRUE] BY <2>4, <3>2
      <4>2. Type /\ circuit'.cool = "ready" BY <1>1, <3>2, <4>1
      <4> QED BY <3>1, <4>2 DEF Gateway!ProbeInv, Gateway!ProbeIsGivenBack, Gateway!At
    <3>3. CASE circuit.cool # "ready"
      <4>1. ~circuit.half BY <1>1, <3>3
      <4>2. circuit' = [circuit EXCEPT !.half = FALSE] BY <1>1, <2>4, <3>3, <4>1
      <4> QED BY <1>1, <1>3, <4>2
    <3> QED BY <3>2, <3>3
  <2> QED BY <1>9, <2>2, <2>3, <2>4 DEF Gateway!Attempt
<1>10. ASSUME NEW c \in Callers, Gateway!AcquirePermit(c) \/ Gateway!ResumePermitted(c) PROVE Goal
  <2>1. calls[c] \in Gateway!Calls
    BY <1>2, <1>10 DEF Gateway!AcquirePermit, Gateway!ResumePermitted, Gateway!At
  <2>2. Admitted(c)'
    <3>1. ASSUME NEW where \in {"granted", "call"}, Gateway!Goto(c, where) PROVE Admitted(c)'
      <4>1. where \in Gateway!Places BY DEF Gateway!Places
      <4>2. calls'[c] = [calls[c] EXCEPT !.at = where] BY <1>2, <3>1 DEF Gateway!Goto
      <4>3. calls'[c] \in Gateway!Calls /\ calls'[c].at = where BY <2>1, <4>1, <4>2, Elsewhere
      <4> QED BY <1>2, <4>3
    <3> QED BY <1>10, <3>1 DEF Gateway!AcquirePermit, Gateway!ResumePermitted
  <2>3. \A d \in Callers : Admitted(d) => Admitted(d)'
    BY <1>2, <1>10, <2>2 DEF Gateway!AcquirePermit, Gateway!ResumePermitted, Gateway!Goto
  <2> QED BY <1>4, <1>10, <2>3 DEF Gateway!AcquirePermit, Gateway!ResumePermitted
<1>11. ASSUME NEW c \in Callers, Gateway!CallFails(c) PROVE Goal
  <2>1. PICK e : Gateway!Fail(c, e) BY <1>11 DEF Gateway!CallFails
  <2>2. Gateway!At(c, {"attempt", "permit", "granted", "call"})
    BY <1>11 DEF Gateway!CallFails, Gateway!At
  <2>3. stray'.locks = stray.locks
    BY <1>11 DEF Gateway!CallFails, Gateway!StrayPermit, Gateway!IndInv, Gateway!TypeOK
  <2> QED BY <1>3, <2>1, <2>2, <2>3, Failing
<1>11a. ASSUME NEW c \in Callers, Gateway!Kill(c) PROVE Goal
  <2>1. CASE Gateway!ReleaseHalfOpen
    <3>1. circuit' = [circuit EXCEPT !.half = FALSE] BY <2>1 DEF Gateway!ReleaseHalfOpen
    <3> QED BY <1>1, <1>3, <3>1
  <2>2. CASE /\ Gateway!At(c, {"lock", "locked", "delay"}) /\ UNCHANGED circuit
             /\ calls' = [calls EXCEPT ![c] = None]
    BY <1>2, <1>5, <2>2 DEF Gateway!At
  <2> QED
    BY <1>11a, <2>1, <2>2 DEF Gateway!Kill, Gateway!At, Gateway!Leaves, Gateway!Raise, Gateway!Leave
<1>12. ASSUME NEW c \in Callers, Gateway!Succeed(c) PROVE Goal
  <2>1. circuit' = [failures |-> 0, cool |-> "closed", half |-> FALSE] BY <1>12 DEF Gateway!Succeed
  <2> QED BY <1>3, <2>1
<1>13. ASSUME NEW c \in Callers, Gateway!EndNeutrally(c) PROVE Goal
  <2>1. circuit' = [circuit EXCEPT !.half = FALSE]
    BY <1>13 DEF Gateway!EndNeutrally, Gateway!ReleaseHalfOpen
  <2> QED BY <1>1, <1>3, <2>1
<1>14. ASSUME NEW c \in Callers, Gateway!DeadlinePasses(c) \/ Gateway!Cancel(c) PROVE Goal
  <2>1. calls[c] \in Gateway!Calls BY <1>2, <1>14 DEF Gateway!DeadlinePasses, Gateway!Cancel
  <2>2. /\ [calls[c] EXCEPT !.late = TRUE] \in Gateway!Calls
        /\ [calls[c] EXCEPT !.late = TRUE].at = calls[c].at
        /\ [calls[c] EXCEPT !.cancelled = TRUE] \in Gateway!Calls
        /\ [calls[c] EXCEPT !.cancelled = TRUE].at = calls[c].at
    BY <2>1 DEF Gateway!Calls
  <2>3. \/ calls'[c] = [calls[c] EXCEPT !.late = TRUE]
        \/ calls'[c] = [calls[c] EXCEPT !.cancelled = TRUE]
    BY <1>2, <1>14 DEF Gateway!DeadlinePasses, Gateway!Cancel
  <2>4. calls'[c] # None /\ calls'[c].at = calls[c].at
    BY <1>2, <2>2, <2>3
  <2>5. \A d \in Callers : Admitted(d) => Admitted(d)'
    BY <1>2, <1>14, <2>4 DEF Gateway!DeadlinePasses, Gateway!Cancel
  <2> QED BY <1>4, <1>14, <2>5 DEF Gateway!DeadlinePasses, Gateway!Cancel
<1>15. CASE Gateway!CoolDown
  <2>1. Type /\ ~circuit'.half BY <1>1, <1>15 DEF Gateway!CoolDown
  <2> QED BY <1>3, <2>1
<1>16. CASE \/ \E x \in Gateway!CacheKeys : Gateway!CacheAges(x)
            \/ \E x \in Gateway!Keys : Gateway!ResultAges(x)
            \/ Gateway!AdriftAcquires \/ Gateway!Outage \/ Gateway!Recover \/ UNCHANGED Gateway!vars
  BY <1>4, <1>16 DEF Gateway!CacheAges, Gateway!ResultAges, Gateway!AdriftAcquires, Gateway!Outage, Gateway!Recover, Gateway!vars
<1> QED BY <1>6, <1>7, <1>8, <1>9, <1>10, <1>11, <1>11a, <1>12, <1>13,
        <1>14, <1>15, <1>16
        DEF Gateway!Next, Gateway!Step

-----------------------------------------------------------------------------
(* What a step stores and answers *)

\* An entry that may be handed out to the tenant of a lookup.
Fits(k, o) == /\ o \in Gateway!Observations /\ o.scope \in {"public", k.tenant}
              /\ o.label = "fresh" => o.valid

\* What is fetched fits, and so does what the cache holds for a lookup; a stored result fits
\* once its freshness is brought up to date.
LEMMA Fitting ==
    ASSUME Gateway!GatewayAssumption, Gateway!IndInv, NEW k \in Lookups
    PROVE  /\ Fits(k, Gateway!Observation(k))
           /\ Gateway!Cached(k) # None => Fits(k, Gateway!Cached(k))
           /\ k.key # None /\ idempotency[Gateway!KeyOf(k)] # None =>
                Fits(k, Gateway!Current(idempotency[Gateway!KeyOf(k)].result))
<1>1. Fits(k, Gateway!Observation(k)) BY EntryTypes DEF Fits, Gateway!Observation, Gateway!Scope
<1>2. ASSUME Gateway!Cached(k) # None PROVE Fits(k, Gateway!Cached(k))
  <2>1. k.scope # "disabled" /\ Gateway!Cached(k) = cache[Gateway!CacheKey(k)]
    BY <1>2 DEF Gateway!Cached
  <2>2. Gateway!CacheKey(k) \in Gateway!CacheKeys /\ Gateway!CacheKey(k)[1] = Gateway!Scope(k)
    BY <2>1, EntryTypes DEF Gateway!CacheKey
  <2>3. cache[Gateway!CacheKey(k)] \in Gateway!Observations
    BY <1>2, <2>1, <2>2 DEF Gateway!IndInv, Gateway!TypeOK
  <2> QED BY <1>2, <2>1, <2>2, <2>3 DEF Gateway!IndInv, Gateway!EntryInv, Fits, Gateway!Scope
<1>3. ASSUME k.key # None, idempotency[Gateway!KeyOf(k)] # None
      PROVE  Fits(k, Gateway!Current(idempotency[Gateway!KeyOf(k)].result))
  <2> DEFINE r == idempotency[Gateway!KeyOf(k)].result
  <2>1. Gateway!KeyOf(k) \in Gateway!Keys /\ Gateway!KeyOf(k)[1] = k.tenant
    BY <1>3, EntryTypes DEF Gateway!KeyOf
  <2>2. r \in Gateway!Observations BY <1>3, <2>1 DEF Gateway!IndInv, Gateway!TypeOK, Gateway!Stored
  <2>3. r.scope \in {"public", k.tenant} BY <1>3, <2>1 DEF Gateway!IndInv, Gateway!EntryInv
  <2> SUFFICES Fits(k, Gateway!Current(r))
    OBVIOUS
  <2> HIDE DEF r
  <2>4. CASE r.valid
    <3>1. Gateway!Current(r) = r BY <2>4 DEF Gateway!Current
    <3>2. Fits(k, r) BY <2>2, <2>3, <2>4, Zenon DEF Fits
    <3> QED BY <3>1, <3>2, Zenon
  <2>5. CASE ~r.valid
    <3>1. Gateway!Current(r) = [r EXCEPT !.label = "stale"] BY <2>5 DEF Gateway!Current
    <3>2. Gateway!Current(r) \in Gateway!Observations /\ Gateway!Current(r).label = "stale" /\ Gateway!Current(r).scope = r.scope
      BY <2>2, <3>1 DEF Gateway!Observations
    <3>3. Gateway!Current(r).label # "fresh" BY <3>2
    <3> QED BY <2>3, <3>2, <3>3, Zenon DEF Fits
  <2> QED BY <2>4, <2>5
<1> QED BY <1>1, <1>2, <1>3

\* Storing what fits keeps the results apart.
LEMMA Storing ==
    ASSUME Gateway!GatewayAssumption, Gateway!IndInv, NEW k \in Lookups, NEW o, Fits(k, o), Gateway!Store(k, o)
    PROVE  /\ idempotency' \in [Gateway!Keys -> Gateway!Stored \cup {None}]
           /\ \A x \in Gateway!Keys : idempotency'[x] # None =>
                idempotency'[x].result.scope \in {"public", x[1]}
<1>1. /\ idempotency \in [Gateway!Keys -> Gateway!Stored \cup {None}]
      /\ \A x \in Gateway!Keys : idempotency[x] # None =>
            idempotency[x].result.scope \in {"public", x[1]}
  BY DEF Gateway!IndInv, Gateway!TypeOK, Gateway!EntryInv
<1>2. CASE k.key = None BY <1>1, <1>2 DEF Gateway!Store
<1>3. CASE k.key # None
  <2> DEFINE stored == [request |-> k.request, result |-> o]
  <2>1. Gateway!KeyOf(k) \in Gateway!Keys /\ Gateway!KeyOf(k)[1] = k.tenant
    BY <1>3, EntryTypes DEF Gateway!KeyOf
  <2>2. stored \in Gateway!Stored BY EntryTypes DEF Gateway!Stored, Fits
  <2>3. stored.result.scope \in {"public", k.tenant} BY DEF Fits
  <2>4. idempotency' = [idempotency EXCEPT ![Gateway!KeyOf(k)] = stored] BY <1>3 DEF Gateway!Store
  <2> HIDE DEF stored
  <2> QED BY <1>1, <2>1, <2>2, <2>3, <2>4
<1> QED BY <1>2, <1>3

\* What a step leaves in the cache and in the stored results, and what it answers: everything
\* fits whoever finds it.
Kept ==
    /\ cache' \in [Gateway!CacheKeys -> Gateway!Observations \cup {None}]
    /\ idempotency' \in [Gateway!Keys -> Gateway!Stored \cup {None}]
    /\ answered' \in Gateway!Answers \cup {None}
    /\ Gateway!EntryInv' /\ Gateway!FreshIsValid' /\ Gateway!PrivateStaysPrivate'

\* An answer that fits keeps the promises about answers.
LEMMA Answering ==
    ASSUME NEW c \in Callers, NEW o, calls[c].lookup \in Lookups, Fits(calls[c].lookup, o),
           Gateway!Return(c, o)
    PROVE  answered' \in Gateway!Answers \cup {None} /\ Gateway!FreshIsValid' /\ Gateway!PrivateStaysPrivate'
<1>1. answered' = [lookup |-> calls[c].lookup, result |-> o] BY DEF Gateway!Return
<1>2. answered' \in Gateway!Answers BY <1>1 DEF Fits, Gateway!Answers
<1>3. answered'.lookup = calls[c].lookup /\ answered'.result = o BY <1>1
<1> QED BY <1>2, <1>3 DEF Gateway!FreshIsValid, Gateway!PrivateStaysPrivate, Fits

\* No step stores or answers what does not fit.
LEMMA EntriesKept ==
    ASSUME Gateway!GatewayAssumption, Gateway!IndInv, [Gateway!Next]_(Gateway!vars)
    PROVE  Kept
<1>1. /\ cache \in [Gateway!CacheKeys -> Gateway!Observations \cup {None}]
      /\ idempotency \in [Gateway!Keys -> Gateway!Stored \cup {None}] /\ Gateway!EntryInv
  BY DEF Gateway!IndInv, Gateway!TypeOK
<1>2. ASSUME answered' = None, UNCHANGED <<cache, idempotency>> PROVE Kept
  BY <1>1, <1>2 DEF Kept, Gateway!EntryInv, Gateway!FreshIsValid, Gateway!PrivateStaysPrivate
<1>3. ASSUME NEW c \in Callers, calls[c] # None
      PROVE  calls[c].lookup \in Lookups
  BY <1>3 DEF Gateway!IndInv, Gateway!TypeOK, Gateway!Calls
<1>4. ASSUME NEW c \in Callers, calls[c] # None, NEW o, Fits(calls[c].lookup, o), Gateway!Return(c, o),
             UNCHANGED cache, Gateway!Store(calls[c].lookup, o) \/ UNCHANGED idempotency
      PROVE  Kept
  <2>1. answered' \in Gateway!Answers \cup {None} /\ Gateway!FreshIsValid' /\ Gateway!PrivateStaysPrivate'
    BY <1>3, <1>4, Answering
  <2>2. /\ idempotency' \in [Gateway!Keys -> Gateway!Stored \cup {None}]
        /\ \A x \in Gateway!Keys : idempotency'[x] # None =>
                idempotency'[x].result.scope \in {"public", x[1]}
    BY <1>1, <1>3, <1>4, Storing DEF Gateway!EntryInv
  <2> QED BY <1>1, <1>4, <2>1, <2>2 DEF Kept, Gateway!EntryInv
<1>5. ASSUME NEW c \in Callers, Gateway!Enter(c) PROVE Kept
  <2> DEFINE k     == calls[c].lookup
             prior == IF k.key = None THEN None ELSE idempotency[Gateway!KeyOf(k)]
  <2>1. calls[c] # None /\ UNCHANGED cache BY <1>5 DEF Gateway!Enter, Gateway!At
  <2>2. k \in Lookups BY <1>3, <2>1
  <2>3. CASE answered' = None /\ UNCHANGED idempotency BY <1>2, <2>1, <2>3
  <2>4. CASE /\ prior # None /\ Gateway!Return(c, Gateway!Current(prior.result)) /\ UNCHANGED idempotency
    <3>1. Fits(k, Gateway!Current(prior.result)) BY <2>2, <2>4, Fitting
    <3> QED BY <1>4, <2>1, <2>4, <3>1
  <2>5. CASE Gateway!IsFresh(Gateway!Cached(k)) /\ Gateway!Return(c, Gateway!Cached(k)) /\ Gateway!Store(k, Gateway!Cached(k))
    BY <1>4, <2>1, <2>2, <2>5, Fitting DEF Gateway!IsFresh
  <2> QED BY <1>5, <2>3, <2>4, <2>5 DEF Gateway!Enter, Gateway!Raise, Gateway!Goto
<1>6. ASSUME NEW c \in Callers, Gateway!Succeed(c) PROVE Kept
  <2> DEFINE k == calls[c].lookup
             o == Gateway!Observation(k)
  <2>1. calls[c] # None BY <1>6 DEF Gateway!Succeed, Gateway!At
  <2>2. k \in Lookups BY <1>3, <2>1
  <2> HIDE DEF k
  <2>3. Fits(k, o) /\ o.scope = Gateway!Scope(k) BY <2>2, Fitting DEF Gateway!Observation
  <2>4. answered' \in Gateway!Answers \cup {None} /\ Gateway!FreshIsValid' /\ Gateway!PrivateStaysPrivate'
    BY <1>6, <2>1, <2>2, <2>3, Answering DEF Gateway!Succeed, k
  <2>5. /\ idempotency' \in [Gateway!Keys -> Gateway!Stored \cup {None}]
        /\ \A x \in Gateway!Keys : idempotency'[x] # None =>
                idempotency'[x].result.scope \in {"public", x[1]}
    BY <1>6, <2>2, <2>3, Storing DEF Gateway!Succeed, Gateway!Remember, k
  <2> HIDE DEF o
  <2>6. /\ cache' \in [Gateway!CacheKeys -> Gateway!Observations \cup {None}]
        /\ \A x \in Gateway!CacheKeys : cache'[x] # None =>
                cache'[x].scope = x[1] /\ (cache'[x].label = "fresh" => cache'[x].valid)
    <3>1. CASE UNCHANGED cache BY <1>1, <3>1 DEF Gateway!EntryInv
    <3>2. CASE k.scope # "disabled" /\ cache' = [cache EXCEPT ![Gateway!CacheKey(k)] = o]
      <4>1. Gateway!CacheKey(k) \in Gateway!CacheKeys /\ Gateway!CacheKey(k)[1] = Gateway!Scope(k)
        BY <2>2, <3>2, EntryTypes DEF Gateway!CacheKey
      <4> QED BY <1>1, <2>3, <3>2, <4>1 DEF Gateway!EntryInv, Fits
    <3>3. ASSUME NEW old \in Gateway!CacheKeys, k.scope # "disabled",
                 cache' = [cache EXCEPT ![old] = None, ![Gateway!CacheKey(k)] = o]
          PROVE  /\ cache' \in [Gateway!CacheKeys -> Gateway!Observations \cup {None}]
                 /\ \A x \in Gateway!CacheKeys : cache'[x] # None =>
                        cache'[x].scope = x[1] /\ (cache'[x].label = "fresh" => cache'[x].valid)
      <4>1. Gateway!CacheKey(k) \in Gateway!CacheKeys /\ Gateway!CacheKey(k)[1] = Gateway!Scope(k)
        BY <2>2, <3>3, EntryTypes DEF Gateway!CacheKey
      <4> QED BY <1>1, <2>3, <3>3, <4>1 DEF Gateway!EntryInv, Fits
    <3> QED BY <1>6, <3>1, <3>2, <3>3 DEF Gateway!Succeed, Gateway!Remember, k, o
  <2> QED BY <2>4, <2>5, <2>6 DEF Kept, Gateway!EntryInv
<1>7. ASSUME NEW c \in Callers, Gateway!GiveUp(c) PROVE Kept
  <2> DEFINE k == calls[c].lookup
  <2>1. calls[c] # None /\ UNCHANGED cache BY <1>7 DEF Gateway!GiveUp, Gateway!At
  <2>2. k \in Lookups BY <1>3, <2>1
  <2>3. CASE answered' = None /\ UNCHANGED idempotency BY <1>2, <2>1, <2>3
  <2>4. CASE Gateway!Cached(k) # None /\ Gateway!Return(c, Gateway!Cached(k)) /\ Gateway!Store(k, Gateway!Cached(k))
    BY <1>4, <2>1, <2>2, <2>4, Fitting
  <2> QED BY <1>7, <2>3, <2>4 DEF Gateway!GiveUp, Gateway!Raise
<1>8. ASSUME NEW c \in Callers, Gateway!Attempt(c) \/ Gateway!CallFails(c) PROVE Kept
  BY <1>2, <1>8 DEF Gateway!Attempt, Gateway!CallFails, Gateway!Fail, Gateway!Raise, Gateway!Goto
<1>9. ASSUME NEW c \in Callers,
             Gateway!Execute(c) \/ Gateway!AcquireLock(c) \/ Gateway!ResumeLocked(c) \/ Gateway!LockExpires(c)
               \/ Gateway!AcquirePermit(c) \/ Gateway!ResumePermitted(c) \/ Gateway!Delay(c) \/ Gateway!Kill(c)
               \/ Gateway!EndNeutrally(c) \/ Gateway!DeadlinePasses(c) \/ Gateway!Cancel(c)
      PROVE  Kept
  BY <1>2, <1>9 DEF Gateway!Execute, Gateway!AcquireLock, Gateway!ResumeLocked, Gateway!LockExpires, Gateway!Leaves, Gateway!AcquirePermit,
                    Gateway!ResumePermitted, Gateway!Delay, Gateway!Kill, Gateway!EndNeutrally,
                    Gateway!DeadlinePasses, Gateway!Cancel, Gateway!Raise, Gateway!Goto
<1>10. ASSUME NEW x \in Gateway!CacheKeys, Gateway!CacheAges(x) PROVE Kept
  <2> DEFINE o == IF cache[x].valid THEN [cache[x] EXCEPT !.valid = FALSE, !.label = "stale"]
                  ELSE None
  <2>1. cache[x] \in Gateway!Observations BY <1>1, <1>10 DEF Gateway!CacheAges
  <2>2. /\ o \in Gateway!Observations \cup {None}
        /\ o # None => o.scope = cache[x].scope /\ o.label = "stale"
    BY <2>1 DEF Gateway!Observations
  <2>3. cache' = [cache EXCEPT ![x] = o] BY <1>10 DEF Gateway!CacheAges
  <2>4. cache[x] # None /\ answered' = None /\ UNCHANGED idempotency BY <1>10 DEF Gateway!CacheAges
  <2> HIDE DEF o
  <2> QED
    BY <1>1, <2>2, <2>3, <2>4 DEF Kept, Gateway!EntryInv, Gateway!FreshIsValid, Gateway!PrivateStaysPrivate
<1>11. ASSUME NEW x \in Gateway!Keys, Gateway!ResultAges(x) PROVE Kept
  <2> DEFINE r == IF idempotency[x].result.valid
                  THEN [idempotency[x] EXCEPT !.result.valid = FALSE] ELSE None
  <2>1. idempotency[x] \in Gateway!Stored BY <1>1, <1>11 DEF Gateway!ResultAges
  <2>2. /\ r \in Gateway!Stored \cup {None}
        /\ r # None => r.result.scope = idempotency[x].result.scope
    BY <2>1 DEF Gateway!Observations, Gateway!Stored
  <2>3. idempotency' = [idempotency EXCEPT ![x] = r] BY <1>11 DEF Gateway!ResultAges
  <2>4. idempotency[x] # None /\ answered' = None /\ UNCHANGED cache BY <1>11 DEF Gateway!ResultAges
  <2> HIDE DEF r
  <2> QED
    BY <1>1, <2>2, <2>3, <2>4 DEF Kept, Gateway!EntryInv, Gateway!FreshIsValid, Gateway!PrivateStaysPrivate
<1>12. CASE Gateway!AdriftAcquires \/ Gateway!CoolDown \/ Gateway!Outage \/ Gateway!Recover
  BY <1>2, <1>12 DEF Gateway!AdriftAcquires, Gateway!CoolDown, Gateway!Outage, Gateway!Recover
<1>13. CASE UNCHANGED Gateway!vars
  BY <1>1, <1>13 DEF Gateway!vars, Kept, Gateway!EntryInv, Gateway!FreshIsValid, Gateway!PrivateStaysPrivate, Gateway!IndInv, Gateway!TypeOK,
                     Gateway!GatewayIsSafe
<1> QED BY <1>5, <1>6, <1>7, <1>8, <1>9, <1>10, <1>11, <1>12, <1>13 DEF Gateway!Next, Gateway!Step

\* Every step keeps the types.
LEMMA TypesKept ==
    ASSUME Gateway!GatewayAssumption, Gateway!IndInv, [Gateway!Next]_(Gateway!vars)
    PROVE  Gateway!TypeOK'
<1>1. made' \in Nat /\ up' \in BOOLEAN /\ outages' \in Nat
  <2>1. made \in Nat /\ up \in BOOLEAN /\ outages \in Nat BY DEF Gateway!IndInv, Gateway!TypeOK
  <2>2. made' \in {made, made + 1} /\ up' \in {up, TRUE, FALSE} /\ outages' \in {outages, outages + 1}
    BY DEF Gateway!Next, Gateway!Step, Gateway!Execute, Gateway!AcquireLock, Gateway!ResumeLocked, Gateway!LockExpires, Gateway!Enter, Gateway!Attempt,
           Gateway!AcquirePermit, Gateway!ResumePermitted, Gateway!Kill, Gateway!AdriftAcquires,
           Gateway!CallFails, Gateway!Delay, Gateway!GiveUp, Gateway!Succeed, Gateway!EndNeutrally, Gateway!DeadlinePasses, Gateway!Cancel, Gateway!CacheAges,
           Gateway!ResultAges, Gateway!CoolDown, Gateway!Outage, Gateway!Recover, Gateway!vars
  <2>3. made' \in Nat /\ outages' \in Nat BY <2>1, <2>2
  <2>4. up' \in BOOLEAN BY <2>1, <2>2, Zenon
  <2> QED BY <2>3, <2>4
<1>2. locks' \in [Gateway!Keys -> Nat \cup {None}]
  <2>1. locks \in [Gateway!Keys -> Nat \cup {None}] BY DEF Gateway!IndInv, Gateway!TypeOK
  <2>2. ASSUME NEW c \in Callers, Gateway!Execute(c) PROVE locks' \in [Gateway!Keys -> Nat \cup {None}]
    BY <2>2, Starting
  <2>3. ASSUME NEW c \in Callers, Gateway!Enter(c) PROVE locks' \in [Gateway!Keys -> Nat \cup {None}]
    BY <2>1, <2>3 DEF Gateway!Enter
  <2>4. \/ \E c \in Callers : Gateway!Execute(c) \/ Gateway!Enter(c)
        \/ locks' = locks
    BY DEF Gateway!Next, Gateway!Step, Gateway!AcquireLock, Gateway!ResumeLocked, Gateway!LockExpires, Gateway!Attempt, Gateway!AcquirePermit,
           Gateway!ResumePermitted, Gateway!Kill, Gateway!AdriftAcquires,
           Gateway!CallFails, Gateway!Delay, Gateway!GiveUp, Gateway!Succeed, Gateway!EndNeutrally, Gateway!DeadlinePasses, Gateway!Cancel, Gateway!CacheAges,
           Gateway!ResultAges, Gateway!CoolDown, Gateway!Outage, Gateway!Recover, Gateway!vars
  <2> QED BY <2>1, <2>2, <2>3, <2>4
<1>3. /\ adrift' \in [locks : SUBSET Nat, permits : Nat]
      /\ stray' \in [locks : SUBSET Nat, permits : Nat]
  <2> DEFINE Rec == [locks : SUBSET Nat, permits : Nat]
  <2>1. adrift \in Rec /\ stray \in Rec BY DEF Gateway!IndInv, Gateway!TypeOK
  <2>2. ASSUME NEW rec \in Rec, NEW l \in Nat
        PROVE  /\ [rec EXCEPT !.locks = @ \cup {l}] \in Rec /\ [rec EXCEPT !.locks = @ \ {l}] \in Rec
               /\ [rec EXCEPT !.permits = @ + 1] \in Rec
               /\ rec.permits > 0 => [rec EXCEPT !.permits = @ - 1] \in Rec
    OBVIOUS
  <2>3. ASSUME NEW c \in Callers, Gateway!At(c, {"lock", "locked"}), calls[c].lock # None
        PROVE  calls[c].lock \in Nat
    BY <2>3 DEF Gateway!At, Gateway!IndInv, Gateway!TypeOK, Gateway!Calls
  <2>4. Gateway!StrayPermit => stray' \in Rec BY <2>1, <2>2 DEF Gateway!StrayPermit
  <2>5. ASSUME NEW c \in Callers, Gateway!At(c, {"locked"}), Gateway!StrayLock(c) PROVE stray' \in Rec
    <3>1. calls[c].lock \in Nat BY <2>3, <2>5 DEF Gateway!At, Gateway!IndInv, Gateway!LockInv
    <3> QED BY <2>1, <2>2, <2>5, <3>1 DEF Gateway!StrayLock
  <2>6. ASSUME NEW c \in Callers, Gateway!LockExpires(c) PROVE adrift' \in Rec /\ stray' \in Rec
    BY <2>1, <2>5, <2>6 DEF Gateway!LockExpires
  <2>7. ASSUME NEW c \in Callers, Gateway!CallFails(c) PROVE adrift' \in Rec /\ stray' \in Rec
    BY <2>1, <2>4, <2>7 DEF Gateway!CallFails
  <2>8. ASSUME NEW c \in Callers, Gateway!Kill(c) PROVE adrift' \in Rec /\ stray' \in Rec
    <3>1. stray' = stray \/ Gateway!StrayPermit \/ (Gateway!At(c, {"locked"}) /\ Gateway!StrayLock(c))
      BY <2>8 DEF Gateway!Kill
    <3>2. \/ adrift' = adrift \/ adrift' = [adrift EXCEPT !.permits = @ + 1]
          \/ Gateway!At(c, {"lock"}) /\ adrift' = [adrift EXCEPT !.locks = @ \cup {calls[c].lock}]
      BY <2>8 DEF Gateway!Kill
    <3>3. CASE Gateway!At(c, {"lock"}) /\ adrift' = [adrift EXCEPT !.locks = @ \cup {calls[c].lock}]
      <4>1. calls[c].lock \in Nat BY <2>3, <3>3 DEF Gateway!At, Gateway!IndInv, Gateway!LockInv
      <4> QED BY <2>1, <2>2, <2>4, <2>5, <3>1, <3>3, <4>1
    <3> QED BY <2>1, <2>2, <2>4, <2>5, <3>1, <3>2, <3>3
  <2>9. ASSUME Gateway!AdriftAcquires PROVE adrift' \in Rec /\ stray' \in Rec
    <3>1. ASSUME NEW l \in adrift.locks \ held, adrift' = [adrift EXCEPT !.locks = @ \ {l}],
                 stray' = [stray EXCEPT !.locks = @ \cup {l}]
          PROVE  adrift' \in Rec /\ stray' \in Rec
      <4>1. l \in Nat BY <2>1
      <4> QED BY <2>1, <2>2, <3>1, <4>1
    <3>2. CASE adrift.permits > 0 /\ Gateway!StrayPermit /\ adrift' = [adrift EXCEPT !.permits = @ - 1]
      BY <2>1, <2>2, <2>4, <3>2
    <3> QED BY <2>9, <3>1, <3>2 DEF Gateway!AdriftAcquires
  <2>10. \/ \E c \in Callers : Gateway!LockExpires(c) \/ Gateway!CallFails(c) \/ Gateway!Kill(c)
         \/ Gateway!AdriftAcquires \/ UNCHANGED <<adrift, stray>>
    BY DEF Gateway!Next, Gateway!Step, Gateway!Execute, Gateway!AcquireLock, Gateway!ResumeLocked, Gateway!Enter, Gateway!Attempt, Gateway!AcquirePermit,
           Gateway!ResumePermitted, Gateway!Delay, Gateway!GiveUp, Gateway!Succeed, Gateway!EndNeutrally, Gateway!DeadlinePasses, Gateway!Cancel,
           Gateway!CacheAges, Gateway!ResultAges, Gateway!CoolDown, Gateway!Outage, Gateway!Recover, Gateway!vars
  <2> QED BY <2>1, <2>6, <2>7, <2>8, <2>9, <2>10
<1> QED BY <1>1, <1>2, <1>3, CallTypes, CircuitKept, EntriesKept DEF Gateway!TypeOK, Kept

-----------------------------------------------------------------------------
(* Theorems *)

\* The inductive invariant holds in every behaviour of the gateway.
THEOREM GatewayInvariance == Gateway!GatewayAssumption => (Gateway!Spec => []Gateway!IndInv)
<1> SUFFICES ASSUME Gateway!GatewayAssumption PROVE Gateway!Spec => []Gateway!IndInv
  OBVIOUS
<1>1. Gateway!Init => Gateway!IndInv
  <2> SUFFICES ASSUME Gateway!Init PROVE Gateway!IndInv
    OBVIOUS
  <2>1. Gateway!TypeOK BY DEF Gateway!Init, Gateway!TypeOK
  <2>2. Gateway!LockInv /\ Gateway!LocksAreReleased
    BY DEF Gateway!Init, Gateway!LockInv, Gateway!LocksAreReleased, Gateway!Holds, Gateway!At
  <2>3. Gateway!ProbeInv /\ Gateway!ProbeIsGivenBack
    BY DEF Gateway!Init, Gateway!ProbeInv, Gateway!ProbeIsGivenBack
  <2>4. Gateway!EntryInv /\ Gateway!FreshIsValid /\ Gateway!PrivateStaysPrivate
    BY DEF Gateway!Init, Gateway!EntryInv, Gateway!FreshIsValid, Gateway!PrivateStaysPrivate
  <2> QED BY <2>1, <2>2, <2>3, <2>4 DEF Gateway!IndInv, Gateway!GatewayIsSafe
<1>2. Gateway!IndInv /\ [Gateway!Next]_(Gateway!vars) => Gateway!IndInv'
  BY TypesKept, LocksKept, CircuitKept, EntriesKept DEF Gateway!IndInv, Gateway!GatewayIsSafe, Kept
<1> QED BY <1>1, <1>2, PTL DEF Gateway!Spec

\* A fresh answer is valid and for its tenant, the half-open probe is up only while an
\* admitted call is on its way, and a locked idempotency lock belongs to a call that is being
\* executed or was left behind by an interrupted acquisition: on every path of _execute,
\* whatever calls cross.
THEOREM GatewaySafety == Gateway!GatewayAssumption => (Gateway!Spec => []Gateway!GatewayIsSafe)
<1>1. Gateway!IndInv => Gateway!GatewayIsSafe BY DEF Gateway!IndInv
<1> QED BY <1>1, GatewayInvariance, PTL

\* So it is of the specification that TLC checks: on every path of _execute the probe comes
\* back, and the lock unless its acquisition was interrupted, and what is returned as fresh is
\* valid and for its tenant.
THEOREM GatewayCorrect == Spec => []GatewayIsSafe
<1>1. Spec => Gateway!Spec
  <2>1. Init => Gateway!Init BY DEF Init
  <2>2. [Next]_vars => [Gateway!Next]_(Gateway!vars)
    <3> SUFFICES ASSUME [Next]_vars PROVE [Gateway!Next]_(Gateway!vars) OBVIOUS
    <3>1. Gateway!Next \/ UNCHANGED gatewayVars BY DEF Next, vars
    <3> QED BY <3>1 DEF gatewayVars, Gateway!vars
  <2> QED BY <2>1, <2>2, PTL DEF Spec, Gateway!Spec
<1>2. Gateway!Spec => []Gateway!GatewayIsSafe BY GatewayConstants, GatewaySafety
<1> QED BY <1>1, <1>2, PTL DEF GatewayIsSafe
=============================================================================
