----------------------------- MODULE TripLocks ------------------------------
(***************************************************************************)
(* The transactions of PostgresPlatformStore and ShareService on one Trip,  *)
(* statement by statement, at PostgreSQL's default isolation: a SELECT sees  *)
(* what is committed when it runs, a row lock is kept until the end of the   *)
(* transaction, and whoever wants it waits.                                  *)
(*                                                                          *)
(* RunExecution and TripArtifacts take each of these methods as one step;    *)
(* this module is about what makes that right.  A transaction is the list of *)
(* the statements that matter to others: locks, reads of the membership, and *)
(* the UPDATE of the Trip row; what it writes under its locks is left out.   *)
(***************************************************************************)
EXTENDS Integers, Sequences, FiniteSets

CONSTANTS
    Txns,           \* connections
    Runs, Artifacts,
    Keys,           \* Idempotency-Keys of one actor
    None

VARIABLES
    role,           \* of the member: "editor", "viewer", None
    txns,           \* each connection's transaction: op, user, todo,
                    \* fresh (the Trip row is as read), may (access granted last), wrote (the Trip)
    held,           \* rows and keys each transaction has locked
    shared          \* transactions that hold FOR KEY SHARE on the Trip

vars == <<role, txns, held, shared>>

Users == {"owner", "member"}
Trip  == <<"trip", "">>
Init ==
    /\ role = "editor" /\ txns = [t \in Txns |-> None]
    /\ held = [t \in Txns |-> {}] /\ shared = {}

-----------------------------------------------------------------------------
(* Statements *)

Lock(kind, id) == <<[do |-> "lock", row |-> <<kind, id>>]>>
\* An insert that refers to the Trip.
ShareTrip      == <<[do |-> "share", row |-> Trip]>>
Access(needs)  == <<[do |-> needs, row |-> Trip]>>
UpdateTrip     == <<[do |-> "update", row |-> Trip]>>

\* Mutant: the membership is read before the row is locked.
GetTripLate(needs, lock) ==
    Access(needs) \o <<[do |-> IF lock THEN "lock" ELSE "see", row |-> Trip]>>
\* Mutant: the row is only read.
GetTripUnlocked(needs, lock) == <<[do |-> "see", row |-> Trip]>> \o Access(needs)
\* _get_trip_tx
GetTrip(needs, lock) ==
    <<[do |-> IF lock THEN "lock" ELSE "see", row |-> Trip]>> \o Access(needs)

\* _get_run_tx
GetRun(r, lock) == (IF lock THEN Lock("run", r) ELSE <<>>) \o GetTrip("read", FALSE)

\* Mutant: the artifact's row is locked before its Trip.
GetArtifactFirst(a, lock) ==
    (IF lock THEN Lock("artifact", a) \o Lock("version", a) ELSE <<>>) \o GetTrip("write", lock)
\* _get_artifact_tx, for a writer
GetArtifact(a, lock) ==
    GetTrip("write", lock) \o (IF lock THEN Lock("artifact", a) \o Lock("version", a) ELSE <<>>)

-----------------------------------------------------------------------------
(* Transactions *)

\* Another artifact's published version is superseded.
Supersede(a) == IF Artifacts = {a} THEN <<>> ELSE Lock("version", CHOOSE b \in Artifacts : b # a)

\* set_trip_status has the statements of patch_trip, claim_run_execution those of mutate_run,
\* and release_run_execution those of renew_run_execution.
PatchTrip        == GetTrip("write", TRUE) \o UpdateTrip
ManageMember     == GetTrip("write", TRUE) \o Access("own") \o Lock("member", "")
CreateRun(k)     == GetTrip("write", TRUE) \o Lock("create", k)
ResumeRun(r, k)  == GetRun(r, TRUE) \o GetTrip("write", FALSE) \o Lock("resume", k)
MutateRun(r)     == GetRun(r, TRUE)
\* With a plan for result; with an answer it ends before Supersede.
PublishResult(r, a) ==
    GetRun(r, TRUE) \o GetTrip("write", TRUE) \o Lock("artifact", a) \o Lock("version", a)
        \o Supersede(a) \o UpdateTrip
RenewExecution(r) == GetRun(r, FALSE) \o Lock("run", r)
CreateArtifact(r) == GetRun(r, TRUE) \o GetTrip("write", FALSE) \o ShareTrip
PatchArtifact(a)  == GetArtifact(a, TRUE)
CommandArtifact(a, k) ==
    GetArtifact(a, FALSE) \o Lock("journal", k) \o GetArtifact(a, TRUE) \o GetTrip("write", TRUE)
        \o Supersede(a) \o UpdateTrip
\* The access was checked before, with the source (ShareLinks).
CreateShare(a, k) ==
    Lock("share", k) \o Lock("trip", "") \o Lock("artifact", a) \o Lock("version", a)

Call(op, todo) == [op |-> op, todo |-> todo]
Calls ==
    {Call("patch_trip", PatchTrip), Call("manage_member", ManageMember)}
    \cup {Call("create_run", CreateRun(k)) : k \in Keys}
    \cup {Call("mutate_run", MutateRun(r)) : r \in Runs}
    \cup {Call("renew_run_execution", RenewExecution(r)) : r \in Runs}
    \cup {Call("create_artifact", CreateArtifact(r)) : r \in Runs}
    \cup {Call("patch_artifact", PatchArtifact(a)) : a \in Artifacts}
    \cup {Call("resume_run", ResumeRun(r, k)) : r \in Runs, k \in Keys}
    \cup {Call("publish_result", PublishResult(r, a)) : r \in Runs, a \in Artifacts}
    \cup {Call("command_artifact", CommandArtifact(a, k)) : a \in Artifacts, k \in Keys}
    \cup {Call("create_share", CreateShare(a, k)) : a \in Artifacts, k \in Keys}

-----------------------------------------------------------------------------
(* Execution *)

Begin(t) ==
    /\ txns[t] = None
    /\ \E c \in Calls, u \in Users :
        txns' = [txns EXCEPT ![t] =
            [op |-> c.op, user |-> u, todo |-> c.todo, fresh |-> FALSE, may |-> None,
             wrote |-> FALSE]]
    /\ UNCHANGED <<role, held, shared>>

Doing(t, what) == txns[t] # None /\ txns[t].todo # <<>> /\ Head(txns[t].todo).do \in what

\* The transactions t waits for.
Waits(t) ==
    IF ~Doing(t, {"lock", "share", "update"}) THEN {}
    ELSE LET row == Head(txns[t].todo).row IN
         {u \in Txns \ {t} : \/ row \in held[u]
                             \/ row = Trip /\ u \in shared /\ ~Doing(t, {"share"})}

Allowed(user, needs) ==
    \/ user = "owner"
    \/ needs = "read" /\ role # None
    \/ needs = "write" /\ role = "editor"

\* A SELECT of the Trip row sees its current version.
After(t) ==
    [txns[t] EXCEPT !.todo = Tail(@), !.fresh = @ \/ Head(txns[t].todo).row = Trip]

TakeLock(t) ==
    /\ Doing(t, {"lock", "see", "share"}) /\ Waits(t) = {}
    /\ txns' = [txns EXCEPT ![t] = After(t)]
    /\ held' = IF Doing(t, {"lock"}) THEN [held EXCEPT ![t] = @ \cup {Head(txns[t].todo).row}]
               ELSE held
    /\ shared' = IF Doing(t, {"share"}) THEN shared \cup {t} ELSE shared
    /\ UNCHANGED role

CheckAccess(t) ==
    /\ Doing(t, {"read", "write", "own"}) /\ Allowed(txns[t].user, Head(txns[t].todo).do)
    /\ txns' = [txns EXCEPT ![t].todo = Tail(@), ![t].may = Head(txns[t].todo).do]
    /\ UNCHANGED <<role, held, shared>>

WriteTrip(t) ==
    /\ Doing(t, {"update"}) /\ Waits(t) = {}
    /\ txns' = [txns EXCEPT ![t].todo = Tail(@), ![t].wrote = TRUE]
    /\ held' = [held EXCEPT ![t] = @ \cup {Trip}]
    /\ UNCHANGED <<role, shared>>

End(t) == held' = [held EXCEPT ![t] = {}] /\ shared' = shared \ {t}

\* Everybody else's view of a Trip row that was updated is out of date.
Commit(t) ==
    /\ txns[t] # None /\ txns[t].todo = <<>> /\ End(t)
    /\ txns' = [u \in Txns |->
            CASE u = t -> None
              [] u # t /\ txns[u] # None /\ txns[t].wrote -> [txns[u] EXCEPT !.fresh = FALSE]
              [] OTHER -> txns[u]]
    /\ IF txns[t].op = "manage_member" THEN role' \in {"editor", "viewer", None}
       ELSE UNCHANGED role

\* A condition is not met, an error is raised, or the connection is lost.
Rollback(t) == txns[t] # None /\ End(t) /\ txns' = [txns EXCEPT ![t] = None] /\ UNCHANGED role

Next ==
    \E t \in Txns :
        \/ Begin(t) \/ TakeLock(t) \/ CheckAccess(t) \/ WriteTrip(t) \/ Commit(t) \/ Rollback(t)

Spec == Init /\ [][Next]_vars

-----------------------------------------------------------------------------
(* Properties *)

\* No transactions wait for each other: whatever is called at the same time, PostgreSQL never
\* has to abort one of them to go on.
NoDeadlock ==
    \A waiting \in (SUBSET Txns) \ {{}} :
        \E t \in waiting : Waits(t) \cap waiting = {}

\* The Trip row that a transaction is about to update is the one it has read.  mutate_run
\* does not look whether its UPDATE, which asks for that version, found the row: were it to
\* miss, the Run would complete with a published plan that the Trip does not point to.
TripUpdateHits ==
    \A t \in Txns : Doing(t, {"update"}) /\ Waits(t) = {} => txns[t].fresh

\* A member who was removed, or made a viewer, writes nothing more on the Trip: whoever is
\* past the last check with the Trip's lock in hand still has the right it was given for.
WritersStayAllowed ==
    \A t \in Txns :
        /\ txns[t] # None /\ Trip \in held[t] /\ txns[t].may \in {"write", "own"}
        /\ \A i \in DOMAIN txns[t].todo : txns[t].todo[i].do \notin {"read", "write", "own"}
        => Allowed(txns[t].user, txns[t].may)

\* What lets the other modules take each of these transactions as one step that succeeds or
\* fails by itself.
TransactionsAreSafe == NoDeadlock /\ TripUpdateHits /\ WritersStayAllowed

-----------------------------------------------------------------------------
(* The inductive invariant: what the safety properties rest on. *)

Checks     == {"read", "write", "own"}
Kinds      == {"run", "journal", "share", "trip", "create", "resume", "member", "artifact", "version"}
Rows       == Kinds \X (Runs \cup Artifacts \cup Keys \cup {""})
Statements == [do : {"lock", "see", "share", "update"} \cup Checks, row : Rows]
Operations == {"patch_trip", "manage_member", "create_run", "mutate_run", "renew_run_execution",
               "create_artifact", "patch_artifact", "resume_run", "publish_result",
               "command_artifact", "create_share"}
Transactions == [op : Operations, user : Users, todo : Seq(Statements), fresh : BOOLEAN,
                 may : Checks \cup {None}, wrote : BOOLEAN]

\* None is none of the values it stands in for.
LockAssumption == None \notin Transactions \cup Checks \cup {"editor", "viewer"}

TypeOK ==
    /\ role \in {"editor", "viewer", None} /\ txns \in [Txns -> Transactions \cup {None}]
    /\ held \in [Txns -> SUBSET Rows] /\ shared \subseteq Txns

\* The rows that are locked under the Trip's lock only, and the order of the others.
Guarded(row) == row[1] \in {"artifact", "version"}
Rank(row)    == IF row[1] \in {"run", "journal", "share"} THEN 1
                ELSE IF row[1] = "trip" THEN 2 ELSE 3

\* Statement i of a list, or an earlier one, locks the row; or it is held already.
Locks(q, i, row)      == q[i].do = "lock" /\ q[i].row = row
LockedBy(q, i, H, row) == row \in H \/ \E j \in 1 .. i - 1 : Locks(q, j, row)

\* What a transaction with the locks H may still have to do:
\* a row under the Trip's lock is locked after it, and any other row after rows that come
\* before it, unless it is locked already;
InOrder(q, H) ==
    \A i \in 1 .. Len(q) : q[i].do \in {"lock", "share", "update"} =>
        IF Guarded(q[i].row) THEN LockedBy(q, i, H, Trip)
        ELSE \/ LockedBy(q, i, H, q[i].row)
             \/ /\ \A row \in H : Rank(row) < Rank(q[i].row)
                /\ \A j \in 1 .. i - 1 : q[j].do = "lock" => Rank(q[j].row) < Rank(q[i].row)
\* only the Trip is shared or updated; sharing it is the last thing a transaction waits for,
\* and before an update it is locked and read;
OnTheTrip(q, H, fresh) ==
    \A i \in 1 .. Len(q) :
        /\ q[i].do \in {"share", "update"} => q[i].row = Trip
        /\ q[i].do = "share" => i = Len(q)
        /\ q[i].do = "update" => \/ Trip \in H /\ fresh
                                 \/ \E j \in 1 .. i - 1 : Locks(q, j, Trip)
\* and the access is checked after the Trip was locked, if it is checked at all.
CheckedAfter(q, may) ==
    \A i \in 1 .. Len(q) : Locks(q, i, Trip) =>
        \/ \E j \in i + 1 .. Len(q) : q[j].do \in Checks
        \/ may = None /\ \A j \in 1 .. Len(q) : q[j].do \notin Checks

\* Every transaction that has begun follows these rules; whoever changes the members or has
\* updated the Trip holds its lock.
Disciplined(t) ==
    LET x == txns[t] IN
    /\ InOrder(x.todo, held[t]) /\ OnTheTrip(x.todo, held[t], x.fresh)
    /\ CheckedAfter(x.todo, x.may)
    /\ x.op = "manage_member" => LockedBy(x.todo, Len(x.todo) + 1, held[t], Trip)
    /\ x.wrote => Trip \in held[t]
    /\ t \in shared => x.todo = <<>>
    /\ \A row \in held[t] : Guarded(row) => Trip \in held[t]

\* A row is locked by one transaction, which has begun; nobody shares a Trip another has locked.
LocksExclude ==
    /\ \A t \in Txns : txns[t] = None => held[t] = {} /\ t \notin shared
    /\ \A t, u \in Txns : t # u => held[t] \cap held[u] = {}
    /\ \A t \in Txns : Trip \in held[t] => shared \subseteq {t}

IndInv ==
    /\ TypeOK /\ LocksExclude /\ WritersStayAllowed
    /\ \A t \in Txns : txns[t] # None => Disciplined(t)
=============================================================================
