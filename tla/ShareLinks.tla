----------------------------- MODULE ShareLinks -----------------------------
(***************************************************************************)
(* Read-only shares of a Trip's published plan: creation from the current   *)
(* snapshot, rotation and revocation of the capability, its exchange for a  *)
(* short session, and the public view.                                      *)
(*                                                                          *)
(* create reads the source snapshot in one transaction and inserts the      *)
(* share in another; every other operation is one transaction that locks    *)
(* the share row.  A secret is derived from the operation, its idempotency  *)
(* key, the share and its epoch, so it is modelled by those; the row keeps  *)
(* its hash, which only the secret itself matches.                          *)
(*                                                                          *)
(* This is the PostgreSQL branch.  The in-memory one creates a share        *)
(* without reading the source again, and keeps the failures of the exchange *)
(* over a rotation.                                                         *)
(***************************************************************************)
EXTENDS Integers, FiniteSets

CONSTANTS
    Shares,         \* share ids (and their public ids)
    Creators,       \* requests that create a share
    CreateKeys,     \* Idempotency-Keys of the owner's requests to create
    ChangeKeys,     \* ... and of those to rotate or revoke
    MaxVersion,     \* bound on a share's version
    MaxPlans,       \* bound on the plan versions the Trip publishes
    MaxAttempts,    \* wrong secrets before the exchange is blocked (5 in the code)
    NoShare, NoPlan

VARIABLES
    pointer, plans,     \* the Trip's current published plan; the plans so far
    shares,             \* shares and share_snapshots rows
    sessions,           \* share_sessions rows
    journal,            \* share_idempotency_keys rows
    creating,           \* what each creator read from the Trip
    shown,              \* the session the last step showed a snapshot to
    guessed             \* wrong secrets compared since the failure window began

vars == <<pointer, plans, shares, sessions, journal, creating, shown, guessed>>

Secret(op, key, s, epoch) == [op |-> op, key |-> key, share |-> s, epoch |-> epoch]
Exists(s) == shares[s] # NoShare
Active(s) == Exists(s) /\ shares[s].status = "active"
\* The secrets that were ever handed out, and one that never was.
WrongSecret == Secret("guess", NoShare, NoShare, 0)
Issued == {Secret(o.op, o.key, journal[o].share, journal[o].epoch) :
              o \in {x \in DOMAIN journal : x.op \in {"create", "rotate"}}}

Init ==
    /\ pointer = 1 /\ plans = 1
    /\ shares = [s \in Shares |-> NoShare] /\ sessions = {}
    /\ journal = [o \in {} |-> NoShare]
    /\ creating = [c \in Creators |-> NoPlan]
    /\ shown = NoShare /\ guessed = [s \in Shares |-> 0]

\* The Trip's plan is replaced or withdrawn (TripArtifacts).
PublishPlan ==
    /\ plans < MaxPlans /\ plans' = plans + 1 /\ pointer' = plans + 1 /\ shown' = NoShare
    /\ UNCHANGED <<shares, sessions, journal, creating, guessed>>
WithdrawPlan ==
    /\ pointer # NoPlan /\ pointer' = NoPlan /\ shown' = NoShare
    /\ UNCHANGED <<plans, shares, sessions, journal, creating, guessed>>

\* _source: the plan the request names must be the current published one.
ReadSource(c) ==
    /\ creating[c] = NoPlan /\ pointer # NoPlan
    /\ creating' = [creating EXCEPT ![c] = pointer] /\ shown' = NoShare
    /\ UNCHANGED <<pointer, plans, shares, sessions, journal, guessed>>

Row(key, s, plan) ==
    [status |-> "active", version |-> 1, epoch |-> 1, secret |-> Secret("create", key, s, 1),
     source |-> plan, key |-> key, failed |-> 0, window |-> FALSE, blocked |-> FALSE]

\* The journal's primary key; rotate and revoke name the share in their operation.
Command(op, s, key) == [op |-> op, share |-> s, key |-> key]
Record(command, s, epoch, request) ==
    journal' = [o \in DOMAIN journal \cup {command} |->
        IF o = command THEN [share |-> s, epoch |-> epoch, request |-> request] ELSE journal[o]]

\* Mutant: the source is not read again.
SourceWasCurrent(plan) == TRUE
SourceIsCurrent(plan) == pointer = plan

\* Mutant: a key that was used before does not stop the insert.
ReservedNever(key) == FALSE
Reserved(key) == Command("create", NoShare, key) \in DOMAIN journal

\* _create_postgres: replay, conflict (which rolls the reservation back), or insert.
CreateShare(c, key) ==
    LET plan == creating[c]
        id   == CHOOSE s \in Shares : ~Exists(s)
    IN
    /\ plan # NoPlan
    /\ creating' = [creating EXCEPT ![c] = NoPlan] /\ shown' = NoShare
    /\ \/ (Reserved(key) \/ ~SourceIsCurrent(plan)) /\ UNCHANGED <<shares, journal>>
       \/ /\ ~Reserved(key) /\ SourceIsCurrent(plan) /\ \E s \in Shares : ~Exists(s)
          /\ shares' = [shares EXCEPT ![id] = Row(key, id, plan)]
          /\ Record(Command("create", NoShare, key), id, 1, plan)
    /\ UNCHANGED <<pointer, plans, sessions, guessed>>

SessionsOf(s) == {x \in sessions : x.share = s}

\* Mutant: the row keeps the old secret's hash.
RotatedKeepingSecret(s, key) ==
    [shares[s] EXCEPT !.version = @ + 1, !.epoch = @ + 1, !.failed = 0, !.blocked = FALSE]
Rotated(s, key) ==
    [shares[s] EXCEPT !.version = @ + 1, !.epoch = @ + 1,
        !.secret = Secret("rotate", key, s, shares[s].epoch + 1),
        !.failed = 0, !.window = FALSE, !.blocked = FALSE]

\* Mutant: If-Match is not compared.
MayChangeAnyVersion(s, op, key, expected) ==
    Active(s) /\ Command(op, s, key) \notin DOMAIN journal
\* A replay changes nothing; a key used for another request, a share that is no longer
\* active and a stale If-Match are refused.
MayChange(s, op, key, expected) ==
    Active(s) /\ Command(op, s, key) \notin DOMAIN journal /\ shares[s].version = expected

\* rotate and revoke by the share's owner, at the version the request names.
Rotate(s, key, expected) ==
    /\ Exists(s) /\ expected <= shares[s].version /\ shares[s].version < MaxVersion
    /\ MayChange(s, "rotate", key, expected)
    /\ shares' = [shares EXCEPT ![s] = Rotated(s, key)]
    /\ sessions' = sessions \ SessionsOf(s)
    /\ Record(Command("rotate", s, key), s, shares[s].epoch + 1, expected)
    /\ guessed' = [guessed EXCEPT ![s] = 0] /\ shown' = NoShare
    /\ UNCHANGED <<pointer, plans, creating>>

Revoke(s, key, expected) ==
    /\ Exists(s) /\ expected <= shares[s].version /\ shares[s].version < MaxVersion
    /\ MayChange(s, "revoke", key, expected)
    /\ shares' = [shares EXCEPT ![s].status = "revoked", ![s].version = @ + 1, ![s].epoch = @ + 1]
    /\ sessions' = sessions \ SessionsOf(s)
    /\ Record(Command("revoke", s, key), s, shares[s].epoch + 1, expected)
    /\ shown' = NoShare
    /\ UNCHANGED <<pointer, plans, creating, guessed>>

-----------------------------------------------------------------------------
(* The public side *)

\* Mutant: the block is not looked at.
OpenToEverybody(s) == Active(s)
OpenToExchange(s) == Active(s) /\ ~shares[s].blocked

\* exchange with a secret that does not match: the failure is counted, the fifth one blocks.
ExchangeRefused(s, secret) ==
    /\ OpenToExchange(s) /\ secret # shares[s].secret
    /\ LET n == (IF shares[s].window THEN shares[s].failed ELSE 0) + 1 IN
       shares' = [shares EXCEPT ![s].failed = n, ![s].window = TRUE,
                                ![s].blocked = (n >= MaxAttempts)]
    /\ guessed' = [guessed EXCEPT ![s] = @ + 1] /\ shown' = NoShare
    /\ UNCHANGED <<pointer, plans, sessions, journal, creating>>

\* exchange with the right secret opens a session for the current epoch.
Exchange(s, secret) ==
    /\ OpenToExchange(s) /\ secret = shares[s].secret
    /\ sessions' = sessions \cup {[share |-> s, epoch |-> shares[s].epoch, secret |-> secret]}
    /\ shares' = [shares EXCEPT ![s].failed = 0, ![s].window = FALSE, ![s].blocked = FALSE]
    /\ guessed' = [guessed EXCEPT ![s] = 0] /\ shown' = NoShare
    /\ UNCHANGED <<pointer, plans, journal, creating>>

\* public_snapshot: the session must be of this share and of its current epoch.
ViewSnapshot(x) ==
    /\ x \in sessions /\ Active(x.share) /\ x.epoch = shares[x.share].epoch
    /\ shown' = x
    /\ UNCHANGED <<pointer, plans, shares, sessions, journal, creating, guessed>>

SessionExpires(x) ==
    /\ x \in sessions /\ sessions' = sessions \ {x} /\ shown' = NoShare
    /\ UNCHANGED <<pointer, plans, shares, journal, creating, guessed>>

\* Ten minutes since the first failure; a block lasts fifteen and so outlives the window.
WindowPasses(s) ==
    /\ Exists(s) /\ shares[s].window
    /\ shares' = [shares EXCEPT ![s].window = FALSE]
    /\ guessed' = [guessed EXCEPT ![s] = 0] /\ shown' = NoShare
    /\ UNCHANGED <<pointer, plans, sessions, journal, creating>>
BlockEnds(s) ==
    /\ Exists(s) /\ shares[s].blocked /\ ~shares[s].window
    /\ shares' = [shares EXCEPT ![s].blocked = FALSE] /\ shown' = NoShare
    /\ UNCHANGED <<pointer, plans, sessions, journal, creating, guessed>>

Next ==
    \/ PublishPlan \/ WithdrawPlan
    \/ \E c \in Creators : ReadSource(c) \/ \E key \in CreateKeys : CreateShare(c, key)
    \/ \E s \in Shares :
        \/ \E key \in ChangeKeys, v \in 1 .. MaxVersion : Rotate(s, key, v) \/ Revoke(s, key, v)
        \/ \E secret \in Issued \cup {WrongSecret} : Exchange(s, secret) \/ ExchangeRefused(s, secret)
        \/ WindowPasses(s) \/ BlockEnds(s)
    \/ \E x \in sessions : ViewSnapshot(x) \/ SessionExpires(x)

Spec == Init /\ [][Next]_vars

-----------------------------------------------------------------------------
(* Properties *)

\* "Rotation or revocation immediately invalidates the old capability and its sessions"
\* (docs/operations/v1-platform.md): whoever is shown the snapshot opened their session with
\* the secret the latest rotation issued, and the share has not been revoked.
OldCapabilitiesDie ==
    shown # NoShare => /\ shares[shown.share].status = "active"
                       /\ shown.secret.epoch = shares[shown.share].epoch

\* A share is created from the plan that is current at that moment, although the plan was
\* read in an earlier transaction; and it never changes its source afterwards.
SharedPlanWasCurrent ==
    [][\A s \in Shares : shares'[s] # shares[s] /\ shares'[s] # NoShare =>
         IF Exists(s) THEN shares'[s].source = shares[s].source ELSE shares'[s].source = pointer]_vars

\* However often a creation is retried, concurrently or after an answer was lost, one
\* Idempotency-Key makes one share.
OneSharePerKey ==
    \A s, t \in Shares : Exists(s) /\ Exists(t) /\ shares[s].key = shares[t].key => s = t

\* A share is changed at most once per version its owner saw: of two requests with the same
\* If-Match only one takes effect, so no rotation undoes one its caller had not seen.
ChangesFollowVersions ==
    \A o, p \in DOMAIN journal :
        o # p /\ {o.op, p.op} \subseteq {"rotate", "revoke"} /\ o.share = p.share
            => journal[o].request # journal[p].request

\* Within one failure window nobody gets more than MaxAttempts secrets compared.
GuessesAreLimited == \A s \in Shares : guessed[s] <= MaxAttempts

\* The share service's promises together: what is shared is the current plan, shown to the
\* holder of the current secret only; retries and races make no second share or change, and
\* guessing is limited.
SharesAreSafe ==
    /\ [](OldCapabilitiesDie /\ OneSharePerKey /\ ChangesFollowVersions /\ GuessesAreLimited)
    /\ SharedPlanWasCurrent

-----------------------------------------------------------------------------
(* The inductive invariant: what the safety properties rest on. *)

Plans    == Nat \cup {NoPlan}
Secrets  == [op : {"create", "rotate"}, key : CreateKeys \cup ChangeKeys, share : Shares, epoch : Nat]
Rows     == [status : {"active", "revoked"}, version : Nat, epoch : Nat, secret : Secrets,
             source : Plans, key : CreateKeys, failed : Nat, window : BOOLEAN, blocked : BOOLEAN]
Sessions == [share : Shares, epoch : Nat, secret : Secrets]

\* NoShare is none of the values it stands in for, and at least one secret may be tried.
ShareAssumption == NoShare \notin Rows \cup Sessions /\ MaxAttempts \in Nat \ {0}

TypeOK ==
    /\ pointer \in Plans /\ plans \in Nat /\ creating \in [Creators -> Plans]
    /\ shares \in [Shares -> Rows \cup {NoShare}] /\ sessions \subseteq Sessions
    /\ shown \in Sessions \cup {NoShare} /\ guessed \in [Shares -> Nat]

\* An active share's secret is that of its epoch, and so is a session's of its own.
CapabilityInv ==
    /\ \A s \in Shares : Active(s) => shares[s].secret.epoch = shares[s].epoch
    /\ \A x \in sessions : x.secret.epoch = x.epoch

\* The key of every share is reserved in the journal, for this share.
KeyInv ==
    \A s \in Shares : Exists(s) =>
        /\ Reserved(shares[s].key)
        /\ journal[Command("create", NoShare, shares[s].key)].share = s

\* A change that was made was asked for at a version its share has left behind.
VersionInv ==
    \A o \in DOMAIN journal : o.op \in {"rotate", "revoke"} =>
        /\ o.share \in Shares /\ Exists(o.share)
        /\ journal[o].request \in Nat /\ journal[o].request < shares[o.share].version

\* The row counts the secrets compared in its window, and is blocked once there are too many.
GuessInv ==
    \A s \in Shares :
        IF Exists(s) /\ shares[s].window
        THEN /\ guessed[s] = shares[s].failed /\ shares[s].failed <= MaxAttempts
             /\ shares[s].failed = MaxAttempts => shares[s].blocked
        ELSE guessed[s] = 0

IndInv ==
    /\ TypeOK /\ CapabilityInv /\ KeyInv /\ VersionInv /\ GuessInv
    /\ OldCapabilitiesDie /\ ChangesFollowVersions
=============================================================================
