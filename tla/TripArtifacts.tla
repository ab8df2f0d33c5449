--------------------------- MODULE TripArtifacts ---------------------------
(***************************************************************************)
(* One Trip: its current-artifact pointer, the versions of its artifacts    *)
(* and their statuses, the Runs created on it, and the users who select,    *)
(* publish, revoke, patch and archive while Runs publish their results.     *)
(*                                                                          *)
(* Every action is one transaction of postgres_store.py that holds the Trip *)
(* row's lock (create_run, mutate_run with a result, command_artifact,      *)
(* patch_artifact, set_trip_status) or inserts a new artifact.  How a Run   *)
(* gets from creation to publication is RunExecution's matter; here a Run   *)
(* saves, publishes and ends at any time in between.                        *)
(***************************************************************************)
EXTENDS Integers, FiniteSets

CONSTANTS
    Runs,          \* Product Runs a user may create on the Trip
    None,          \* a null column
    MaxVersion     \* bound on the versions of one artifact

ASSUME MaxVersionAssumption == MaxVersion \in Nat /\ MaxVersion >= 1
\* An artifact is named by the Run that made it and by its role in that Run: the
\* result (a TripSnapshot, or the TravelAnswer of a question), or one of the
\* supporting reports.
Types     == {"snapshot", "answer", "report"}
Artifacts == Runs \X Types
Type(a)   == a[2]
Versions  == Artifacts \X Nat

Statuses == {"candidate", "selected", "validated", "published", "superseded", "revoked"}
Commands == {"trip.plan", "trip.replan", "trip.ask"}

ASSUME NoneAssumption == None \notin Versions \cup Statuses \cup Commands

VARIABLES
    trip,          \* TripView.status
    current,       \* current_artifact_id and _version, or None
    latest,        \* the latest version of each artifact; 0: does not exist
    status,        \* the status of every version
    command,       \* the command of every created Run, or None
    base,          \* its pinned base_artifact_id and _version, or None
    running,       \* the Runs whose execution may still write
    overwrote      \* the replans that replaced a plan other than their base

vars == <<trip, current, latest, status, command, base, running, overwrote>>

-----------------------------------------------------------------------------
Init ==
    /\ trip = "active" /\ current = None
    /\ latest = [a \in Artifacts |-> 0]
    /\ status = [v \in Artifacts \X (1..MaxVersion) |-> None]
    /\ command = [r \in Runs |-> None] /\ base = [r \in Runs |-> None]
    /\ running = {} /\ overwrote = {}

\* The Trip's pointer designates a published TripSnapshot.
PlannedTrip == current # None /\ Type(current[1]) = "snapshot" /\ status[current] = "published"

\* create_run: only on an active Trip; a first plan only where none is published;
\* a replan only on the published snapshot the request has pinned.
CreateRun(r) ==
    /\ command[r] = None /\ trip = "active"
    /\ \E c \in Commands :
        /\ c = "trip.plan" => ~PlannedTrip
        /\ c = "trip.replan" => PlannedTrip
        /\ command' = [command EXCEPT ![r] = c]
        /\ base' = [base EXCEPT ![r] = IF c = "trip.replan" THEN current ELSE None]
    /\ running' = running \cup {r}
    /\ UNCHANGED <<trip, current, latest, status, overwrote>>

\* The artifact a Run of that command results in.
ResultOf(r) == <<r, IF command[r] = "trip.ask" THEN "answer" ELSE "snapshot">>

\* create_artifact: version 1 of an artifact that is not there yet.
CreateArtifact(a, s) ==
    /\ latest[a] = 0
    /\ latest' = [latest EXCEPT ![a] = 1]
    /\ status' = [status EXCEPT ![<<a, 1>>] = s]

\* A supporting artifact: validated, or a candidate when the plan is blocked.
SaveReport(r) ==
    /\ r \in running
    /\ \E s \in {"validated", "candidate"} : CreateArtifact(<<r, "report">>, s)
    /\ UNCHANGED <<trip, current, command, base, running, overwrote>>

\* The result is saved after the supporting artifacts, as a candidate.
SaveResult(r) ==
    /\ r \in running /\ latest[<<r, "report">>] >= 1
    /\ CreateArtifact(ResultOf(r), "candidate")
    /\ UNCHANGED <<trip, current, command, base, running, overwrote>>

\* Mutant: publication forgets the version the pointer designated.
PublishWithoutSuperseding(r) ==
    LET v == <<ResultOf(r), 1>>
        moves == Type(v[1]) = "snapshot"
    IN  /\ r \in running /\ latest[v[1]] >= 1
        /\ status' = [status EXCEPT ![v] = "published"]
        /\ current' = IF moves THEN v ELSE current
        /\ running' = running \ {r}
        /\ UNCHANGED <<trip, latest, command, base, overwrote>>

\* Mutant: an answer takes the pointer as a snapshot does.
PublishAnswerAsPlan(r) ==
    LET v == <<ResultOf(r), 1>>
        ousted == IF current # None /\ current # v /\ status[current] = "published"
                  THEN {current} ELSE {}
    IN  /\ r \in running /\ latest[v[1]] >= 1
        /\ status' = [u \in DOMAIN status |->
                        IF u = v THEN "published"
                        ELSE IF u \in ousted THEN "superseded" ELSE status[u]]
        /\ current' = v
        /\ running' = running \ {r}
        /\ UNCHANGED <<trip, latest, command, base, overwrote>>

\* mutate_run with result_artifact.  The result is published whatever its status;
\* a snapshot supersedes the version the pointer designates and takes its place.
\* The pinned base is not compared with the pointer.
PublishResult(r) ==
    LET v == <<ResultOf(r), 1>>
        moves == Type(v[1]) = "snapshot"
        ousted == IF moves /\ current # None /\ current # v /\ status[current] = "published"
                  THEN {current} ELSE {}
    IN  /\ r \in running /\ latest[v[1]] >= 1
        /\ status' = [u \in DOMAIN status |->
                        IF u = v THEN "published"
                        ELSE IF u \in ousted THEN "superseded" ELSE status[u]]
        /\ current' = IF moves THEN v ELSE current
        /\ overwrote' = IF command[r] = "trip.replan" /\ current \notin {base[r], None}
                        THEN overwrote \cup {r} ELSE overwrote
        /\ running' = running \ {r}
        /\ UNCHANGED <<trip, latest, command, base>>

\* The Run ends without publishing: failed, blocked, or canceled.
EndRun(r) ==
    /\ r \in running
    /\ running' = running \ {r}
    /\ UNCHANGED <<trip, current, latest, status, command, base, overwrote>>

-----------------------------------------------------------------------------
\* Mutant: a superseded version may be published again.
RequiredToRepublish(c) == CASE c = "select" -> "candidate"
                            [] c = "publish" -> "superseded"
                            [] c = "revoke" -> "published"

\* command_artifact: artifact.select, artifact.publish and artifact.revoke, on the
\* latest version only.  A repeated Idempotency-Key is answered from the outbox
\* journal and changes nothing, so only first applications appear here.
Required(c) == CASE c = "select" -> "candidate"
                 [] c = "publish" -> "validated"
                 [] c = "revoke" -> "published"
Target(c)   == CASE c = "select" -> "selected"
                 [] c = "publish" -> "published"
                 [] c = "revoke" -> "revoked"

\* The statuses after command c on version v: publishing supersedes every other
\* published version of the Trip, of whatever artifact.
StatusAfter(c, v) ==
    [u \in DOMAIN status |->
        IF u = v THEN Target(c)
        ELSE IF c = "publish" /\ status[u] = "published" THEN "superseded"
        ELSE status[u]]

\* Mutant: revocation leaves the pointer where it was.
CommandKeepingPointer(a, c) ==
    LET v == <<a, latest[a]>> IN
    /\ latest[a] >= 1 /\ status[v] = Required(c)
    /\ status' = StatusAfter(c, v)
    /\ current' = IF c = "publish" THEN v ELSE current
    /\ UNCHANGED <<trip, latest, command, base, running, overwrote>>

CommandArtifact(a, c) ==
    LET v == <<a, latest[a]>> IN
    /\ latest[a] >= 1 /\ status[v] = Required(c)
    /\ status' = StatusAfter(c, v)
    /\ current' = IF c = "publish" THEN v
                  ELSE IF c = "revoke" /\ current = v THEN None ELSE current
    /\ UNCHANGED <<trip, latest, command, base, running, overwrote>>

\* Mutant: the patch overwrites the version it is based on.
PatchInPlace(a) ==
    /\ latest[a] >= 1 /\ latest[a] < MaxVersion
    /\ latest' = [latest EXCEPT ![a] = @ + 1]
    /\ status' = [status EXCEPT ![<<a, latest[a]>>] = "candidate"]
    /\ UNCHANGED <<trip, current, command, base, running, overwrote>>

\* patch_artifact: a new candidate version; older versions keep their status.
PatchArtifact(a) ==
    /\ latest[a] >= 1 /\ latest[a] < MaxVersion
    /\ latest' = [latest EXCEPT ![a] = @ + 1]
    /\ status' = [status EXCEPT ![<<a, latest[a] + 1>>] = "candidate"]
    /\ UNCHANGED <<trip, current, command, base, running, overwrote>>

\* set_trip_status: archive and restore.
SetTripStatus ==
    /\ trip' \in {"active", "archived"} \ {trip}
    /\ UNCHANGED <<current, latest, status, command, base, running, overwrote>>

-----------------------------------------------------------------------------
Next ==
    \/ \E r \in Runs :
        CreateRun(r) \/ SaveReport(r) \/ SaveResult(r) \/ PublishResult(r) \/ EndRun(r)
    \/ \E a \in Artifacts, c \in {"select", "publish", "revoke"} :
        CommandArtifact(a, c)
    \/ \E a \in Artifacts : PatchArtifact(a)
    \/ SetTripStatus

Spec == Init /\ [][Next]_vars

-----------------------------------------------------------------------------
(* Properties. *)

\* Columns have their types; versions up to the latest exist, no others.
TypeOK ==
    /\ trip \in {"active", "archived"}
    /\ current \in (Artifacts \X (1..MaxVersion)) \cup {None}
    /\ latest \in [Artifacts -> 0..MaxVersion]
    /\ status \in [Artifacts \X (1..MaxVersion) -> Statuses \cup {None}]
    /\ \A a \in Artifacts, n \in 1..MaxVersion : status[<<a, n>>] = None <=> n > latest[a]
    /\ command \in [Runs -> Commands \cup {None}]
    /\ base \in [Runs -> (Artifacts \X (1..MaxVersion)) \cup {None}]
    /\ running \in SUBSET Runs /\ overwrote \in SUBSET Runs

\* The Trip's pointer always designates a version that is published right now:
\* publication, supersession and revocation move status and pointer together.
PointerIsPublished == current # None => status[current] = "published"

\* A Trip shows one official plan: a published version that is not an answer to a
\* question is the one the pointer designates.
OnePublishedPlan ==
    \A v \in DOMAIN status :
        status[v] = "published" /\ Type(v[1]) # "answer" => current = v

KeepsHistory ==
    \A v \in DOMAIN status :
        /\ status[v] \in {"superseded", "revoked"} => status'[v] = status[v]
        /\ status[v] = "published" => status'[v] \in {"published", "superseded", "revoked"}

\* A version that was superseded or revoked never comes back, and a published one
\* is never demoted to a draft: history is not rewritten.
HistoryIsKept == [][KeepsHistory]_vars

MovesWithPublication ==
    current' # current =>
        /\ current' # None =>
             /\ status[current'] # "published" /\ status'[current'] = "published"
             /\ Type(current'[1]) # "answer"
        /\ current # None =>
             status'[current] = (IF current' = None THEN "revoked" ELSE "superseded")

\* The pointer moves only together with the statuses it stands for: to a version
\* published by the same step, never an answer, or to nothing when the version it
\* designated is revoked; the version it leaves is retired by that step.
PointerFollowsPublication == [][MovesWithPublication]_vars

\* What the RFC says of replanning: no replan is published over a plan other than
\* the one it was computed from.
NoStaleReplan == overwrote = {}

-----------------------------------------------------------------------------
(* The inductive invariant behind the first five.  Only reports are ever        *)
(* validated, so a user never publishes a result ahead of its Run; a Run that    *)
(* may still publish has an unpublished result; a Run yet to be created has no   *)
(* artifacts.                                                                    *)
ValidatedAreReports ==
    \A v \in DOMAIN status : status[v] = "validated" => Type(v[1]) = "report"
ResultsAreDrafts ==
    \A r \in running :
        /\ command[r] # None
        /\ status[<<ResultOf(r), 1>>] \in {None, "candidate", "selected"}
NothingBeforeCreation ==
    \A r \in Runs : command[r] = None => \A t \in Types : latest[<<r, t>>] = 0

IndInv ==
    /\ TypeOK /\ PointerIsPublished /\ OnePublishedPlan
    /\ ValidatedAreReports /\ ResultsAreDrafts /\ NothingBeforeCreation
=============================================================================
