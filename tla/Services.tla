------------------------------ MODULE Services ------------------------------
(***************************************************************************)
(* The components that share no state with the others and of which only     *)
(* safety is asked: shares, the knowledge base, the agents' algorithms, the *)
(* web tier's sessions, the import of historical trips, and the store's     *)
(* transactions on a Trip.  A behaviour is one of a single service, the one *)
(* named by `service`; the variables of the others keep their initial       *)
(* values.  So what holds of every behaviour holds of each component.       *)
(***************************************************************************)
EXTENDS Integers, Sequences, FiniteSets

CONSTANTS
    Services,       \* the services that are looked at
    None,           \* the absent value of every component

    Shares, Creators, CreateKeys, ChangeKeys, MaxVersion, MaxPlans, MaxAttempts, NoPlan,
    Operators, Bundle, BundleId, ScopeOf, Suspicious, Tenants, Documents, CommandKeys, MaxFailures,
    Requests, Patches, Matches, Spans, City, Catalog, ClosedOn, Duration, Cost, LivePlaces, Routes, Worlds,
    Questions, Statement, MaxReplans,
    Tabs, BrowserOf, MaxSignIns, MaxTokens, MaxFaults, MaxConsumed, NoCookie,
    Records, Copies, Contents, Owners, BatchSize, MaxInventories, MaxChanges, MaxEdits,
    MaxCrashes,
    Txns, Runs, Artifacts, Keys

VARIABLES
    service,
    pointer, plans, shares, sessions, journal, creating, shown, guessed,
    docs, ingestKeys, commands, applied, ingestion, search, found, failures,
    at, brief, bundle, plan, report, snapshot, wishes, answer,
    signIns, spent, issued, live, stale, consumed, inFlight, asked, exchanges, jar, request,
    faults,
    source, mapping, inventory, target, manifest, progress, job, verdict,
    inventories, changes, edits, crashes,
    role, txns, held, shared

Share     == INSTANCE ShareLinks WITH NoShare <- None
Knowledge == INSTANCE KnowledgeBase WITH Absent <- None, progress <- applied, answer <- found
Agents    == INSTANCE TravelAgents
Web       == INSTANCE WebSession
Import    == INSTANCE Migration WITH Absent <- None, report <- verdict
Locks     == INSTANCE TripLocks

\* What the proofs assume of the constants.
ASSUME ShareConstants == Share!ShareAssumption
ASSUME AgentConstants == Agents!AgentAssumption
ASSUME SessionConstants == Web!SessionAssumption
ASSUME LockConstants == Locks!LockAssumption
ASSUME KnowledgeConstants == Knowledge!KnowledgeAssumption
ASSUME ImportConstants == Import!ImportAssumption

shareVars     == <<pointer, plans, shares, sessions, journal, creating, shown, guessed>>
knowledgeVars == <<docs, ingestKeys, commands, applied, ingestion, search, found, failures>>
agentVars     == <<at, brief, bundle, plan, report, snapshot, wishes, answer>>
webVars       == <<signIns, spent, issued, live, stale, consumed, inFlight, asked, exchanges,
                   jar, request, faults>>
importVars    == <<source, mapping, inventory, target, manifest, progress, job, verdict,
                   inventories, changes, edits, crashes>>
lockVars      == <<role, txns, held, shared>>
vars          == <<service, shareVars, knowledgeVars, agentVars, webVars, importVars, lockVars>>

Init ==
    /\ service \in Services
    /\ Share!Init /\ Knowledge!Init /\ Agents!Init /\ Web!Init /\ Import!Init /\ Locks!Init

Next ==
    /\ UNCHANGED service
    /\ \/ /\ service = "share" /\ Share!Next
          /\ UNCHANGED <<knowledgeVars, agentVars, webVars, importVars, lockVars>>
       \/ /\ service = "knowledge" /\ Knowledge!Next
          /\ UNCHANGED <<shareVars, agentVars, webVars, importVars, lockVars>>
       \/ /\ service = "agents" /\ Agents!Next
          /\ UNCHANGED <<shareVars, knowledgeVars, webVars, importVars, lockVars>>
       \/ /\ service = "web" /\ Web!Next
          /\ UNCHANGED <<shareVars, knowledgeVars, agentVars, importVars, lockVars>>
       \/ /\ service = "import" /\ Import!Next
          /\ UNCHANGED <<shareVars, knowledgeVars, agentVars, webVars, lockVars>>
       \/ /\ service = "locks" /\ Locks!Next
          /\ UNCHANGED <<shareVars, knowledgeVars, agentVars, webVars, importVars>>

Spec == Init /\ [][Next]_vars

-----------------------------------------------------------------------------
(* The components' properties, stated and explained in their modules. *)

\* Shares are made of the current plan and shown to the holder of the current secret.
SharesAreSafe == Share!SharesAreSafe
\* No race or retry of ingestion fails or republishes, and no search serves what was withdrawn.
CorpusIsSafe == Knowledge!CorpusIsSafe
\* Plans are feasible, published plans sound, answers grounded.
PlansAreSound == Agents!PlansAreSound
\* Sessions of browsers stay apart, and tabs do not redeem twice.
SessionsAreSafe == Web!SessionsAreSafe
\* An interrupted import loses nothing and overwrites nothing.
ImportIsFaithful == Import!ImportIsFaithful
\* The store's transactions do not deadlock, miss their update or outlive their right.
TransactionsAreSafe == Locks!TransactionsAreSafe
=============================================================================
