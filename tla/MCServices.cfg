\* Each service by itself.
SPECIFICATION MCSpec
CONSTANTS
    Services = {"share", "knowledge", "agents", "web", "import", "locks"}
    None = None
    \* One Trip with two plans; two concurrent creations with one key or two.
    Shares = {"s1", "s2"}
    Creators = {"c1", "c2"}
    CreateKeys = {"k1", "k2"}
    ChangeKeys = {"k1"}
    MaxVersion = 3
    MaxPlans = 2
    MaxAttempts = 2
    NoPlan = 0
    \* Two operators with one bundle, one with another that has a document in common with it.
    Operators = {"o1", "o2", "o3"}
    Bundle <- MCBundle
    BundleId <- MCBundleId
    ScopeOf <- MCScopeOf
    Suspicious = {"blog"}
    Tenants = {"t1"}
    Documents <- MCDocuments
    CommandKeys = {"k1", "k2"}
    MaxFailures = 1
    \* Three places, one closed on day 2, one dear, two with a common part of their names.
    Requests <- MCRequests
    Patches <- MCPatches
    Matches <- MCMatches
    Spans <- MCSpans
    City = "city"
    Catalog <- MCCatalog
    ClosedOn <- MCClosedOn
    Duration <- MCDuration
    Cost <- MCCost
    LivePlaces <- MCLivePlaces
    Routes <- MCRoutes
    Worlds <- MCWorlds
    Questions <- MCQuestions
    Statement <- MCStatement
    MaxReplans = 2
    \* Two tabs of one browser and one of another.
    Tabs = {"a1", "a2", "b1"}
    BrowserOf <- MCBrowserOf
    MaxSignIns = 2
    MaxTokens = 3
    MaxFaults = 1
    MaxConsumed = 3
    NoCookie = 0
    \* Three records in batches of two, two sources, two inventories, one crash and one edit.
    Records = 3
    Copies = {"file", "sql"}
    Contents = {"c1", "c2"}
    Owners = {"u1", "u2"}
    BatchSize = 2
    MaxInventories = 2
    MaxChanges = 2
    MaxEdits = 1
    MaxCrashes = 1
    \* Any two transactions on a Trip with two Runs and two plans.
    Txns = {"x1", "x2"}
    Runs = {"r1", "r2"}
    Artifacts = {"a1", "a2"}
    Keys = {"k1"}
\* A service that has reached its bounds has nothing left to do.
CHECK_DEADLOCK FALSE
INVARIANTS
    PlansAreSound
    SessionsAreSafe
    TransactionsAreSafe
PROPERTIES
    SharesAreSafe
    CorpusIsSafe
    ImportIsFaithful
