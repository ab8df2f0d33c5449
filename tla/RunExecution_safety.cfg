\* Every kind of fault, one at a time, against two workers and a canceling user.
SPECIFICATION Spec
CONSTANTS
    Workers = {w1, w2}
    Callers = {c1}
    NoWorker = NoWorker
    NoArtifact = NoArtifact
    NItems = 3
    StableItems = {2}
    NProgress = 1
    Faults = {"crash", "shutdown", "heartbeat", "stall", "duplicate", "error", "propagation"}
    MaxFaults = 1
SYMMETRY WorkerSymmetry
\* A Run that has ended and a drained queue leave nothing to do.
CHECK_DEADLOCK FALSE
INVARIANTS
    TypeOK
    DispatchNeverDeadLettered
    LeaseHolderNeverConflicts
    InterruptedOnlyByCancel
    PublishedSetIsWhole
    RunHasDispatch
PROPERTIES
    CanceledRunWritesNothing
    LateAttemptsAreFenced
    ImplementsLifecycle
