\* One worker that is restarted, a user who cancels, two faults; a lease never stalls.
SPECIFICATION FairSpec
CONSTANTS
    Workers = {w1}
    Callers = {c1}
    NoWorker = NoWorker
    NoArtifact = NoArtifact
    NItems = 2
    StableItems = {2}
    NProgress = 0
    Faults = {"crash", "shutdown", "heartbeat", "duplicate", "error", "propagation"}
    MaxFaults = 2
\* A Run that has ended and a drained queue leave nothing to do.
CHECK_DEADLOCK FALSE
PROPERTIES
    RunSettles
    EntriesAreDrained
    CancelFinishes
