\* The executor fails while its lease has silently expired.
SPECIFICATION Spec
CONSTANTS
    Workers = {w1, w2}
    Callers = {}
    NoWorker = NoWorker
    NoArtifact = NoArtifact
    NItems = 2
    StableItems = {2}
    NProgress = 1
    Faults = {"stall", "error"}
    MaxFaults = 2

\* A Run that has ended and a drained queue leave nothing to do.
CHECK_DEADLOCK FALSE
INVARIANTS
    RunHasDispatch
