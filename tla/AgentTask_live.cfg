\* Executors that hang, callers that wait or not, a cancellation, one question.
SPECIFICATION FairSpec
CONSTANTS
    Processes = {p1, p2}
    Cancelers = {p1}
    Modes = {"wait", "stream"}
    Nobody = Nobody
    MaxQuestions = 1
    MaxQueued = 1
    Faults = {}
    MaxFaults = 0
\* A task that has ended leaves nothing to do.
CHECK_DEADLOCK FALSE
PROPERTIES
    CanceledExecutionStops
    WaitersReturn
    LaunchedTaskIsExecuted
