\* Two processes, one of them canceling; crashes, shutdowns, failing heartbeats and claims, lost leases.
SPECIFICATION Spec
CONSTANTS
    Processes = {p1, p2}
    Cancelers = {p1}
    Modes = {"wait"}
    Nobody = Nobody
    MaxQuestions = 1
    MaxQueued = 1
    Faults = {"crash", "shutdown", "heartbeat", "stall", "claim"}
    MaxFaults = 1
\* A task that has ended leaves nothing to do.
CHECK_DEADLOCK FALSE
PROPERTIES
    EndedTaskIsFinal
    ResultIsCurrent
