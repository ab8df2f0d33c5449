\* A Task that changes between the two reads of a poll.
SPECIFICATION Spec
CONSTANTS
    Services = {"stream"}
    None = None
    \* Three lookups; the provider is called by one caller at a time.
    Callers = {"c1", "c2"}
    Lookups <- MCLookups
    Threshold = 1
    Permits = 1
    MaxRetries = 1
    MaxCache = 1
    MaxCalls = 2
    MaxFaults = 1
    \* One question that is asked twice, and Runs of three events.
    Questions = {"q1"}
    Plans = {"q1"}
    Titles = {"t1"}
    Versions = {1}
    MaxRuns = 2
    MaxEvents = 3
    MaxRequests = 2
    \* A Run that is executed twice.
    Modes = {"brief", "request", "ask"}
    MaxAttempts = 2
    \* A Run with and without a question, and a repeated answer.
    Interactive = {TRUE, FALSE}
    MaxTasks = 3
    \* Two writers, a client that may come again, and a Task that may ask once.
    Writers = {"w1", "w2"}
    Subscribers = {"s1"}
    MaxVersion = 4
CHECK_DEADLOCK FALSE
INVARIANT StreamsAreNotBroken
