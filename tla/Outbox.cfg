\* Two dispatchers, batches of two, three rows, two faults of any kind; a stream that is trimmed when duplicates fill it.
SPECIFICATION FairSpec
CONSTANTS
    NRows = 3
    Dispatchers = {d1, d2}
    Nobody = Nobody
    Limit = 2
    MaxLength = 3
    Faults = {"crash", "slow", "refused", "reply_lost"}
    MaxFaults = 2
\* Every row published and consumed leaves nothing to do.
CHECK_DEADLOCK FALSE
INVARIANTS
    PublishedWasSent
    DuplicatesAreExplained
PROPERTIES
    EveryRowIsPublished
