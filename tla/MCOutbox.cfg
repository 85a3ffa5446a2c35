CONSTANTS
    Events = {e1, e2}
    Dispatchers = {d1, d2}
    None = None
    Lease = 1
    InitialRetryDelay = 1
    MaxRetryDelay = 4
    DedupWindow = 3
    MaxTransaction = 1
    MaxClock = 3
    MaxFaults = 1
SPECIFICATION FairSpec
INVARIANTS
    LeaseIsExclusive
    PublishedWasSent
PROPERTIES
    EventsLeave
