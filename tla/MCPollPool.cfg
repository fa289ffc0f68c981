\* Two plugins and the maintenance job share two workers; short retention.
SPECIFICATION FairSpec
CONSTANTS
    Plugins = {youtube, tiktok}
    Interval <- EveryUnit
    Cap = 2
    RetryAfters = {}
    MaxJitter = 0
    StartDelays = {0}
    Retention = 1
    MaintFirst = 1
    MaintEvery = 2
    Workers = 2
    MaxPoll = 1
    MaxTime = 2
    MaxRuns = 2
    MaxCrashes = 0
    MaxStops = 0
    MaxStorageErrors = 1
INVARIANTS
    TypeOK
    InFlightRowKept
PROPERTIES
    QueuedPollStarts
