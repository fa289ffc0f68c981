\* One plugin: refusals, crashes, restarts and a failing database; a prune at the end.
SPECIFICATION Spec
CONSTANTS
    Plugins = {youtube}
    Interval <- EveryUnit
    Cap = 4
    RetryAfters = {3}
    MaxJitter = 0
    StartDelays = {0}
    Retention = 4
    MaintFirst = 6
    MaintEvery = 9
    Workers = 1
    MaxPoll = 1
    MaxTime = 6
    MaxRuns = 3
    MaxCrashes = 1
    MaxStops = 1
    MaxStorageErrors = 1
INVARIANTS
    UnfinishedRowsAccounted
    PollingReported
    StreakAgrees
PROPERTIES
    NewestRunKept
    RefusalHonoured
    RestartKeepsHealth
