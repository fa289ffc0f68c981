\* One plugin: two crashes, a stop and a failing storage call at any step.
SPECIFICATION FairSpec
CONSTANTS
    Plugins = {youtube}
    Interval <- EveryUnit
    Cap = 2
    RetryAfters = {}
    MaxJitter = 0
    StartDelays = {0}
    Retention = 1
    MaintFirst = 1
    MaintEvery = 2
    Workers = 1
    MaxPoll = 1
    MaxTime = 2
    MaxRuns = 3
    MaxCrashes = 2
    MaxStops = 1
    MaxStorageErrors = 1
PROPERTIES
    EveryRunCloses
