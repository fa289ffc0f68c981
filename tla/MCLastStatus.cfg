\* An interrupted run is newer than the last real one when the rows expire.
SPECIFICATION Spec
CONSTANTS
    Plugins = {youtube}
    Interval <- EveryUnit
    Cap = 1
    RetryAfters = {}
    MaxJitter = 0
    StartDelays = {0}
    Retention = 1
    MaintFirst = 1
    MaintEvery = 2
    Workers = 1
    MaxPoll = 1
    MaxTime = 4
    MaxRuns = 2
    MaxCrashes = 1
    MaxStops = 0
    MaxStorageErrors = 0
PROPERTIES
    LastStatusKept
