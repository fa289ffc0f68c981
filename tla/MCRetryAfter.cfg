\* A restart during the wait that a slow 429 asked for.
SPECIFICATION HistorySpec
CONSTANTS
    Plugins = {youtube}
    Interval <- EveryUnit
    Cap = 4
    RetryAfters = {2}
    MaxJitter = 0
    StartDelays = {0}
    Retention = 9
    MaintFirst = 9
    MaintEvery = 2
    Workers = 1
    MaxPoll = 1
    MaxTime = 5
    MaxRuns = 2
    MaxCrashes = 1
    MaxStops = 0
    MaxStorageErrors = 0
PROPERTIES
    RetryAfterNotCutShort
