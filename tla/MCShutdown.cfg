\* Shutdown while a poll is in flight.
SPECIFICATION Spec
CONSTANTS
    Plugins = {youtube}
    Interval <- EveryUnit
    Cap = 2
    RetryAfters = {}
    MaxJitter = 0
    StartDelays = {0}
    Retention = 1
    MaintFirst = 1
    MaintEvery = 2
    Workers = 1
    MaxPoll = 1
    MaxTime = 2
    MaxRuns = 2
    MaxCrashes = 0
    MaxStops = 1
    MaxStorageErrors = 0
INVARIANTS
    ShutdownIsNotAFailure
