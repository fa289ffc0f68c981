\* One plugin with an exact key and two pattern keys, and two starts.
SPECIFICATION Spec
CONSTANTS
    downloads = downloads
    modelA = modelA
    modelB = modelB
    makerworld = makerworld
    Plugins = {makerworld}
    Keys = {downloads, modelA, modelB}
    Owner <- OwnerOf
    Patterns = {modelA, modelB}
    Values = {1, 2}
    NoValue = NoValue
    Heartbeat = 2
    PatternCap = 1
    MaxTime = 2
    MaxRestarts = 2
    MaxPolls = 3
INVARIANTS
    TypeOK
    CatalogueMatchesSamples
    FlatLineHasHeartbeat
    HistoryShowsTheCurve
PROPERTIES
    DeactivationJustified
    ImplementsCurve
