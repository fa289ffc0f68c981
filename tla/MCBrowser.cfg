SPECIFICATION Spec
CONSTANTS
    Catalogue <- CatalogueDef
    PluginOf <- PluginOfDef
    Patterned = {"b"}
    Cumulative = {"a"}
    Configured <- ConfiguredDef
    Samples <- SamplesDef
    RetiredAt <- RetiredAtDef
    Polls <- PollsDef
    Windows <- WindowsDef
    RecentLimit = 2
    RangeButtons = {"long"}
    MoreRanges = {"short"}
    StaleAfter = 0
    Span <- SpanDef
    Everything = Everything
    BucketOf <- BucketOfDef
    MaxSpark = 2
    DefaultPinned = 1
    Nothing = Nothing
    DefaultRange = "long"
    ExportTime = 3
    StartTime = 3
    Settings <- SettingsDef
    MaxClock = 4
    MaxPending = 2
    MaxActs = 2
    MoversShown = 1
    MaxOverviews = 2
CHECK_DEADLOCK FALSE
INVARIANTS
    TypeOK
    UserChoicesKept
    TailDrawn
    FiguresAgree
    DemoServes
PROPERTIES
    ChartFollowsSelection
    FocusKept
    Settles
