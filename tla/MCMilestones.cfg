\* One key with two thresholds in reach and one with a single threshold, a rule
\* or none for each; a notification ages out after one unit of time; one crash,
\* lost answer or failed write at any step.
SPECIFICATION FairSpec
CONSTANTS
    Keys = {"stars", "forks"}
    Values <- ReportedValues
    Rules <- ConfigRules
    MaxAge = 1
    MaxTime = 1
    MaxFaults = 1
INVARIANTS
    TypeOK
    MarkerCoversSlot
    QueuedIsPending
    RepeatsNeedFaults
PROPERTIES
    FiresOnce
    EachSlotTriedOnce
    SlotIsFreed
