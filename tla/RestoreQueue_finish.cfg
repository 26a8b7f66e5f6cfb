CONSTANTS
    Jobs = {j1}
    Workers = {w1}
    Requests <- PoweredOn
    TaskTimeout = TRUE
    Limits = {1}
    MaxChanges = 1
    MaxStops = 2
    MaxDrains = 1
    MaxCrashes = 0
SPECIFICATION FairSpec
PROPERTIES
    JobsFinish
    StopIsAnswered
    DrainCancelsPending
