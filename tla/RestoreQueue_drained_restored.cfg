CONSTANTS
    Jobs = {j1}
    Workers = {w1}
    Requests <- PoweredOff
    TaskTimeout = FALSE
    Limits = {1}
    MaxChanges = 0
    MaxStops = 0
    MaxDrains = 1
    MaxCrashes = 0
SPECIFICATION Spec
PROPERTY
    DrainedStaysCancelled
