CONSTANTS
    Jobs = {j1}
    Workers = {w1, w2}
    Requests <- EachShape
    TaskTimeout = TRUE
    Limits = {1}
    MaxChanges = 0
    MaxStops = 1
    MaxDrains = 0
    MaxCrashes = 1
SPECIFICATION Spec
SYMMETRY Symmetry
INVARIANTS
    TypeOK
    
    BootedOnlyIsolated
    StopPreventsRestore
    StopPreventsCompletion
