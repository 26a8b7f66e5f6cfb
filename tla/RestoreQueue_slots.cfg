CONSTANTS
    Jobs = {j1, j2}
    Workers = {w1}
    Requests <- PoweredOff
    TaskTimeout = FALSE
    Limits = {1, 2}
    MaxChanges = 1
    MaxStops = 1
    MaxDrains = 0
    MaxCrashes = 1
SPECIFICATION Spec
SYMMETRY JobSymmetry
INVARIANTS
    SlotsCoverHolders
    
    PauseStopsClaims
PROPERTIES
    PoolImplemented
    CompletedIsFinal
