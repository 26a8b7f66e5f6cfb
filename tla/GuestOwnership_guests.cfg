CONSTANTS
    Vmids = {1, 2}
    b1 = b1
    b2 = b2
    Batches = {b1, b2}
    Requests <- TwoBatches
    Installed <- Mixed
    VmidStart = 1
    LowestVmid = 1
    ScanWindow = 1
    ScanPerGuest = 0
    MaxMishaps = 1
SPECIFICATION Spec
INVARIANTS
    TypeOK
    CompletedIsMarked
PROPERTIES
    FoundIsKept
    PlainDrReplacesNothing
    
CHECK_DEADLOCK FALSE
