SPECIFICATION Spec
CONSTANTS
    Runs = {r1}
    Scheduled = {}
    Groups = 2
    Rows <- OneEach
    Attempts = 1
    Workers = {w1}
    Operators = {o1, o2}
    Halt = TRUE
    AutoTeardown = FALSE
    Stops = FALSE
    Failing = {}
    MaxOutages = 0
    MaxCancels = 1
    MaxTeardowns = 0
    MaxCrashes = 1
INVARIANTS CancelReaches 
PROPERTIES OnlyStaleCopiesRevive
CHECK_DEADLOCK FALSE
SYMMETRY Symmetry
