SPECIFICATION Spec
CONSTANTS
    Runs = {r1}
    Scheduled = {r1}
    Groups = 2
    Rows <- OneEach
    Attempts = 2
    Workers = {w1}
    Operators = {o1}
    Halt = TRUE
    AutoTeardown = TRUE
    Stops = FALSE
    Failing = {}
    MaxOutages = 0
    MaxCancels = 1
    MaxTeardowns = 0
    MaxCrashes = 0
PROPERTIES CancelStops
CHECK_DEADLOCK FALSE
