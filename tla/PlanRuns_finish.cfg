SPECIFICATION LiveSpec
CONSTANTS
    Runs = {r1, r2}
    Scheduled = {r1, r2}
    Groups = 2
    Rows <- OneEach
    Attempts = 2
    Workers = {w1}
    Operators = {}
    Halt = TRUE
    AutoTeardown = TRUE
    Stops = FALSE
    Failing = {"start", "advance", "teardown", "listing"}
    MaxOutages = 1
    MaxCancels = 0
    MaxTeardowns = 0
    MaxCrashes = 0
PROPERTIES RunsFinish
CHECK_DEADLOCK FALSE
