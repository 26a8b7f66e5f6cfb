SPECIFICATION Spec
CONSTANTS
    Runs = {r1}
    Scheduled = {r1}
    Groups = 3
    Rows <- WithEmptyGroup
    Attempts = 2
    Workers = {w1}
    Operators = {o1}
    Halt = TRUE
    AutoTeardown = TRUE
    Stops = TRUE
    Failing = {"advance", "teardown"}
    MaxOutages = 2
    MaxCancels = 0
    MaxTeardowns = 2
    MaxCrashes = 0
INVARIANTS TypeOK  OnceOnly 
  
CHECK_DEADLOCK FALSE
