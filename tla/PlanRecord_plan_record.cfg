CONSTANTS
    w = w
    o1 = o1
    m1 = m1
    m2 = m2
    Worker = w
    Operators = {o1}
    Memberships = {m1, m2}
    Plans <- PlanWithSchedule
    CheckEvery = 1
    RunEvery = 1
    MaxDays = 1
    MaxRuns = 2
    MaxCalls = 2
    MaxMishaps = 1
SPECIFICATION FairSpec
INVARIANTS
    TypeOK
    VerifiedIsChecked
PROPERTIES
    VerifiedOnlyByCheck
    OnlyStaleCopiesUndo
    ScheduledOnce
    DueIsChecked
CHECK_DEADLOCK FALSE
