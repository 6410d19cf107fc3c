CONSTANTS
    p1 = p1
    p2 = p2
    None = none
    WeekDays = 2
    Proc = {p1, p2}
    Option <- MCDailyAndPolicy
    Cycles = 2
    VerifyEvery = 2
    MaxDay = 1
    FaultsAllowed = TRUE
SPECIFICATION Spec
INVARIANTS
    MonitorInv
    SuccessMeansClean
    CycleErrorIsFirst
CHECK_DEADLOCK FALSE
