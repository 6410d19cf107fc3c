CONSTANTS
    p1 = p1
    p2 = p2
    None = none
    WeekDays = 2
    Proc = {p1}
    Option <- MCDailyOnly
    Cycles = 0
    VerifyEvery = 2
    MaxDay = 2
    FaultsAllowed = FALSE
SPECIFICATION FairSpec
PROPERTIES
    ScheduleSettles
CHECK_DEADLOCK FALSE
