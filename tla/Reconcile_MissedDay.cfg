SPECIFICATION UndisturbedSpec
CONSTANTS
    brief = brief
    triage = triage
    Routines = {brief}
    Reconcilers = {"timer"}
    Window <- MidDay
    MaxAttempts = 2
    LastHour = 2
    LastDay = 0
    MaxJobs = 3
    MaxTimers = 0
    MaxPageOps = 1
    MaxErrors = 1
    MaxLost = 1
    MaxCrashes = 1
    MaxHolds = 0
PROPERTIES
    MissedDayIsAccounted
CHECK_DEADLOCK FALSE
