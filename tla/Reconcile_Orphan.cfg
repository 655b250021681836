SPECIFICATION Spec
CONSTANTS
    brief = brief
    triage = triage
    Routines = {brief}
    Reconcilers = {"timer"}
    Window <- OneOpen
    MaxAttempts = 1
    LastHour = 1
    LastDay = 0
    MaxJobs = 1
    MaxTimers = 0
    MaxPageOps = 0
    MaxErrors = 0
    MaxLost = 0
    MaxCrashes = 1
    MaxHolds = 0
PROPERTIES
    PendingIsLive
CHECK_DEADLOCK FALSE
