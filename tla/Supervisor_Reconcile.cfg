\* One lost poke, and no timer left but reconcile's.
SPECIFICATION FairSpec
CONSTANTS
    brief = brief
    ask = ask
    CliJobs = {brief}
    PageJobs = {}
    MustRun = {brief}
    TimersRecur = FALSE
    MaxRetries = 0
    MaxFaults = 1
    MaxCrashes = 0
    MaxStops = 0
PROPERTIES
    ReconcileWakesForWaiting
CHECK_DEADLOCK FALSE
