\* One routine with its timer, one lost wake-up or SQL error, and a SIGTERM.
SPECIFICATION TimersSpec
CONSTANTS
    brief = brief
    ask = ask
    CliJobs = {brief}
    PageJobs = {}
    MustRun = {brief}
    TimersRecur = TRUE
    MaxRetries = 0
    MaxFaults = 1
    MaxCrashes = 0
    MaxStops = 1
PROPERTIES
    DueJobsAreTaken
    ExitsWhenIdle
    StopIsHonoured
CHECK_DEADLOCK FALSE
