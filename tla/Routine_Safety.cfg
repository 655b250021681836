SPECIFICATION RoutineSpec
CONSTANTS
    brief = brief
    triage = triage
    Routines = {brief, triage}
    Reconcilers = {"timer", "page"}
    Window <- OpensAtMidnight
    MaxAttempts = 1
    LastHour = 1
    LastDay = 1
    MaxJobs = 3
    MaxTimers = 1
    MaxPageOps = 1
    MaxErrors = 1
    MaxLost = 0
    MaxCrashes = 1
    MaxHolds = 1
    Runners = {"serve", "hand"}
    Kinds <- RoutineKinds
    Inputs = {1, 2}
    MaxChanges = 2
    RunsOfDay = 3
    RunFaults = 1
    Costed = {"learn", "brief", "ask"}
    Learner = "learn"
    Ask = "ask"
    Scripts = {}
    AgentOf <- Agents
    Block <- Caps
    MaxCost = 1
    DayLength = 1
    LedgerTime = 1
    LedgerRuns = 3
    Actors = {"run", "hand"}
    Keys = {"", "fact", "rule"}
    Unkeyed = ""
    KindOf <- NoteKinds
    SaidTTL = 1
    Unused = 1
    MemoryTime = 2
    MaxUses = 3
    MemoryDeaths = 1
    Loggers = {"v", "w"}
    Sessions = {"a", "b"}
    Kept = 1
    MaxDay = 1
    MaxLines = 3
    MaxEdits = 1
    LogDeaths = 1
INVARIANTS
    PartsTypeOK
    OneLateJobPerDay
    InsertedIsPoked
    OvershootIsOneRun
    RunsAreLearnedFrom
    PurgeTakesTheExpired
    BookmarkIsShown
PROPERTIES
    PendingIsHeld
    SkippedIsShown
CONSTRAINTS
    OneOfThree
    EditOrDeath
CHECK_DEADLOCK FALSE
