\* The loop with a routine and an ask, and any two of a retry, an error and a crash.
SPECIFICATION ServeSpec
CONSTANTS
    brief = brief
    ask = ask
    CliJobs = {brief}
    PageJobs = {ask}
    MustRun = {brief}
    TimersRecur = TRUE
    MaxRetries = 1
    MaxFaults = 1
    MaxCrashes = 1
    MaxStops = 0
    \* AgentSession: a resumed routine and a chat of one agent
    Workers = {"w"}
    Chats = {"c"}
    MaxIdle = 1
    MaxId = 3
    SessionFaults = 1
    \* ChatFeed: a channel, a replay and a history that overflow
    MaxTurn = 3
    Plumbing = {1}
    Buffer = 1
    Replay = 2
    PageTurns = 1
    MaxLoads = 2
    MaxEvents = 1
    \* ConfigHolder
    Texts <- ConfigTexts
    Blank <- EmptyFile
    MaxClock = 1
    MaxEdits = 2
    MaxHups = 1
    \* Decisions
    Askers = {"a", "b"}
    Requests <- Asked
    SystemAnswers <- Distributions
    ChatAnswers <- Texted
    Failures = {"unreachable", "4xx"}
    DailyMax = 1
    MaxAsks = 3
    MaxDay = 1
    \* Gather
    Manifests <- Declarations
    Calls <- ScriptCalls
    Hosts = {"home", "elsewhere"}
    Tools = {"agent-browser"}
    Old = "old"
    MaxHops = 2
    MaxCalls = 3
    \* EngineCheck: two runs, both windows an hour long
    RecentWindow = 1
    StaleRunning = 1
    EngineTime = 2
    EngineRuns = 2
    \* WebSessions: two logins at a time where one may fail, a change of the password
    Attempts = {"a", "b"}
    SessionTTL = 1
    FailWindow = 1
    MaxFailures = 1
    LoginTime = 1
    MaxHash = 2
    MaxKeys = 2
    MaxCookies = 1
INVARIANTS
    NoneIsMissed
    HistoryChains
    QuietPageIsComplete
    ConfigIsWhole
    DecisionsKeepTheRules
    EffectsAreDeclared
    DryRunIsListed
    EngineIsNotAtIt
    LoginIsGuarded
CONSTRAINT TwoOfThree
CHECK_DEADLOCK FALSE
