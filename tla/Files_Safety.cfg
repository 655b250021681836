SPECIFICATION FilesSpec
CONSTANTS
    Families <- TwoFamilies
    Adders = {"a", "b", "c"}
    Droppers = {"d", "e"}
    TextOf <- Texts
    Msgs = {"m1", "m2"}
    Account <- Accounts
    Stagers = {"s", "t"}
    Batch <- Batches
    Appliers = {"byHand", "gated"}
    Gated = {"gated"}
    Chunk = 1
    ReaderRuns = 1
    GmailFaults = 1
    Reminders = {"r1", "r2"}
    StampedLines = {"k", "l", "m"}
    KeyOf <- TwoSaySo
    DueAt <- OnceAndLater
    Retention = 0
    Ticks = {"timer", "hand"}
    Resets = {}
    Once = {"hand"}
    RemindTime = 1
    RemindFaults = 1
    Walk <- ThreeNotes
    Writers = {"v", "w"}
    Doners = {"done"}
    Sweepers = {"sweep"}
    Summaries = {"summary"}
    Additions = {"remind"}
    MaxId = 2
    MaxCopies = 1
    Jots = {"j", "k"}
    Workers = {"v", "w"}
    LineEdits = 1
    Sources <- Charts
    Documents = {"x"}
    TTL = 1
    LastDay = 1
    ArtifactDeaths = 1
    Procs = {"p", "q"}
    Dirs = {"notes", "work"}
    Entries = {"skill"}
    Orders <- TwoOrders
    PluginChanges = 1
    Manifests <- FiveManifests
    Tables <- FourTables
    Hosts <- ThreeHosts
    Others = {"command"}
    Authored = {"feeds", "gather.star", "gather.sh"}
    Pieces = {"jq", "account"}
    Settings = {"account"}
    UserFiles = {"feeds"}
    Outcomes = {"error", "space", "words", "full"}
    BundleEdits = 1
INVARIANTS
    NothingIsLost
    DoneTicksEveryCopy
    MarkedWasDone
    ListedIsServed
    UnionIsCurrent
    TimerMeansReady
    AuthorsFilesStand
PROPERTIES
    NothingIsDoneTwice
CONSTRAINTS
    DoneOrRewrites
    InOrder
    OneBesideAFault
    TimerOrFiles
CHECK_DEADLOCK FALSE
